SPECIFICATION Spec
CONSTANTS
  t1 = t1
  t2 = t2
  Task = {t1}
  Event = {"build", "move"}
  Run = {r1, r2}
  None = None
  Boot = Boot
  TaskOf <- MCTaskOf
  PayloadOf <- MCPayloadOf
  Checkpoint = FALSE
  MaxCrashes = 0
  Env = {}
INVARIANT CancelReleases
CHECK_DEADLOCK FALSE
