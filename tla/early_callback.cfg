SPECIFICATION Spec
CONSTANTS
  t1 = t1
  t2 = t2
  Task = {t1}
  Event = {"build"}
  Run = {r1}
  None = None
  Boot = Boot
  TaskOf <- MCTaskOf
  PayloadOf <- MCPayloadOf
  Checkpoint = FALSE
  MaxCrashes = 0
  Env = {"early_callback"}
INVARIANT CompletionReleases
CHECK_DEADLOCK FALSE
