SPECIFICATION Spec
CONSTANTS
  t1 = t1
  t2 = t2
  Task = {t1, t2}
  Event = {"qa", "other"}
  Run = {r1, r2}
  None = None
  Boot = Boot
  TaskOf <- MCTaskOf
  PayloadOf <- MCPayloadOf
  Checkpoint = TRUE
  MaxCrashes = 0
  Env = {}
CHECK_DEADLOCK FALSE
INVARIANT RepliesAreOnRecord
