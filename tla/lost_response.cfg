SPECIFICATION Spec
CONSTANTS
  t1 = t1
  t2 = t2
  Task = {t1}
  Event = {"build", "build2"}
  Run = {r1, r2}
  None = None
  Boot = Boot
  TaskOf <- MCTaskOf
  PayloadOf <- MCPayloadOf
  Checkpoint = FALSE
  MaxCrashes = 0
  Env = {"lost_response"}
INVARIANT OneLiveRun
CHECK_DEADLOCK FALSE
