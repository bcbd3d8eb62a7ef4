SPECIFICATION Spec
CONSTANTS
  t1 = t1
  t2 = t2
  Task = {t1, t2}
  Event = {"qa", "other"}
  Run = {r1, r2}
  None = None
  Boot = Boot
  TaskOf <- MCTaskOf
  PayloadOf <- MCPayloadOf
  Checkpoint = TRUE
  MaxCrashes = 1
  Env = {"probe_failure", "operator_moves", "clickup_error", "schema_drift", "anonymous_run", "crash"}
PROPERTY StaleIsWhatWasProbed
CHECK_DEADLOCK FALSE
