SPECIFICATION Spec
CONSTANTS
  t1 = t1
  t2 = t2
  Task = {t1}
  Event = {"build", "unknown", "blocked", "answer", "move"}
  Run = {r1, r2}
  None = None
  Boot = Boot
  TaskOf <- MCTaskOf
  PayloadOf <- MCPayloadOf
  Checkpoint = FALSE
  MaxCrashes = 1
  Env = {"schema_drift", "n8n_rejects", "lost_response", "early_response",
         "anonymous_run", "anonymous_callback", "foreign_workflow", "early_callback",
         "duplicate_callback", "lost_callback", "late_resume", "crash"}
INVARIANT DispatchedOnce
INVARIANT LeaksAreKnown
INVARIANT CancelMissesRenamed
PROPERTY DecisionSettled
PROPERTY RefinesRunLock
CHECK_DEADLOCK FALSE
