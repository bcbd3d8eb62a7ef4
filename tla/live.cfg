\* No misbehaviour of n8n or ClickUp: what the lock protocol itself gives.
\* A run of the model ends when its requests are used up.
SPECIFICATION FairSpec
CONSTANTS
  t1 = t1
  t2 = t2
  Task = {t1}
  Event = {"build", "qa", "answer"}
  Run = {r1, r2, r3}
  None = None
  Boot = Boot
  TaskOf <- MCTaskOf
  PayloadOf <- MCPayloadOf
  Checkpoint = FALSE
  MaxCrashes = 0
  Env = {"n8n_rejects"}
INVARIANT OneLiveRun
INVARIANT CompletionReleases
INVARIANT RepliesAreOnRecord
CHECK_DEADLOCK FALSE
PROPERTY RequestsAnswered
PROPERTY LocksFreed
