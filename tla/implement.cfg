SPECIFICATION Spec
SYMMETRY MCSymmetry
CONSTANTS
  t1 = t1
  t2 = t2
  w1 = w1
  w2 = w2
  s1 = s1
  None = None
  Task = {t1, t2}
  Order <- TwoTasks
  Parallel = {t1, t2}
  V2 = {}
  Enrolled = {t1, t2}
  Actor = {w1, w2}
  Worker = {w1, w2}
  Shell = {}
  ActorOf <- OwnName
  ToolOf <- Tools
  CliEvent <- NoEvent
  CliVerdict = {"pass"}
  MaxAttempt = 1
  QaRetries = 2
INVARIANT OneWorkerPerTask
INVARIANT MarkedIsClosed
INVARIANT CompletedIsClosed
INVARIANT PayloadIsCommit
