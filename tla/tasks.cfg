SPECIFICATION Spec
SYMMETRY MCSymmetry
CONSTANTS
  t1 = t1
  t2 = t2
  w1 = w1
  w2 = w2
  s1 = s1
  None = None
  Task = {t1, t2}
  Order <- TwoTasks
  Parallel = {t2}
  V2 = {t1, t2}
  Enrolled = {t2}
  Actor = {w1, w2}
  Worker = {}
  Shell = {s1, s2}
  ActorOf <- OwnName
  ToolOf <- Tools
  CliEvent <- TwoTracks
  CliVerdict = {"pass", "fail"}
  MaxAttempt = 2
  QaRetries = 2
INVARIANT OrderIsKept
INVARIANT MergedIsBacked
INVARIANT ClosedIsProven
