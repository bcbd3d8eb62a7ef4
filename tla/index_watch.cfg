SPECIFICATION FairSpec
CONSTANTS
  File = {f1, f2}
  NewDir = {f2}
  Content = {v1}
  None = None
  Coll = {n1, n2, n3, n4, n5}
  MaxStaging = 1
  Writer = {w1}
  Watcher = {w1}
  Reader = {}
  MaxMishaps = 3
PROPERTY CatchesUp
CHECK_DEADLOCK FALSE
