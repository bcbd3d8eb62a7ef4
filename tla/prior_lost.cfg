SPECIFICATION Spec
CONSTANTS
  File = {f1}
  Content = {v1}
  NewDir = {}
  None = None
  Coll = {n1, n2, n3, n4, n5}
  MaxStaging = 1
  Writer = {w1}
  Watcher = {}
  Reader = {}
  MaxMishaps = 1
INVARIANT PriorStaysQueryable
