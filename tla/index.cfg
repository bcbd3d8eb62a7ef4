SPECIFICATION Spec
SYMMETRY MCSymmetry
CONSTANTS
  File = {f1, f2}
  NewDir = {f1, f2}
  Content = {v1, v2}
  None = None
  Coll = {n1, n2, n3, n4}
  MaxStaging = 1
  Writer = {w1}
  Watcher = {}
  Reader = {r1}
  MaxMishaps = 2
INVARIANT ReadersSeeWhole
INVARIANT FreshIsCurrent
INVARIANT StagingIsBounded
PROPERTY RefreshIsRebuild
