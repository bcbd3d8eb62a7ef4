SPECIFICATION BoardsSpec
SYMMETRY MCSymmetry
CONSTANTS
  Group = {g1, g2}
  Task = {t1, t2}
  Title = {x1, x2}
  Syncer = {s1}
  None = None
  MaxItems = 8
  MaxMishaps = 1
  MaxEdits = 2
INVARIANT StartsNamedTask
INVARIANT SettledIsFaithful
INVARIANT CardsAreBounded
CHECK_DEADLOCK FALSE
