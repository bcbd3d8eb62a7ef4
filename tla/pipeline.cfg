SPECIFICATION Spec
SYMMETRY MCSymmetry
CONSTANTS
  Proc = {p1, p2}
  Feature = {f1, f2}
  Exclusive = {f1}
  Driven = {f1}
  None = None
  CliEvent = {"plan_approved", "planreview_completed"}
  CliPhase = {None}
  StartLogs <- MCStartLogs
  MaxLog = 4
INVARIANT ExclusiveStaysValid
INVARIANT PoisonIsContained
PROPERTY ApprovalIsBacked
