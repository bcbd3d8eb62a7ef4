SPECIFICATION Spec
CONSTANTS
  File = {a, b}
  Folder = {{a, b}}
  Vector = {a}
  Reader = {p}
  Hook = {q}
  Syncer = {p}
  None = None
  Query = {a, b}
  MaxChanges = 2
  MaxOps = 3
  MaxCalls = 2
INVARIANT FirstEditIsRead
INVARIANT CommitIsWhatWasChecked
