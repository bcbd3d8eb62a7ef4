SPECIFICATION Spec
CONSTANTS
  File = {a, b}
  Folder = {{b}}
  None = None
  NoDaemon = NoDaemon
  NoServer = NoServer
  MaxChanges = 1
  MaxOps = 0
  Indexer = {h}
  Finder = {p}
  Attempts = 2
  MaxIndexed = 2
  Client = {c1, c2}
  Daemon = {d1, d2, d3}
  MaxSpoils = 2
  Server = {s1, s2, s3}
  MaxKills = 1
  Asker = {l1, l2}
  Host = Host
  MaxRestarts = 2
  MaxDeaths = 2
  Driver = {w1, w2}
  NoFile = NoFile
  MaxLapses = 3
  Chain = {f1, f2}
  NoSession = NoSession
  MaxRounds = 2
  MaxSessions = 2
  Requester = {q1, q2}
  Suffix = {"x", "y"}
  NoRequester = NoRequester
  MaxNumber = 3
  ThreeDigits = 2
  MaxSwitches = 1
  MaxFailures = 3
  CardKept = TRUE
  Queue = 3
  MaxFailed = 4
  NoBody = NoBody
  Width = 7
  Height = 4
  PieceQueue <- MCPieceQueue
  MaxShift = 2
INVARIANT LateRunsWait
INVARIANT OneDaemon
INVARIANT OneServerPerLauncher
INVARIANT OneLanguageServer
INVARIANT OneFeatureOwner
INVARIANT FeaturesAreOwn
INVARIANT WarmAgentsAreOwn
INVARIANT CurrentBodiesEscalate
INVARIANT CellsAddUp
CHECK_DEADLOCK FALSE
