SPECIFICATION FairSpec
CONSTANTS
  Nodes = {1, 2}
  Versions = {v1, v2}
  EmptyVersion = Empty
  None = None
  Keys = {z1, z2}
  Selectors = {z1}
  SfcUse = {FALSE}
  CombinedLen = 20
  Lagging = {"cr", "node", "ds"}
  FaultKinds = {"write", "crash"}
  UserOps = {"create", "edit", "relabel"}
  EditsWait = TRUE
  MaxEdits = 3
  MaxFaults = 1
INVARIANT VersionsMatch
PROPERTY NeverUnloadedInUse
PROPERTY NodeByNode
PROPERTY Converges
CHECK_DEADLOCK FALSE
