SPECIFICATION FairSpec
CONSTANTS
  Nodes = {1}
  Versions = {v1}
  EmptyVersion = Empty
  None = None
  Keys = {z1}
  Selectors = {z1}
  SfcUse = {TRUE}
  CombinedLen = 20
  Lagging = {"cr"}
  FaultKinds = {"write", "crash"}
  UserOps = {"create", "delete"}
  EditsWait = FALSE
  MaxEdits = 3
  MaxFaults = 1
PROPERTY CleanedUp
PROPERTY Uninstalled
CHECK_DEADLOCK FALSE
