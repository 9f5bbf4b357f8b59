SPECIFICATION Spec
CONSTANTS
  Nodes = {1, 2}
  Versions = {v1, v2}
  EmptyVersion = Empty
  None = None
  Keys = {z1}
  Selectors = {z1}
  SfcUse = {FALSE}
  CombinedLen = 20
  Lagging = {}
  FaultKinds = {}
  UserOps = {"create", "edit"}
  EditsWait = TRUE
  MaxEdits = 3
  MaxFaults = 0
PROPERTY UpgradedBeforeNext
