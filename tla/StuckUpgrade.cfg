SPECIFICATION FairSpec
CONSTANTS
  Nodes = {1}
  Versions = {v1, v2}
  EmptyVersion = Empty
  None = None
  Keys = {z1, z2}
  Selectors = {z1, z2}
  SfcUse = {FALSE}
  CombinedLen = 20
  Lagging = {}
  FaultKinds = {}
  UserOps = {"create", "edit"}
  EditsWait = FALSE
  MaxEdits = 4
  MaxFaults = 0
PROPERTY NodesUpgraded
