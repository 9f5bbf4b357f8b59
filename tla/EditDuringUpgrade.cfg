SPECIFICATION FairSpec
CONSTANTS
  Nodes = {1}
  Versions = {v1, v2}
  EmptyVersion = Empty
  None = None
  Keys = {z1}
  Selectors = {z1}
  SfcUse = {FALSE}
  CombinedLen = 20
  Lagging = {}
  FaultKinds = {}
  UserOps = {"create", "edit"}
  EditsWait = FALSE
  MaxEdits = 3
  MaxFaults = 0
PROPERTY Converges
