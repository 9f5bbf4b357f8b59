SPECIFICATION FairSpec
CONSTANTS
  Nodes = {1}
  Versions = {v1, v2}
  EmptyVersion = Empty
  None = None
  Keys = {z1}
  Selectors = {z1}
  SfcUse = {FALSE}
  CombinedLen = 20
  Lagging = {}
  FaultKinds = {"write"}
  UserOps = {"create", "delete"}
  EditsWait = FALSE
  MaxEdits = 2
  MaxFaults = 1
PROPERTY LabelsRemoved
CHECK_DEADLOCK FALSE
