SPECIFICATION Spec
CONSTANTS
  Nodes = {1, 2}
  Versions = {v1, v2}
  EmptyVersion = Empty
  None = None
  Keys = {z1, z2}
  Selectors = {z1, z2}
  SfcUse = {FALSE}
  CombinedLen = 33
  Lagging = {}
  FaultKinds = {}
  UserOps = {"create", "edit", "delete", "relabel"}
  EditsWait = FALSE
  MaxEdits = 3
  MaxFaults = 0
INVARIANT LongNameIgnored
CHECK_DEADLOCK FALSE
