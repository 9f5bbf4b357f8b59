SPECIFICATION Spec
CONSTANTS
  Nodes = {1, 2}
  Versions = {v1, v2}
  EmptyVersion = Empty
  None = None
  Keys = {z1}
  Selectors = {z1}
  SfcUse = {TRUE}
  CombinedLen = 20
  Lagging = {"cr"}
  FaultKinds = {"write", "crash", "restart"}
  UserOps = {"create", "edit"}
  EditsWait = FALSE
  MaxEdits = 3
  MaxFaults = 1
SYMMETRY VersionSymmetry
INVARIANT TypeOK
INVARIANT LabelsAgree
PROPERTY NeverUnloadedInUse
PROPERTY EvictAfterDevicePlugin
PROPERTY NodeByNode
PROPERTY ImplementsRollingUpgrade
