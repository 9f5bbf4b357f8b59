SPECIFICATION FairSpec
CONSTANTS
  Versions = {v1, v2}
  None = None
  MaxCreated = 2
  MaxEvents = 2
  sfc1 = sfc1
  other = other
  NicLists <- MCNicLists
  Solarflare = {sfc1}
  NeedNic = TRUE
  SetPreload = TRUE
  MountOnload = FALSE
  MaxPods = 2
  CallTimes = {5, 40}
INVARIANT TypeOK
INVARIANT EndpointIsServed
INVARIANT ControlPlaneInPod
INVARIANT AllocatesOwnFiles
PROPERTY NicChangesNoticed
PROPERTY DevicesAdvertised
PROPERTY ControlPlaneConfigured
