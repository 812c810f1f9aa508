CONSTANTS
  Endpoints = {e1, e2}
  SourceIds = {1}
  SessionIds = {1, 2}
  PhysicalIds = {9}
  FirstNetworkId = 1
  LastNetworkId = 2
  KeepaliveTicks = 1
  OpenRetryTicks = 1
  TimeoutTicks = 2
  SequenceModulus = 3
  Nobody = Nobody
  Local = Local
SPECIFICATION Spec
SYMMETRY EndpointSymmetry
INVARIANTS
  TypeOK
  ControllersAreOwned
  ControllersBelongToTheirSession
PROPERTIES
  SessionsLeavePhysicalAlone
  RegistrySpec
