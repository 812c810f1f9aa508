SPECIFICATION NetworkSpec
CONSTANTS
  Endpoints <- MCEndpoints
  SourceIds <- MCSourceIds
  SessionIds <- MCSessionIds
  PhysicalIds <- MCPhysicalIds
  FirstNetworkId = 1
  LastNetworkId = 5
  KeepaliveTicks = 1
  OpenRetryTicks = 1
  TimeoutTicks = 3
  SequenceModulus = 64
  Nobody = Nobody
  Local = Local
  DeviceId = 1
  MaxStarts = 2
  MaxReports = 1
  GiveUpTicks = 1
  MaxFaults = 2
  StaleReports = FALSE
INVARIANTS
  PromptPeersAreKept
  PeersAreInStep
  FreshReportsPass
PROPERTIES
  GonePeersLoseControllers
  SourceIsReopened
