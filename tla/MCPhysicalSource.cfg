SPECIFICATION Spec
CONSTANTS
  pad = pad
  wheel = wheel
  ghost = ghost
  Devices <- MCDevices
  VirtualDevices <- MCVirtualDevices
  Elements <- MCElements
  RegistryIds <- MCRegistryIds
  RawValues <- MCRawValues
  Maximum <- MCMaximum
  AxisBits = 3
  IdBits = 3
  SequenceModulus = 3
INVARIANTS
  RetainsMatchBindings
  ControllersFollowDevices
  ShownIsCurrent
  StateShowsElements
  NothingRunsAfterFree
