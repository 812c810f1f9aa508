CONSTANTS
  Ids = {i1, i2}
  Profiles = {generic, switchpro}
  NoProfile = NoProfile
  MaxDevices = 4
  MaxReports = 1
SPECIFICATION Spec
SYMMETRY Symmetry
INVARIANTS
  TypeOK
  EncoderFitsDevice
  DevicesAreControllers
  RemovedIsSilent
PROPERTY ProfileChangeReachesAll
