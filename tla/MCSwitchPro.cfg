SPECIFICATION Spec
CONSTANTS
  RumbleLength = 2
  Counters <- MCCounters
  Rumbles <- MCRumbles
  Unframed <- MCUnframed
  SpiReads <- MCSpiReads
  Values <- MCValues
  Axes <- MCAxes
  TimerModulus = 2
INVARIANTS
  HostPacketsAreRead
  RepliesAnswer
  SticksMatchCalibration
