SPECIFICATION Spec
CONSTANTS
  RumbleLength = 2
  Counters <- OneCounter
  Rumbles <- MCRumbles
  Unframed <- OnlySubcommands
  SpiReads <- MCSpiReads
  Values <- MCValues
  Axes <- MCAxes
  TimerModulus = 2
INVARIANT
  RepliesNameSubcommand
