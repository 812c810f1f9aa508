SPECIFICATION RumbleSpec
CONSTANTS
  Pads <- MCPads
  MaxHops = 4
  Rumbles <- MCRumbles
INVARIANTS
  ButtonsSurvive
  SticksSurvive
  RumbleSurvives
PROPERTY ChainSettles
