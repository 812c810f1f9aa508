CONSTANT MaxInputs = 4
SPECIFICATION FairSpec
INVARIANTS
  TypeOK
  OneDrain
  NothingUsesTheReleased
PROPERTIES
  RegisterSpec
  LatestIsShown
  DestructionEnds
