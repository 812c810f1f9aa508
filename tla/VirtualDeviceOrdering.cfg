CONSTANT MaxInputs = 1
SPECIFICATION Spec
PROPERTY LatestValueWins
