SPECIFICATION FairRequestSpec
CONSTANTS
  Openings <- MCOpenings
  Preparations <- MCLocalEdits
  InputLimits = {8, 14}
  MaxRewrites = 1
  MaxRounds = 6
PROPERTY PreparationEnds
CHECK_DEADLOCK FALSE
