SPECIFICATION FairSpec
CONSTANTS
  Half = 300
  MaxTiles = 8
  Domains = {0, 1}
  ExpectedW = 4
  StdWidth <- StdFour
  Weights <- MCWeights
  ZeroWeight = 0
  Foreign = {}
  Saved <- BakedOnce
  Requests = {}
  StrayLens = {0, 1, 5, 40}
INVARIANTS
  SmallSwarmsRestored
CHECK_DEADLOCK FALSE
