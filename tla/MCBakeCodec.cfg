SPECIFICATION FairSpec
CONSTANTS
  Half = 300
  MaxTiles = 8
  Domains = {0, 1}
  ExpectedW = 4
  StdWidth <- StdFour
  Weights <- MCWeights
  ZeroWeight = 0
  Foreign <- MCForeign
  Saved <- MCSaved
  Requests <- MCRequests
  StrayLens = {0, 1, 5, 40}
INVARIANTS
  AcceptedIsImage
  LastRecordWins
  WrittenIsAccepted
  RestoredFaithfully
  WithinEstimate
PROPERTIES
  WalkEnds
CHECK_DEADLOCK FALSE
