SPECIFICATION NetFairSpec
CONSTANTS
  MaxStarts = 3
  Half = 300
  MaxTiles = 2
  Domains = {0, 1}
  Lanes <- OneLane
  Frames <- MCFrames
  Weights <- MCWeights
  Delta <- MCDelta
  RowOut <- MCRowOut
  ZeroWeight <- NoWeight
  ExpectedW = 2
  StdWidth <- NoStdWidth
  Hosts <- MCHosts
  Bake <- MCBake
  BadFrames <- MCBadFrames
  Masks <- MCMasks
CHECK_DEADLOCK FALSE
INVARIANTS
  NothingLeft
  OwnSocket
  NothingFreedUnderHandler
  SolvedIsForgotten
PROPERTIES
  AnswersWinners
  CallsReturn
  SignalEnds
