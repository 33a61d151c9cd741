SPECIFICATION TapeSpec
CONSTANTS
  Half = 300
  MaxTiles = 2
  Domains = {0, 1}
  Lanes <- OneLane
  Frames <- MCFrames
  Weights <- MCWeights
  Delta <- MCDelta
  RowOut <- MCRowOut
  ZeroWeight <- NoWeight
  BadFrames <- MCBadFrames
  ExpectedW = 2
  StdWidth <- NoStdWidth
  Hosts <- PairOnly
PROPERTIES
  BakeResetsRuntime
