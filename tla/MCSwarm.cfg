SPECIFICATION TapeSpec
CONSTANTS
  Half = 300
  MaxTiles = 4
  Domains = {0, 1}
  Lanes <- OneLane
  Frames <- MCFrames
  Weights <- MCWeights
  Delta <- MCDelta
  RowOut <- MCRowOut
  ZeroWeight <- NoWeight
  BadFrames <- MCBadFrames
  ExpectedW = 2
  StdWidth <- NoStdWidth
  Hosts <- MCHosts
INVARIANTS
  TypeOK
  LockInRange
  AutoResetSparesWinners
  ViewsAgree
  OutsideIsInert
  BakeIdsAgree
  GlyphsIndependent
  SegmentsPartition
  SegmentsLeadToPattern
PROPERTIES
  NoOrphanLock
  FireIsRisingEdge
  LockedDrivesFresh
  LockedOnlyDrains
