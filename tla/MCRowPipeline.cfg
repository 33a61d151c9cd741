SPECIFICATION RowSpec
CONSTANTS
  Half = 901
  L = 2
  Lanes <- MCLanes
  Frames <- MCFrames
  Weights <- MCWeights
INVARIANTS
  SumsBounded
  PipelineExact
CHECK_DEADLOCK FALSE
