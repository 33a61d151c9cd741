SPECIFICATION FairSpec
CONSTANTS
  Half = 8
  Params <- MCParams
  Deltas <- MCDeltas
INVARIANTS
  LockInRange
PROPERTIES
  HeldDecayShrinks
  DrainFuse
  LeakUnlocks
