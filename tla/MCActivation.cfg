SPECIFICATION FairSpec
CONSTANTS
  Nets <- MCNets
INVARIANTS
  TypeOK
  NothingExtra
  NothingMissing
  ActiveMeansFed
PROPERTIES
  ImplementsLeast
  Termination
CHECK_DEADLOCK FALSE
