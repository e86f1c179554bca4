CONSTANTS
  W = 2
  Rule <- MCRule
  Packet <- MCPacket
  hash <- MCHash
  MaxCopies = 2
  Void = Void
  DistinctPriorities = TRUE
SPECIFICATION Spec
INVARIANTS
  TypeOK
  IndexInv
  PruningLosesNothing
  LookupIsLinearScan
  NeverExits
PROPERTIES
  ImplementsClassifier
