CONSTANTS
  W = 12
  Rule <- MCRule
  Packet <- MCPacket
  hash <- MCHash
  MCNames = {1, 2, 3, 4, 5, 6}
  collideLimit = 1
  ProtoGrain = 2
  MaxCopies = 1
  Void = Void
SPECIFICATION Spec
INVARIANTS
  TypeOK
  TablesInv
PROPERTIES
  SplitConserves
  ImplementsClassifier
