CONSTANTS
  W = 5
  Rule <- MCRule
  Packet <- MCPacket
  MCNames = {1, 2, 3, 4, 5, 6, 7}
  threshold = 2
  cutBits <- MCCutBits
  binth = 1
  rtssleaf = 1
  MaxCopies = 1
SPECIFICATION Spec
INVARIANTS
  TypeOK
  SubsetsExact
  TreeInv
  BuiltServed
  LookupServes
