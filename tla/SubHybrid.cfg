CONSTANTS
  W = 4
  Rule <- MCRule
  Packet <- MCPacket
  MCNames = {1, 2, 3, 4, 5, 6}
  Width <- MCTwo
  LeastBit <- MCLeastBit
  Op <- MCOp
  binth = 2
  rtssleaf <- MCLeaf
  inflation = 2
SPECIFICATION Spec
INVARIANTS
  TypeOK
  TreeInv
  LookupServes
  KeysTerminate
  RewardIsCostBelow
