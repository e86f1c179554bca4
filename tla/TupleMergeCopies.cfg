CONSTANTS
  W = 12
  Rule <- MCRule
  Packet <- MCPacket
  hash <- MCHash
  MCNames = {1, 2, 4}
  collideLimit = 1
  ProtoGrain = 2
  MaxCopies = 2
  Void = Void
SPECIFICATION Spec
INVARIANTS
  TablesInv
  NothingLost
PROPERTIES
  SplitShortensChain
