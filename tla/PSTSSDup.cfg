CONSTANTS
  W = 2
  Rule <- MCRule
  Packet <- MCPacket
  hash <- MCHash
  MaxCopies = 2
  Void = Void
  DistinctPriorities = FALSE
SPECIFICATION Spec
PROPERTIES
  DeleteKeepsNeighbours
