CONSTANTS
  Node <- MCNodes
  MCNodes = {1, 2, 3, 4, 5, 6}
  hashOf <- MCHashOf
  None = None
  CMAP_K = 2
  MAX_DEPTH = 2
  MAX_QUEUE = 4
  MaxLoad = 85
  MinLoad = 40
  Basis = {1, 2}
  hash_finish <- MCFinish
  Filled <- MCFilled
  MaxCalls = 2
SPECIFICATION Spec
INVARIANTS
  TypeOK
  NoneDisappears
  SearchVisitsAll
  SearchVisitsOnly
  CursorVisitsOnce
PROPERTIES
  ReadersEnd
