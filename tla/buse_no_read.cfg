SPECIFICATION Spec
CONSTANTS
  Blocks <- MCBlocks
  Values <- MCValues
  Requests <- MCRequests
  HasRead = FALSE
  HasWrite = TRUE
  SockSize = 2
INVARIANTS
  OnlyReadsFail
CHECK_DEADLOCK FALSE
