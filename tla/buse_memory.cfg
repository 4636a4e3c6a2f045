SPECIFICATION Spec
CONSTANTS
  Blocks <- MCBlocks
  Values <- MCValues
  Requests <- MCRequests
  HasRead = TRUE
  HasWrite = TRUE
  SockSize = 2
INVARIANTS
  TypeOK
  StreamAssertionsHold
  StreamsInStep
  BegunIsAnswered
PROPERTIES
  LinearDevice
  RequestsEnd
  ParentEnds
CHECK_DEADLOCK FALSE
