SPECIFICATION FairSpec
CONSTANTS
  Clients = {c1, c2}
  EventBufferSize = 1
  MaxEvents = 3
  MayFail = TRUE
INVARIANTS
  TypeOK
  AssertionsHold
  InOrder
  Accounted
  Durable
PROPERTIES
  CallsReturn
CHECK_DEADLOCK FALSE
