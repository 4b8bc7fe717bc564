\* Every request is answered, in order, by the right handler.
CONSTANTS
  testMessage = testMessage
  otherMessage = otherMessage
  unregistered = unregistered
  TestMessage = TestMessage
  OtherHandler = OtherHandler
  Types <- MCTypes
  Handlers <- MCHandlers
  Registrations <- MCRegistrations
  Requests <- MCRequests
  NotAString = NotAString
  None = None
  MaxMessages = 3
SPECIFICATION Spec
INVARIANTS
  TypeOK
  InOrder
  Correlated
  UnknownMeansUnregistered
  EveryAnswerSurfaces
PROPERTIES
  Answered
  ImplementsAsyncCall
\* The user may stop submitting, and a crashed module answers nothing.
CHECK_DEADLOCK FALSE
