\* The page never receives an answer it cannot match with a request.
CONSTANTS
  testMessage = testMessage
  otherMessage = otherMessage
  unregistered = unregistered
  TestMessage = TestMessage
  OtherHandler = OtherHandler
  Types <- MCTypes
  Handlers <- MCHandlers
  Registrations <- MCRegistrations
  Requests <- MCRequests
  NotAString = NotAString
  None = None
  MaxMessages = 3
SPECIFICATION Spec
INVARIANT NoUnknownId
CHECK_DEADLOCK FALSE
