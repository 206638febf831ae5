SPECIFICATION MessagingSpec
CONSTANTS
  alice = alice
  bob = bob
  thread = thread
  DID = {alice, bob}
  async_routes <- MCAsyncRoutes
  sync_routes <- MCSyncRoutes
  Absent = Absent
  Request <- MCRequest
  Form = {"Plain", "Bare", "Authcrypt"}
  MaxStarts = 2
INVARIANTS
  MessagesAccounted
  RepliesCorrelate
  HandledWasSent
PROPERTIES
  PingsAreAnswered
CHECK_DEADLOCK FALSE
