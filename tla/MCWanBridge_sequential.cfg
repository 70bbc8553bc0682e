SPECIFICATION FairSpec
CONSTANTS
  Clients = {c1, c2, c3}
  None = None
  Empty = Empty
  Faults = FALSE
  Overlap = FALSE
  Crashes = FALSE
INVARIANTS TypeOK OwnAnswer WorkerHasItsEvent ForwardsNewRequest
  PollerUsesLiveConnection ReceiveIsPosted ConnectsFreshSocket ServerStaysUp
PROPERTIES FreedOnlyServed EveryClientServed ImplementsService
\* The system stops when every client has ended.
CHECK_DEADLOCK FALSE
