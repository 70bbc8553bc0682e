SPECIFICATION FairSpec
CONSTANTS
  Clients = {c1, c2}
  None = None
  Empty = Empty
  Faults = TRUE
  Overlap = FALSE
  Crashes = FALSE
INVARIANTS OwnAnswer WorkerUsesLiveConnection
PROPERTIES DisconnectsAfterBoth EveryClientEnds KeepsOrder
\* The system stops when every client has ended.
CHECK_DEADLOCK FALSE
