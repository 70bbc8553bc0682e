SPECIFICATION FairSpec
CONSTANTS
  Clients = {c1, c2}
  None = None
  Empty = Empty
  Faults = FALSE
  Overlap = FALSE
  Crashes = TRUE
PROPERTIES EveryClientEnds
\* The system stops when every client has ended.
CHECK_DEADLOCK FALSE
