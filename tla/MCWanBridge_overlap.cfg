SPECIFICATION Spec
CONSTANTS
  Clients = {c1, c2}
  None = None
  Empty = Empty
  Faults = FALSE
  Overlap = TRUE
  Crashes = FALSE
INVARIANTS RequestReadFromLiveConnection NoLostWakeup
\* The system stops when every client has ended.
CHECK_DEADLOCK FALSE
