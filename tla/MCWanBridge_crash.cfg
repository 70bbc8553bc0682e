SPECIFICATION Spec
CONSTANTS
  Clients = {c1, c2}
  None = None
  Empty = Empty
  Faults = FALSE
  Overlap = FALSE
  Crashes = TRUE
SYMMETRY Symmetry
INVARIANTS RequestReadFromLiveConnection NoLostWakeup
PROPERTIES DisconnectsAfterBoth
\* The system stops when every client has ended.
CHECK_DEADLOCK FALSE
