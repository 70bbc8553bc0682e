SPECIFICATION Spec
CONSTANTS
  Clients = {c1, c2, c3}
  None = None
  Empty = Empty
  Faults = FALSE
  Overlap = TRUE
  Crashes = FALSE
SYMMETRY Symmetry
INVARIANTS ForwardsNewRequest
\* The system stops when every client has ended.
CHECK_DEADLOCK FALSE
