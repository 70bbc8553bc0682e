SPECIFICATION FairSpec
CONSTANTS
  c1 = c1  c2 = c2  f1 = f1  f2 = f2
  Clients = {c1, c2}
  Names = {f1, f2}
  MaxChunks = 2
  Fds = {3, 4}
  Crashers = {c1}
  Args <- TwoCommandLines
  None = None
INVARIANTS TypeOK BufferHeld HandlesLiveContext NobodyDies
PROPERTIES ImplementsFileCopy EveryTransferEnds
\* The transfers end.
CHECK_DEADLOCK FALSE
