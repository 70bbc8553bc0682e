\* Two clients, which may be connected at the same time, and
\* one of which may crash.
SPECIFICATION FairSpec
CONSTANTS
  Clients = {a, b}
  None = None
  Zero = Zero
  MaxCrashes = 1
INVARIANTS TypeOK AtMostOneAnswered
PROPERTIES WaitNeverEnds EveryRequestForwarded
\* The bridge waits for clients, and sock_rdma_thread for ever.
CHECK_DEADLOCK FALSE
