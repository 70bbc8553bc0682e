\* Two clients at once, and a TCP server that reads one message;
\* at most one client crashes.
SPECIFICATION FairSpec
CONSTANTS
  Clients = {a, b}
  None = None
  MaxCrashes = 1
INVARIANTS TypeOK NobodyDies NoWakeupLost
PROPERTY EveryClientEnds
\* The clients end, and the server waits for more.
CHECK_DEADLOCK FALSE
