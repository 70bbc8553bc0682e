\* Three batches, the last one short; two connections.
SPECIFICATION FairSpec
CONSTANTS MsgCount = 11  MaxWr = 4  QpCount = 2
INVARIANTS TypeOK ReceivesConserved NeverOutruns GoesOnAfterAll
PROPERTY BothEnd
\* Both sides end.
CHECK_DEADLOCK FALSE
