\* Four requests of two workers for one file, clean-ups and released refusals included.
CONSTANTS
  w1 = w1
  w2 = w2
  r1 = r1
  r2 = r2
  r3 = r3
  r4 = r4
  Clients <- MCClients
  Requests <- MCRequests4
  Client <- MCClient4
SPECIFICATION FairSpec
INVARIANTS OneWriter LocksCounted
PROPERTIES DeleteWaitsForLocks QueuesServed
\* every request is made once, so the system stops when all are over
CHECK_DEADLOCK FALSE
