\* Do never more clients write or delete at once than there are permits?
CONSTANTS
  w1 = w1
  w2 = w2
  a = a
  b = b
  r1 = r1
  r2 = r2
  r3 = r3
  r4 = r4
  Clients <- MCClients
  Requests <- MCRequests4
  Client <- MCClient4
  Files <- MCFiles
  File <- MCFile4
  MaxLockCount = 1
SPECIFICATION Spec
INVARIANTS WriteLimit
CHECK_DEADLOCK FALSE
