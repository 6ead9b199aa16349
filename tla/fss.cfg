\* Three requests of two workers for two files and two permits, refusals and deaths included.
CONSTANTS
  w1 = w1
  w2 = w2
  a = a
  b = b
  r1 = r1
  r2 = r2
  r3 = r3
  r4 = r4
  Clients <- MCClients
  Requests <- MCRequests3
  Client <- MCClient3
  Files <- MCFiles
  File <- MCFile3
  MaxLockCount = 2
SPECIFICATION FairSpec
INVARIANTS TypeOK PermitsFollowRequests WritesInTurn
PROPERTIES ImplementsSharedFiles Answered
\* every request is made once, so the system stops when all are over
CHECK_DEADLOCK FALSE
