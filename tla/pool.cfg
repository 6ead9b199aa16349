\* Two permits for four requests of three workers, with and without stray
\* releases and clean-ups.
CONSTANTS
  w1 = w1
  w2 = w2
  w3 = w3
  r1 = r1
  r2 = r2
  r3 = r3
  r4 = r4
  Clients <- MCClients
  Requests <- MCRequests
  Client <- MCClient
  MaxLockCount = 2
SPECIFICATION FairSpec
INVARIANTS PermitsBacked PermitsAccounted NoIdlePermit
PROPERTIES FirstComeFirstServed WaiterAnswered
