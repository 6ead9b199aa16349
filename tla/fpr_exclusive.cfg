\* Is a file that somebody writes kept from being deleted?
CONSTANTS
  w1 = w1
  w2 = w2
  r1 = r1
  r2 = r2
  r3 = r3
  r4 = r4
  Clients <- MCClients
  Requests <- MCRequests4
  Client <- MCClient4
SPECIFICATION Spec
INVARIANTS ExclusiveAccess
CHECK_DEADLOCK FALSE
