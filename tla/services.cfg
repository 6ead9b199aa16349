\* Three log calls and three steps; three requests of two clients; three messages of the
\* socket; two sends between processes whose ids share a prefix; two tests of a worker;
\* three calls on a file; three messages to the devtool; three files in two runs.
CONSTANTS
  g1 = g1
  g2 = g2
  g3 = g3
  s1 = s1
  s2 = s2
  s3 = s3
  r1 = r1
  r2 = r2
  r3 = r3
  m1 = m1
  m2 = m2
  m3 = m3
  p1 = p1
  p2 = p2
  q1 = q1
  q2 = q2
  c1 = c1
  c2 = c2
  c3 = c3
  x = x
  w1 = w1
  w2 = w2
  a1 = a1
  a2 = a2
  n1 = n1
  f1 = f1
  f2 = f2
  f3 = f3
  LogCalls <- MCLogCalls
  LogSteps <- MCLogSteps
  StepMessage <- MCStepMessage
  Requests <- MCRequests
  ClientOf <- MCClientOf
  WsMessages <- MCWsMessages
  Handshakes <- MCHandshakes
  Cyclic <- MCCyclic
  Procs <- MCProcs
  Prefix <- MCPrefix
  Sends <- MCSends
  MaxStarts <- MCMaxStarts
  OwnCalls <- MCOwnCalls
  TransactionCalls <- MCTransactionCalls
  OtherCalls <- MCOtherCalls
  DevWorkers <- MCDevWorkers
  DevApps <- MCDevApps
  AppOwner <- MCAppOwner
  Connections <- MCConnections
  SourceFiles <- MCSourceFiles
  Packages <- MCPackages
  MaxRetries = 1
  MaxFaults = 3
  MaxConnections = 3
  NumTests = 2
  MaxDevtool = 3
  MaxReleases = 2
  MaxDevCalls = 3
  MaxHandshakes = 2
  Entry = f1
  MaxRequires = 3
  MaxFailures = 1
  NumRuns = 2
  MaxLate = 1
SPECIFICATION ServicesSpec
INVARIANTS ServicesTypeOK MessagesKept ExecutionKeeps FilesKept CodeAndPagesFound
PROPERTIES ServicesAnswer
\* calls end, connections close
CHECK_DEADLOCK FALSE
