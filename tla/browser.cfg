\* Three commands of two applicants over two workers; two calls of the driver for two
\* applicants and its kill(); two commands of a test; two tab commands over three tabs.
CONSTANTS
  k1 = k1
  k2 = k2
  k3 = k3
  o1 = o1
  o2 = o2
  user1 = user1
  user2 = user2
  c1 = c1
  c2 = c2
  Commands <- MCCommands
  Applicant <- MCApplicant
  Ends <- MCEnds
  WorkerLimit = 2
  MaxChildren = 3
  Ops <- MCOps
  SessionUsers <- MCSessionUsers
  MaxSessions = 2
  KillOp = KillOp
  AppCalls <- MCAppCalls
  MaxPolls = 1
  MaxTabs = 3
  MaxTabCalls = 2
SPECIFICATION BrowserSpec
INVARIANTS BrowserTypeOK ProxyKeeps DriverKeeps AppKeeps
PROPERTIES BrowserAnswers
\* commands and calls end
CHECK_DEADLOCK FALSE
