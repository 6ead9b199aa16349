\* bail on two workers: is a test started after a test has failed?
CONSTANTS
  t1 = t1
  t2 = t2
  t3 = t3
  Tests <- MCTests3
  Timed <- MCTimed
  WorkerLimit = 2
  Local = FALSE
  RetryCount = 0
  Bail = TRUE
  RestartWorker = FALSE
  Failing = {}
  Signals = FALSE
SPECIFICATION Spec
PROPERTIES BailStopsStarting
