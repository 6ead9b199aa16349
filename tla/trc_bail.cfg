\* bail, a signal at any moment, every hook and every kill may reject.
CONSTANTS
  t1 = t1
  t2 = t2
  t3 = t3
  Tests <- MCTests2
  Timed <- MCTimed
  WorkerLimit = 2
  Local = FALSE
  RetryCount = 1
  Bail = TRUE
  RestartWorker = TRUE
  Failing <- MCAllFail
  Signals = TRUE
SPECIFICATION Spec
PROPERTIES ImplementsTestRun
