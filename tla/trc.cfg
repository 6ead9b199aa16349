\* Fair run, workers that may hang under a timeout, a hook that rejects after a retry was
\* pushed, a signal at any moment.
CONSTANTS
  t1 = t1
  t2 = t2
  t3 = t3
  Tests <- MCTests2
  Timed <- MCTimed
  WorkerLimit = 2
  Local = FALSE
  RetryCount = 1
  Bail = FALSE
  RestartWorker = FALSE
  Failing = {"beforeTestRetry"}
  Signals = TRUE
SPECIFICATION FairSpec
INVARIANTS TypeOK OnePlace AttemptsBounded PassedWasReported NothingLeftOver ErrorsMatch
PROPERTIES VerdictIsFinal PassedNotRerun RunEnds
