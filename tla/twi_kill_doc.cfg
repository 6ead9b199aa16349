\* The promise of the functional test about a kill() during an execution.
CONSTANTS
  t1 = t1
  t2 = t2
  Tests <- MCTests
  NoTest = NoTest
  MaxForks = 2
SPECIFICATION FairSpec
INVARIANTS KilledIsSuccess
CHECK_DEADLOCK FALSE
