\* Two tests, child processes and a local worker, with and without failures.
CONSTANTS
  t1 = t1
  t2 = t2
  Tests <- MCTests
  NoTest = NoTest
  MaxForks = 2
SPECIFICATION FairSpec
INVARIANTS TypeOK OneProcess NothingLeft TestsApart
PROPERTIES CallsEnd
\* the loop ends
CHECK_DEADLOCK FALSE
