-------------------------------- MODULE TestRun --------------------------------
(***************************************************************************)
(* What a run of tests is, whatever schedules it: a test is taken by one    *)
(* worker at a time, is executed at most MaxTries times, comes back or is   *)
(* dropped without a verdict, and gets at most one verdict, which stays.    *)
(* A test can only pass once it has been executed.                          *)
(***************************************************************************)
EXTENDS Naturals

CONSTANTS Tests, Workers, MaxTries, Nobody

VARIABLES
  owner,    \* the worker that has each test, or Nobody
  tries,    \* the executions of each test
  verdict   \* "none" until the test is over

vars == <<owner, tries, verdict>>

Init ==
  /\ owner = [t \in Tests |-> Nobody]
  /\ tries = [t \in Tests |-> 0]
  /\ verdict = [t \in Tests |-> "none"]

\* A worker without a test takes one that nobody has.
Take(t, w) ==
  /\ owner[t] = Nobody /\ verdict[t] = "none"
  /\ \A u \in Tests : owner[u] # w
  /\ owner' = [owner EXCEPT ![t] = w]
  /\ UNCHANGED <<tries, verdict>>

Execute(t) ==
  /\ owner[t] # Nobody /\ tries[t] < MaxTries
  /\ tries' = [tries EXCEPT ![t] = @ + 1]
  /\ UNCHANGED <<owner, verdict>>

\* The test goes back to the queue, or its worker's loop breaks.
GiveBack(t) ==
  /\ owner[t] # Nobody
  /\ owner' = [owner EXCEPT ![t] = Nobody]
  /\ UNCHANGED <<tries, verdict>>

Conclude(t, v) ==
  /\ owner[t] # Nobody /\ verdict[t] = "none"
  /\ v = "passed" => tries[t] > 0
  /\ owner' = [owner EXCEPT ![t] = Nobody]
  /\ verdict' = [verdict EXCEPT ![t] = v]
  /\ UNCHANGED tries

Next ==
  \E t \in Tests :
    \/ \E w \in Workers : Take(t, w)
    \/ Execute(t)
    \/ GiveBack(t)
    \/ \E v \in {"passed", "failed", "skipped"} : Conclude(t, v)

Spec == Init /\ [][Next]_vars
=============================================================================
