------------------------ MODULE TestRunControllerProofs ------------------------
(***************************************************************************)
(* Proofs about TestRunController for any number of tests and workers, any *)
(* retry count and any choice of the calls that reject.                    *)
(***************************************************************************)
EXTENDS TestRunController, FiniteSetTheorems, TLAPS

\* A loop that has taken a test holds an item, one with a retry left when it
\* waits for the retry delay.
CurOK ==
  \A w \in Workers :
    /\ pc[w] \in InTest => cur[w] \in Item
    /\ pc[w] = "delay" => cur[w].retry < RetryCount

\* Before the loops start nothing has happened to any test.
NotStarted ==
  main \in {"beforeRun", "shouldNotExecute"} =>
    /\ \A w \in Workers : pc[w] = "idle"
    /\ \A t \in Tests : starts[t] = 0 /\ verdict[t] = "none"

Typed == TypeOK /\ CurOK /\ NotStarted

\* What the queue operations do to a sequence, element by element.
LEMMA QueueFacts ==
  ASSUME NEW S, NEW s \in Seq(S), NEW e \in S
  PROVE  /\ Append(s, e) \in Seq(S)
         /\ DOMAIN s = 1..Len(s) /\ Len(s) \in Nat
         /\ DOMAIN Append(s, e) = 1..(Len(s) + 1)
         /\ \A i \in DOMAIN s : Append(s, e)[i] = s[i] /\ s[i] \in S
         /\ Append(s, e)[Len(s) + 1] = e
OBVIOUS

LEMMA AppendType ==
  \A S : \A s \in Seq(S), e \in S : Append(s, e) \in Seq(S)
OBVIOUS

LEMMA ElementType ==
  \A S : \A s \in Seq(S) : \A i \in DOMAIN s : s[i] \in S
OBVIOUS

LEMMA TailFacts ==
  ASSUME NEW S, NEW s \in Seq(S), s # <<>>
  PROVE  /\ Head(s) \in S /\ Head(s) = s[1] /\ 1 \in DOMAIN s
         /\ Tail(s) \in Seq(S)
         /\ DOMAIN s = 1..Len(s) /\ Len(s) \in Nat
         /\ DOMAIN Tail(s) = 1..(Len(s) - 1)
         /\ \A i \in DOMAIN Tail(s) : Tail(s)[i] = s[i + 1]
OBVIOUS

LEMMA WorkersType == Workers \subseteq Nat
BY ControllerAssumption DEF Workers

\* The queue that prepareTests builds.
LEMMA PlannedQueue ==
  ASSUME NEW plan \in Plans
  PROVE  LET q == [i \in DOMAIN plan |-> [test |-> plan[i], retry |-> 0]]
         IN /\ q \in Seq(Item)
            /\ {plan[i] : i \in DOMAIN plan} \subseteq Tests
            /\ \A i, j \in DOMAIN q : q[i].test = q[j].test => i = j
<1> DEFINE q == [i \in DOMAIN plan |-> [test |-> plan[i], retry |-> 0]]
<1>1. PICK n \in 0..Cardinality(Tests) : plan \in Injection(1..n, Tests)
  BY DEF Plans
<1>2. plan \in [1..n -> Tests] /\ DOMAIN plan = 1..n
  BY <1>1 DEF Injection
<1>3. \A i, j \in 1..n : plan[i] = plan[j] => i = j
  BY <1>1, <1>2 DEF Injection, IsInjective
<1>4. 0 \in 0..RetryCount
  BY ControllerAssumption
<1>5. q \in [1..n -> Item]
  BY <1>2, <1>4 DEF Item
<1>6. n \in Nat
  BY <1>1, ControllerAssumption
<1>7. q \in Seq(Item)
  BY <1>5, <1>6
<1>8. \A i, j \in DOMAIN q : q[i].test = q[j].test => i = j
  BY <1>2, <1>3
<1> QED
  BY <1>2, <1>7, <1>8

\* The copy of an item that is run again is an item.
LEMMA RetriedItem ==
  ASSUME NEW i \in Item, i.retry < RetryCount
  PROVE  [i EXCEPT !.retry = @ + 1] \in Item
<1>1. i.test \in Tests /\ i.retry + 1 \in 0..RetryCount
  BY ControllerAssumption DEF Item
<1>2. [i EXCEPT !.retry = @ + 1] = [test |-> i.test, retry |-> i.retry + 1]
  BY DEF Item
<1> QED
  BY <1>1, <1>2 DEF Item

LEMMA TypedInit == Init => Typed
BY ControllerAssumption DEF Init, Typed, TypeOK, CurOK, NotStarted, Idle, InTest, Causes

LEMMA TypedNext == Typed /\ [Next]_vars => Typed'
<1> SUFFICES ASSUME Typed, [Next]_vars PROVE Typed'
  OBVIOUS
<1> USE ControllerAssumption
    DEF Typed, TypeOK, mainVars, loopVars, stopVars, testVars
<1>1. CASE PrepareTests
  <2>1. CASE main' = "rejected" /\ UNCHANGED <<queue, planned>>
    BY <1>1, <2>1 DEF PrepareTests, CurOK, NotStarted, InTest
  <2>2. ASSUME NEW plan \in Plans,
               queue' = [i \in DOMAIN plan |-> [test |-> plan[i], retry |-> 0]],
               planned' = {plan[i] : i \in DOMAIN plan},
               main' = "shouldNotExecute"
        PROVE  Typed'
    BY <1>1, <2>2, PlannedQueue DEF PrepareTests, CurOK, NotStarted, InTest
  <2> QED
    BY <1>1, <2>1, <2>2 DEF PrepareTests
<1>2. CASE DoNotExecute
  BY <1>2 DEF DoNotExecute, CurOK, NotStarted
<1>3. CASE StartWorkers
  <2>1. Spawned \subseteq Workers
    BY DEF Spawned, Workers
  <2>2. main' \in {"loops", "afterRunError"}
    BY <1>3 DEF StartWorkers
  <2> QED
    BY <1>3, <2>1, <2>2 DEF StartWorkers, CurOK, NotStarted, InTest, Idle, Causes
<1>4. CASE LoopsResolved
  BY <1>4 DEF LoopsResolved, CurOK, NotStarted
<1>5. CASE AfterRun
  BY <1>5 DEF AfterRun, Settle, CurOK, NotStarted, Causes
<1>6. CASE AfterRunError
  <2>1. errors' \in Seq(Causes)
    <3>1. errors \in Seq(Causes) /\ fault \in Causes
      OBVIOUS
    <3>2. Append(errors, fault) \in Seq(Causes)
      BY <3>1, AppendType
    <3> QED
      BY <1>6, <3>1, <3>2 DEF AfterRunError
  <2>2. main' \in {"null", "errors", "rejected"}
    BY <1>6 DEF AfterRunError, Settle
  <2> QED
    BY <1>6, <2>1, <2>2 DEF AfterRunError, CurOK, NotStarted
<1>7. ASSUME NEW w \in Workers, LoopStep(w) \/ Answer(w) \/ Timeout(w)
      PROVE  Typed'
  <2>1. CASE TakeTest(w)
    BY <1>7, <2>1, TailFacts DEF TakeTest, Goto, CurOK, NotStarted, InTest, Idle
  <2>2. CASE LeaveLoop(w)
    BY <1>7, <2>2 DEF LeaveLoop, Goto, CurOK, NotStarted, InTest, Idle, Item, Causes
  <2>3. CASE ShouldNotStart(w)
    <3>1. cur[w].test \in Tests /\ main \notin {"beforeRun", "shouldNotExecute"}
      BY <1>7, <2>3 DEF ShouldNotStart, CurOK, NotStarted, InTest, Item
    <3>2. /\ verdict' \in [Tests -> {"none", "passed", "failed", "skipped"}]
          /\ \E l \in {"restartKill", "loop", "beforeTest", "bail", "shouldNotRetry"} :
               pc' = [pc EXCEPT ![w] = l]
      BY <2>3, <3>1 DEF ShouldNotStart, Goto, Return, TestFailed
    <3> QED
      BY <1>7, <2>3, <3>1, <3>2 DEF ShouldNotStart, CurOK, NotStarted, InTest, Idle
  <2>4. CASE BeforeTest(w)
    <3>1. cur[w].test \in Tests /\ main \notin {"beforeRun", "shouldNotExecute"}
      BY <1>7, <2>4 DEF BeforeTest, CurOK, NotStarted, InTest, Item
    <3>2. CASE Goto(w, "execute")
      <4>1. starts' \in [Tests -> Nat] /\ reported' \subseteq Tests /\ alive' \subseteq Workers
        BY <1>7, <2>4, <3>1 DEF BeforeTest
      <4>2. verdict' \in [Tests -> {"none", "passed", "failed", "skipped"}]
        BY <1>7, <2>4, <3>1 DEF BeforeTest, TestFailed
      <4> QED
        BY <1>7, <2>4, <3>1, <3>2, <4>1, <4>2
        DEF BeforeTest, Goto, CurOK, NotStarted, InTest, Idle
    <3>3. CASE TestFailed(w) /\ UNCHANGED <<starts, reported, alive>>
      BY <1>7, <2>4, <3>1, <3>3 DEF BeforeTest, Goto, TestFailed, CurOK, NotStarted, InTest, Idle
    <3> QED
      BY <2>4, <3>2, <3>3 DEF BeforeTest
  <2>5. CASE TimeoutKill(w)
    BY <1>7, <2>5 DEF TimeoutKill, Goto, TestFailed, Throw, CurOK, NotStarted, InTest, Idle, Item, Causes
  <2>6. CASE AfterPass(w)
    <3>1. /\ verdict' \in [Tests -> {"none", "passed", "failed", "skipped"}]
          /\ \E l \in {"restartKill", "loop", "finalKill", "shouldNotRetry", "bail", "rejected"} :
               pc' = [pc EXCEPT ![w] = l]
      BY <1>7, <2>6 DEF AfterPass, Goto, Return, TestFailed, CurOK, NotStarted, InTest
    <3> QED
      BY <1>7, <2>6, <3>1 DEF AfterPass, CurOK, NotStarted, InTest, Idle
  <2>7. CASE BailOut(w)
    BY <1>7, <2>7 DEF BailOut, Goto, Throw, CurOK, NotStarted, InTest, Idle, Item, Causes
  <2>8. CASE ShouldNotRetry(w)
    <3>1. cur[w].test \in Tests /\ cur[w].test \in Causes
          /\ main \notin {"beforeRun", "shouldNotExecute"}
      BY <1>7, <2>8 DEF ShouldNotRetry, CurOK, NotStarted, InTest, Item, Causes
    <3>2. errors' \in Seq(Causes)
      <4>1. Append(errors, cur[w].test) \in Seq(Causes)
        BY <3>1, AppendType
      <4> QED
        BY <2>8, <4>1 DEF ShouldNotRetry
    <3>3. main' \notin {"beforeRun", "shouldNotExecute"} /\ fault' \in Causes
          /\ main' \in {main, "afterRunError"}
      BY <2>8, <3>1 DEF ShouldNotRetry, Throw, Causes
    <3>4. /\ verdict' \in [Tests -> {"none", "passed", "failed", "skipped"}]
          /\ \E l \in {"delay", "afterFail", "rejected"} : pc' = [pc EXCEPT ![w] = l]
          /\ pc' = [pc EXCEPT ![w] = "delay"] => cur[w].retry < RetryCount
      BY <2>8, <3>1 DEF ShouldNotRetry, Throw, Goto
    <3> QED
      BY <1>7, <2>8, <3>2, <3>3, <3>4 DEF ShouldNotRetry, CurOK, NotStarted, InTest, Idle
  <2>9. CASE Requeue(w)
    <3>1. /\ [cur[w] EXCEPT !.retry = @ + 1] \in Item
          /\ main \notin {"beforeRun", "shouldNotExecute"}
      <4>1. pc[w] = "delay"
        BY <2>9 DEF Requeue
      <4>2. cur[w] \in Item /\ cur[w].retry < RetryCount
            /\ main \notin {"beforeRun", "shouldNotExecute"}
        BY <1>7, <4>1 DEF CurOK, NotStarted, InTest
      <4> QED
        BY <4>2, RetriedItem
    <3>2. queue' \in Seq(Item)
      <4>1. Append(queue, [cur[w] EXCEPT !.retry = @ + 1]) \in Seq(Item)
        BY <3>1, AppendType
      <4> QED
        BY <2>9, <4>1 DEF Requeue
    <3> QED
      BY <1>7, <2>9, <3>1, <3>2 DEF Requeue, Goto, CurOK, NotStarted, InTest, Idle
  <2>10. CASE LastHook(w)
    <3>1. main \notin {"beforeRun", "shouldNotExecute"}
      BY <1>7, <2>10 DEF LastHook, NotStarted
    <3>2. CASE Return(w) /\ UNCHANGED <<main, fault>>
      BY <1>7, <2>10, <3>1, <3>2 DEF LastHook, Goto, Return, CurOK, NotStarted, InTest, Idle
    <3>3. CASE Throw(w, "hook")
      BY <1>7, <2>10, <3>1, <3>3 DEF LastHook, Goto, Throw, CurOK, NotStarted, InTest, Idle, Causes
    <3> QED
      BY <2>10, <3>2, <3>3 DEF LastHook
  <2>11. CASE LoopKill(w)
    BY <1>7, <2>11 DEF LoopKill, Goto, Throw, CurOK, NotStarted, InTest, Idle, Item, Causes
  <2>12. CASE ExecutePassed(w)
    BY <1>7, <2>12 DEF ExecutePassed, Goto, CurOK, NotStarted, InTest, Idle, Item, Causes
  <2>13. CASE ExecuteFailed(w)
    BY <1>7, <2>13 DEF ExecuteFailed, Goto, TestFailed, CurOK, NotStarted, InTest, Idle, Item, Causes
  <2>14. CASE Timeout(w)
    BY <1>7, <2>14 DEF Timeout, Goto, CurOK, NotStarted, InTest, Idle, Item, Causes
  <2> QED
    BY <1>7, <2>1, <2>2, <2>3, <2>4, <2>5, <2>6, <2>7, <2>8, <2>9, <2>10, <2>11, <2>12, <2>13, <2>14 DEF LoopStep, Answer
<1>8. CASE Kill
  BY <1>8 DEF Kill, CurOK, NotStarted
<1>9. CASE KillFinished
  BY <1>9 DEF KillFinished, CurOK, NotStarted
<1>10. ASSUME NEW w \in Workers, WorkerKilled(w)
       PROVE  Typed'
  BY <1>10 DEF WorkerKilled, Goto, CurOK, NotStarted, InTest, Idle
<1>11. CASE Finished \/ UNCHANGED vars
  BY <1>11 DEF Finished, vars, CurOK, NotStarted
<1> QED
  BY <1>1, <1>2, <1>3, <1>4, <1>5, <1>6, <1>7, <1>8, <1>9, <1>10, <1>11
  DEF Next, MainStep, StopStep

\* The state of the scheduler keeps its shape, in every run.
THEOREM TypeCorrect == Spec => []TypeOK
<1>1. Typed => TypeOK
  BY DEF Typed
<1> QED
  BY TypedInit, TypedNext, <1>1, PTL DEF Spec

-----------------------------------------------------------------------------
(* One place per test, and the bound on its executions                     *)

\* The labels of a loop that has not yet executed the test it holds.
Early == {"shouldNotStart", "beforeTest"}

\* The labels at which the test has certainly been executed.
Late == {"execute", "timeoutKill", "afterPass"}

\* retryCount of an item counts the executions of its test so far.
AttemptsOK ==
  /\ \A i \in DOMAIN queue : starts[queue[i].test] <= queue[i].retry
  /\ \A w \in Workers :
       /\ pc[w] \in Late => starts[cur[w].test] > 0
       /\ pc[w] \in Holding => starts[cur[w].test] <= cur[w].retry + 1
       /\ pc[w] \in Early => starts[cur[w].test] <= cur[w].retry
  /\ AttemptsBounded

IInv == Typed /\ OnePlace /\ AttemptsOK

\* What most steps of a loop do: the loop w goes from one label to another, and
\* a test gets its verdict as it leaves the hands of the loop.
Moves(w, l) ==
  /\ pc' = [pc EXCEPT ![w] = l]
  /\ UNCHANGED <<queue, cur>>
  /\ l \in Holding => pc[w] \in Holding /\ UNCHANGED verdict
  /\ \/ UNCHANGED verdict
     \/ /\ pc[w] \in Holding
        /\ \E v \in {"passed", "failed", "skipped"} :
             /\ v = "passed" => pc[w] \in Late
             /\ verdict' = [verdict EXCEPT ![cur[w].test] = v]

LEMMA ItemTypes ==
  ASSUME Typed
  PROVE  /\ \A i \in DOMAIN queue :
              queue[i] \in Item /\ queue[i].test \in Tests /\ queue[i].retry \in 0..RetryCount
         /\ \A v \in Workers : pc[v] \in InTest =>
              cur[v] \in Item /\ cur[v].test \in Tests /\ cur[v].retry \in 0..RetryCount
<1>1. queue \in Seq(Item)
  BY DEF Typed, TypeOK
<1>2. \A i \in DOMAIN queue : queue[i] \in Item
  BY <1>1, ElementType
<1>3. \A x \in Item : x.test \in Tests /\ x.retry \in 0..RetryCount
  BY DEF Item
<1> QED
  BY <1>2, <1>3 DEF Typed, CurOK

\* Such a step leaves every test in one place.
LEMMA MovesOnePlace ==
  ASSUME Typed, OnePlace, NEW w \in Workers, NEW l, Moves(w, l)
  PROVE  OnePlace'
<1> USE DEF Typed, TypeOK
<1>1. \A v \in Workers : pc'[v] \in Holding => pc[v] \in Holding
  BY DEF Moves
<1>2. \A v \in Workers : pc[v] \in Holding => cur[v] \in Item /\ cur[v].test \in Tests
  BY ItemTypes DEF Holding
<1>3. \A i \in DOMAIN queue : queue[i] \in Item /\ queue[i].test \in Tests
  BY ItemTypes
<1>4. \A v \in Workers : pc'[v] \in Holding => verdict'[cur[v].test] = "none"
  <2> SUFFICES ASSUME NEW v \in Workers, pc'[v] \in Holding
               PROVE  verdict'[cur[v].test] = "none"
    OBVIOUS
  <2>1. CASE v = w
    BY <1>1, <2>1 DEF Moves, OnePlace
  <2>2. CASE v # w
    <3>1. pc[w] \in Holding => cur[v].test # cur[w].test
      BY <1>1, <2>2 DEF OnePlace, Holds
    <3> QED
      BY <1>1, <1>2, <3>1 DEF Moves, OnePlace
  <2> QED
    BY <2>1, <2>2
<1>5. \A i \in DOMAIN queue : verdict'[queue[i].test] = "none"
  BY <1>2, <1>3 DEF Moves, OnePlace
<1> QED
  BY <1>1, <1>4, <1>5 DEF Moves, OnePlace, Holds

\* The steps of a loop that are such moves.
MoveStep(w) ==
  \/ LeaveLoop(w) \/ ShouldNotStart(w) \/ BeforeTest(w) \/ TimeoutKill(w)
  \/ AfterPass(w) \/ BailOut(w) \/ ShouldNotRetry(w) \/ LastHook(w)
  \/ LoopKill(w) \/ ExecutePassed(w) \/ ExecuteFailed(w) \/ Timeout(w)

LEMMA MoveSteps ==
  ASSUME Typed, NEW w \in Workers, MoveStep(w)
  PROVE  /\ Moves(w, pc'[w])
         /\ ~BeforeTest(w) => UNCHANGED starts
         /\ pc'[w] \in Early => pc[w] \in Early /\ ~BeforeTest(w)
         /\ pc'[w] \in Late => pc[w] \in Late \/ BeforeTest(w)
<1>0. \A l : pc' = [pc EXCEPT ![w] = l] => pc'[w] = l
  BY DEF Typed, TypeOK
<1> USE <1>0 DEF Moves, Holding, InTest, Early, Late, mainVars, testVars
<1>1. CASE LeaveLoop(w)
  BY <1>1 DEF LeaveLoop, Goto
<1>2. CASE ShouldNotStart(w)
  <2>1. pc'[w] \in {"restartKill", "loop", "beforeTest", "bail", "shouldNotRetry"}
        /\ pc' = [pc EXCEPT ![w] = pc'[w]]
    BY <1>2 DEF ShouldNotStart, Goto, Return, TestFailed
  <2> QED
    BY <1>2, <2>1 DEF ShouldNotStart, Goto, Return, TestFailed, BeforeTest
<1>3. CASE BeforeTest(w)
  BY <1>3 DEF BeforeTest, Goto, TestFailed
<1>4. CASE TimeoutKill(w)
  BY <1>4 DEF TimeoutKill, Goto, TestFailed, Throw
<1>5. CASE AfterPass(w)
  BY <1>5 DEF AfterPass, Goto, Return, TestFailed
<1>6. CASE BailOut(w)
  BY <1>6 DEF BailOut, Goto, Throw
<1>7. CASE ShouldNotRetry(w)
  BY <1>7 DEF ShouldNotRetry, Goto, Throw
<1>8. CASE LastHook(w)
  BY <1>8 DEF LastHook, Goto, Return, Throw
<1>9. CASE LoopKill(w)
  BY <1>9 DEF LoopKill, Goto, Throw
<1>10. CASE ExecutePassed(w)
  BY <1>10 DEF ExecutePassed, Goto
<1>11. CASE ExecuteFailed(w)
  BY <1>11 DEF ExecuteFailed, Goto, TestFailed
<1>12. CASE Timeout(w)
  BY <1>12 DEF Timeout, Goto
<1> QED
  BY <1>1, <1>2, <1>3, <1>4, <1>5, <1>6, <1>7, <1>8, <1>9, <1>10, <1>11, <1>12 DEF MoveStep

LEMMA MovesAttempts ==
  ASSUME IInv, NEW w \in Workers, MoveStep(w)
  PROVE  AttemptsOK'
<1> USE DEF IInv, AttemptsBounded
<1>1. /\ Moves(w, pc'[w])
      /\ ~BeforeTest(w) => UNCHANGED starts
      /\ pc'[w] \in Early => pc[w] \in Early /\ ~BeforeTest(w)
      /\ pc'[w] \in Late => pc[w] \in Late \/ BeforeTest(w)
  BY MoveSteps
<1>2. /\ starts \in [Tests -> Nat] /\ RetryCount \in Nat
      /\ UNCHANGED <<queue, cur>>
  BY <1>1, ControllerAssumption DEF Typed, TypeOK, Moves
<1>3. \A v \in Workers : v # w => pc'[v] = pc[v]
  BY <1>1 DEF Typed, TypeOK, Moves
<1>6. \A v \in Workers :
        /\ pc'[v] \in Holding => pc[v] \in Holding
        /\ pc'[v] \in Early => pc[v] \in Early
        /\ pc[v] \in Early => pc[v] \in Holding
        /\ pc'[v] \in Late => pc[v] \in Late \/ (BeforeTest(w) /\ v = w)
        /\ pc[v] \in Late => pc[v] \in Holding
  BY <1>1, <1>3 DEF Moves, Early, Late, Holding, InTest
<1>4. CASE ~BeforeTest(w)
  <2>1. UNCHANGED starts
    BY <1>1, <1>4
  <2>2. \A v \in Workers :
          /\ pc'[v] \in Holding => starts'[cur'[v].test] <= cur'[v].retry + 1
          /\ pc'[v] \in Early => starts'[cur'[v].test] <= cur'[v].retry
          /\ pc'[v] \in Late => starts'[cur'[v].test] > 0
    BY <1>2, <1>4, <1>6, <2>1 DEF AttemptsOK
  <2>3. \A i \in DOMAIN queue' : starts'[queue'[i].test] <= queue'[i].retry
    BY <1>2, <2>1 DEF AttemptsOK
  <2>4. AttemptsBounded'
    BY <1>2, <2>1 DEF AttemptsOK
  <2> QED
    BY <2>2, <2>3, <2>4 DEF AttemptsOK
<1>5. CASE BeforeTest(w)
  <2>1. pc[w] = "beforeTest" /\ pc[w] \in Early /\ pc[w] \in Holding /\ cur[w].test \in Tests
    BY <1>5, ItemTypes DEF BeforeTest, Early, Holding, InTest
  <2>2. \A t \in Tests :
          /\ starts'[t] \in {starts[t], starts[t] + 1}
          /\ t # cur[w].test => starts'[t] = starts[t]
    <3>1. UNCHANGED starts \/ starts' = [starts EXCEPT ![cur[w].test] = @ + 1]
      BY <1>5 DEF BeforeTest
    <3> QED
      BY <1>2, <3>1
  <2>3. starts[cur[w].test] <= cur[w].retry /\ cur[w].retry \in 0..RetryCount
    BY <2>1, ItemTypes DEF AttemptsOK, Holding
  <2>4. AttemptsBounded'
    BY <1>2, <2>2, <2>3 DEF AttemptsOK
  <2>5. \A i \in DOMAIN queue : queue[i].test \in Tests /\ queue[i].test # cur[w].test
    BY <2>1, ItemTypes DEF OnePlace
  <2>6. ASSUME NEW v \in Workers
        PROVE  /\ pc'[v] \in Holding => starts'[cur[v].test] <= cur[v].retry + 1
               /\ pc'[v] \in Early => starts'[cur[v].test] <= cur[v].retry
               /\ pc'[v] \in Late => starts'[cur[v].test] > 0
    <3>1. CASE v = w
      <4>1. pc'[w] \in Late => starts' = [starts EXCEPT ![cur[w].test] = @ + 1]
        BY <1>5 DEF BeforeTest, TestFailed, Goto, Late, IInv, Typed, TypeOK
      <4> QED
        BY <1>1, <1>2, <1>5, <2>1, <2>2, <2>3, <3>1, <4>1
    <3>2. CASE v # w /\ pc[v] \in Holding
      <4>1. cur[v].test \in Tests /\ cur[v].test # cur[w].test
        BY <2>1, <3>2, ItemTypes DEF OnePlace, Holds, Holding
      <4> QED
        BY <1>6, <2>2, <3>2, <4>1 DEF AttemptsOK
    <3>3. CASE v # w /\ pc[v] \notin Holding
      BY <1>6, <3>3
    <3> QED
      BY <3>1, <3>2, <3>3
  <2> QED
    BY <1>2, <2>2, <2>4, <2>5, <2>6 DEF AttemptsOK
<1> QED
  BY <1>4, <1>5

\* A step that leaves the queue, the loops and the tests alone, or only empties
\* the queue, keeps every test in its place.
LEMMA QuietStep ==
  ASSUME IInv, UNCHANGED <<cur, starts, verdict>>,
         queue' = queue \/ queue' = <<>>,
         \A v \in Workers : pc'[v] \in Holding => pc[v] \in Holding,
         \A v \in Workers : pc'[v] \in Early => pc[v] \in Early,
         \A v \in Workers : pc'[v] \in Late => pc[v] \in Late
  PROVE  OnePlace' /\ AttemptsOK'
BY DEF IInv, OnePlace, Holds, AttemptsOK, AttemptsBounded

\* queue.shift(): the test of the head goes from the queue to the loop.
LEMMA TakeStep ==
  ASSUME IInv, NEW w \in Workers, TakeTest(w)
  PROVE  OnePlace' /\ AttemptsOK'
<1> DEFINE x == Head(queue)
<1>1. /\ queue \in Seq(Item) /\ queue # <<>> /\ queue' = Tail(queue)
      /\ cur \in [Workers -> Item \cup {<<>>}]
      /\ UNCHANGED <<starts, verdict>> /\ starts \in [Tests -> Nat]
  BY DEF IInv, Typed, TypeOK, TakeTest, testVars
<1>2. /\ x \in Item /\ x = queue[1] /\ 1 \in DOMAIN queue
      /\ DOMAIN queue' = 1..(Len(queue) - 1) /\ Len(queue) \in Nat
      /\ DOMAIN queue = 1..Len(queue)
      /\ \A i \in DOMAIN queue' : queue'[i] = queue[i + 1] /\ i + 1 \in DOMAIN queue
  BY <1>1, TailFacts
<1>3. /\ cur'[w] = x /\ pc'[w] = "shouldNotStart"
      /\ \A v \in Workers : v # w => cur'[v] = cur[v] /\ pc'[v] = pc[v]
  BY <1>1 DEF IInv, Typed, TypeOK, TakeTest, Goto
<1>4. x.test \in Tests /\ x.retry \in 0..RetryCount
  BY <1>2 DEF Item
<1>5. \A i \in DOMAIN queue' : /\ queue'[i].test # x.test
                               /\ verdict[queue'[i].test] = "none"
                               /\ starts[queue'[i].test] <= queue'[i].retry
  BY <1>2 DEF IInv, OnePlace, AttemptsOK
<1>6. \A i, j \in DOMAIN queue' : queue'[i].test = queue'[j].test => i = j
  <2> TAKE i, j \in DOMAIN queue'
  <2>1. i \in Nat /\ j \in Nat /\ i + 1 \in DOMAIN queue /\ j + 1 \in DOMAIN queue
    BY <1>2
  <2>2. queue[i + 1].test = queue[j + 1].test => i + 1 = j + 1
    BY <2>1 DEF IInv, OnePlace
  <2> QED
    BY <1>2, <2>1, <2>2
<1>7. \A v \in Workers : pc[v] \in Holding =>
        /\ cur[v].test # x.test
        /\ \A i \in DOMAIN queue' : queue'[i].test # cur[v].test
  BY <1>2 DEF IInv, OnePlace
<1>8. verdict[x.test] = "none" /\ starts[x.test] <= x.retry
  <2>1. verdict[queue[1].test] = "none" /\ starts[queue[1].test] <= queue[1].retry
    BY <1>2 DEF IInv, OnePlace, AttemptsOK
  <2> QED
    BY <1>2, <2>1
<1>9. OnePlace'
  <2>1. ASSUME NEW v \in Workers, pc'[v] \in Holding
        PROVE  /\ \A i \in DOMAIN queue' : queue'[i].test # cur'[v].test
               /\ \A u \in Workers \ {v} : ~(pc'[u] \in Holding /\ cur'[u].test = cur'[v].test)
               /\ verdict'[cur'[v].test] = "none"
    <3>1. CASE v = w
      BY <1>1, <1>3, <1>5, <1>7, <1>8, <3>1
    <3>2. CASE v # w
      <4>1. pc[v] \in Holding /\ cur'[v] = cur[v]
        BY <1>3, <2>1, <3>2
      <4>2. \A u \in Workers \ {v} : ~(pc'[u] \in Holding /\ cur'[u].test = cur[v].test)
        BY <1>3, <1>7, <4>1 DEF IInv, OnePlace, Holds
      <4> QED
        BY <1>1, <1>7, <4>1, <4>2 DEF IInv, OnePlace
    <3> QED
      BY <3>1, <3>2
  <2> QED
    BY <1>1, <1>5, <1>6, <2>1 DEF OnePlace, Holds
<1>10. \A v \in Workers : /\ pc'[v] \in Holding => starts'[cur'[v].test] <= cur'[v].retry + 1
                          /\ pc'[v] \in Early => starts'[cur'[v].test] <= cur'[v].retry
                          /\ pc'[v] \in Late => starts'[cur'[v].test] > 0
  <2> TAKE v \in Workers
  <2>1. CASE v = w
    BY <1>1, <1>3, <1>4, <1>8, <2>1 DEF Late
  <2>2. CASE v # w
    BY <1>1, <1>3, <2>2 DEF IInv, AttemptsOK
  <2> QED
    BY <2>1, <2>2
<1> QED
  BY <1>1, <1>5, <1>9, <1>10 DEF IInv, AttemptsOK, AttemptsBounded

\* queue.push(): the test goes from the loop to the back of the queue.
LEMMA RequeueStep ==
  ASSUME IInv, NEW w \in Workers, Requeue(w)
  PROVE  OnePlace' /\ AttemptsOK'
<1> DEFINE x == [cur[w] EXCEPT !.retry = @ + 1]
           n == Len(queue)
<1>1. /\ queue \in Seq(Item) /\ queue' = Append(queue, x)
      /\ pc[w] = "delay" /\ pc[w] \in Holding
      /\ UNCHANGED <<cur, starts, verdict>> /\ starts \in [Tests -> Nat]
  BY DEF IInv, Typed, TypeOK, Requeue, loopVars, testVars, Holding, InTest
<1>2. /\ cur[w] \in Item /\ x \in Item /\ x.test = cur[w].test /\ x.test \in Tests
      /\ x.retry = cur[w].retry + 1 /\ cur[w].retry \in Nat
  <2>1. cur[w] \in Item
    BY <1>1 DEF IInv, Typed, CurOK, InTest
  <2>2. cur[w].retry < RetryCount /\ RetryCount \in Nat
    BY <1>1, ControllerAssumption DEF IInv, Typed, CurOK
  <2> QED
    BY <2>1, <2>2 DEF Item
<1>3. /\ DOMAIN queue = 1..n /\ n \in Nat /\ DOMAIN queue' = 1..(n + 1)
      /\ \A i \in 1..n : queue'[i] = queue[i]
      /\ queue'[n + 1] = x
  BY <1>1, <1>2, QueueFacts
<1>4. /\ pc'[w] = "beforeTestRetry" /\ pc'[w] \notin Holding \cup Early \cup Late
      /\ \A v \in Workers : v # w => pc'[v] = pc[v]
  BY DEF IInv, Typed, TypeOK, Requeue, Goto, Holding, InTest, Early, Late
<1>5. \A i \in 1..n : /\ queue[i].test # x.test
                      /\ verdict[queue[i].test] = "none"
                      /\ starts[queue[i].test] <= queue[i].retry
  BY <1>1, <1>2, <1>3 DEF IInv, OnePlace, AttemptsOK
<1>6. verdict[x.test] = "none" /\ starts[x.test] <= x.retry
  BY <1>1, <1>2 DEF IInv, OnePlace, AttemptsOK
<1>7. \A i, j \in 1..n : queue[i].test = queue[j].test => i = j
  BY <1>3 DEF IInv, OnePlace
<1>8. \A i \in DOMAIN queue' : (i \in 1..n /\ queue'[i] = queue[i]) \/ (i = n + 1 /\ queue'[i] = x)
  BY <1>3
<1>9. \A v \in Workers : pc'[v] \in Holding =>
        /\ v # w /\ pc[v] \in Holding
        /\ \A i \in DOMAIN queue' : queue'[i].test # cur[v].test
  BY <1>1, <1>2, <1>3, <1>4, <1>8 DEF IInv, OnePlace, Holds
<1>10. \A i, j \in DOMAIN queue' : queue'[i].test = queue'[j].test => i = j
  BY <1>5, <1>7, <1>8
<1>11. OnePlace'
  BY <1>1, <1>5, <1>6, <1>8, <1>9, <1>10 DEF IInv, OnePlace, Holds
<1> QED
  BY <1>1, <1>4, <1>5, <1>6, <1>8, <1>9, <1>11 DEF IInv, AttemptsOK, AttemptsBounded

LEMMA IInvInit == Init => IInv
<1> SUFFICES ASSUME Init PROVE IInv
  OBVIOUS
<1>1. Typed
  BY TypedInit
<1>2. OnePlace /\ AttemptsOK
  BY ControllerAssumption
  DEF Init, OnePlace, AttemptsOK, AttemptsBounded, Holding, InTest, Early, Late
<1> QED
  BY <1>1, <1>2 DEF IInv

LEMMA IInvNext == IInv /\ [Next]_vars => IInv'
<1> SUFFICES ASSUME IInv, [Next]_vars PROVE OnePlace' /\ AttemptsOK'
  BY TypedNext DEF IInv
<1> USE DEF mainVars, loopVars, stopVars, testVars
<1>1. CASE PrepareTests
  <2>1. CASE main' = "rejected" /\ UNCHANGED <<queue, planned>>
    BY <1>1, <2>1, QuietStep DEF PrepareTests
  <2>2. ASSUME NEW plan \in Plans,
               queue' = [i \in DOMAIN plan |-> [test |-> plan[i], retry |-> 0]]
        PROVE  OnePlace' /\ AttemptsOK'
    <3>1. /\ \A v \in Workers : pc'[v] \notin Holding \cup Early \cup Late
          /\ \A t \in Tests : starts'[t] = 0 /\ verdict'[t] = "none"
      BY <1>1 DEF PrepareTests, IInv, Typed, NotStarted, Holding, InTest, Early, Late
    <3>2. \A i \in DOMAIN queue' : queue'[i].test \in Tests /\ queue'[i].retry = 0
      BY <2>2, PlannedQueue
    <3>3. \A i, j \in DOMAIN queue' : queue'[i].test = queue'[j].test => i = j
      BY <2>2, PlannedQueue
    <3>4. OnePlace'
      BY <3>1, <3>2, <3>3 DEF OnePlace
    <3>5. AttemptsOK'
      BY <3>1, <3>2, ControllerAssumption DEF AttemptsOK, AttemptsBounded
    <3> QED
      BY <3>4, <3>5
  <2> QED
    BY <1>1, <2>1, <2>2 DEF PrepareTests
<1>2. CASE DoNotExecute
  BY <1>2, QuietStep DEF DoNotExecute
<1>3. CASE StartWorkers
  <2>1. /\ \A v \in Workers : pc'[v] \in Holding => pc[v] \in Holding
        /\ \A v \in Workers : pc'[v] \in Early => pc[v] \in Early
        /\ \A v \in Workers : pc'[v] \in Late => pc[v] \in Late
    BY <1>3 DEF StartWorkers, Holding, InTest, Early, Late
  <2> QED
    BY <1>3, <2>1, QuietStep DEF StartWorkers
<1>4. CASE LoopsResolved
  BY <1>4, QuietStep DEF LoopsResolved
<1>5. CASE AfterRun
  BY <1>5, QuietStep DEF AfterRun
<1>6. CASE AfterRunError
  BY <1>6, QuietStep DEF AfterRunError
<1>7. ASSUME NEW w \in Workers, LoopStep(w) \/ Answer(w) \/ Timeout(w)
      PROVE  OnePlace' /\ AttemptsOK'
  <2>1. CASE TakeTest(w)
    BY <2>1, TakeStep
  <2>2. CASE Requeue(w)
    BY <2>2, RequeueStep
  <2>3. CASE MoveStep(w)
    <3>1. Moves(w, pc'[w])
      BY <2>3, MoveSteps DEF IInv
    <3> QED
      BY <2>3, <3>1, MovesOnePlace, MovesAttempts DEF IInv
  <2> QED
    BY <1>7, <2>1, <2>2, <2>3 DEF LoopStep, Answer, MoveStep
<1>8. CASE Kill
  BY <1>8, QuietStep DEF Kill
<1>9. CASE KillFinished
  BY <1>9, QuietStep DEF KillFinished
<1>10. ASSUME NEW w \in Workers, WorkerKilled(w)
       PROVE  OnePlace' /\ AttemptsOK'
  <2>1. /\ \A v \in Workers : pc'[v] \in Holding => pc[v] \in Holding
        /\ \A v \in Workers : pc'[v] \in Early => pc[v] \in Early
        /\ \A v \in Workers : pc'[v] \in Late => pc[v] \in Late
    BY <1>10 DEF WorkerKilled, Goto, IInv, Typed, TypeOK, Holding, InTest, Early, Late
  <2> QED
    BY <1>10, <2>1, QuietStep DEF WorkerKilled
<1>11. CASE Finished \/ UNCHANGED vars
  BY <1>11, QuietStep DEF Finished, vars
<1> QED
  BY <1>1, <1>2, <1>3, <1>4, <1>5, <1>6, <1>7, <1>8, <1>9, <1>10, <1>11
  DEF Next, MainStep, StopStep

\* In every run, for any number of tests, workers and retries, and whatever calls
\* reject: a test is in one queue item or in one loop's hands, or has a verdict.
THEOREM OnePlaceHolds == Spec => []OnePlace
<1>1. IInv => OnePlace
  BY DEF IInv
<1> QED
  BY IInvInit, IInvNext, <1>1, PTL DEF Spec

\* In every run no test is executed more than retryCount + 1 times.
THEOREM AttemptsAreBounded == Spec => []AttemptsBounded
<1>1. IInv => AttemptsBounded
  BY DEF IInv, AttemptsOK
<1> QED
  BY IInvInit, IInvNext, <1>1, PTL DEF Spec

-----------------------------------------------------------------------------
(* The scheduler implements TestRun                                        *)

LEMMA OwnerFacts ==
  OnePlace =>
    /\ Owner \in [Tests -> Workers \cup {0}]
    /\ \A t \in Tests, w \in Workers : Owner[t] = w <=> Holds(w, t)
<1> SUFFICES ASSUME OnePlace
             PROVE  /\ Owner \in [Tests -> Workers \cup {0}]
                    /\ \A t \in Tests, w \in Workers : Owner[t] = w <=> Holds(w, t)
  OBVIOUS
<1>1. 0 \notin Workers
  BY ControllerAssumption DEF Workers
<1>2. ASSUME NEW t \in Tests
      PROVE  /\ Owner[t] \in Workers \cup {0}
             /\ \A w \in Workers : Owner[t] = w <=> Holds(w, t)
  <2>1. CASE \E w \in Workers : Holds(w, t)
    <3>1. Owner[t] = CHOOSE w \in Workers : Holds(w, t)
      BY <2>1 DEF Owner
    <3>2. Owner[t] \in Workers /\ Holds(Owner[t], t)
      BY <2>1, <3>1
    <3>3. \A v, w \in Workers : Holds(v, t) /\ Holds(w, t) => v = w
      BY DEF OnePlace, Holds
    <3> QED
      BY <3>2, <3>3
  <2>2. CASE ~ \E w \in Workers : Holds(w, t)
    BY <1>1, <2>2 DEF Owner
  <2> QED
    BY <2>1, <2>2
<1> QED
  BY <1>2 DEF Owner

LEMMA OwnerFactsPrimed ==
  ASSUME OnePlace'
  PROVE  /\ Owner' \in [Tests -> Workers \cup {0}]
         /\ \A t \in Tests, w \in Workers : Owner'[t] = w <=> Holds(w, t)'
<1>1. (OnePlace =>
         /\ Owner \in [Tests -> Workers \cup {0}]
         /\ \A t \in Tests, w \in Workers : Owner[t] = w <=> Holds(w, t))'
  BY OwnerFacts, PTL
<1> QED
  BY <1>1

\* The owners after a step that changes nobody's hands, and after one that changes
\* who holds the test t.
LEMMA SameOwners ==
  ASSUME OnePlace, OnePlace',
         \A v \in Workers, u \in Tests : Holds(v, u)' <=> Holds(v, u)
  PROVE  Owner' = Owner
<1>1. /\ Owner \in [Tests -> Workers \cup {0}] /\ Owner' \in [Tests -> Workers \cup {0}]
      /\ \A t \in Tests, w \in Workers : Owner[t] = w <=> Holds(w, t)
      /\ \A t \in Tests, w \in Workers : Owner'[t] = w <=> Holds(w, t)'
  BY OwnerFacts, OwnerFactsPrimed
<1>2. \A t \in Tests : Owner'[t] = Owner[t]
  BY <1>1
<1> QED
  BY <1>1, <1>2

LEMMA OwnerChange ==
  ASSUME OnePlace, OnePlace', NEW t \in Tests, NEW w \in Workers \cup {0},
         \A v \in Workers, u \in Tests : u # t => (Holds(v, u)' <=> Holds(v, u)),
         \A v \in Workers : Holds(v, t)' <=> v = w
  PROVE  Owner' = [Owner EXCEPT ![t] = w]
<1>1. /\ Owner \in [Tests -> Workers \cup {0}] /\ Owner' \in [Tests -> Workers \cup {0}]
      /\ \A u \in Tests, v \in Workers : Owner[u] = v <=> Holds(v, u)
      /\ \A u \in Tests, v \in Workers : Owner'[u] = v <=> Holds(v, u)'
  BY OwnerFacts, OwnerFactsPrimed
<1>2. \A u \in Tests : u # t => Owner'[u] = Owner[u]
  BY <1>1
<1>3. Owner'[t] = w
  BY <1>1
<1> QED
  BY <1>1, <1>2, <1>3

\* Steps that change nobody's hands, execution or verdict are invisible.
LEMMA InvisibleStep ==
  ASSUME IInv, IInv', UNCHANGED <<starts, verdict>>,
         \A v \in Workers : /\ pc'[v] \in Holding <=> pc[v] \in Holding
                            /\ pc[v] \in Holding => cur'[v] = cur[v]
  PROVE  UNCHANGED Abstract!vars
<1>1. \A v \in Workers, u \in Tests : Holds(v, u)' <=> Holds(v, u)
  BY DEF Holds
<1>2. Owner' = Owner
  BY <1>1, SameOwners DEF IInv
<1> QED
  BY <1>2 DEF Abstract!vars

LEMMA TakeImplements ==
  ASSUME IInv, IInv', NEW w \in Workers, TakeTest(w)
  PROVE  Abstract!Next
<1>0. PICK t \in Tests : t = queue[1].test
  <2>1. queue \in Seq(Item) /\ queue # <<>> /\ 1 \in DOMAIN queue
    BY TailFacts DEF IInv, Typed, TypeOK, TakeTest
  <2> QED
    BY <2>1, ItemTypes DEF IInv
<1>1. /\ cur'[w] = queue[1] /\ 1 \in DOMAIN queue /\ cur'[w].test = t
      /\ pc[w] = "loop" /\ pc'[w] = "shouldNotStart"
      /\ pc[w] \notin Holding /\ pc'[w] \in Holding
      /\ \A v \in Workers : v # w => cur'[v] = cur[v] /\ pc'[v] = pc[v]
      /\ UNCHANGED <<starts, verdict>>
  <2>1. queue \in Seq(Item) /\ queue # <<>> /\ Head(queue) = queue[1] /\ 1 \in DOMAIN queue
    BY TailFacts DEF IInv, Typed, TypeOK, TakeTest
  <2> QED
    BY <1>0, <2>1 DEF IInv, Typed, TypeOK, TakeTest, Goto, testVars, Holding, InTest
<1>2. verdict[t] = "none" /\ \A v \in Workers : ~Holds(v, t)
  BY <1>0, <1>1 DEF IInv, OnePlace, Holds
<1>3. 0 \notin Workers
  BY ControllerAssumption DEF Workers
<1>4. Owner' = [Owner EXCEPT ![t] = w]
  <2>1. \A v \in Workers, u \in Tests : u # t => (Holds(v, u)' <=> Holds(v, u))
    BY <1>1 DEF Holds
  <2>2. \A v \in Workers : Holds(v, t)' <=> v = w
    BY <1>1, <1>2 DEF Holds
  <2> QED
    BY <1>1, <2>1, <2>2, OwnerChange DEF IInv
<1>5. Owner[t] = 0 /\ \A u \in Tests : Owner[u] # w
  BY <1>1, <1>2, <1>3, OwnerFacts DEF IInv, Holds
<1>6. Abstract!Take(t, w)
  BY <1>1, <1>2, <1>4, <1>5 DEF Abstract!Take
<1> QED
  BY <1>1, <1>6 DEF Abstract!Next

LEMMA RequeueImplements ==
  ASSUME IInv, IInv', NEW w \in Workers, Requeue(w)
  PROVE  Abstract!Next
<1>1. /\ pc[w] = "delay" /\ pc'[w] = "beforeTestRetry"
      /\ pc[w] \in Holding /\ pc'[w] \notin Holding
      /\ \A v \in Workers : v # w => pc'[v] = pc[v]
      /\ UNCHANGED <<cur, starts, verdict>>
  BY DEF IInv, Typed, TypeOK, Requeue, Goto, loopVars, testVars, Holding, InTest
<1>2. PICK t \in Tests : t = cur[w].test
  BY <1>1, ItemTypes DEF IInv, Holding
<1>3. \A v \in Workers : v # w => ~Holds(v, t)
  BY <1>1, <1>2 DEF IInv, OnePlace
<1>4. 0 \notin Workers
  BY ControllerAssumption DEF Workers
<1>5. Owner' = [Owner EXCEPT ![t] = 0]
  <2>1. \A v \in Workers, u \in Tests : u # t => (Holds(v, u)' <=> Holds(v, u))
    BY <1>1, <1>2 DEF Holds
  <2>2. \A v \in Workers : Holds(v, t)' <=> v = 0
    BY <1>1, <1>3, <1>4 DEF Holds
  <2> QED
    BY <1>2, <2>1, <2>2, OwnerChange DEF IInv
<1>6. Owner[t] # 0
  BY <1>1, <1>2, <1>4, OwnerFacts DEF IInv, Holds
<1>7. Abstract!GiveBack(t)
  BY <1>1, <1>5, <1>6 DEF Abstract!GiveBack
<1> QED
  BY <1>2, <1>7 DEF Abstract!Next

LEMMA MoveImplements ==
  ASSUME IInv, IInv', NEW w \in Workers, MoveStep(w)
  PROVE  Abstract!Next \/ UNCHANGED Abstract!vars
<1>1. /\ Moves(w, pc'[w])
      /\ ~BeforeTest(w) => UNCHANGED starts
  BY MoveSteps DEF IInv
<1>2. /\ \A v \in Workers : v # w => pc'[v] = pc[v]
      /\ UNCHANGED cur
      /\ pc'[w] \in Holding => pc[w] \in Holding /\ UNCHANGED verdict
  BY <1>1 DEF Moves, IInv, Typed, TypeOK
<1>3. 0 \notin Workers /\ RetryCount \in Nat /\ starts \in [Tests -> Nat]
  BY ControllerAssumption DEF Workers, IInv, Typed, TypeOK
<1>4. CASE pc[w] \notin Holding
  <2>1. ~BeforeTest(w)
    BY <1>4 DEF BeforeTest, Holding, InTest
  <2>2. UNCHANGED <<starts, verdict>>
    BY <1>1, <1>4, <2>1 DEF Moves
  <2> QED
    BY <1>2, <1>4, <2>2, InvisibleStep
<1>5. CASE pc[w] \in Holding
  <2>0. PICK t \in Tests : t = cur[w].test
    BY <1>5, ItemTypes DEF IInv, Holding
  <2>1. verdict[t] = "none" /\ \A v \in Workers : v # w => ~Holds(v, t)
    BY <1>5, <2>0 DEF IInv, OnePlace
  <2>2. Owner[t] = w /\ w # 0
    BY <1>3, <1>5, <2>0, OwnerFacts DEF IInv, Holds
  <2>3. CASE pc'[w] \in Holding
    <3>1. \A v \in Workers, u \in Tests : Holds(v, u)' <=> Holds(v, u)
      BY <1>2, <1>5, <2>3 DEF Holds
    <3>2. Owner' = Owner /\ UNCHANGED verdict
      BY <1>2, <2>3, <3>1, SameOwners DEF IInv
    <3>3. CASE UNCHANGED starts
      BY <3>2, <3>3 DEF Abstract!vars
    <3>4. CASE starts' # starts
      <4>1. BeforeTest(w) /\ pc[w] = "beforeTest" /\ starts' = [starts EXCEPT ![t] = @ + 1]
        BY <1>1, <2>0, <3>4 DEF BeforeTest
      <4>2. starts[t] <= cur[w].retry /\ cur[w].retry \in 0..RetryCount
        BY <1>5, <2>0, <4>1, ItemTypes DEF IInv, AttemptsOK, Early, Holding
      <4>3. starts[t] < RetryCount + 1
        BY <1>3, <4>2
      <4>4. Abstract!Execute(t)
        BY <2>2, <3>2, <4>1, <4>3 DEF Abstract!Execute
      <4> QED
        BY <2>1, <4>4 DEF Abstract!Next
    <3> QED
      BY <3>3, <3>4
  <2>4. CASE pc'[w] \notin Holding
    <3>1. UNCHANGED starts
      <4>1. CASE BeforeTest(w)
        BY <2>4, <4>1 DEF BeforeTest, TestFailed, Goto, Holding, InTest, IInv, Typed, TypeOK
      <4> QED
        BY <1>1, <4>1
    <3>2. Owner' = [Owner EXCEPT ![t] = 0]
      <4>1. \A v \in Workers, u \in Tests : u # t => (Holds(v, u)' <=> Holds(v, u))
        BY <1>2, <2>0, <2>4 DEF Holds
      <4>2. \A v \in Workers : Holds(v, t)' <=> v = 0
        BY <1>2, <1>3, <2>0, <2>1, <2>4 DEF Holds
      <4> QED
        BY <2>1, <4>1, <4>2, OwnerChange DEF IInv
    <3>3. CASE UNCHANGED verdict
      <4>1. Abstract!GiveBack(t)
        BY <2>2, <3>1, <3>2, <3>3 DEF Abstract!GiveBack
      <4> QED
        BY <2>1, <4>1 DEF Abstract!Next
    <3>4. ASSUME NEW v \in {"passed", "failed", "skipped"},
                 v = "passed" => pc[w] \in Late,
                 verdict' = [verdict EXCEPT ![t] = v]
          PROVE  Abstract!Next
      <4>1. v = "passed" => starts[t] > 0
        BY <2>0, <3>4 DEF IInv, AttemptsOK
      <4>2. Abstract!Conclude(t, v)
        BY <2>1, <2>2, <3>1, <3>2, <3>4, <4>1 DEF Abstract!Conclude
      <4> QED
        BY <2>1, <4>2 DEF Abstract!Next
    <3> QED
      BY <1>1, <2>0, <3>3, <3>4 DEF Moves
  <2> QED
    BY <2>3, <2>4
<1> QED
  BY <1>4, <1>5

LEMMA StepImplements ==
  IInv /\ IInv' /\ [Next]_vars => [Abstract!Next]_(Abstract!vars)
<1> SUFFICES ASSUME IInv, IInv', [Next]_vars
             PROVE  Abstract!Next \/ UNCHANGED Abstract!vars
  OBVIOUS
<1> USE DEF mainVars, loopVars, stopVars, testVars
<1>1. CASE MainStep
  <2>1. CASE StartWorkers
    <3>1. \A v \in Workers : pc'[v] \notin Holding /\ pc[v] \notin Holding
      BY <2>1 DEF StartWorkers, IInv, Typed, NotStarted, Holding, InTest
    <3> QED
      BY <2>1, <3>1, InvisibleStep DEF StartWorkers
  <2>2. CASE ~StartWorkers
    <3>1. UNCHANGED <<pc, cur, starts, verdict>>
      BY <1>1, <2>2
      DEF MainStep, PrepareTests, DoNotExecute, LoopsResolved, AfterRun, AfterRunError
    <3> QED
      BY <3>1, InvisibleStep
  <2> QED
    BY <2>1, <2>2
<1>2. ASSUME NEW w \in Workers, LoopStep(w) \/ Answer(w) \/ Timeout(w)
      PROVE  Abstract!Next \/ UNCHANGED Abstract!vars
  <2>1. TakeTest(w) \/ Requeue(w) \/ MoveStep(w)
    BY <1>2 DEF LoopStep, Answer, MoveStep
  <2> QED
    BY <2>1, TakeImplements, RequeueImplements, MoveImplements
<1>3. CASE StopStep
  <2>1. ASSUME NEW w \in Workers, WorkerKilled(w)
        PROVE  UNCHANGED Abstract!vars
    <3>1. \A v \in Workers : pc'[v] \in Holding <=> pc[v] \in Holding
      BY <2>1 DEF WorkerKilled, Goto, IInv, Typed, TypeOK, Holding, InTest
    <3> QED
      BY <2>1, <3>1, InvisibleStep DEF WorkerKilled
  <2>2. CASE Kill \/ KillFinished
    BY <2>2, InvisibleStep DEF Kill, KillFinished
  <2> QED
    BY <1>3, <2>1, <2>2 DEF StopStep
<1>4. CASE Finished \/ UNCHANGED vars
  BY <1>4, InvisibleStep DEF Finished, vars
<1> QED
  BY <1>1, <1>2, <1>3, <1>4 DEF Next

LEMMA InitImplements == Init => Abstract!Init
<1> SUFFICES ASSUME Init PROVE Abstract!Init
  OBVIOUS
<1>1. \A w \in Workers, t \in Tests : ~Holds(w, t)
  BY DEF Init, Holds, Holding, InTest
<1>2. Owner = [t \in Tests |-> 0]
  BY <1>1 DEF Owner
<1> QED
  BY <1>2 DEF Init, Abstract!Init

\* For any number of tests, workers and retries, whatever calls reject and whenever
\* kill() is called, every run of the scheduler is a run of TestRun: a test is taken
\* by one worker at a time, executed at most retryCount + 1 times, concluded at
\* most once, and passes only after it was executed.
THEOREM SchedulerImplementsTestRun == Spec => ImplementsTestRun
<1>1. Spec => []IInv
  BY IInvInit, IInvNext, PTL DEF Spec
<1> QED
  BY <1>1, InitImplements, StepImplements, PTL DEF Spec, ImplementsTestRun, Abstract!Spec

LEMMA FinalStep ==
  IInv /\ IInv' /\ [Next]_vars =>
    \A t \in Tests : verdict[t] # "none" => starts'[t] = starts[t] /\ verdict'[t] = verdict[t]
<1> SUFFICES ASSUME IInv, IInv', [Next]_vars, NEW t \in Tests, verdict[t] # "none"
             PROVE  starts'[t] = starts[t] /\ verdict'[t] = verdict[t]
  OBVIOUS
<1>1. Abstract!Next \/ UNCHANGED Abstract!vars
  BY StepImplements
<1>2. Owner[t] = 0
  <2>1. \A w \in Workers : ~Holds(w, t)
    BY DEF IInv, OnePlace, Holds
  <2> QED
    BY <2>1 DEF Owner
<1>3. starts \in [Tests -> Nat] /\ verdict \in [Tests -> {"none", "passed", "failed", "skipped"}]
  BY DEF IInv, Typed, TypeOK
<1>4. ASSUME NEW u \in Tests, Owner[u] # 0,
             \/ starts' = [starts EXCEPT ![u] = @ + 1] /\ UNCHANGED verdict
             \/ UNCHANGED starts /\ \E v : verdict' = [verdict EXCEPT ![u] = v]
      PROVE  starts'[t] = starts[t] /\ verdict'[t] = verdict[t]
  BY <1>2, <1>3, <1>4
<1>5. UNCHANGED <<starts, verdict>> \/
      \E u \in Tests :
        /\ Owner[u] # 0
        /\ \/ starts' = [starts EXCEPT ![u] = @ + 1] /\ UNCHANGED verdict
           \/ UNCHANGED starts /\ \E v : verdict' = [verdict EXCEPT ![u] = v]
  BY <1>1
  DEF Abstract!Next, Abstract!vars, Abstract!Take, Abstract!Execute, Abstract!GiveBack,
      Abstract!Conclude
<1> QED
  BY <1>4, <1>5

\* In every run a test with a verdict keeps it and is not executed again.
THEOREM VerdictsAreFinal == Spec => VerdictIsFinal
<1>1. Spec => []IInv
  BY IInvInit, IInvNext, PTL DEF Spec
<1>2. IInv /\ IInv' /\ [Next]_vars =>
        [\A t \in Tests : verdict[t] # "none" =>
           starts'[t] = starts[t] /\ verdict'[t] = verdict[t]]_vars
  BY FinalStep
<1> QED
  BY <1>1, <1>2, PTL DEF Spec, VerdictIsFinal

-----------------------------------------------------------------------------
(* What is reported, what is left, what the result says                    *)

\* A test passes because its worker has reported it, unless kill() answers for it.
Heard ==
  stop = "no" =>
    /\ killing = {}
    /\ \A w \in Workers : pc[w] = "afterPass" => cur[w].test \in reported
    /\ \A t \in Tests : verdict[t] = "passed" => t \in reported

\* A test that was reported passes, when no afterTest hook rejects.
Believed ==
  "afterTest" \notin Failing =>
    \A t \in reported :
      verdict[t] # "none" \/ \E w \in Workers : pc[w] = "afterPass" /\ cur[w].test = t

\* A loop that has not started, or has ended by itself, has no process.
Reaped == \A w \in alive : ~Local /\ pc[w] \notin {"idle", "done"}

\* A test of the queue that has no verdict is in an item or in a loop's hands, as long
\* as nobody calls kill() and no loop was given up.
Located ==
  (stop = "no" /\ \A w \in Workers : pc[w] # "rejected") =>
    \A t \in planned : verdict[t] = "none" =>
      \/ \E i \in DOMAIN queue : queue[i].test = t
      \/ \E w \in Workers : Holds(w, t)

\* Whoever pushes an item is not leaving.
Attended ==
  /\ main \in {"beforeRun", "shouldNotExecute"} => workers = {}
  /\ (stop = "no" /\ workers # {} /\ queue # <<>>) =>
       \E w \in Workers : pc[w] \notin {"idle", "done", "finalKill"}

\* A test that has failed for good is in this.errors, or bail lets its error settle the run.
Recorded ==
  /\ \A t \in Tests : verdict[t] = "failed" =>
       \/ \E i \in DOMAIN errors : errors[i] = t
       \/ \E w \in Workers : pc[w] = "bail" /\ cur[w].test = t
       \/ Bail /\ main \in {"afterRunError", "errors", "rejected"}
  /\ \A i \in DOMAIN errors : errors[i] \in Tests => verdict[errors[i]] = "failed"
  /\ \A i, j \in DOMAIN errors : errors[i] \in Tests /\ errors[i] = errors[j] => i = j
  /\ fault \in Tests => verdict[fault] = "failed"
  /\ \A w \in Workers : pc[w] = "bail" => verdict[cur[w].test] = "failed"

\* The ways to this.errors: onTestFailed without bail, and the catch of runQueue.
Tolerated ==
  /\ Bail => /\ \A w \in Workers : pc[w] # "shouldNotRetry"
             /\ main # "errors" => errors = <<>>
  /\ ~Bail => fault \notin Tests /\ \A w \in Workers : pc[w] # "bail"
  /\ main \in {"beforeRun", "shouldNotExecute", "null"} => errors = <<>>
  /\ main \in {"afterRun", "null"} => \A w \in Workers : pc[w] \in {"idle", "done"}

ResultInv == Heard /\ Believed /\ Reaped /\ Located /\ Attended /\ Recorded /\ Tolerated

\* What a step of the loop w does to everything but the queue.
LoopEffect(w) ==
  /\ UNCHANGED <<planned, workers, stop, killing>>
  /\ \A v \in Workers \ {w} : pc'[v] = pc[v] /\ cur'[v] = cur[v]
  /\ pc[w] \notin Idle /\ pc'[w] # "idle"
  /\ pc[w] \in Holding => cur'[w] = cur[w]
  /\ \/ UNCHANGED verdict
     \/ /\ pc[w] \in Holding /\ pc'[w] \notin Holding
        /\ \E v \in {"passed", "failed", "skipped"} :
             /\ verdict' = [verdict EXCEPT ![cur[w].test] = v]
             /\ v = "passed" => pc[w] = "afterPass"
  /\ \/ UNCHANGED reported
     \/ /\ pc[w] = "beforeTest" /\ UNCHANGED verdict
        /\ reported' = reported \ {cur[w].test}
     \/ pc'[w] = "afterPass"
  /\ pc'[w] = "afterPass" =>
       /\ pc[w] = "execute" /\ UNCHANGED verdict
       /\ reported' = reported \cup {cur[w].test}
  /\ pc[w] = "afterPass" =>
       /\ UNCHANGED reported
       /\ verdict' = [verdict EXCEPT ![cur[w].test] = "passed"] \/ "afterTest" \in Failing
  /\ alive' \subseteq alive \cup {w}
  /\ Local => alive' \subseteq alive
  /\ pc'[w] = "done" => Local \/ w \notin alive'
  /\ \/ UNCHANGED errors /\ (pc[w] # "shouldNotRetry" \/ UNCHANGED verdict)
     \/ /\ pc[w] = "shouldNotRetry" /\ errors' = Append(errors, cur[w].test)
        /\ verdict' = [verdict EXCEPT ![cur[w].test] = "failed"]
  /\ verdict' = [verdict EXCEPT ![cur[w].test] = "failed"] =>
       UNCHANGED verdict \/ pc'[w] = "bail" \/ pc[w] = "shouldNotRetry"
  /\ pc'[w] = "shouldNotRetry" => ~Bail
  /\ pc'[w] = "bail" =>
       Bail /\ pc[w] \in Holding /\ verdict' = [verdict EXCEPT ![cur[w].test] = "failed"]
  /\ \/ UNCHANGED <<main, fault>> /\ (pc'[w] = "rejected" => main # "loops")
     \/ /\ main = "loops" /\ main' = "afterRunError" /\ pc'[w] = "rejected"
        /\ fault' \in {"hook", "kill"} \/ (pc[w] = "bail" /\ fault' = cur[w].test)
  /\ pc[w] = "bail" => pc'[w] = "rejected" /\ cur'[w] = cur[w]
  /\ pc'[w] \in {"done", "finalKill"} =>
       pc[w] = "finalKill" \/ (queue = <<>> /\ UNCHANGED queue)

LEMMA LoopEffects ==
  ASSUME IInv, NEW w \in Workers, LoopStep(w) \/ Answer(w) \/ Timeout(w)
  PROVE  LoopEffect(w)
<1>1. \A l : pc' = [pc EXCEPT ![w] = l] => pc'[w] = l /\ \A v \in Workers \ {w} : pc'[v] = pc[v]
  BY DEF IInv, Typed, TypeOK
<1>2. \A x : cur' = [cur EXCEPT ![w] = x] => \A v \in Workers \ {w} : cur'[v] = cur[v]
  BY DEF IInv, Typed, TypeOK
<1>3. pc[w] \in InTest => cur[w].test \in Tests
  BY ItemTypes DEF IInv
<1>4. verdict \in [Tests -> {"none", "passed", "failed", "skipped"}]
  BY DEF IInv, Typed, TypeOK
<1> USE <1>1, <1>2 DEF LoopEffect, Holding, InTest, Idle, mainVars, stopVars, testVars, loopVars
<1>5. CASE TakeTest(w)
  BY <1>5 DEF TakeTest, Goto
<1>6. CASE LeaveLoop(w)
  BY <1>6 DEF LeaveLoop, Goto
<1>7. CASE ShouldNotStart(w)
  BY <1>3, <1>4, <1>7 DEF ShouldNotStart, Goto, Return, TestFailed
<1>8. CASE BeforeTest(w)
  BY <1>3, <1>4, <1>8 DEF BeforeTest, Goto, TestFailed
<1>9. CASE TimeoutKill(w)
  BY <1>3, <1>4, <1>9 DEF TimeoutKill, Goto, TestFailed, Throw
<1>10. CASE AfterPass(w)
  BY <1>3, <1>4, <1>10 DEF AfterPass, Goto, Return, TestFailed
<1>11. CASE BailOut(w)
  BY <1>11 DEF BailOut, Goto, Throw
<1>12. CASE ShouldNotRetry(w)
  <2>0. /\ pc[w] = "shouldNotRetry"
        /\ UNCHANGED <<planned, workers, queue, cur, alive, stopVars, starts, reported>>
    BY <1>12 DEF ShouldNotRetry
  <2>1. CASE Goto(w, "delay") /\ UNCHANGED <<main, fault, errors, verdict>>
    <3>1. pc'[w] = "delay" /\ \A v \in Workers \ {w} : pc'[v] = pc[v]
      BY <2>1 DEF Goto
    <3> QED
      BY <2>0, <2>1, <3>1
  <2>2. CASE /\ errors' = Append(errors, cur[w].test)
             /\ verdict' = [verdict EXCEPT ![cur[w].test] = "failed"]
             /\ Goto(w, "afterFail") /\ UNCHANGED <<main, fault>>
    <3>1. pc'[w] = "afterFail" /\ \A v \in Workers \ {w} : pc'[v] = pc[v]
      BY <2>2 DEF Goto
    <3> QED
      BY <2>0, <2>2, <3>1
  <2>3. CASE Throw(w, "hook") /\ UNCHANGED <<errors, verdict>>
    BY <2>0, <2>3 DEF Goto, Throw
  <2> QED
    BY <1>12, <2>1, <2>2, <2>3 DEF ShouldNotRetry
<1>13. CASE Requeue(w)
  BY <1>13 DEF Requeue, Goto
<1>14. CASE LastHook(w)
  BY <1>14 DEF LastHook, Goto, Return, Throw
<1>15. CASE LoopKill(w)
  BY <1>15 DEF LoopKill, Goto, Throw
<1>16. CASE ExecutePassed(w)
  BY <1>16 DEF ExecutePassed, Goto
<1>17. CASE ExecuteFailed(w)
  BY <1>3, <1>4, <1>17 DEF ExecuteFailed, Goto, TestFailed
<1>18. CASE Timeout(w)
  BY <1>18 DEF Timeout, Goto
<1> QED
  BY <1>5, <1>6, <1>7, <1>8, <1>9, <1>10, <1>11, <1>12, <1>13, <1>14, <1>15, <1>16, <1>17, <1>18
     DEF LoopStep, Answer

\* What it does to the queue, and where it drops a test without a verdict.
QueueEffect(w) ==
  /\ pc[w] \in Holding /\ pc'[w] \notin Holding /\ UNCHANGED verdict =>
       pc'[w] = "rejected" \/ pc[w] = "delay"
  /\ \/ UNCHANGED queue /\ pc[w] # "delay"
     \/ TakeTest(w) \/ Requeue(w)

LEMMA QueueEffects ==
  ASSUME IInv, NEW w \in Workers, LoopStep(w) \/ Answer(w) \/ Timeout(w)
  PROVE  QueueEffect(w)
<1>1. \A l : pc' = [pc EXCEPT ![w] = l] => pc'[w] = l
  BY DEF IInv, Typed, TypeOK
<1>2. pc[w] \in InTest => cur[w].test \in Tests
  BY ItemTypes DEF IInv
<1>3. verdict \in [Tests -> {"none", "passed", "failed", "skipped"}]
  BY DEF IInv, Typed, TypeOK
<1>4. CASE TakeTest(w)
  BY <1>4 DEF QueueEffect, TakeTest, Holding, InTest
<1>5. CASE Requeue(w)
  BY <1>5 DEF QueueEffect, Requeue
<1>6. CASE MoveStep(w)
  <2>1. UNCHANGED queue
    BY <1>6, MoveSteps DEF Moves, IInv
  <2>2. pc[w] # "delay"
    BY <1>6 DEF MoveStep, LeaveLoop, ShouldNotStart, BeforeTest, TimeoutKill, AfterPass,
         BailOut, ShouldNotRetry, LastHook, LoopKill, ExecutePassed, ExecuteFailed, Timeout
  <2> SUFFICES ASSUME pc[w] \in Holding, pc'[w] \notin Holding, UNCHANGED verdict
               PROVE  pc'[w] = "rejected"
    BY <2>1, <2>2 DEF QueueEffect
  <2>3. verdict[cur[w].test] = "none" /\ pc[w] \in InTest
    BY DEF IInv, OnePlace, Holding
  <2> USE <1>1, <1>2, <1>3, <2>3 DEF Holding, InTest
  <2>4. CASE ShouldNotStart(w)
    BY <2>4 DEF ShouldNotStart, Goto, TestFailed
  <2>5. CASE BeforeTest(w)
    BY <2>5 DEF BeforeTest, Goto, TestFailed
  <2>6. CASE TimeoutKill(w)
    BY <2>6 DEF TimeoutKill, Goto, TestFailed, Throw
  <2>7. CASE AfterPass(w)
    BY <2>7 DEF AfterPass, Goto, TestFailed
  <2>8. CASE ShouldNotRetry(w)
    BY <2>8 DEF ShouldNotRetry, Goto, Throw
  <2>9. CASE ExecutePassed(w) \/ ExecuteFailed(w) \/ Timeout(w)
    BY <2>9 DEF ExecutePassed, ExecuteFailed, Timeout, Goto, TestFailed
  <2>10. CASE LeaveLoop(w) \/ BailOut(w) \/ LastHook(w) \/ LoopKill(w)
    BY <2>10 DEF LeaveLoop, BailOut, LastHook, LoopKill
  <2> QED
    BY <1>6, <2>4, <2>5, <2>6, <2>7, <2>8, <2>9, <2>10 DEF MoveStep
<1> QED
  BY <1>4, <1>5, <1>6 DEF LoopStep, Answer, MoveStep

\* What the other steps leave alone.
LEMMA QuietEffects ==
  ASSUME IInv
  PROVE  /\ MainStep =>
              /\ UNCHANGED <<cur, alive, stop, killing, verdict, reported>>
              /\ \A v \in Workers : pc'[v] = pc[v] \/ pc'[v] \in {"idle", "loop"}
              /\ StartWorkers \/ UNCHANGED <<pc, workers>>
              /\ PrepareTests \/ UNCHANGED <<planned, queue>>
         /\ StopStep => stop' # "no" \/ (\E w \in Workers : WorkerKilled(w))
         /\ \A w \in Workers : WorkerKilled(w) => w \in killing /\ stop' \in {stop, "failed"}
         /\ Finished => UNCHANGED vars
<1>1. MainStep =>
        /\ UNCHANGED <<cur, alive, stop, killing, verdict, reported>>
        /\ \A v \in Workers : pc'[v] = pc[v] \/ pc'[v] \in {"idle", "loop"}
        /\ StartWorkers \/ UNCHANGED <<pc, workers>>
        /\ PrepareTests \/ UNCHANGED <<planned, queue>>
  <2> USE DEF mainVars, loopVars, stopVars, testVars
  <2>1. PrepareTests => UNCHANGED <<cur, alive, stop, killing, verdict, reported, pc, workers>>
    BY DEF PrepareTests
  <2>2. StartWorkers =>
          /\ UNCHANGED <<cur, alive, stop, killing, verdict, reported, planned, queue>>
          /\ \A v \in Workers : pc'[v] = pc[v] \/ pc'[v] \in {"idle", "loop"}
    BY DEF StartWorkers
  <2>3. DoNotExecute \/ LoopsResolved \/ AfterRun \/ AfterRunError =>
          UNCHANGED <<cur, alive, stop, killing, verdict, reported, planned, queue, pc, workers>>
    BY DEF DoNotExecute, LoopsResolved, AfterRun, AfterRunError
  <2> QED
    BY <2>1, <2>2, <2>3 DEF MainStep
<1>2. /\ StopStep => stop' # "no" \/ (\E w \in Workers : WorkerKilled(w))
      /\ \A w \in Workers : WorkerKilled(w) => w \in killing /\ stop' \in {stop, "failed"}
  BY DEF StopStep, Kill, KillFinished, WorkerKilled
<1>3. Finished => UNCHANGED vars
  BY DEF Finished
<1> QED
  BY <1>1, <1>2, <1>3

LEMMA HeardNext ==
  ASSUME IInv, IInv', Heard, [Next]_vars
  PROVE  Heard'
<1> SUFFICES ASSUME stop' = "no"
             PROVE  /\ killing' = {}
                    /\ \A w \in Workers : pc'[w] = "afterPass" => cur'[w].test \in reported'
                    /\ \A t \in Tests : verdict'[t] = "passed" => t \in reported'
  BY DEF Heard
<1>1. verdict \in [Tests -> {"none", "passed", "failed", "skipped"}]
  BY DEF IInv, Typed, TypeOK
<1>2. CASE MainStep
  BY <1>2, QuietEffects DEF Heard
<1>3. ASSUME NEW w \in Workers, LoopStep(w) \/ Answer(w) \/ Timeout(w)
      PROVE  /\ killing' = {}
             /\ \A v \in Workers : pc'[v] = "afterPass" => cur'[v].test \in reported'
             /\ \A t \in Tests : verdict'[t] = "passed" => t \in reported'
  <2>1. LoopEffect(w)
    BY <1>3, LoopEffects
  <2>2. /\ killing = {} /\ killing' = {}
        /\ \A v \in Workers : pc[v] = "afterPass" => cur[v].test \in reported
        /\ \A t \in Tests : verdict[t] = "passed" => t \in reported
    BY <2>1 DEF LoopEffect, Heard
  <2>3. ASSUME NEW v \in Workers, pc'[v] = "afterPass"
        PROVE  cur'[v].test \in reported'
    <3>1. CASE v = w
      BY <2>1, <2>2, <3>1, <2>3 DEF LoopEffect, Holding, InTest
    <3>2. CASE v # w
      <4>1. pc[v] = "afterPass" /\ cur'[v] = cur[v] /\ cur[v].test \in reported
        BY <2>1, <2>2, <2>3, <3>2 DEF LoopEffect
      <4>2. pc[w] = "beforeTest" => cur[v].test # cur[w].test
        BY <3>2, <4>1 DEF IInv, OnePlace, Holds, Holding, InTest
      <4> QED
        BY <2>1, <4>1, <4>2 DEF LoopEffect
    <3> QED
      BY <3>1, <3>2
  <2>4. ASSUME NEW t \in Tests, verdict'[t] = "passed"
        PROVE  t \in reported'
    <3>1. CASE verdict[t] = "passed"
      <4>1. pc[w] = "beforeTest" => cur[w].test # t
        BY <3>1 DEF IInv, OnePlace, Holding, InTest
      <4> QED
        BY <2>1, <2>2, <3>1, <4>1 DEF LoopEffect
    <3>2. CASE verdict[t] # "passed"
      <4>1. pc[w] = "afterPass" /\ t = cur[w].test
        BY <1>1, <2>1, <2>4, <3>2 DEF LoopEffect
      <4> QED
        BY <2>1, <2>2, <4>1 DEF LoopEffect
    <3> QED
      BY <3>1, <3>2
  <2> QED
    BY <2>2, <2>3, <2>4
<1>4. CASE StopStep
  <2>1. ~ \E w \in Workers : WorkerKilled(w)
    BY QuietEffects DEF Heard
  <2> QED
    BY <1>4, <2>1, QuietEffects
<1>5. CASE Finished \/ UNCHANGED vars
  BY <1>5, QuietEffects DEF Heard, vars, stopVars, loopVars, testVars
<1> QED
  BY <1>2, <1>3, <1>4, <1>5 DEF Next

LEMMA BelievedNext ==
  ASSUME IInv, IInv', Believed, [Next]_vars
  PROVE  Believed'
<1> SUFFICES ASSUME "afterTest" \notin Failing, NEW t \in reported', verdict'[t] = "none"
             PROVE  \E v \in Workers : pc'[v] = "afterPass" /\ cur'[v].test = t
  BY DEF Believed
<1>1. /\ verdict \in [Tests -> {"none", "passed", "failed", "skipped"}]
      /\ reported \subseteq Tests /\ reported' \subseteq Tests
  BY DEF IInv, Typed, TypeOK
<1>2. \A v \in Workers : pc[v] = "afterPass" => pc[v] \in Holding
  BY DEF Holding, InTest
<1>3. t \in reported /\ verdict[t] = "none" =>
        \E v \in Workers : pc[v] = "afterPass" /\ cur[v].test = t
  BY DEF Believed
<1>4. CASE MainStep
  <2>1. UNCHANGED <<cur, verdict, reported>>
    BY <1>4, QuietEffects
  <2>2. CASE StartWorkers
    BY <1>3, <2>1, <2>2 DEF StartWorkers, IInv, Typed, NotStarted
  <2>3. CASE UNCHANGED pc
    BY <1>3, <2>1, <2>3
  <2> QED
    BY <1>4, <2>2, <2>3, QuietEffects
<1>5. ASSUME NEW w \in Workers, LoopStep(w) \/ Answer(w) \/ Timeout(w)
      PROVE  \E v \in Workers : pc'[v] = "afterPass" /\ cur'[v].test = t
  <2>1. LoopEffect(w)
    BY <1>5, LoopEffects
  <2>2. CASE pc'[w] = "afterPass" /\ t = cur[w].test
    BY <2>1, <2>2 DEF LoopEffect, Holding, InTest
  <2>3. CASE ~(pc'[w] = "afterPass" /\ t = cur[w].test)
    <3>1. t \in reported
      BY <2>1, <2>3 DEF LoopEffect
    <3>2. verdict[t] = "none"
      <4>1. \A u \in Tests : verdict[u] # "none" => verdict'[u] = verdict[u]
        BY FinalStep
      <4> QED
        BY <1>1, <4>1
    <3>3. PICK v \in Workers : pc[v] = "afterPass" /\ cur[v].test = t
      BY <1>3, <3>1, <3>2
    <3>4. v # w
      <4>1. SUFFICES ASSUME v = w PROVE FALSE
        OBVIOUS
      <4>2. verdict' = [verdict EXCEPT ![t] = "passed"]
        BY <2>1, <3>3, <4>1 DEF LoopEffect
      <4> QED
        BY <1>1, <4>2
    <3> QED
      BY <2>1, <3>3, <3>4 DEF LoopEffect
  <2> QED
    BY <2>2, <2>3
<1>6. CASE Kill \/ KillFinished
  BY <1>3, <1>6 DEF Kill, KillFinished, loopVars, testVars
<1>7. ASSUME NEW w \in Workers, WorkerKilled(w)
      PROVE  \E v \in Workers : pc'[v] = "afterPass" /\ cur'[v].test = t
  <2>1. /\ UNCHANGED <<cur, verdict, reported>>
        /\ \A v \in Workers : pc[v] = "afterPass" => pc'[v] = "afterPass"
    BY <1>7 DEF WorkerKilled, Goto, testVars, IInv, Typed, TypeOK
  <2> QED
    BY <1>3, <2>1
<1>8. CASE Finished \/ UNCHANGED vars
  BY <1>3, <1>8, QuietEffects DEF vars, loopVars, testVars
<1> QED
  BY <1>4, <1>5, <1>6, <1>7, <1>8 DEF Next, StopStep

LEMMA ReapedNext ==
  ASSUME IInv, IInv', Reaped, [Next]_vars
  PROVE  Reaped'
<1> SUFFICES ASSUME NEW v \in alive'
             PROVE  ~Local /\ pc'[v] \notin {"idle", "done"}
  BY DEF Reaped
<1>0. v \in Workers /\ alive \subseteq Workers
  BY DEF IInv, Typed, TypeOK
<1>1. CASE MainStep
  <2>1. v \in alive
    BY <1>1, QuietEffects
  <2>2. CASE StartWorkers
    BY <1>0, <2>1, <2>2 DEF StartWorkers, IInv, Typed, NotStarted, Reaped
  <2> QED
    BY <1>1, <2>1, <2>2, QuietEffects DEF Reaped
<1>2. ASSUME NEW w \in Workers, LoopStep(w) \/ Answer(w) \/ Timeout(w)
      PROVE  ~Local /\ pc'[v] \notin {"idle", "done"}
  <2>1. LoopEffect(w)
    BY <1>2, LoopEffects
  <2>2. CASE v = w
    BY <2>1, <2>2 DEF LoopEffect, Reaped
  <2>3. CASE v # w
    BY <1>0, <2>1, <2>3 DEF LoopEffect, Reaped
  <2> QED
    BY <2>2, <2>3
<1>3. CASE Kill \/ KillFinished
  BY <1>3 DEF Kill, KillFinished, loopVars, Reaped
<1>4. ASSUME NEW w \in Workers, WorkerKilled(w)
      PROVE  ~Local /\ pc'[v] \notin {"idle", "done"}
  <2>1. v \in alive /\ pc'[v] \in {pc[v], "afterPass"}
    BY <1>0, <1>4 DEF WorkerKilled, Goto, IInv, Typed, TypeOK
  <2> QED
    BY <2>1 DEF Reaped
<1>5. CASE Finished \/ UNCHANGED vars
  BY <1>5, QuietEffects DEF vars, loopVars, Reaped
<1> QED
  BY <1>1, <1>2, <1>3, <1>4, <1>5 DEF Next, StopStep

LEMMA LocatedNext ==
  ASSUME IInv, IInv', Heard, Located, [Next]_vars
  PROVE  Located'
<1> DEFINE Found(t) == \/ \E i \in DOMAIN queue : queue[i].test = t
                       \/ \E w \in Workers : Holds(w, t)
<1> SUFFICES ASSUME stop' = "no", \A w \in Workers : pc'[w] # "rejected",
                    NEW t \in planned', verdict'[t] = "none"
             PROVE  Found(t)'
  BY DEF Located
<1>0. /\ verdict \in [Tests -> {"none", "passed", "failed", "skipped"}]
      /\ planned \subseteq Tests /\ planned' \subseteq Tests
      /\ queue \in Seq(Item) /\ DOMAIN queue = 1..Len(queue) /\ Len(queue) \in Nat
  BY DEF IInv, Typed, TypeOK
<1>1. verdict[t] = "none"
  <2>1. \A u \in Tests : verdict[u] # "none" => verdict'[u] = verdict[u]
    BY FinalStep
  <2> QED
    BY <1>0, <2>1
<1>2. ASSUME stop = "no", \A w \in Workers : pc[w] # "rejected", t \in planned
      PROVE  Found(t)
  BY <1>1, <1>2 DEF Located
<1>3. CASE MainStep
  <2>1. UNCHANGED <<cur, stop>>
    BY <1>3, QuietEffects
  <2>2. ASSUME NEW plan \in Plans,
               queue' = [i \in DOMAIN plan |-> [test |-> plan[i], retry |-> 0]],
               planned' = {plan[i] : i \in DOMAIN plan}
        PROVE  Found(t)'
    BY <2>2
  <2>3. CASE PrepareTests /\ UNCHANGED <<queue, planned>>
    <3>1. UNCHANGED pc
      BY <2>3 DEF PrepareTests, loopVars
    <3> QED
      BY <1>2, <2>1, <2>3, <3>1 DEF Holds
  <2>4. CASE StartWorkers
    <3>1. UNCHANGED <<queue, planned>> /\ \A w \in Workers : pc[w] = "idle"
      BY <2>4 DEF StartWorkers, IInv, Typed, NotStarted
    <3>2. Found(t) /\ ~ \E w \in Workers : Holds(w, t)
      BY <1>2, <2>1, <3>1 DEF Holds, Holding, InTest
    <3> QED
      BY <3>1, <3>2
  <2>5. CASE ~PrepareTests /\ ~StartWorkers
    <3>1. UNCHANGED <<queue, planned, pc>>
      BY <1>3, <2>5, QuietEffects
    <3> QED
      BY <1>2, <2>1, <3>1 DEF Holds
  <2> QED
    BY <2>2, <2>3, <2>4, <2>5 DEF PrepareTests
<1>4. ASSUME NEW w \in Workers, LoopStep(w) \/ Answer(w) \/ Timeout(w)
      PROVE  Found(t)'
  <2>1. LoopEffect(w) /\ QueueEffect(w)
    BY <1>4, LoopEffects, QueueEffects
  <2>2. Found(t)
    <3>1. stop = "no" /\ planned' = planned /\ \A v \in Workers : pc[v] # "rejected"
      BY <2>1 DEF LoopEffect, Idle
    <3> QED
      BY <1>2, <3>1
  <2>3. ASSUME NEW v \in Workers \ {w}, Holds(v, t)
        PROVE  Found(t)'
    BY <2>1, <2>3 DEF LoopEffect, Holds
  <2>4. CASE TakeTest(w)
    <3>1. /\ queue # <<>> /\ queue' = Tail(queue) /\ cur'[w] = queue[1]
          /\ pc'[w] \in Holding /\ pc[w] \notin Holding
      BY <1>0, <2>4, TailFacts
         DEF TakeTest, Goto, Holding, InTest, IInv, Typed, TypeOK
    <3>2. ASSUME NEW i \in DOMAIN queue, queue[i].test = t
          PROVE  Found(t)'
      <4>1. CASE i = 1
        BY <3>1, <3>2, <4>1 DEF Holds
      <4>2. CASE i # 1
        <5>1. i - 1 \in DOMAIN queue' /\ queue'[i - 1] = queue[i]
          BY <1>0, <3>1, <4>2, TailFacts
        <5> QED
          BY <3>2, <5>1
      <4> QED
        BY <4>1, <4>2
    <3>3. ~Holds(w, t)
      BY <3>1 DEF Holds
    <3> QED
      BY <2>2, <2>3, <3>2, <3>3
  <2>5. CASE Requeue(w)
    <3>1. pc[w] = "delay" /\ cur[w] \in Item /\ cur[w].retry < RetryCount
      BY <2>5 DEF Requeue, IInv, Typed, CurOK, InTest
    <3>2. PICK x \in Item : x.test = cur[w].test /\ queue' = Append(queue, x)
      <4>1. [cur[w] EXCEPT !.retry = @ + 1] \in Item
        BY <3>1, RetriedItem
      <4>2. [cur[w] EXCEPT !.retry = @ + 1].test = cur[w].test
        BY <3>1 DEF Item
      <4> QED
        BY <2>5, <4>1, <4>2 DEF Requeue
    <3>3. /\ \A i \in DOMAIN queue : i \in DOMAIN queue' /\ queue'[i] = queue[i]
          /\ Len(queue) + 1 \in DOMAIN queue' /\ queue'[Len(queue) + 1] = x
      BY <1>0, <3>2, QueueFacts
    <3>4. Holds(w, t) => x.test = t
      BY <3>2 DEF Holds
    <3> QED
      BY <2>2, <2>3, <3>3, <3>4
  <2>6. CASE UNCHANGED queue /\ pc[w] # "delay"
    <3>1. ASSUME Holds(w, t)
          PROVE  Found(t)'
      <4>1. pc[w] \in Holding /\ cur'[w] = cur[w] /\ cur[w].test = t
        BY <2>1, <3>1 DEF LoopEffect, Holds
      <4>2. UNCHANGED verdict
        BY <1>0, <2>1, <4>1 DEF LoopEffect
      <4>3. pc'[w] \in Holding
        BY <2>1, <2>6, <4>1, <4>2 DEF QueueEffect
      <4> QED
        BY <4>1, <4>3 DEF Holds
    <3> QED
      BY <2>2, <2>3, <2>6, <3>1
  <2> QED
    BY <2>1, <2>4, <2>5, <2>6 DEF QueueEffect
<1>5. CASE StopStep
  <2>1. ~ \E w \in Workers : WorkerKilled(w)
    <3> SUFFICES ASSUME NEW w \in Workers, WorkerKilled(w) PROVE FALSE
      OBVIOUS
    <3>1. stop = "no" /\ w \in killing
      BY QuietEffects
    <3> QED
      BY <3>1 DEF Heard
  <2> QED
    BY <1>5, <2>1, QuietEffects
<1>6. CASE Finished \/ UNCHANGED vars
  <2>1. UNCHANGED <<queue, pc, cur, planned, stop>>
    BY <1>6, QuietEffects DEF vars, mainVars, loopVars, stopVars
  <2> QED
    BY <1>2, <2>1 DEF Holds
<1> QED
  BY <1>3, <1>4, <1>5, <1>6 DEF Next

LEMMA AttendedNext ==
  ASSUME IInv, IInv', Heard, Attended, [Next]_vars
  PROVE  Attended'
<1>1. ASSUME main' \in {"beforeRun", "shouldNotExecute"}
      PROVE  workers' = {}
  <2>1. main \in {"beforeRun", "shouldNotExecute"} => workers = {}
    BY DEF Attended
  <2>2. CASE MainStep
    BY <1>1, <2>1, <2>2
       DEF MainStep, PrepareTests, DoNotExecute, StartWorkers, LoopsResolved, AfterRun,
           AfterRunError, Settle
  <2>3. ASSUME NEW w \in Workers, LoopStep(w) \/ Answer(w) \/ Timeout(w)
        PROVE  workers' = {}
    <3>1. LoopEffect(w)
      BY <2>3, LoopEffects
    <3> QED
      BY <1>1, <2>1, <3>1 DEF LoopEffect
  <2>4. CASE StopStep \/ Finished \/ UNCHANGED vars
    BY <1>1, <2>1, <2>4
       DEF StopStep, Kill, KillFinished, WorkerKilled, Finished, vars, mainVars
  <2> QED
    BY <2>2, <2>3, <2>4 DEF Next
<1>2. ASSUME stop' = "no", workers' # {}, queue' # <<>>
      PROVE  \E v \in Workers : pc'[v] \notin {"idle", "done", "finalKill"}
  <2>1. stop = "no" /\ workers # {} /\ queue # <<>> =>
          \E v \in Workers : pc[v] \notin {"idle", "done", "finalKill"}
    BY DEF Attended
  <2>2. main \in {"beforeRun", "shouldNotExecute"} => workers = {}
    BY DEF Attended
  <2>3. CASE MainStep
    <3>1. CASE PrepareTests
      BY <1>2, <2>2, <3>1 DEF PrepareTests
    <3>2. CASE StartWorkers
      <4>1. PICK w \in Workers : w \in Spawned
        BY <1>2, <2>2, <3>2 DEF StartWorkers, Spawned, Workers
      <4>2. pc'[w] = "loop"
        BY <1>2, <2>2, <3>2, <4>1 DEF StartWorkers
      <4> QED
        BY <4>2
    <3>3. CASE ~PrepareTests /\ ~StartWorkers
      <4>1. UNCHANGED <<pc, workers, queue, stop>>
        BY <2>3, <3>3, QuietEffects
      <4> QED
        BY <1>2, <2>1, <4>1
    <3> QED
      BY <3>1, <3>2, <3>3
  <2>4. ASSUME NEW w \in Workers, LoopStep(w) \/ Answer(w) \/ Timeout(w)
        PROVE  \E v \in Workers : pc'[v] \notin {"idle", "done", "finalKill"}
    <3>1. LoopEffect(w) /\ QueueEffect(w)
      BY <2>4, LoopEffects, QueueEffects
    <3>2. CASE TakeTest(w) \/ Requeue(w)
      BY <3>2 DEF TakeTest, Requeue, Goto, IInv, Typed, TypeOK
    <3>3. CASE UNCHANGED queue
      <4>1. PICK v \in Workers : pc[v] \notin {"idle", "done", "finalKill"}
        BY <1>2, <2>1, <3>1, <3>3 DEF LoopEffect
      <4>2. CASE v # w
        BY <3>1, <4>1, <4>2 DEF LoopEffect
      <4>3. CASE v = w
        BY <1>2, <3>1, <3>3, <4>1, <4>3 DEF LoopEffect
      <4> QED
        BY <4>2, <4>3
    <3> QED
      BY <3>1, <3>2, <3>3 DEF QueueEffect
  <2>5. CASE StopStep
    <3>1. ~ \E w \in Workers : WorkerKilled(w)
      <4> SUFFICES ASSUME NEW w \in Workers, WorkerKilled(w) PROVE FALSE
        OBVIOUS
      <4>1. stop = "no" /\ w \in killing
        BY <1>2, QuietEffects
      <4> QED
        BY <4>1 DEF Heard
    <3> QED
      BY <1>2, <2>5, <3>1, QuietEffects
  <2>6. CASE Finished \/ UNCHANGED vars
    BY <1>2, <2>1, <2>6, QuietEffects DEF vars, mainVars, loopVars, stopVars
  <2> QED
    BY <2>3, <2>4, <2>5, <2>6 DEF Next
<1> QED
  BY <1>1, <1>2 DEF Attended

LEMMA ToleratedNext ==
  ASSUME IInv, IInv', Tolerated, [Next]_vars
  PROVE  Tolerated'
<1>0. "hook" \notin Tests /\ "limit" \notin Tests /\ "kill" \notin Tests
  BY ControllerAssumption
<1>1. CASE MainStep
  <2> USE DEF Tolerated
  <2>1. CASE PrepareTests
    BY <2>1 DEF PrepareTests, loopVars
  <2>2. CASE DoNotExecute
    BY <2>2 DEF DoNotExecute, loopVars, IInv, Typed, NotStarted
  <2>3. CASE StartWorkers
    BY <1>0, <2>3 DEF StartWorkers
  <2>4. CASE LoopsResolved
    BY <2>4 DEF LoopsResolved, loopVars
  <2>5. CASE AfterRun
    BY <1>0, <2>5 DEF AfterRun, Settle, loopVars
  <2>6. CASE AfterRunError
    <3>1. main' \in {"errors", "rejected"} /\ (main' # "errors" => errors' = errors)
      <4>1. errors \in Seq(Causes) /\ fault \in Causes
        BY DEF IInv, Typed, TypeOK
      <4>2. Append(errors, fault) # <<>>
        BY <4>1
      <4> QED
        BY <2>6, <4>2 DEF AfterRunError, Settle
    <3>2. main = "afterRunError" /\ UNCHANGED <<pc, fault>>
      BY <2>6 DEF AfterRunError, loopVars
    <3> QED
      BY <3>1, <3>2
  <2> QED
    BY <1>1, <2>1, <2>2, <2>3, <2>4, <2>5, <2>6 DEF MainStep
<1>2. ASSUME NEW w \in Workers, LoopStep(w) \/ Answer(w) \/ Timeout(w)
      PROVE  Tolerated'
  <2>1. LoopEffect(w)
    BY <1>2, LoopEffects
  <2>2. main \notin {"beforeRun", "shouldNotExecute", "null", "afterRun"}
    BY <2>1 DEF LoopEffect, Idle, IInv, Typed, NotStarted, Tolerated
  <2>3. main' \notin {"beforeRun", "shouldNotExecute", "null", "afterRun"}
    BY <2>1, <2>2 DEF LoopEffect
  <2>4. ASSUME Bail
        PROVE  /\ \A v \in Workers : pc'[v] # "shouldNotRetry"
               /\ main' # "errors" => errors' = <<>>
    <3>1. \A v \in Workers : pc'[v] # "shouldNotRetry"
      BY <2>1, <2>4 DEF LoopEffect, Tolerated
    <3>2. UNCHANGED errors
      BY <2>1, <2>4 DEF LoopEffect, Tolerated
    <3>3. main' # "errors" => main # "errors"
      BY <2>1 DEF LoopEffect
    <3> QED
      BY <2>4, <3>1, <3>2, <3>3 DEF Tolerated
  <2>5. ASSUME ~Bail
        PROVE  fault' \notin Tests /\ \A v \in Workers : pc'[v] # "bail"
    BY <1>0, <2>1, <2>5 DEF LoopEffect, Tolerated
  <2> QED
    BY <2>3, <2>4, <2>5 DEF Tolerated
<1>3. CASE Kill \/ KillFinished
  BY <1>3 DEF Kill, KillFinished, mainVars, loopVars, Tolerated
<1>4. ASSUME NEW w \in Workers, WorkerKilled(w)
      PROVE  Tolerated'
  <2>1. /\ UNCHANGED <<main, errors, fault>>
        /\ \A v \in Workers : pc'[v] = pc[v] \/ (pc[v] = "execute" /\ pc'[v] = "afterPass")
    BY <1>4 DEF WorkerKilled, Goto, mainVars, IInv, Typed, TypeOK
  <2> QED
    BY <2>1 DEF Tolerated
<1>5. CASE Finished \/ UNCHANGED vars
  BY <1>5, QuietEffects DEF vars, mainVars, loopVars, Tolerated
<1> QED
  BY <1>1, <1>2, <1>3, <1>4, <1>5 DEF Next, StopStep

\* One more error, about a test with no error yet, or about no test.
LEMMA ErrorAdded ==
  ASSUME NEW e, errors \in Seq(Causes), e \in Causes, errors' = Append(errors, e)
  PROVE  /\ \A i \in DOMAIN errors : i \in DOMAIN errors' /\ errors'[i] = errors[i]
         /\ \A i \in DOMAIN errors' : i \in DOMAIN errors \/ errors'[i] = e
         /\ \A i, j \in DOMAIN errors' :
              i \notin DOMAIN errors /\ j \notin DOMAIN errors => i = j
         /\ \E i \in DOMAIN errors' : errors'[i] = e
BY QueueFacts

LEMMA RecordedNext ==
  ASSUME IInv, IInv', Recorded, Tolerated, [Next]_vars
  PROVE  Recorded'
<1>0. /\ "hook" \notin Tests /\ "limit" \notin Tests /\ "kill" \notin Tests
      /\ errors \in Seq(Causes) /\ fault \in Causes
      /\ verdict \in [Tests -> {"none", "passed", "failed", "skipped"}]
  BY ControllerAssumption DEF IInv, Typed, TypeOK
<1>1. \A t \in Tests : verdict[t] = "failed" => verdict'[t] = "failed"
  BY FinalStep
<1>2. ASSUME UNCHANGED <<errors, verdict, cur>>, fault' = fault \/ fault' \notin Tests,
             \A v \in Workers : pc'[v] = "bail" <=> pc[v] = "bail",
             main \in {"afterRunError", "errors", "rejected"} => main' = main
      PROVE  Recorded'
  BY <1>2 DEF Recorded
<1>3. CASE MainStep
  <2>1. UNCHANGED <<cur, verdict>>
    BY <1>3, QuietEffects
  <2>2. CASE AfterRunError
    <3>1. main = "afterRunError" /\ UNCHANGED <<pc, fault>>
      BY <2>2 DEF AfterRunError, loopVars
    <3>2. CASE main' = "rejected" /\ UNCHANGED errors
      BY <2>1, <3>1, <3>2 DEF Recorded
    <3>3. CASE errors' = Append(errors, fault) /\ Settle(errors')
      <4>1. /\ \A i \in DOMAIN errors : i \in DOMAIN errors' /\ errors'[i] = errors[i]
            /\ \A i \in DOMAIN errors' : i \in DOMAIN errors \/ errors'[i] = fault
            /\ \A i, j \in DOMAIN errors' :
                 i \notin DOMAIN errors /\ j \notin DOMAIN errors => i = j
            /\ \E i \in DOMAIN errors' : errors'[i] = fault
        BY <1>0, <3>3, ErrorAdded
      <4>2. main' = "errors"
        BY <3>3, <4>1 DEF Settle
      <4>3. fault \in Tests => DOMAIN errors = {}
        BY <3>1 DEF Tolerated
      <4>4. \A i \in DOMAIN errors' : errors'[i] \in Tests => verdict[errors'[i]] = "failed"
        BY <4>1 DEF Recorded
      <4>5. \A i, j \in DOMAIN errors' :
              errors'[i] \in Tests /\ errors'[i] = errors'[j] => i = j
        BY <4>1, <4>3 DEF Recorded
      <4>6. ASSUME NEW t \in Tests, verdict[t] = "failed"
            PROVE  Bail \/ \E i \in DOMAIN errors' : errors'[i] = t
        BY <4>1, <4>6 DEF Recorded, Tolerated
      <4> QED
        BY <2>1, <3>1, <4>2, <4>4, <4>5, <4>6 DEF Recorded
    <3> QED
      BY <2>2, <3>2, <3>3 DEF AfterRunError
  <2>3. CASE StartWorkers
    <3>1. /\ UNCHANGED errors /\ (fault' = fault \/ fault' = "limit")
          /\ main = "shouldNotExecute"
          /\ \A v \in Workers : pc'[v] # "bail" /\ pc[v] # "bail"
      BY <2>3 DEF StartWorkers, IInv, Typed, NotStarted
    <3> QED
      BY <1>0, <1>2, <2>1, <3>1
  <2>4. CASE PrepareTests \/ DoNotExecute \/ LoopsResolved \/ AfterRun
    <3>1. /\ UNCHANGED <<errors, pc>> /\ (fault' = fault \/ fault' = "hook")
          /\ main \notin {"afterRunError", "errors", "rejected"}
      BY <2>4 DEF PrepareTests, DoNotExecute, LoopsResolved, AfterRun, loopVars
    <3> QED
      BY <1>0, <1>2, <2>1, <3>1
  <2> QED
    BY <1>3, <2>2, <2>3, <2>4 DEF MainStep
<1>4. ASSUME NEW w \in Workers, LoopStep(w) \/ Answer(w) \/ Timeout(w)
      PROVE  Recorded'
  <2>1. LoopEffect(w)
    BY <1>4, LoopEffects
  <2>2. main \notin {"beforeRun", "shouldNotExecute", "null", "afterRun"}
    BY <2>1 DEF LoopEffect, Idle, IInv, Typed, NotStarted, Tolerated
  <2>3. main \in {"loops", "afterRunError", "errors", "rejected"}
    BY <2>2 DEF IInv, Typed, TypeOK
  <2>4. pc[w] \in InTest => cur[w].test \in Tests /\ cur[w].test \in Causes
    BY ItemTypes DEF IInv, Causes
  <2>5. \/ UNCHANGED errors
        \/ /\ pc[w] = "shouldNotRetry" /\ errors' = Append(errors, cur[w].test)
           /\ cur[w].test \in Tests /\ verdict[cur[w].test] = "none"
           /\ verdict'[cur[w].test] = "failed"
    BY <1>0, <2>1, <2>4 DEF LoopEffect, IInv, OnePlace, Holding, InTest
  <2>6. /\ \A i \in DOMAIN errors : i \in DOMAIN errors' /\ errors'[i] = errors[i]
        /\ \A i \in DOMAIN errors' : i \in DOMAIN errors \/
             (/\ errors' = Append(errors, cur[w].test) /\ errors'[i] = cur[w].test
              /\ cur[w].test \in Tests /\ verdict[cur[w].test] = "none"
              /\ verdict'[cur[w].test] = "failed")
        /\ \A i, j \in DOMAIN errors' :
             i \notin DOMAIN errors /\ j \notin DOMAIN errors => i = j
    <3>1. CASE UNCHANGED errors
      BY <3>1
    <3>2. CASE errors' # errors
      BY <1>0, <2>4, <2>5, <3>2, ErrorAdded DEF InTest
    <3> QED
      BY <3>1, <3>2
  <2>7. ASSUME NEW t \in Tests, verdict'[t] = "failed"
        PROVE  \/ \E i \in DOMAIN errors' : errors'[i] = t
               \/ \E v \in Workers : pc'[v] = "bail" /\ cur'[v].test = t
               \/ Bail /\ main' \in {"afterRunError", "errors", "rejected"}
    <3>1. CASE verdict[t] = "failed"
      <4>1. ASSUME NEW i \in DOMAIN errors, errors[i] = t
            PROVE  \E j \in DOMAIN errors' : errors'[j] = t
        BY <2>6, <4>1
      <4>2. ASSUME NEW v \in Workers, pc[v] = "bail", cur[v].test = t
            PROVE  \/ pc'[v] = "bail" /\ cur'[v].test = t
                   \/ Bail /\ main' \in {"afterRunError", "errors", "rejected"}
        BY <2>1, <2>3, <4>2 DEF LoopEffect, Tolerated
      <4>3. main \in {"afterRunError", "errors", "rejected"} => main' = main
        BY <2>1 DEF LoopEffect
      <4> QED
        BY <3>1, <4>1, <4>2, <4>3 DEF Recorded
    <3>2. CASE verdict[t] # "failed"
      <4>1. /\ t = cur[w].test /\ pc[w] \in Holding /\ ~UNCHANGED verdict
            /\ verdict' = [verdict EXCEPT ![cur[w].test] = "failed"]
        BY <1>0, <2>1, <2>7, <3>2 DEF LoopEffect
      <4>2. CASE pc'[w] = "bail"
        BY <2>1, <4>1, <4>2 DEF LoopEffect
      <4>3. CASE pc'[w] # "bail"
        <5>1. errors' = Append(errors, cur[w].test) /\ pc[w] = "shouldNotRetry"
          BY <2>1, <4>1, <4>3 DEF LoopEffect
        <5> QED
          BY <1>0, <2>4, <4>1, <5>1, ErrorAdded DEF InTest
      <4> QED
        BY <4>2, <4>3
    <3> QED
      BY <3>1, <3>2
  <2>8. \A i \in DOMAIN errors' : errors'[i] \in Tests => verdict'[errors'[i]] = "failed"
    BY <1>1, <2>6 DEF Recorded
  <2>9. \A i, j \in DOMAIN errors' : errors'[i] \in Tests /\ errors'[i] = errors'[j] => i = j
    BY <2>6 DEF Recorded
  <2>10. fault' \in Tests => verdict'[fault'] = "failed"
    <3>1. pc[w] = "bail" => cur[w].test \in Tests /\ verdict[cur[w].test] = "failed"
      BY <2>4 DEF Recorded, InTest
    <3> QED
      BY <1>0, <1>1, <2>1, <3>1 DEF LoopEffect, Recorded
  <2>11. ASSUME NEW v \in Workers, pc'[v] = "bail"
         PROVE  verdict'[cur'[v].test] = "failed"
    <3>1. CASE v = w
      <4>1. /\ pc[w] \in Holding /\ verdict' = [verdict EXCEPT ![cur[w].test] = "failed"]
            /\ cur'[w] = cur[w]
        BY <2>1, <2>11, <3>1 DEF LoopEffect
      <4> QED
        BY <1>0, <2>4, <3>1, <4>1 DEF Holding
    <3>2. CASE v # w
      <4>1. pc[v] = "bail" /\ cur'[v] = cur[v] /\ cur[v].test \in Tests
        BY <2>1, <2>11, <3>2, ItemTypes DEF LoopEffect, IInv, InTest
      <4> QED
        BY <1>1, <4>1 DEF Recorded
    <3> QED
      BY <3>1, <3>2
  <2> QED
    BY <2>7, <2>8, <2>9, <2>10, <2>11 DEF Recorded
<1>5. CASE Kill \/ KillFinished
  BY <1>2, <1>5 DEF Kill, KillFinished, mainVars, loopVars, testVars
<1>6. ASSUME NEW w \in Workers, WorkerKilled(w)
      PROVE  Recorded'
  <2>1. /\ UNCHANGED <<errors, verdict, cur, fault, main>>
        /\ \A v \in Workers : pc'[v] = "bail" <=> pc[v] = "bail"
    BY <1>6 DEF WorkerKilled, Goto, mainVars, testVars, IInv, Typed, TypeOK
  <2> QED
    BY <1>2, <2>1
<1>7. CASE Finished \/ UNCHANGED vars
  BY <1>2, <1>7, QuietEffects DEF vars, mainVars, loopVars, testVars
<1> QED
  BY <1>3, <1>4, <1>5, <1>6, <1>7 DEF Next, StopStep

LEMMA ResultInit == Init => ResultInv
<1> SUFFICES ASSUME Init PROVE ResultInv
  OBVIOUS
<1>1. "none" \notin Tests
  BY ControllerAssumption
<1>2. Heard /\ Believed /\ Reaped /\ Located /\ Attended
  BY DEF Init, Heard, Believed, Reaped, Located, Attended
<1>3. Recorded /\ Tolerated
  BY <1>1 DEF Init, Recorded, Tolerated
<1> QED
  BY <1>2, <1>3 DEF ResultInv

LEMMA ResultInvariant == Spec => [](IInv /\ ResultInv)
<1>1. IInv /\ ResultInv /\ IInv' /\ [Next]_vars => ResultInv'
  BY HeardNext, BelievedNext, ReapedNext, LocatedNext, AttendedNext, RecordedNext, ToleratedNext
     DEF ResultInv
<1> QED
  BY <1>1, ResultInit, IInvInit, IInvNext, PTL DEF Spec

\* As long as nobody calls kill(), a test passes only when the worker reported its
\* last execution: an answer that comes after the timer never counts.
THEOREM PassesWereReported == Spec => []PassedWasReported
<1>1. IInv /\ ResultInv => PassedWasReported
  BY DEF ResultInv, Heard, PassedWasReported
<1> QED
  BY <1>1, ResultInvariant, PTL

\* When the loops have ended by themselves every test of the queue has a verdict and no
\* process is left, whichever loop pushed the last retry.
THEOREM NothingIsLeftOver == Spec => []NothingLeftOver
<1>1. IInv /\ ResultInv => NothingLost
  <2> SUFFICES ASSUME IInv, ResultInv, main \in {"afterRun", "null", "errors"},
                      \A w \in Workers : pc[w] \in {"idle", "done"},
                      workers # {}, stop = "no", NEW t \in planned, verdict[t] = "none"
               PROVE  FALSE
    BY DEF NothingLost
  <2>1. ~ \E w \in Workers : Holds(w, t)
    BY DEF Holds, Holding, InTest
  <2>2. queue # <<>>
    BY <2>1 DEF ResultInv, Located
  <2> QED
    BY <2>2 DEF ResultInv, Attended
<1>2. IInv /\ ResultInv => NoProcessLeft
  BY DEF ResultInv, Reaped, NoProcessLeft, IInv, Typed, TypeOK
<1>3. IInv /\ ResultInv => NothingLeftOver
  BY <1>1, <1>2 DEF NothingLeftOver
<1> QED
  BY <1>3, ResultInvariant, PTL

\* this.errors names every test that was given up, once, and no other, also one that a
\* loop gives up after the run has settled; under bail a failed test fails the run; and
\* the answer null means that no test has failed for good.
THEOREM ErrorsAreRight == Spec => []ErrorsMatch
<1>1. IInv /\ ResultInv => ErrorsMatch
  <2> SUFFICES ASSUME IInv, ResultInv PROVE ErrorsMatch
    OBVIOUS
  <2>1. main = "null" => \A t \in Tests : verdict[t] # "failed"
    BY DEF ResultInv, Recorded, Tolerated
  <2>2. ASSUME NEW t \in Tests
        PROVE  /\ Cardinality({i \in DOMAIN errors : errors[i] = t}) <= 1
               /\ {i \in DOMAIN errors : errors[i] = t} # {} => verdict[t] = "failed"
               /\ verdict[t] = "failed" =>
                    IF Bail THEN main \in {"afterRunError", "errors", "rejected"}
                                 \/ \E w \in Workers : pc[w] = "bail" /\ cur[w].test = t
                    ELSE {i \in DOMAIN errors : errors[i] = t} # {}
    <3> DEFINE entries == {i \in DOMAIN errors : errors[i] = t}
    <3>1. entries = {} => Cardinality(entries) <= 1
      BY FS_EmptySet
    <3>2. entries # {} => Cardinality(entries) <= 1 /\ verdict[t] = "failed"
      <4> SUFFICES ASSUME entries # {} PROVE Cardinality(entries) <= 1 /\ verdict[t] = "failed"
        OBVIOUS
      <4>1. PICK i \in DOMAIN errors : errors[i] = t
        OBVIOUS
      <4>2. entries = {i}
        BY <4>1 DEF ResultInv, Recorded
      <4>3. Cardinality(entries) = 1
        BY <4>2, FS_Singleton
      <4> QED
        BY <4>1, <4>3 DEF ResultInv, Recorded
    <3>3. ASSUME verdict[t] = "failed", Bail
          PROVE  \/ main \in {"afterRunError", "errors", "rejected"}
                 \/ \E w \in Workers : pc[w] = "bail" /\ cur[w].test = t
      <4>1. CASE errors = <<>>
        BY <3>3, <4>1 DEF ResultInv, Recorded
      <4>2. CASE errors # <<>>
        BY <3>3, <4>2 DEF ResultInv, Tolerated
      <4> QED
        BY <4>1, <4>2
    <3>4. ASSUME verdict[t] = "failed", ~Bail
          PROVE  entries # {}
      BY <3>4 DEF ResultInv, Recorded, Tolerated
    <3> QED
      BY <3>1, <3>2, <3>3, <3>4
  <2> QED
    BY <2>1, <2>2 DEF ErrorsMatch
<1> QED
  BY <1>1, ResultInvariant, PTL

LEMMA NotRerunStep ==
  ASSUME IInv, ResultInv, [Next]_vars, "afterTest" \notin Failing, NEW t \in reported
  PROVE  starts'[t] = starts[t]
<1>1. starts \in [Tests -> Nat] /\ t \in Tests
  BY DEF IInv, Typed, TypeOK
<1>2. ASSUME NEW w \in Workers, BeforeTest(w)
      PROVE  starts'[t] = starts[t]
  <2>1. pc[w] = "beforeTest" /\ cur[w].test \in Tests /\ verdict[cur[w].test] = "none"
    BY <1>2, ItemTypes DEF BeforeTest, IInv, OnePlace, Holding, InTest
  <2>2. cur[w].test # t
    <3> SUFFICES ASSUME cur[w].test = t PROVE FALSE
      OBVIOUS
    <3>1. PICK v \in Workers : pc[v] = "afterPass" /\ cur[v].test = t
      BY <2>1 DEF ResultInv, Believed
    <3> QED
      BY <2>1, <3>1 DEF IInv, OnePlace, Holds, Holding, InTest
  <2> QED
    BY <1>1, <1>2, <2>1, <2>2 DEF BeforeTest
<1>3. ASSUME NEW w \in Workers, LoopStep(w) \/ Answer(w) \/ Timeout(w)
      PROVE  starts'[t] = starts[t]
  <2>1. CASE TakeTest(w) \/ Requeue(w)
    BY <2>1 DEF TakeTest, Requeue, testVars
  <2>2. CASE MoveStep(w)
    BY <1>2, <2>2, MoveSteps DEF IInv
  <2> QED
    BY <1>3, <2>1, <2>2 DEF LoopStep, Answer, MoveStep
<1>4. CASE MainStep \/ StopStep \/ Finished \/ UNCHANGED vars
  BY <1>4 DEF MainStep, PrepareTests, DoNotExecute, StartWorkers, LoopsResolved, AfterRun,
     AfterRunError, StopStep, Kill, KillFinished, WorkerKilled, Finished, vars, testVars
<1> QED
  BY <1>3, <1>4 DEF Next

\* When no afterTest hook rejects, a test its worker has reported as done is never
\* executed again, also when kill() answers for other tests meanwhile.
THEOREM PassedIsNotRerun == "afterTest" \notin Failing => (Spec => PassedNotRerun)
<1> SUFFICES ASSUME "afterTest" \notin Failing PROVE Spec => PassedNotRerun
  OBVIOUS
<1>1. IInv /\ ResultInv /\ [Next]_vars => [\A t \in reported : starts'[t] = starts[t]]_vars
  BY NotRerunStep
<1> QED
  BY <1>1, ResultInvariant, PTL DEF Spec, PassedNotRerun
=============================================================================
