--------------------------- MODULE TestRunController ---------------------------
(***************************************************************************)
(* The scheduler of a run: core/test-run-controller.  runQueue builds the  *)
(* queue of tests, executeQueue runs one loop per worker over that shared  *)
(* queue, executeWorker takes one test through its hooks, its execution,   *)
(* its timeout and its retries, and kill() tears the workers down while    *)
(* the loops may still be running.                                         *)
(*                                                                         *)
(* The program is single-threaded: code between two awaits is one step,    *)
(* and pc[w] names the promise the loop of worker w is waiting for.  A     *)
(* worker instance (TestWorkerInstance) appears through its promises only: *)
(* execute() is answered with success or failure, kill() ends the process  *)
(* and may make a pending execute() resolve as a success.                  *)
(***************************************************************************)
EXTENDS Integers, Sequences, FiniteSets, Functions

CONSTANTS
  Tests,          \* the test files found for the run
  WorkerLimit,    \* config.workerLimit when it is a positive number
  Local,          \* TRUE when config.workerLimit is 'local'
  RetryCount,     \* config.retryCount
  Bail,           \* config.bail
  RestartWorker,  \* config.restartWorker
  Timed,          \* the tests that run under a timeout > 0
  Failing,        \* the awaited calls that may reject, and the configured limit
  Signals         \* TRUE when a signal may ask for shutdown during the run

\* Every hook of the controller, and the kill of a worker, is awaited.
Awaited ==
  {"beforeRun", "shouldNotExecute", "shouldNotStart", "beforeTest", "afterTest",
   "shouldNotRetry", "beforeTestRetry", "afterRun", "kill"}

\* "workerLimit": config.workerLimit may be neither 'local' nor a positive number.
Faults == Awaited \cup {"workerLimit"}

ASSUME ControllerAssumption ==
  /\ IsFiniteSet(Tests)
  /\ WorkerLimit \in Nat \ {0}
  /\ RetryCount \in Nat
  /\ Local \in BOOLEAN /\ Bail \in BOOLEAN
  /\ RestartWorker \in BOOLEAN /\ Signals \in BOOLEAN
  /\ Timed \subseteq Tests
  /\ Failing \subseteq Faults
  /\ Tests \cap {"none", "hook", "limit", "kill"} = {}   \* what else an error may be about

Workers == IF Local THEN {1} ELSE 1..WorkerLimit

VARIABLES
  main,      \* the promise runQueue is waiting for, or how it settled
  planned,   \* the tests the beforeRun hook left in the queue
  queue,     \* testQueue: the items still to be taken
  workers,   \* this.workers
  pc,        \* the promise each worker loop is waiting for
  cur,       \* queuedTest of each loop
  alive,     \* the workers that own a child process
  errors,    \* this.errors: what each entry is about
  fault,     \* what the first rejected loop, or the run itself, threw
  stop,      \* the state of kill()
  killing,   \* the workers whose kill() the controller's kill() awaits
  starts,    \* how many times each test was handed to a worker
  reported,  \* the tests whose latest execution a worker reported as done
  verdict    \* what the afterTest and shouldNotStart hooks settled for a test

mainVars == <<main, planned, workers>>
loopVars == <<pc, cur, alive>>
stopVars == <<stop, killing>>
testVars == <<starts, reported, verdict>>
vars == <<mainVars, queue, loopVars, errors, fault, stopVars, testVars>>

Item == [test : Tests, retry : 0..RetryCount]
Causes == Tests \cup {"none", "hook", "limit", "kill"}

\* A loop that has not started, or is over.
Idle == {"idle", "done", "rejected"}

\* The loop of w is inside executeWorker and holds the item cur[w].
InTest == {"shouldNotStart", "beforeTest", "execute", "afterPass", "timeoutKill",
           "shouldNotRetry", "delay", "bail"}

TypeOK ==
  /\ main \in {"beforeRun", "shouldNotExecute", "loops", "afterRun", "afterRunError",
               "null", "errors", "rejected"}
  /\ planned \subseteq Tests
  /\ queue \in Seq(Item)
  /\ workers \subseteq Workers
  /\ pc \in [Workers -> Idle \cup InTest \cup {"loop", "beforeTestRetry", "afterFail",
                                              "restartKill", "finalKill"}]
  /\ cur \in [Workers -> Item \cup {<<>>}]
  /\ alive \subseteq Workers
  /\ errors \in Seq(Causes)
  /\ fault \in Causes
  /\ stop \in {"no", "killing", "done", "failed"}
  /\ killing \subseteq Workers
  /\ starts \in [Tests -> Nat]
  /\ reported \subseteq Tests
  /\ verdict \in [Tests -> {"none", "passed", "failed", "skipped"}]

Init ==
  /\ main = "beforeRun" /\ planned = {} /\ queue = <<>> /\ workers = {}
  /\ pc = [w \in Workers |-> "idle"]
  /\ cur = [w \in Workers |-> <<>>]
  /\ alive = {} /\ errors = <<>> /\ fault = "none"
  /\ stop = "no" /\ killing = {}
  /\ starts = [t \in Tests |-> 0]
  /\ reported = {}
  /\ verdict = [t \in Tests |-> "none"]

-----------------------------------------------------------------------------
(* runQueue and executeQueue                                               *)

\* The queues the beforeRun hook may return: it drops and reorders tests.
Plans == UNION {Injection(1..n, Tests) : n \in 0..Cardinality(Tests)}

\* prepareTests: every item starts with retryCount 0.  A rejected beforeRun
\* hook rejects runQueue.
PrepareTests ==
  /\ main = "beforeRun"
  /\ \/ \E plan \in Plans :
          /\ queue' = [i \in DOMAIN plan |-> [test |-> plan[i], retry |-> 0]]
          /\ planned' = {plan[i] : i \in DOMAIN plan}
          /\ main' = "shouldNotExecute"
     \/ /\ "beforeRun" \in Failing
        /\ main' = "rejected"
        /\ UNCHANGED <<queue, planned>>
  /\ UNCHANGED <<workers, loopVars, errors, fault, stopVars, testVars>>

\* shouldNotExecute answered yes, or rejected: no worker is created.
DoNotExecute ==
  /\ main = "shouldNotExecute"
  /\ \/ main' = "null"
     \/ "shouldNotExecute" \in Failing /\ main' = "rejected"
  /\ UNCHANGED <<planned, workers, queue, loopVars, errors, fault, stopVars, testVars>>

\* How many workers executeQueue creates for the queue it is given.
Spawned ==
  IF Local THEN {1}
  ELSE {w \in Workers : w <= Len(queue)}

\* Workers are created and every loop starts.  An unusable workerLimit throws.
StartWorkers ==
  /\ main = "shouldNotExecute"
  /\ \/ /\ main' = "loops"
        /\ workers' = Spawned
        /\ pc' = [w \in Workers |-> IF w \in Spawned THEN "loop" ELSE "idle"]
        /\ UNCHANGED fault
     \/ /\ ~Local /\ "workerLimit" \in Failing
        /\ main' = "afterRunError"
        /\ fault' = "limit"
        /\ UNCHANGED <<workers, pc>>
  /\ UNCHANGED <<planned, queue, cur, alive, errors, stopVars, testVars>>

\* Promise.all over the loops (or the single local loop) resolves.
LoopsResolved ==
  /\ main = "loops"
  /\ \A w \in Workers : pc[w] \in {"idle", "done"}
  /\ main' = "afterRun"
  /\ UNCHANGED <<planned, workers, queue, loopVars, errors, fault, stopVars, testVars>>

Settle(errs) == main' = IF errs = <<>> THEN "null" ELSE "errors"

\* The afterRun(null) hook; when it rejects, afterRun is called again.
AfterRun ==
  /\ main = "afterRun"
  /\ \/ Settle(errors) /\ UNCHANGED fault
     \/ "afterRun" \in Failing /\ main' = "afterRunError" /\ fault' = "hook"
  /\ UNCHANGED <<planned, workers, queue, loopVars, errors, stopVars, testVars>>

\* The afterRun(error) hook of the catch block.
AfterRunError ==
  /\ main = "afterRunError"
  /\ \/ errors' = Append(errors, fault) /\ Settle(errors')
     \/ "afterRun" \in Failing /\ main' = "rejected" /\ UNCHANGED errors
  /\ UNCHANGED <<planned, workers, queue, loopVars, fault, stopVars, testVars>>

-----------------------------------------------------------------------------
(* The loop of one worker: executeWorker, onTestFailed                     *)

Goto(w, label) == pc' = [pc EXCEPT ![w] = label]

\* Mutant: a loop that runs one test instead of looping over the queue.
Return_Once(w) == Goto(w, "finalKill")

\* executeWorker has returned: the worker is restarted, or the loop goes on.
Return(w) == Goto(w, IF RestartWorker /\ ~Local THEN "restartKill" ELSE "loop")

\* executeWorker, or the kill after it, threw: the promise of this loop is
\* rejected, and with the first rejection Promise.all is.
Throw(w, cause) ==
  /\ Goto(w, "rejected")
  /\ IF main = "loops"
     THEN main' = "afterRunError" /\ fault' = cause
     ELSE UNCHANGED <<main, fault>>

\* The catch block after the error of w's test: bail calls afterTest(error),
\* otherwise the shouldNotRetry hook is asked.
TestFailed(w) ==
  IF Bail
  THEN Goto(w, "bail") /\ verdict' = [verdict EXCEPT ![cur[w].test] = "failed"]
  ELSE Goto(w, "shouldNotRetry") /\ UNCHANGED verdict

\* Mutant: the item is read from the queue but not shifted out of it.
TakeTest_NoShift(w) ==
  /\ pc[w] = "loop" /\ queue # <<>>
  /\ cur' = [cur EXCEPT ![w] = Head(queue)]
  /\ Goto(w, "shouldNotStart")
  /\ UNCHANGED <<mainVars, queue, alive, errors, fault, stopVars, testVars>>

\* queue.shift() and the first await are one step of one loop.
TakeTest(w) ==
  /\ pc[w] = "loop" /\ queue # <<>>
  /\ cur' = [cur EXCEPT ![w] = Head(queue)]
  /\ queue' = Tail(queue)
  /\ Goto(w, "shouldNotStart")
  /\ UNCHANGED <<mainVars, alive, errors, fault, stopVars, testVars>>

\* Mutant: the loop ends without killing its worker.
LeaveLoop_NoKill(w) ==
  /\ pc[w] = "loop" /\ queue = <<>>
  /\ Goto(w, "done")
  /\ UNCHANGED <<mainVars, queue, cur, alive, errors, fault, stopVars, testVars>>

\* while (testQueue.length > 0) ends; a child worker is killed for good.
LeaveLoop(w) ==
  /\ pc[w] = "loop" /\ queue = <<>>
  /\ Goto(w, IF Local THEN "done" ELSE "finalKill")
  /\ UNCHANGED <<mainVars, queue, cur, alive, errors, fault, stopVars, testVars>>

\* The shouldNotStart hook: yes drops the test without an afterTest call.
ShouldNotStart(w) ==
  /\ pc[w] = "shouldNotStart"
  /\ \/ Return(w) /\ verdict' = [verdict EXCEPT ![cur[w].test] = "skipped"]
     \/ Goto(w, "beforeTest") /\ UNCHANGED verdict
     \/ "shouldNotStart" \in Failing /\ TestFailed(w)
  /\ UNCHANGED <<mainVars, queue, cur, alive, errors, fault, stopVars, starts, reported>>

\* The beforeTest hook, then worker.execute(): a child worker has, or forks,
\* its process.
BeforeTest(w) ==
  /\ pc[w] = "beforeTest"
  /\ \/ /\ Goto(w, "execute")
        /\ starts' = [starts EXCEPT ![cur[w].test] = @ + 1]
        /\ reported' = reported \ {cur[w].test}
        /\ alive' = IF Local THEN alive ELSE alive \cup {w}
        /\ UNCHANGED verdict
     \/ /\ "beforeTest" \in Failing
        /\ TestFailed(w)
        /\ UNCHANGED <<starts, reported, alive>>
  /\ UNCHANGED <<mainVars, queue, cur, errors, fault, stopVars>>

\* execute() resolves: the worker reported the test as done, before the timer.
ExecutePassed(w) ==
  /\ pc[w] = "execute"
  /\ Local \/ w \in alive
  /\ reported' = reported \cup {cur[w].test}
  /\ Goto(w, "afterPass")
  /\ UNCHANGED <<mainVars, queue, cur, alive, errors, fault, stopVars, starts, verdict>>

\* execute() rejects: the test failed, its compilation failed, or the worker
\* process died.
ExecuteFailed(w) ==
  /\ pc[w] = "execute"
  /\ alive' \in {alive, alive \ {w}}
  /\ TestFailed(w)
  /\ UNCHANGED <<mainVars, queue, cur, errors, fault, stopVars, starts, reported>>

\* Mutant: clearTimeout is missing, the timer still fires during afterTest.
Timeout_NotCleared(w) ==
  /\ pc[w] \in {"execute", "afterPass"} /\ cur[w].test \in Timed
  /\ Goto(w, "timeoutKill")
  /\ UNCHANGED <<mainVars, queue, cur, alive, errors, fault, stopVars, testVars>>

\* Mutant: the timer resolves the race instead of rejecting it.
Timeout_Resolves(w) ==
  /\ pc[w] = "execute" /\ cur[w].test \in Timed
  /\ Goto(w, "afterPass")
  /\ UNCHANGED <<mainVars, queue, cur, alive, errors, fault, stopVars, testVars>>

\* Mutant: no timer is started.
Timeout_Never(w) == FALSE /\ UNCHANGED vars

\* The timer wins the race: the worker is killed with SIGABRT.
Timeout(w) ==
  /\ pc[w] = "execute" /\ cur[w].test \in Timed
  /\ Goto(w, "timeoutKill")
  /\ UNCHANGED <<mainVars, queue, cur, alive, errors, fault, stopVars, testVars>>

\* worker.kill() of the catch block returns, or rejects out of executeWorker.
TimeoutKill(w) ==
  /\ pc[w] = "timeoutKill"
  /\ \/ alive' = alive \ {w} /\ TestFailed(w) /\ UNCHANGED <<main, fault>>
     \/ "kill" \in Failing /\ Throw(w, "kill") /\ UNCHANGED <<alive, verdict>>
  /\ UNCHANGED <<planned, workers, queue, cur, errors, stopVars, starts, reported>>

\* The afterTest(null) hook.  It is inside the try block: when it rejects, the
\* test counts as failed although its execution passed.
AfterPass(w) ==
  /\ pc[w] = "afterPass"
  /\ \/ Return(w) /\ verdict' = [verdict EXCEPT ![cur[w].test] = "passed"]
     \/ "afterTest" \in Failing /\ TestFailed(w)
  /\ UNCHANGED <<mainVars, queue, cur, alive, errors, fault, stopVars, starts, reported>>

\* The afterTest(error) hook under bail: whatever it answers, the loop throws.
BailOut(w) ==
  /\ pc[w] = "bail"
  /\ \/ Throw(w, cur[w].test)
     \/ "afterTest" \in Failing /\ Throw(w, "hook")
  /\ UNCHANGED <<planned, workers, queue, cur, alive, errors, stopVars, testVars>>

\* Mutant: one retry too many.
ShouldNotRetry_OffByOne(w) ==
  /\ pc[w] = "shouldNotRetry"
  /\ \/ /\ cur[w].retry <= RetryCount
        /\ Goto(w, "delay")
        /\ UNCHANGED <<errors, verdict>>
     \/ /\ errors' = Append(errors, cur[w].test)
        /\ verdict' = [verdict EXCEPT ![cur[w].test] = "failed"]
        /\ Goto(w, "afterFail")
  /\ UNCHANGED <<mainVars, queue, cur, alive, fault, stopVars, starts, reported>>

\* Mutant: a test given up after its retries is not recorded.
ShouldNotRetry_Unrecorded(w) ==
  /\ pc[w] = "shouldNotRetry"
  /\ \/ cur[w].retry < RetryCount /\ Goto(w, "delay") /\ UNCHANGED <<errors, verdict>>
     \/ /\ errors' = IF cur[w].retry = 0 THEN Append(errors, cur[w].test) ELSE errors
        /\ verdict' = [verdict EXCEPT ![cur[w].test] = "failed"]
        /\ Goto(w, "afterFail")
  /\ UNCHANGED <<mainVars, queue, cur, alive, fault, stopVars, starts, reported>>

\* Mutant: the error is recorded, and the verdict given, before the retry.
ShouldNotRetry_Early(w) ==
  /\ pc[w] = "shouldNotRetry"
  /\ errors' = Append(errors, cur[w].test)
  /\ verdict' = [verdict EXCEPT ![cur[w].test] = "failed"]
  /\ Goto(w, IF cur[w].retry < RetryCount THEN "delay" ELSE "afterFail")
  /\ UNCHANGED <<mainVars, queue, cur, alive, fault, stopVars, starts, reported>>

\* The shouldNotRetry hook: the test is retried after a delay, or given up.
ShouldNotRetry(w) ==
  /\ pc[w] = "shouldNotRetry"
  /\ \/ /\ cur[w].retry < RetryCount
        /\ Goto(w, "delay")
        /\ UNCHANGED <<main, fault, errors, verdict>>
     \/ /\ errors' = Append(errors, cur[w].test)
        /\ verdict' = [verdict EXCEPT ![cur[w].test] = "failed"]
        /\ Goto(w, "afterFail")
        /\ UNCHANGED <<main, fault>>
     \/ /\ "shouldNotRetry" \in Failing
        /\ Throw(w, "hook")
        /\ UNCHANGED <<errors, verdict>>
  /\ UNCHANGED <<planned, workers, queue, cur, alive, stopVars, starts, reported>>

\* Mutant: the copy keeps the retryCount of the item.
Requeue_NoCount(w) ==
  /\ pc[w] = "delay"
  /\ queue' = Append(queue, cur[w])
  /\ Goto(w, "beforeTestRetry")
  /\ UNCHANGED <<mainVars, cur, alive, errors, fault, stopVars, testVars>>

\* The retry delay is over: a copy of the item goes to the back of the queue.
Requeue(w) ==
  /\ pc[w] = "delay"
  /\ queue' = Append(queue, [cur[w] EXCEPT !.retry = @ + 1])
  /\ Goto(w, "beforeTestRetry")
  /\ UNCHANGED <<mainVars, cur, alive, errors, fault, stopVars, testVars>>

\* The beforeTestRetry hook, or afterTest(error) of a test given up.
LastHook(w) ==
  /\ \/ pc[w] = "beforeTestRetry"
     \/ pc[w] = "afterFail"
  /\ \/ Return(w) /\ UNCHANGED <<main, fault>>
     \/ /\ IF pc[w] = "afterFail" THEN "afterTest" \in Failing
                                  ELSE "beforeTestRetry" \in Failing
        /\ Throw(w, "hook")
  /\ UNCHANGED <<planned, workers, queue, cur, alive, errors, stopVars, testVars>>

\* worker.kill() between two tests, or at the end of the loop.
LoopKill(w) ==
  /\ \/ pc[w] = "restartKill"
     \/ pc[w] = "finalKill"
  /\ \/ /\ alive' = alive \ {w}
        /\ Goto(w, IF pc[w] = "finalKill" THEN "done" ELSE "loop")
        /\ UNCHANGED <<main, fault>>
     \/ "kill" \in Failing /\ Throw(w, "kill") /\ UNCHANGED alive
  /\ UNCHANGED <<planned, workers, queue, cur, errors, stopVars, testVars>>

-----------------------------------------------------------------------------
(* kill(), called by the shutdown of the run command                       *)

\* RunCommand.shutdown: once the run has settled, or when a signal arrives.
Kill ==
  /\ stop = "no"
  /\ Signals \/ main \in {"null", "errors", "rejected"}
  /\ stop' = "killing"
  /\ killing' = workers
  /\ UNCHANGED <<mainVars, queue, loopVars, errors, fault, testVars>>

\* The kill of one worker is over.  A test that had reached its process is
\* resolved as a success; one still being compiled is left pending.
WorkerKilled(w) ==
  /\ w \in killing
  /\ killing' = killing \ {w}
  /\ \/ /\ alive' = alive \ {w}
        /\ \/ pc[w] = "execute" /\ (Local \/ w \in alive) /\ Goto(w, "afterPass")
           \/ UNCHANGED pc
        /\ UNCHANGED stop
     \/ /\ "kill" \in Failing
        /\ stop' = "failed"
        /\ UNCHANGED <<alive, pc>>
  /\ UNCHANGED <<mainVars, queue, cur, errors, fault, testVars>>

\* Every kill is over: only now are the workers forgotten and the queue emptied.
KillFinished ==
  /\ stop = "killing" /\ killing = {}
  /\ stop' = "done"
  /\ workers' = {}
  /\ queue' = <<>>
  /\ UNCHANGED <<main, planned, loopVars, errors, fault, killing, testVars>>

-----------------------------------------------------------------------------
MainStep ==
  \/ PrepareTests \/ DoNotExecute \/ StartWorkers
  \/ LoopsResolved \/ AfterRun \/ AfterRunError

\* What the runner and its hooks do; a worker's own answer is not among them.
LoopStep(w) ==
  \/ TakeTest(w) \/ LeaveLoop(w) \/ ShouldNotStart(w) \/ BeforeTest(w)
  \/ TimeoutKill(w) \/ AfterPass(w) \/ BailOut(w) \/ ShouldNotRetry(w)
  \/ Requeue(w) \/ LastHook(w) \/ LoopKill(w)

Answer(w) == ExecutePassed(w) \/ ExecuteFailed(w)

StopStep == Kill \/ KillFinished \/ \E w \in Workers : WorkerKilled(w)

\* The run has settled, every loop is over and so is kill().
Finished ==
  /\ main \in {"null", "errors", "rejected"}
  /\ \A w \in Workers : pc[w] \in Idle
  /\ stop \in {"done", "failed"} /\ killing = {}
  /\ UNCHANGED vars

Next ==
  \/ MainStep
  \/ \E w \in Workers : LoopStep(w) \/ Answer(w) \/ Timeout(w)
  \/ StopStep
  \/ Finished

Spec == Init /\ [][Next]_vars

(***************************************************************************)
(* Hooks and kills answer, timers fire, shutdown follows the end of the    *)
(* run.  A worker is only assumed to answer for a test without a timeout:  *)
(* with one, the timer is enough.  A signal need not arrive.               *)
(***************************************************************************)
Fairness ==
  /\ WF_vars(MainStep)
  /\ WF_vars(KillFinished \/ \E w \in Workers : WorkerKilled(w))
  /\ WF_vars(Kill /\ main \in {"null", "errors", "rejected"})
  /\ \A w \in Workers :
       /\ WF_vars(LoopStep(w))
       /\ WF_vars(Timeout(w))
       /\ WF_vars(cur[w] # <<>> /\ cur[w].test \notin Timed /\ Answer(w))

FairSpec == Spec /\ Fairness
-----------------------------------------------------------------------------
(* What the controller promises                                            *)

\* The loops whose hands a test is in: taken, and neither concluded nor queued.
Holding == InTest \ {"bail"}
Holds(w, t) == pc[w] \in Holding /\ cur[w].test = t

\* Two items, two loops, or an item and a loop never have the same test, and a
\* test with a verdict is in nobody's hands: no test runs twice at a time, no
\* retry is queued twice (executeWorker's shift, onTestFailed's push).
OnePlace ==
  /\ \A i, j \in DOMAIN queue : queue[i].test = queue[j].test => i = j
  /\ \A w \in Workers : pc[w] \in Holding =>
       /\ \A i \in DOMAIN queue : queue[i].test # cur[w].test
       /\ \A v \in Workers \ {w} : ~Holds(v, cur[w].test)
       /\ verdict[cur[w].test] = "none"
  /\ \A i \in DOMAIN queue : verdict[queue[i].test] = "none"

\* retryCount bounds the executions of a test, whatever mix of failures,
\* timeouts, rejected hooks and kills it goes through.
AttemptsBounded == \A t \in Tests : starts[t] <= RetryCount + 1

\* When the loops have all ended by themselves and nobody called kill(), every
\* test of the queue has a verdict: a retry pushed by one loop while the others
\* were leaving is still taken by somebody.
NothingLost ==
  (/\ main \in {"afterRun", "null", "errors"}
   /\ \A w \in Workers : pc[w] \in {"idle", "done"}
   /\ workers # {} /\ stop = "no")
    => \A t \in planned : verdict[t] # "none"

\* this.errors, the result of runQueue, names every test that was given up and no other,
\* each once, also when a loop gives one up after another's error has settled the run.
\* With bail, which rethrows instead, the loop of a failed test is about to throw or the
\* run is failing; and never does runQueue answer null when a test has failed for good.
ErrorsMatch ==
  /\ main = "null" => \A t \in Tests : verdict[t] # "failed"
  /\ \A t \in Tests :
       LET entries == {i \in DOMAIN errors : errors[i] = t}
       IN /\ Cardinality(entries) <= 1
          /\ entries # {} => verdict[t] = "failed"
          /\ verdict[t] = "failed" =>
               IF Bail THEN main \in {"afterRunError", "errors", "rejected"}
                            \/ \E w \in Workers : pc[w] = "bail" /\ cur[w].test = t
               ELSE entries # {}

\* As long as nobody calls kill(), a test that ends as passed was reported as
\* done by the worker in its last execution: the answer of an execution the
\* timer has cut off never counts.
PassedWasReported ==
  stop = "no" => \A t \in Tests : verdict[t] = "passed" => t \in reported

\* A run whose loops have ended by themselves leaves no child process behind.
NoProcessLeft ==
  (/\ main \in {"null", "errors"} /\ \A w \in Workers : pc[w] \in {"idle", "done"})
    => alive = {}

\* When the loops have ended by themselves nothing is left over, neither a test nor a
\* process: a retry pushed by one loop while the others were leaving (onTestFailed's push).
NothingLeftOver == NothingLost /\ NoProcessLeft

\* A test that has got its verdict is not executed again, and its verdict stays.
VerdictIsFinal ==
  [][\A t \in Tests : verdict[t] # "none" =>
       starts'[t] = starts[t] /\ verdict'[t] = verdict[t]]_vars

\* A test its worker reported as done is not executed again (when no afterTest
\* hook rejects).
PassedNotRerun ==
  [][\A t \in reported : starts'[t] = starts[t]]_vars

\* bail: "Fail out on the first error instead of tolerating it": once a test has
\* failed for good no other one is started (docs/config.md).
BailStopsStarting ==
  [][(\E t \in Tests : verdict[t] = "failed") => starts' = starts]_vars

\* The scheduler implements TestRun: the owner of a test is the loop that holds
\* its item.
Owner ==
  [t \in Tests |->
     IF \E w \in Workers : Holds(w, t) THEN CHOOSE w \in Workers : Holds(w, t) ELSE 0]

Abstract == INSTANCE TestRun WITH
  MaxTries <- RetryCount + 1, Nobody <- 0,
  owner <- Owner, tries <- starts

\* Every step of the controller is one step of the abstract run, or none.
ImplementsTestRun == Abstract!Spec

\* runQueue settles: a worker that never answers is cut off by the timer.
RunSettles == <>(main \in {"null", "errors", "rejected"})

\* After the run or the signal every loop ends, and no process is left running but that
\* of a loop that a hook rejected; that one is killed as well if kill() is called later.
EverythingStops ==
  /\ <>[]\A w \in Workers : pc[w] \in Idle /\ (w \in alive => pc[w] = "rejected")
  /\ \A w \in Workers : (pc[w] = "rejected" /\ stop = "no") ~> (w \notin alive)

\* The run ends: runQueue settles, and after it every loop and every process.
RunEnds == RunSettles /\ EverythingStops
=============================================================================
