----------------------------- MODULE TestExecution -----------------------------
(***************************************************************************)
(* One worker process: WorkerController (core/test-worker/src/worker) runs *)
(* the tests it gets one after the other, run() of core/api brackets the   *)
(* test functions with the callbacks of beforeRun() and afterRun() and     *)
(* tells the outcome over a bus, and AsyncBreakpoints hold both where the  *)
(* devtool pauses.  With waitForRelease a test completes when the devtool  *)
(* releases it and not before, whatever the test does meanwhile.           *)
(*                                                                         *)
(* The main process sends the next test when the last has completed; what  *)
(* it does about a test that never does is in TestWorkerInstance.  A test  *)
(* calls run() once or not at all, may throw either way, and its functions *)
(* wait at the breakpoint before the instruction once (bound).  A          *)
(* breakpoint that breakStack() has rejected is never removed from the     *)
(* map.                                                                    *)
(***************************************************************************)
EXTENDS Naturals, Sequences, FiniteSets, SequencesExt

CONSTANTS
  NumTests,      \* the tests this process gets
  MaxDevtool,    \* bound on the messages of the devtool
  MaxReleases    \* bound on those among them that release a test

ASSUME ExecutionAssumption == {NumTests, MaxDevtool, MaxReleases} \subseteq Nat

VARIABLES
  waitForRelease,     \* chosen once: the tests run under the devtool
  callbacksFail,      \* chosen once: callbacks of afterRun() may reject (bound: not under the devtool)
  executionState,
  breakpoints,        \* by type: none, set, or broken
  waiting,            \* who waits at which
  test,               \* the run() of each test, what runTest() has heard
  listeners,          \* the tests whose runTest() waits for the bus
  threw, beside,      \* for the properties only: the tests that threw after run(), those
                      \* that began while the run() of an earlier one went on
  afterRunCallbacks,  \* the tests whose callbacks are in the list
  completion,         \* the calls of completeExecution...()
  called,             \* how often the callback of each test was called
  devtool             \* messages so far

execModes == <<waitForRelease, callbacksFail>>
pause == <<executionState, breakpoints, waiting>>
strays == <<threw, beside>>
execVars == <<execModes, pause, test, listeners, afterRunCallbacks, completion, called, devtool, strays>>

NumCompletions == NumTests + MaxReleases
ExecTests == 1..NumTests
\* A completion waits at breakpoints under a number of its own.
Completions == 1..NumCompletions
Waiter(c) == NumTests + c
Waiters == 1..(NumTests + NumCompletions)
Types == {"before", "after"}

ExecutionTypeOK ==
  /\ waitForRelease \in BOOLEAN /\ callbacksFail \in BOOLEAN
  /\ executionState \in [paused : BOOLEAN, pending : BOOLEAN, pausedTilNext : BOOLEAN]
  /\ breakpoints \in [Types -> {"none", "set", "broken"}]
  /\ waiting \in [Waiters -> Types \cup {"no", "released", "rejected"}]
  /\ test \in [ExecTests -> [at : {"new", "start", "flushed", "body", "over"},
                             verdict : {"none", "passed", "failed", "broken"},
                             heard : {"no", "finished", "failed", "broken", "taken"}]]
  /\ threw \subseteq ExecTests /\ beside \subseteq ExecTests
  /\ listeners \subseteq ExecTests /\ afterRunCallbacks \in Seq(ExecTests)
  /\ completion \in [Completions -> [of : 0..NumTests, status : {"done", "failed"}, rest : Seq(ExecTests), live : BOOLEAN,
                                     at : {"none", "flushAfter", "callbacks", "flushed", "sent"}]]
  /\ \A n \in ExecTests : called[n] \in 0..NumCompletions
  /\ devtool \in [messages : 0..MaxDevtool, releases : 0..MaxReleases]

\* rest: the callbacks it has still to call; live: they are in the list as it is now,
\* and what is added to it is called as well.
NoCompletion == [of |-> 0, status |-> "done", rest |-> <<>>, live |-> FALSE, at |-> "none"]

ExecutionInit ==
  /\ waitForRelease \in BOOLEAN /\ callbacksFail \in BOOLEAN /\ ~(waitForRelease /\ callbacksFail)
  /\ executionState = [paused |-> FALSE, pending |-> FALSE, pausedTilNext |-> FALSE]
  /\ breakpoints = [b \in Types |-> "none"] /\ waiting = [w \in Waiters |-> "no"]
  /\ test = [n \in ExecTests |-> [at |-> "new", verdict |-> "none", heard |-> "no"]]
  /\ listeners = {} /\ afterRunCallbacks = <<>> /\ threw = {} /\ beside = {}
  /\ completion = [c \in Completions |-> NoCompletion]
  /\ called = [n \in ExecTests |-> 0] /\ devtool = [messages |-> 0, releases |-> 0]

-----------------------------------------------------------------------------
(* async-breakpoints.ts, over [state, bp, waits]                           *)

Pause == [state |-> executionState, bp |-> breakpoints, waits |-> waiting]
SetPause(p) == executionState' = p.state /\ breakpoints' = p.bp /\ waiting' = p.waits

AddBreakpoint(p, b) == [p EXCEPT !.bp[b] = IF @ = "none" THEN "set" ELSE @]

\* Mutant: who waits is released and the breakpoint stays.
ResolveBreakpoint_Stays(p, b) ==
  [p EXCEPT !.waits = [w \in Waiters |-> IF @[w] = b THEN "released" ELSE @[w]]]
\* resolveBreakpoint(): without a listener, as for a broken one, nothing happens.
ResolveBreakpoint(p, b) ==
  IF p.bp[b] # "set" THEN p
  ELSE [p EXCEPT !.bp[b] = "none", !.waits = [w \in Waiters |-> IF @[w] = b THEN "released" ELSE @[w]]]

\* breakStack(): all that are set reject.
BreakStack(p) ==
  [p EXCEPT !.bp = [b \in Types |-> IF @[b] = "set" THEN "broken" ELSE @[b]],
            !.waits = [w \in Waiters |-> IF @[w] \in Types THEN "rejected" ELSE @[w]]]

\* waitForBreakpoint(): who comes by waits at one that is set, goes on when there is
\* none or it has been released, and gets the error of a broken one.
Waits(w, b) ==
  waiting[w] = "no" /\ breakpoints[b] = "set" /\ waiting' = [waiting EXCEPT ![w] = b]
Passes(w, b) ==
  /\ waiting[w] = "released" \/ (waiting[w] = "no" /\ breakpoints[b] = "none")
  /\ waiting' = [waiting EXCEPT ![w] = "no"]
Breaks(w, b) ==
  /\ waiting[w] = "rejected" \/ (waiting[w] = "no" /\ breakpoints[b] = "broken")
  /\ waiting' = [waiting EXCEPT ![w] = "no"]

-----------------------------------------------------------------------------
(* worker-controller.ts: pauses                                            *)

ActivatePauseMode(p) == AddBreakpoint([p EXCEPT !.state.paused = TRUE], "before")

SetRunTillNextExecutionMode(p) ==
  LET before == ResolveBreakpoint([p EXCEPT !.state.paused = FALSE], "before")
      after == ResolveBreakpoint([before EXCEPT !.state.pausedTilNext = TRUE], "after")
  IN AddBreakpoint(after, "after")

\* Mutant: the breakpoint after the instruction is kept.
ReleasePauseMode_Before(p) ==
  ResolveBreakpoint([p EXCEPT !.state = [@ EXCEPT !.paused = FALSE, !.pausedTilNext = FALSE]], "before")
ReleasePauseMode(p) ==
  ResolveBreakpoint(ResolveBreakpoint(
    [p EXCEPT !.state = [@ EXCEPT !.paused = FALSE, !.pausedTilNext = FALSE]], "before"), "after")

\* completeExecutionSuccessfully(), ...Failed(): up to their first await.
Complete(n, status, p) ==
  /\ SetPause(ReleasePauseMode(p))
  /\ \E c \in Completions :
       /\ completion[c].at = "none" /\ \A d \in 1..(c - 1) : completion[d].at # "none"
       /\ completion' = [completion EXCEPT ![c] = [NoCompletion EXCEPT !.of = n, !.status = status, !.at = "flushAfter"]]

MoreDevtool == devtool.messages + devtool.releases < MaxDevtool

\* The messages of the devtool: pause, run to the next instruction, resume, evaluate.
Told == waitForRelease /\ (\E n \in ExecTests : test[n].at # "new") /\ MoreDevtool
DevtoolPauses ==
  /\ Told
  /\ \/ SetPause(ActivatePauseMode(Pause))
     \/ SetPause(SetRunTillNextExecutionMode(Pause))
     \/ SetPause(ReleasePauseMode(Pause))
  /\ devtool' = [devtool EXCEPT !.messages = @ + 1]
  /\ UNCHANGED <<execModes, test, listeners, afterRunCallbacks, completion, called, strays>>

\* evaluateCode() leaves the state not pending, also in the middle of a test.
EvaluateCode ==
  /\ Told
  /\ executionState' = [executionState EXCEPT !.pending = FALSE]
  /\ devtool' = [devtool EXCEPT !.messages = @ + 1]
  /\ UNCHANGED <<execModes, breakpoints, waiting, test, listeners, afterRunCallbacks, completion, called, strays>>

LastStarted == Cardinality({n \in ExecTests : test[n].at # "new"})

\* releaseTestExecution(): breaks the stack of a pending test, and completes.
ReleaseTestExecution ==
  /\ waitForRelease /\ LastStarted > 0 /\ devtool.releases < MaxReleases /\ MoreDevtool
  /\ Complete(LastStarted, "done", IF executionState.pending THEN BreakStack(Pause) ELSE Pause)
  /\ devtool' = [devtool EXCEPT !.releases = @ + 1]
  /\ UNCHANGED <<execModes, test, listeners, afterRunCallbacks, called, strays>>

-----------------------------------------------------------------------------
(* executeTest(), runTest() and run()                                      *)

Completed(n) == \E c \in Completions : completion[c].of = n /\ completion[c].at = "sent"

RegisterAfterRunCallback(n) ==
  /\ afterRunCallbacks' = Append(afterRunCallbacks, n)
  /\ completion' = [c \in Completions |-> IF completion[c].live THEN [completion[c] EXCEPT !.rest = Append(@, n)]
                                          ELSE completion[c]]

\* The file is executed.  It calls run(), which has put the callback of afterRun() into the
\* list at its first await, and runTest() waits for the bus; it calls run() and throws:
\* runTest() rejects, what it registered at the bus does nothing, and run() goes on; or
\* it calls none, or throws.
ExecuteTest(n) ==
  /\ n = LastStarted + 1 /\ (n > 1 => Completed(n - 1))
  /\ executionState' = [executionState EXCEPT !.pending = TRUE]
  /\ \/ /\ test' = [test EXCEPT ![n].at = "start"]
        /\ listeners' = listeners \cup {n} /\ RegisterAfterRunCallback(n) /\ UNCHANGED threw
     \/ /\ test' = [test EXCEPT ![n] = [@ EXCEPT !.at = "start", !.heard = "failed"]]
        /\ threw' = threw \cup {n} /\ RegisterAfterRunCallback(n) /\ UNCHANGED listeners
     \/ /\ \E heard \in {"finished", "failed"} :
             test' = [test EXCEPT ![n] = [@ EXCEPT !.at = "over", !.heard = heard]]
        /\ UNCHANGED <<listeners, afterRunCallbacks, completion, threw>>
  /\ beside' = IF \E m \in ExecTests : test[m].at \notin {"new", "over"} THEN beside \cup {n} ELSE beside
  /\ UNCHANGED <<execModes, breakpoints, waiting, called, devtool>>

\* finished or failed of the bus: every runTest() that waits hears it.
Emit(n, verdict, heard) ==
  /\ test' = [m \in ExecTests |->
       LET r == IF m = n THEN [test[m] EXCEPT !.at = "over", !.verdict = verdict] ELSE test[m]
       IN IF m \in listeners /\ r.heard = "no" THEN [r EXCEPT !.heard = heard] ELSE r]
  /\ listeners' = {}

\* run(): flushBeforeRunCallbacks() between two breakpoints, the functions with one more.
RunGoesOn(n) ==
  LET b == IF test[n].at = "flushed" THEN "after" ELSE "before" IN
  /\ test[n].at \notin {"new", "over"}
  /\ \/ Waits(n, b) /\ UNCHANGED <<test, listeners>>
     \/ /\ Passes(n, b) /\ test[n].at # "body"
        /\ test' = [test EXCEPT ![n].at = IF @ = "start" THEN "flushed" ELSE "body"]
        /\ UNCHANGED listeners
     \/ /\ Passes(n, b) /\ test[n].at = "body"
        /\ Emit(n, "passed", "finished") \/ Emit(n, "failed", "failed")
     \/ Breaks(n, b) /\ Emit(n, "broken", "broken")
  /\ UNCHANGED <<execModes, executionState, breakpoints, afterRunCallbacks, completion, called, devtool, strays>>

\* Mutant: a test that failed completes as done.
StatusOf_Done(n) == "done"
\* A broken stack counts as done.
StatusOf(n) == IF test[n].heard = "failed" THEN "failed" ELSE "done"

\* runTest() has settled: after a failure the state stays pending.
Settled(n) ==
  LET p == IF test[n].heard = "finished" THEN [Pause EXCEPT !.state.pending = FALSE] ELSE Pause
  IN /\ test[n].heard \in {"finished", "failed", "broken"}
     /\ test' = [test EXCEPT ![n].heard = "taken"]
     /\ IF waitForRelease THEN SetPause(p) /\ UNCHANGED completion
        ELSE Complete(n, StatusOf(n), p)
     /\ UNCHANGED <<execModes, listeners, afterRunCallbacks, called, devtool, strays>>

-----------------------------------------------------------------------------
(* flushAfterRunCallbacks() and the message of completion                  *)

Goes(c, place) == completion' = [completion EXCEPT ![c].at = place]

\* Mutant: the list is kept.
Flushed_Kept == afterRunCallbacks
Flushed == <<>>

\* Between two breakpoints the callbacks are called one after the other; the first that
\* rejects ends the flush and the list stays as it is.
FlushGoesOn(c) ==
  LET r == completion[c]
      w == Waiter(c)
      b == IF r.at = "flushed" THEN "after" ELSE "before"
  IN /\ \/ /\ r.at \in {"flushAfter", "flushed"} /\ Waits(w, b)
           /\ UNCHANGED <<completion, afterRunCallbacks, called>>
        \/ /\ r.at \in {"flushAfter", "flushed"} /\ Breaks(w, b) /\ Goes(c, "sent")
           /\ UNCHANGED <<afterRunCallbacks, called>>
        \/ /\ r.at \in {"flushAfter", "flushed"} /\ Passes(w, b)
           /\ \/ /\ r.at = "flushAfter"
                 /\ completion' = [completion EXCEPT ![c] = [@ EXCEPT !.at = "callbacks", !.live = TRUE,
                                                                     !.rest = afterRunCallbacks]]
              \/ r.at = "flushed" /\ Goes(c, "sent")
           /\ UNCHANGED <<afterRunCallbacks, called>>
        \/ /\ r.at = "callbacks" /\ r.rest # <<>>
           /\ called' = [called EXCEPT ![Head(r.rest)] = @ + 1]
           /\ \/ completion' = [completion EXCEPT ![c].rest = Tail(@)]
              \/ callbacksFail /\ completion' = [completion EXCEPT ![c] = [@ EXCEPT !.at = "sent", !.live = FALSE,
                                                                                  !.rest = <<>>]]
           /\ UNCHANGED <<waiting, afterRunCallbacks>>
        \/ /\ r.at = "callbacks" /\ r.rest = <<>>
           /\ afterRunCallbacks' = Flushed
           /\ completion' = [d \in Completions |-> IF d = c THEN [r EXCEPT !.at = "flushed", !.live = FALSE]
                                                   ELSE [completion[d] EXCEPT !.live = FALSE]]
           /\ UNCHANGED <<waiting, called>>
     /\ UNCHANGED <<execModes, executionState, breakpoints, test, listeners, devtool, strays>>

\* Everything but the messages of the devtool.
ExecutionProgress ==
  \/ \E n \in ExecTests : ExecuteTest(n) \/ RunGoesOn(n) \/ Settled(n)
  \/ \E c \in Completions : FlushGoesOn(c)

ExecutionNext == ExecutionProgress \/ DevtoolPauses \/ EvaluateCode \/ ReleaseTestExecution

ExecutionSpec == ExecutionInit /\ [][ExecutionNext]_execVars
FairExecutionSpec == ExecutionSpec /\ WF_execVars(ExecutionProgress)

-----------------------------------------------------------------------------
(* What a worker process promises                                          *)

CompletionsOf(n) == {c \in Completions : completion[c].of = n}

\* Without the devtool a test completes once, and with its own verdict: failed if its file
\* threw, otherwise that of its run(), which is over.  Only the run() of an earlier test
\* whose file threw can be going on when it begins; then it may end as that one does.
OwnVerdict ==
  ~waitForRelease => \A n \in ExecTests :
    /\ Cardinality(CompletionsOf(n)) <= 1
    /\ n \in beside => \E m \in threw : m < n
    /\ \A c \in CompletionsOf(n) :
         IF n \in threw THEN completion[c].status = "failed"
         ELSE n \notin beside => /\ test[n].at = "over"
                                 /\ test[n].verdict = "failed" => completion[c].status = "failed"
                                 /\ test[n].verdict = "passed" => completion[c].status = "done"

\* The callback of afterRun(), which ends the browser, has been called when a test
\* completes, once without the devtool, and the next test does not find it in the list:
\* unless a callback rejected, the stack was broken at a breakpoint, or a test was
\* released more than once.
AfterRunCalled ==
  /\ ~callbacksFail /\ \A b \in Types : breakpoints[b] # "broken"
  /\ \A n \in ExecTests : Cardinality(CompletionsOf(n)) <= 1
  => \A n \in ExecTests :
       /\ called[n] <= 1
       /\ Completed(n) /\ test[n].at # "new" /\ test[n].verdict # "none" =>
            called[n] = 1 /\ n \notin ToSet(afterRunCallbacks)

\* What the devtool is told about pauses is what the breakpoints do, unless one is broken.
PauseTold ==
  /\ breakpoints["before"] # "broken" => (executionState.paused <=> breakpoints["before"] = "set")
  /\ breakpoints["after"] # "broken" => (executionState.pausedTilNext <=> breakpoints["after"] = "set")

\* In the end every test has completed; with the devtool, whoever still waits does so at
\* a breakpoint that is set.
ExecutionQuiet ==
  /\ ~waitForRelease => \A n \in ExecTests : Completed(n)
  /\ \A w \in Waiters : waiting[w] \in Types => breakpoints[waiting[w]] = "set"
  /\ \A n \in ExecTests : test[n].at \in {"new", "over"} \/ waiting[n] \in Types
  /\ \A c \in Completions : completion[c].at \in {"none", "sent"} \/ waiting[Waiter(c)] \in Types
=============================================================================
