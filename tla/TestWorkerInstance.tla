--------------------------- MODULE TestWorkerInstance ---------------------------
(***************************************************************************)
(* core/test-worker/src/test-worker-instance.ts: one worker of the test    *)
(* run controller and the child process behind it, with the parts of       *)
(* core/transport it talks through.  execute() forks the process when      *)
(* there is none, compiles the test, sends it and waits for the message    *)
(* executionComplete; kill() ends the process.                             *)
(*                                                                         *)
(* The message executionComplete does not say which test it is about, and  *)
(* transport.onceFrom listens to the id of the instance, which all its     *)
(* processes share: the first message answers every execute() that waits.  *)
(*                                                                         *)
(* The caller is a loop of TestRunController (executeWorker): it awaits    *)
(* execute() or a timeout, awaits kill() after a timeout, takes the next   *)
(* test and kills the worker in the end, while the controller's own kill() *)
(* may come at any moment.                                                 *)
(***************************************************************************)
EXTENDS Integers, FiniteSets

CONSTANTS
  Tests,       \* the tests the loop runs, each once
  NoTest,      \* stands for null
  MaxForks     \* bound on the number of processes: one per test suffices

ASSUME InstanceAssumption ==
  /\ IsFiniteSet(Tests) /\ NoTest \notin Tests
  /\ MaxForks \in Nat /\ MaxForks >= Cardinality(Tests)

VARIABLES
  local,       \* chosen once: config.localWorker
  faults,      \* chosen once: forks, compilations and processes may fail
  worker,      \* this.worker: the number of a process, 0 for null
  queued,      \* this.queuedWorker: null, under way, or rejected
  pending,     \* the test that successTestExecution and abortTestExecution answer
  listeners,   \* the tests whose completeHandler listens
  request,     \* how far makeExecutionRequest of each test is
  outcome,     \* how execute() of each test has settled
  by,          \* the test whose message answered each test
  procs,       \* the processes, by number
  running,     \* the tests each process executes; 0 is the root process itself
  completions, \* the executionComplete messages under way
  kills,       \* how far the kill() of the loop and that of the controller are
  client, cur, \* what the loop awaits, and its test
  overtaken    \* tests that a kill() or the end of their process went ahead of

usage == <<local, faults>>
inst == <<worker, queued, pending, listeners>>
tests == <<request, outcome, by>>
children == <<procs, running, completions>>
caller == <<kills, client, cur>>
vars == <<usage, inst, tests, children, caller, overtaken>>

Procs == 1..MaxForks
Killers == {"loop", "controller"}
Statuses == {"passed", "failed"}

\* A process that is registered in the transport.
Live == {p \in Procs : procs[p] \in {"alive", "dying", "broken"}}

TypeOK ==
  /\ local \in BOOLEAN /\ faults \in BOOLEAN
  /\ worker \in 0..MaxForks
  /\ queued \in {"null", "forking", "rejected"}
  /\ pending \in Tests \cup {NoTest}
  /\ listeners \subseteq Tests
  /\ request \in [Tests -> {"new", "init", "compile", "sent", "over"}]
  /\ outcome \in [Tests -> Statuses \cup {"none", "killed", "aborted", "lost"}]
  /\ by \in [Tests -> Tests \cup {NoTest}]
  /\ procs \in [Procs -> {"none", "alive", "dying", "broken", "exited"}]
  /\ running \in [0..MaxForks -> SUBSET Tests]
  /\ completions \subseteq [proc : Procs, test : Tests, status : Statuses]
  /\ kills \in [Killers -> {"none", "queued", "delay", "exit", "done", "rejected"}]
  /\ client \in {"idle", "execute", "kill", "lastKill", "over", "gaveUp"}
  /\ cur \in Tests \cup {NoTest}
  /\ overtaken \subseteq Tests

Init ==
  /\ local \in BOOLEAN /\ faults \in BOOLEAN
  /\ worker = 0 /\ queued = "null" /\ pending = NoTest /\ listeners = {}
  /\ request = [t \in Tests |-> "new"]
  /\ outcome = [t \in Tests |-> "none"]
  /\ by = [t \in Tests |-> NoTest]
  /\ procs = [p \in Procs |-> "none"]
  /\ running = [p \in 0..MaxForks |-> {}]
  /\ completions = {}
  /\ kills = [k \in Killers |-> "none"]
  /\ client = "idle" /\ cur = NoTest
  /\ overtaken = {}

\* A promise settles once.
Settled(ts, how) ==
  [t \in Tests |-> IF t \in ts /\ outcome[t] = "none" THEN how ELSE outcome[t]]

\* The requests that have not come to their send().
Unsent == {t \in Tests : request[t] \in {"init", "compile"}}

-----------------------------------------------------------------------------
(* execute()                                                               *)

\* initWorker(): wait for the fork under way, fork, or take the worker there is.
\* A local worker is a new object every time.
InitWorker(t) ==
  \/ /\ queued # "null"
     /\ request' = [request EXCEPT ![t] = "init"]
     /\ UNCHANGED queued
  \/ /\ queued = "null" /\ (local \/ worker = 0)
     /\ queued' = "forking"
     /\ request' = [request EXCEPT ![t] = "init"]
  \/ /\ queued = "null" /\ ~local /\ worker # 0
     /\ request' = [request EXCEPT ![t] = "compile"]
     /\ UNCHANGED queued

Execute(t) ==
  /\ client = "idle" /\ request[t] = "new"
  /\ InitWorker(t)
  /\ client' = "execute" /\ cur' = t
  /\ UNCHANGED <<usage, worker, pending, listeners, outcome, by, children, kills, overtaken>>

\* createWorker() or createLocalWorker() resolves: the requests that wait go on,
\* a kill() that waits starts its delay of 100 ms.
Forked ==
  /\ queued = "forking"
  /\ \E p \in Procs :
       /\ procs[p] = "none" /\ \A q \in 1..(p - 1) : procs[q] # "none"
       /\ worker' = p
       /\ procs' = [procs EXCEPT ![p] = IF local THEN "exited" ELSE "alive"]
  /\ queued' = "null"
  /\ request' = [t \in Tests |-> IF request[t] = "init" THEN "compile" ELSE request[t]]
  /\ kills' = [k \in Killers |-> IF kills[k] = "queued" THEN "delay" ELSE kills[k]]
  /\ UNCHANGED <<usage, pending, listeners, outcome, by, running, completions,
                 client, cur, overtaken>>

\* fork() rejects: this.queuedWorker keeps the rejected promise for good.
ForkRejected ==
  /\ faults /\ ~local /\ queued = "forking"
  /\ queued' = "rejected"
  /\ kills' = [k \in Killers |-> IF kills[k] = "queued" THEN "rejected" ELSE kills[k]]
  /\ UNCHANGED <<usage, worker, pending, listeners, tests, children, client, cur, overtaken>>

\* The await of the rejected promise ends the request.
InitRejected(t) ==
  /\ request[t] = "init" /\ queued = "rejected"
  /\ request' = [request EXCEPT ![t] = "over"]
  /\ outcome' = Settled({t}, "lost")
  /\ UNCHANGED <<usage, inst, by, children, caller, overtaken>>

\* Where send() gets a test to: 0 is a local worker.
Reachable == IF local THEN {0} ELSE {p \in Live : procs[p] # "broken"}

\* The test is compiled: the listener, the success and the abort function are set
\* and the test goes to the process registered under the instance's id, whichever
\* that is by now.  Without one, or when the process was never spawned, send()
\* rejects, and the listener and the functions stay.
Compiled(t) ==
  /\ request[t] = "compile"
  /\ pending' = t
  /\ listeners' = listeners \cup {t}
  /\ \/ \E p \in Reachable :
          /\ running' = [running EXCEPT ![p] = @ \cup {t}]
          /\ request' = [request EXCEPT ![t] = "sent"]
          /\ UNCHANGED outcome
     \/ /\ Reachable = {}
        /\ request' = [request EXCEPT ![t] = "over"]
        /\ outcome' = Settled({t}, "lost")
        /\ UNCHANGED running
  /\ UNCHANGED <<usage, worker, queued, by, procs, completions, caller, overtaken>>

\* getExecutionPayload throws: nothing was registered yet.
CompileFailed(t) ==
  /\ faults /\ request[t] = "compile"
  /\ request' = [request EXCEPT ![t] = "over"]
  /\ outcome' = Settled({t}, "failed")
  /\ by' = [by EXCEPT ![t] = t]
  /\ UNCHANGED <<usage, inst, children, caller, overtaken>>

-----------------------------------------------------------------------------
(* Messages                                                                *)

\* The message about t: completeHandler of every listener.
Complete(t, status) ==
  /\ outcome' = Settled(listeners, status)
  /\ by' = [q \in Tests |-> IF q \in listeners /\ outcome[q] = "none" THEN t ELSE by[q]]
  /\ listeners' = {}
  /\ pending' = IF listeners = {} THEN pending ELSE NoTest

\* Mutant: the message of a local worker is queued like that of a process.
Finish_Queued(p, t) ==
  /\ t \in running[p]
  /\ running' = [running EXCEPT ![p] = @ \ {t}]
  /\ \E status \in Statuses :
       completions' = completions \cup {[proc |-> p, test |-> t, status |-> status]}
  /\ UNCHANGED <<usage, inst, tests, procs, caller, overtaken>>

\* A test ends in its process, which sends the message and goes on; a local worker
\* emits it here and now.
Finish(p, t) ==
  /\ t \in running[p]
  /\ running' = [running EXCEPT ![p] = @ \ {t}]
  /\ \E status \in Statuses :
       \/ p = 0 /\ Complete(t, status) /\ UNCHANGED completions
       \/ /\ p # 0
          /\ completions' = completions \cup {[proc |-> p, test |-> t, status |-> status]}
          /\ UNCHANGED <<outcome, by, listeners, pending>>
  /\ UNCHANGED <<usage, worker, queued, request, procs, caller, overtaken>>

Deliver(m) ==
  /\ completions' = completions \ {m}
  /\ Complete(m.test, m.status)
  /\ UNCHANGED <<usage, worker, queued, request, procs, running, caller, overtaken>>

-----------------------------------------------------------------------------
(* kill() and the end of a process                                         *)

\* The pending execution is answered, and no longer listens.
AnswerPending(how) ==
  /\ outcome' = Settled({pending}, how)
  /\ listeners' = listeners \ {pending}
  /\ pending' = NoTest

\* Mutant: the exit of the process is not waited for.
Kill_NoWait(k) ==
  \/ /\ queued # "null"
     /\ kills' = [kills EXCEPT ![k] = IF queued = "forking" THEN "queued" ELSE "rejected"]
     /\ UNCHANGED <<worker, pending, listeners, outcome, procs, overtaken>>
  \/ /\ queued = "null"
     /\ kills' = [kills EXCEPT ![k] = "done"]
     /\ procs' = [p \in Procs |-> IF p = worker /\ procs[p] = "alive" THEN "dying" ELSE procs[p]]
     /\ worker' = 0
     /\ AnswerPending("killed")
     /\ overtaken' = overtaken \cup Unsent

\* kill() in its own stack frame, for the killer k: it waits for a fork, does
\* nothing without a worker, and otherwise removes the handlers, signals and waits
\* for the exit.  A local worker emits its exit at once; its test goes on.
Kill(k) ==
  \/ /\ queued # "null"
     /\ kills' = [kills EXCEPT ![k] = IF queued = "forking" THEN "queued" ELSE "rejected"]
     /\ UNCHANGED <<worker, pending, listeners, outcome, procs, overtaken>>
  \/ /\ queued = "null" /\ worker = 0
     /\ kills' = [kills EXCEPT ![k] = "done"]
     /\ overtaken' = overtaken \cup Unsent
     /\ UNCHANGED <<worker, pending, listeners, outcome, procs>>
  \/ /\ queued = "null" /\ worker # 0 /\ ~local
     /\ kills' = [kills EXCEPT ![k] = "exit"]
     /\ procs' = [procs EXCEPT ![worker] = IF @ = "alive" THEN "dying" ELSE @]
     /\ UNCHANGED <<worker, pending, listeners, outcome, overtaken>>
  \/ /\ queued = "null" /\ worker # 0 /\ local
     /\ kills' = [kills EXCEPT ![k] = "done"]
     /\ worker' = 0
     /\ AnswerPending("killed")
     /\ overtaken' = overtaken \cup Unsent \cup running[0]
     /\ UNCHANGED procs

\* Mutant: the recursive call after the delay is missing.
KillAgain_Missing(k) ==
  /\ kills[k] = "delay"
  /\ kills' = [kills EXCEPT ![k] = "done"]
  /\ UNCHANGED <<usage, inst, tests, children, client, cur, overtaken>>

\* The recursive kill() 100 ms after the fork.
KillAgain(k) ==
  /\ kills[k] = "delay"
  /\ Kill(k)
  /\ UNCHANGED <<usage, queued, request, by, running, completions, client, cur>>

\* The messages of p that were under way when it ended are read later or lost.
Remains(p) == {m \in completions : m.proc = p}
Orphaned(p, kept) ==
  /\ running' = [running EXCEPT ![p] = {}]
  /\ completions' = (completions \ Remains(p)) \cup kept

\* Mutant: nobody answers the execution that was under way.
ExitAfterKill_Silent(p) ==
  /\ procs[p] = "dying"
  /\ procs' = [procs EXCEPT ![p] = "exited"]
  /\ \E kept \in {{}, Remains(p)} :
       /\ Orphaned(p, kept)
       /\ overtaken' = overtaken \cup Unsent \cup {m.test : m \in kept}
  /\ worker' = 0
  /\ kills' = [k \in Killers |-> IF kills[k] = "exit" THEN "done" ELSE kills[k]]
  /\ UNCHANGED <<usage, queued, pending, listeners, outcome, request, by, client, cur>>

\* Mutant: one kill() alone hears of the exit.
ExitAfterKill_One(p) ==
  /\ procs[p] = "dying"
  /\ procs' = [procs EXCEPT ![p] = "exited"]
  /\ \E kept \in {{}, Remains(p)} :
       /\ Orphaned(p, kept)
       /\ overtaken' = overtaken \cup Unsent \cup {m.test : m \in kept}
  /\ worker' = 0
  /\ \E k \in Killers : kills[k] = "exit" /\ kills' = [kills EXCEPT ![k] = "done"]
  /\ AnswerPending("killed")
  /\ UNCHANGED <<usage, queued, request, by, client, cur>>

\* The exit of a process that was signalled: every kill() that waits for it ends,
\* and the pending execution succeeds.
ExitAfterKill(p) ==
  /\ procs[p] = "dying"
  /\ procs' = [procs EXCEPT ![p] = "exited"]
  /\ \E kept \in {{}, Remains(p)} :
       /\ Orphaned(p, kept)
       /\ overtaken' = overtaken \cup Unsent \cup {m.test : m \in kept}
  /\ worker' = 0
  /\ kills' = [k \in Killers |-> IF kills[k] = "exit" THEN "done" ELSE kills[k]]
  /\ AnswerPending("killed")
  /\ UNCHANGED <<usage, queued, request, by, client, cur>>

\* workerExitHandler: a process that ends by itself.
UnexpectedExit(p) ==
  /\ faults /\ procs[p] = "alive"
  /\ procs' = [procs EXCEPT ![p] = "exited"]
  /\ \E kept \in {{}, Remains(p)} :
       /\ Orphaned(p, kept)
       /\ overtaken' = overtaken \cup {m.test : m \in kept}
  /\ worker' = 0
  /\ AnswerPending("aborted")
  /\ UNCHANGED <<usage, queued, request, by, caller>>

\* workerErrorHandler: the process could not be spawned.  this.worker stays, and an
\* exit need not follow.
WorkerError(p) ==
  /\ faults /\ procs[p] = "alive" /\ running[p] = {} /\ Remains(p) = {}
  /\ procs' = [procs EXCEPT ![p] = "broken"]
  /\ AnswerPending("aborted")
  /\ UNCHANGED <<usage, worker, queued, request, by, running, completions, caller, overtaken>>

-----------------------------------------------------------------------------
(* The caller: a loop of TestRunController and the controller's kill()     *)

CallKill(k, at) ==
  /\ Kill(k)
  /\ client' = at
  /\ UNCHANGED <<usage, queued, request, by, running, completions, cur>>

StopLoop(at) ==
  /\ client' = at
  /\ UNCHANGED <<usage, inst, tests, children, kills, cur, overtaken>>

\* execute() has settled; the loop goes on, after a kill() if it restarts workers,
\* or gives up after an error and leaves the worker to the controller.
Answered ==
  /\ client = "execute" /\ outcome[cur] # "none"
  /\ \/ StopLoop("idle")
     \/ ~local /\ CallKill("loop", "kill")
     \/ outcome[cur] \in {"failed", "aborted", "lost"} /\ StopLoop("gaveUp")

\* The timeout of the test: the loop kills the worker.
Timeout ==
  /\ client = "execute" /\ outcome[cur] = "none"
  /\ CallKill("loop", "kill")

\* Mutant: the worker of a loop that ends is left alone.
LastKill_None == client = "idle" /\ StopLoop("over")

\* No test is left: the loop kills its worker, unless that is a local one.
LastKill ==
  /\ client = "idle"
  /\ IF local THEN StopLoop("over") ELSE CallKill("loop", "lastKill")

\* The loop's kill() has ended; a rejection ends the loop, and so may the error of
\* the test that timed out.
Killed ==
  /\ client \in {"kill", "lastKill"}
  /\ \/ /\ kills["loop"] = "done"
        /\ \E at \in IF client = "kill" THEN {"idle", "gaveUp"} ELSE {"over"} : StopLoop(at)
     \/ kills["loop"] = "rejected" /\ StopLoop("gaveUp")

\* TestRunController.kill(), once, at any moment.
Shutdown == kills["controller"] = "none" /\ CallKill("controller", client)

Next ==
  \/ \E t \in Tests : Execute(t) \/ InitRejected(t) \/ Compiled(t) \/ CompileFailed(t)
  \/ Forked \/ ForkRejected
  \/ \E p \in 0..MaxForks, t \in Tests : Finish(p, t)
  \/ \E m \in completions : Deliver(m)
  \/ \E k \in Killers : KillAgain(k)
  \/ \E p \in Procs : ExitAfterKill(p) \/ UnexpectedExit(p) \/ WorkerError(p)
  \/ Answered \/ Timeout \/ LastKill \/ Killed \/ Shutdown

Spec == Init /\ [][Next]_vars

(***************************************************************************)
(* Forks, compilations and hooks end, messages and delays arrive, a        *)
(* signalled process exits, and the loop goes on.  No test need end: its   *)
(* timeout fires.                                                          *)
(***************************************************************************)
FairSpec ==
  /\ Spec
  /\ WF_vars(Forked \/ ForkRejected)
  /\ \A t \in Tests : WF_vars(InitRejected(t)) /\ WF_vars(Compiled(t) \/ CompileFailed(t))
  /\ WF_vars(\E m \in completions : Deliver(m))
  /\ \A k \in Killers : WF_vars(KillAgain(k))
  /\ \A p \in Procs : WF_vars(ExitAfterKill(p))
  /\ WF_vars(Timeout) /\ WF_vars(Answered) /\ WF_vars(LastKill) /\ WF_vars(Killed)
-----------------------------------------------------------------------------
(* What the instance promises                                              *)

\* There is one process at most, and it is this.worker, so that kill() finds it: a
\* fork, a kill() and an execute() in any order leave no process behind.
OneProcess == ~local => \A p \in Live : worker = p

\* When the loop has run to its end, no process is left, not even one that the
\* controller's kill() still waits for.
NothingLeft == client = "over" => Live = {}

\* As long as no kill() goes ahead of a compilation or of an answer, a test is
\* answered by its own message and runs alone.
OwnAnswer ==
  overtaken = {} => \A t \in Tests : by[t] \in {t, NoTest}
RunsAlone ==
  overtaken = {} => Cardinality(UNION {running[p] : p \in 0..MaxForks}) <= 1

\* The executions of two tests have nothing to do with each other: each runs alone and is
\* settled by its own message.
TestsApart == RunsAlone /\ OwnAnswer

\* "should success execution, if process was killed by user during execution".
KilledIsSuccess == \A t \in overtaken : outcome[t] # "lost"

\* A kill() went ahead of some test, and the functions that answer t were replaced by those
\* of another test while t still listened.
Displaced(t) == overtaken # {} /\ t \in listeners /\ pending # t

\* Every execute() settles, whatever fails and whether it forks or finds a worker, unless a
\* kill() went ahead of its own test: a local one goes on where no kill() finds it, and a
\* test sent to the next process may wait there for a loop that has given up.  The test
\* that such a one displaces is not answered by a kill() either.
ExecuteSettles ==
  \A t \in Tests : request[t] \in {"init", "compile", "sent"} ~>
    outcome[t] # "none" \/ t \in overtaken \/ Displaced(t)

\* Every kill() ends, unless the process was never spawned.
KillEnds ==
  \A k \in Killers : kills[k] \in {"queued", "delay", "exit"} ~>
    kills[k] \in {"done", "rejected"} \/ \E p \in Procs : procs[p] = "broken"

\* No caller of the instance waits for ever, whatever the order of execute(), kill() and
\* the end of the process.
CallsEnd == ExecuteSettles /\ KillEnds
=============================================================================
