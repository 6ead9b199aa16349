------------------------ MODULE TestWorkerInstanceProofs ------------------------
(***************************************************************************)
(* A worker instance, for any number of tests and forks.                   *)
(*                                                                         *)
(* OneProcess is not inductive: a fork could leave a second process if one *)
(* were registered while this.queuedWorker is pending.  Single adds that   *)
(* there is none, which initWorker() ensures by forking only when          *)
(* this.worker is null, and kill() by clearing it after the exit only.     *)
(*                                                                         *)
(* NothingLeft needs the states in which the last kill() is under way:     *)
(* Tidy says that it is done only when there is neither a worker nor a     *)
(* fork.                                                                   *)
(*                                                                         *)
(* TestsApart needs what goes with each state of a request: Asked (one     *)
(* execute() waits, that of the loop's test), Turns (what the instance     *)
(* keeps of a test), Places (a test that runs, or whose message is under   *)
(* way, has not settled).                                                  *)
(***************************************************************************)
EXTENDS TestWorkerInstance, FiniteSetTheorems, TLAPS

Single ==
  /\ worker \in 0..MaxForks
  /\ procs \in [Procs -> {"none", "alive", "dying", "broken", "exited"}]
  /\ ~local => \A p \in Live : worker = p /\ queued = "null"

LEMMA SingleInit == Init => Single
BY InstanceAssumption DEF Init, Single, Live, Procs

\* Steps that fork nothing and end nothing.
LEMMA SingleKept ==
  ASSUME Single, UNCHANGED <<local, worker, procs>>,
         \/ UNCHANGED queued
         \/ worker = 0
         \/ queued # "null"
         \/ local
  PROVE  Single'
BY DEF Single, Live, Procs

LEMMA SingleExecute == ASSUME Single, NEW t \in Tests, Execute(t) PROVE Single'
BY SingleKept DEF Execute, InitWorker, usage, children

LEMMA SingleForked == ASSUME Single, Forked PROVE Single'
<1>1. PICK p \in Procs :
        /\ worker' = p
        /\ procs' = [procs EXCEPT ![p] = IF local THEN "exited" ELSE "alive"]
  BY DEF Forked
<1>2. queued = "forking" /\ queued' = "null" /\ local' = local
  BY DEF Forked, usage
<1>3. ~local => Live = {}
  BY <1>2 DEF Single
<1>4. ~local => Live' = {p}
  BY <1>1, <1>2, <1>3 DEF Single, Live
<1> QED
  BY <1>1, <1>2, <1>4, InstanceAssumption DEF Single, Procs

\* kill() in its own stack frame may mark the process as dying, no more.
LEMMA SingleKill ==
  ASSUME Single, NEW k \in Killers, Kill(k), UNCHANGED <<local, queued>>
  PROVE  Single'
<1>1. CASE UNCHANGED <<worker, procs>>
  BY <1>1, SingleKept
<1>2. CASE /\ queued = "null" /\ worker # 0 /\ ~local
           /\ procs' = [procs EXCEPT ![worker] = IF @ = "alive" THEN "dying" ELSE @]
           /\ worker' = worker
  <2>1. worker \in Procs
    BY <1>2, InstanceAssumption DEF Single, Procs
  <2>2. Live' = Live
    BY <1>2, <2>1 DEF Single, Live
  <2> QED
    BY <1>2, <2>1, <2>2 DEF Single
<1>3. CASE local /\ worker' = 0 /\ procs' = procs
  BY <1>3, InstanceAssumption DEF Single
<1> QED
  BY <1>1, <1>2, <1>3 DEF Kill

\* The end of a process: it was this.worker.
LEMMA SingleExit ==
  ASSUME Single, NEW p \in Procs, p \in Live,
         procs' = [procs EXCEPT ![p] = "exited"], worker' = 0,
         UNCHANGED <<local, queued>>
  PROVE  Single'
<1>1. ~local => Live' = {}
  BY DEF Single, Live
<1> QED
  BY <1>1, InstanceAssumption DEF Single

LEMMA SingleError == ASSUME Single, NEW p \in Procs, WorkerError(p) PROVE Single'
<1>1. /\ p \in Live /\ procs' = [procs EXCEPT ![p] = "broken"]
      /\ UNCHANGED <<local, worker, queued>>
  BY DEF WorkerError, Live, usage
<1>2. Live' = Live
  BY <1>1 DEF Single, Live
<1> QED
  BY <1>1, <1>2 DEF Single

LEMMA SingleCallKill ==
  ASSUME Single, NEW k \in Killers, NEW at, CallKill(k, at)
  PROVE  Single'
BY SingleKill DEF CallKill, usage

LEMMA SingleNext == Single /\ [Next]_vars => Single'
<1> SUFFICES ASSUME Single, [Next]_vars PROVE Single'
  OBVIOUS
<1>1. CASE UNCHANGED vars
  BY <1>1, SingleKept DEF vars, usage, inst, children
<1>2. ASSUME NEW t \in Tests, Execute(t) PROVE Single'
  BY <1>2, SingleExecute
<1>3. ASSUME NEW t \in Tests, InitRejected(t) PROVE Single'
  BY <1>3, SingleKept DEF InitRejected, usage, inst, children
<1>4. ASSUME NEW t \in Tests, Compiled(t) PROVE Single'
  BY <1>4, SingleKept DEF Compiled, usage
<1>5. ASSUME NEW t \in Tests, CompileFailed(t) PROVE Single'
  BY <1>5, SingleKept DEF CompileFailed, usage, inst, children
<1>6. CASE Forked
  BY <1>6, SingleForked
<1>7. CASE ForkRejected
  BY <1>7, SingleKept DEF ForkRejected, usage, children
<1>8. ASSUME NEW p \in 0..MaxForks, NEW t \in Tests, Finish(p, t) PROVE Single'
  BY <1>8, SingleKept DEF Finish, usage
<1>9. ASSUME NEW m \in completions, Deliver(m) PROVE Single'
  BY <1>9, SingleKept DEF Deliver, usage
<1>10. ASSUME NEW k \in Killers, KillAgain(k) PROVE Single'
  BY <1>10, SingleKill DEF KillAgain, usage
<1>11. ASSUME NEW p \in Procs, ExitAfterKill(p) PROVE Single'
  BY <1>11, SingleExit DEF ExitAfterKill, Live, usage
<1>12. ASSUME NEW p \in Procs, UnexpectedExit(p) PROVE Single'
  BY <1>12, SingleExit DEF UnexpectedExit, Live, usage
<1>13. ASSUME NEW p \in Procs, WorkerError(p) PROVE Single'
  BY <1>13, SingleError
<1>14. ASSUME NEW at, StopLoop(at) PROVE Single'
  BY <1>14, SingleKept DEF StopLoop, usage, inst, children
<1>15. ASSUME NEW k \in Killers, NEW at, CallKill(k, at) PROVE Single'
  BY <1>15, SingleCallKill
<1>16. CASE Answered \/ Timeout \/ LastKill \/ Killed \/ Shutdown
  BY <1>14, <1>15, <1>16 DEF Answered, Timeout, LastKill, Killed, Shutdown, Killers
<1> QED
  BY <1>1, <1>2, <1>3, <1>4, <1>5, <1>6, <1>7, <1>8, <1>9, <1>10, <1>11, <1>12,
     <1>13, <1>16 DEF Next

\* A worker instance has one process at most, and this.worker is it: no order of
\* execute(), kill(), timeouts and exits leaves a process that kill() cannot find.
THEOREM OneProcessHolds == Spec => []OneProcess
<1>1. Single => OneProcess
  BY DEF Single, OneProcess
<1> QED
  BY <1>1, SingleInit, SingleNext, PTL DEF Spec
-----------------------------------------------------------------------------
(* Types                                                                   *)

\* A promise settles with one of its outcomes.
LEMMA SettledType ==
  ASSUME TypeOK, NEW ts, NEW how \in Statuses \cup {"none", "killed", "aborted", "lost"}
  PROVE  Settled(ts, how) \in [Tests -> Statuses \cup {"none", "killed", "aborted", "lost"}]
BY DEF Settled, TypeOK

LEMMA TypeInit == Init => TypeOK
BY InstanceAssumption DEF Init, TypeOK

LEMMA TypeComplete ==
  ASSUME TypeOK, NEW t \in Tests, NEW status \in Statuses, Complete(t, status)
  PROVE  /\ outcome' \in [Tests -> Statuses \cup {"none", "killed", "aborted", "lost"}]
         /\ by' \in [Tests -> Tests \cup {NoTest}]
         /\ listeners' \subseteq Tests
         /\ pending' \in Tests \cup {NoTest}
BY SettledType DEF Complete, TypeOK

LEMMA TypeAnswer ==
  ASSUME TypeOK, NEW how \in {"killed", "aborted"}, AnswerPending(how)
  PROVE  /\ outcome' \in [Tests -> Statuses \cup {"none", "killed", "aborted", "lost"}]
         /\ listeners' \subseteq Tests
         /\ pending' \in Tests \cup {NoTest}
BY SettledType DEF AnswerPending, TypeOK

LEMMA TypeUnsent == Unsent \subseteq Tests
BY DEF Unsent

LEMMA TypeKill ==
  ASSUME TypeOK, NEW k \in Killers, Kill(k),
         UNCHANGED <<usage, queued, request, by, running, completions, cur>>,
         client' \in {"idle", "execute", "kill", "lastKill", "over", "gaveUp"}
  PROVE  TypeOK'
<1>1. kills' \in [Killers -> {"none", "queued", "delay", "exit", "done", "rejected"}]
  BY DEF Kill, TypeOK
<1>2. procs' \in [Procs -> {"none", "alive", "dying", "broken", "exited"}]
  BY DEF Kill, TypeOK
<1>3. /\ worker' \in 0..MaxForks
      /\ overtaken' \subseteq Tests
  BY TypeUnsent, InstanceAssumption DEF Kill, TypeOK
<1>4. /\ outcome' \in [Tests -> Statuses \cup {"none", "killed", "aborted", "lost"}]
      /\ listeners' \subseteq Tests
      /\ pending' \in Tests \cup {NoTest}
  BY TypeAnswer DEF Kill, TypeOK
<1> QED
  BY <1>1, <1>2, <1>3, <1>4 DEF TypeOK, usage

LEMMA TypeStop ==
  ASSUME TypeOK, NEW at \in {"idle", "execute", "kill", "lastKill", "over", "gaveUp"}, StopLoop(at)
  PROVE  TypeOK'
BY DEF StopLoop, TypeOK, usage, inst, tests, children

LEMMA TypeCallKill ==
  ASSUME TypeOK, NEW k \in Killers,
         NEW at \in {"idle", "execute", "kill", "lastKill", "over", "gaveUp"}, CallKill(k, at)
  PROVE  TypeOK'
BY TypeKill DEF CallKill, usage

\* The end of a process, whatever it leaves under way.
LEMMA TypeOrphaned ==
  ASSUME TypeOK, NEW p \in Procs, NEW kept \in {{}, Remains(p)}, Orphaned(p, kept)
  PROVE  /\ running' \in [0..MaxForks -> SUBSET Tests]
         /\ completions' \subseteq [proc : Procs, test : Tests, status : Statuses]
         /\ {m.test : m \in kept} \subseteq Tests
<1>1. kept \subseteq completions
  BY DEF Remains
<1>2. running' \in [0..MaxForks -> SUBSET Tests]
  BY DEF Orphaned, TypeOK
<1> QED
  BY <1>1, <1>2 DEF Orphaned, TypeOK

LEMMA TypeNext == TypeOK /\ [Next]_vars => TypeOK'
<1> SUFFICES ASSUME TypeOK, [Next]_vars PROVE TypeOK'
  OBVIOUS
<1>1. CASE UNCHANGED vars
  BY <1>1 DEF vars, usage, inst, tests, children, caller, TypeOK
<1>2. ASSUME NEW t \in Tests, Execute(t) PROVE TypeOK'
  BY <1>2 DEF Execute, InitWorker, TypeOK, usage, children
<1>3. ASSUME NEW t \in Tests, InitRejected(t) PROVE TypeOK'
  <2>1. outcome' \in [Tests -> Statuses \cup {"none", "killed", "aborted", "lost"}]
    BY <1>3, SettledType DEF InitRejected
  <2> QED
    BY <1>3, <2>1 DEF InitRejected, TypeOK, usage, inst, children, caller
<1>4. ASSUME NEW t \in Tests, Compiled(t) PROVE TypeOK'
  <2>1. outcome' \in [Tests -> Statuses \cup {"none", "killed", "aborted", "lost"}]
    BY <1>4, SettledType DEF Compiled, TypeOK
  <2>2. running' \in [0..MaxForks -> SUBSET Tests]
    BY <1>4 DEF Compiled, TypeOK
  <2> QED
    BY <1>4, <2>1, <2>2 DEF Compiled, TypeOK, usage, caller
<1>5. ASSUME NEW t \in Tests, CompileFailed(t) PROVE TypeOK'
  <2>1. outcome' \in [Tests -> Statuses \cup {"none", "killed", "aborted", "lost"}]
    BY <1>5, SettledType DEF CompileFailed, Statuses
  <2> QED
    BY <1>5, <2>1 DEF CompileFailed, TypeOK, usage, inst, children, caller
<1>6. CASE Forked
  BY <1>6, InstanceAssumption DEF Forked, TypeOK, usage, Procs
<1>7. CASE ForkRejected
  BY <1>7 DEF ForkRejected, TypeOK, usage, tests, children
<1>8. ASSUME NEW p \in 0..MaxForks, NEW t \in Tests, Finish(p, t) PROVE TypeOK'
  <2>1. running' \in [0..MaxForks -> SUBSET Tests]
    BY <1>8 DEF Finish, TypeOK
  <2>2. /\ completions' \subseteq [proc : Procs, test : Tests, status : Statuses]
        /\ outcome' \in [Tests -> Statuses \cup {"none", "killed", "aborted", "lost"}]
        /\ by' \in [Tests -> Tests \cup {NoTest}]
        /\ listeners' \subseteq Tests
        /\ pending' \in Tests \cup {NoTest}
    <3>1. PICK status \in Statuses :
            \/ p = 0 /\ Complete(t, status) /\ UNCHANGED completions
            \/ /\ p # 0
               /\ completions' = completions \cup {[proc |-> p, test |-> t, status |-> status]}
               /\ UNCHANGED <<outcome, by, listeners, pending>>
      BY <1>8 DEF Finish
    <3> QED
      BY <3>1, TypeComplete, InstanceAssumption DEF TypeOK, Procs
  <2> QED
    BY <1>8, <2>1, <2>2 DEF Finish, TypeOK, usage, caller
<1>9. ASSUME NEW m \in completions, Deliver(m) PROVE TypeOK'
  <2>1. m.test \in Tests /\ m.status \in Statuses
    BY DEF TypeOK
  <2> QED
    BY <1>9, <2>1, TypeComplete DEF Deliver, TypeOK, usage, caller
<1>10. ASSUME NEW k \in Killers, KillAgain(k) PROVE TypeOK'
  BY <1>10, TypeKill DEF KillAgain, usage, TypeOK
<1>11. ASSUME NEW p \in Procs, ExitAfterKill(p) PROVE TypeOK'
  <2>1. PICK kept \in {{}, Remains(p)} :
          /\ Orphaned(p, kept)
          /\ overtaken' = overtaken \cup Unsent \cup {m.test : m \in kept}
    BY <1>11 DEF ExitAfterKill
  <2>2. /\ running' \in [0..MaxForks -> SUBSET Tests]
        /\ completions' \subseteq [proc : Procs, test : Tests, status : Statuses]
        /\ overtaken' \subseteq Tests
    BY <2>1, TypeOrphaned, TypeUnsent DEF TypeOK
  <2> QED
    BY <1>11, <2>2, TypeAnswer, InstanceAssumption DEF ExitAfterKill, TypeOK, usage
<1>12. ASSUME NEW p \in Procs, UnexpectedExit(p) PROVE TypeOK'
  <2>1. PICK kept \in {{}, Remains(p)} :
          /\ Orphaned(p, kept)
          /\ overtaken' = overtaken \cup {m.test : m \in kept}
    BY <1>12 DEF UnexpectedExit
  <2>2. /\ running' \in [0..MaxForks -> SUBSET Tests]
        /\ completions' \subseteq [proc : Procs, test : Tests, status : Statuses]
        /\ overtaken' \subseteq Tests
    BY <2>1, TypeOrphaned DEF TypeOK
  <2> QED
    BY <1>12, <2>2, TypeAnswer, InstanceAssumption DEF UnexpectedExit, TypeOK, usage, caller
<1>13. ASSUME NEW p \in Procs, WorkerError(p) PROVE TypeOK'
  BY <1>13, TypeAnswer DEF WorkerError, TypeOK, usage, caller
<1>14. CASE Answered
  BY <1>14, TypeStop, TypeCallKill DEF Answered, Killers
<1>15. CASE Timeout \/ LastKill
  BY <1>15, TypeStop, TypeCallKill DEF Timeout, LastKill, Killers
<1>16. CASE Killed
  BY <1>16, TypeStop DEF Killed
<1>17. CASE Shutdown
  BY <1>17, TypeCallKill DEF Shutdown, Killers, TypeOK
<1> QED
  BY <1>1, <1>2, <1>3, <1>4, <1>5, <1>6, <1>7, <1>8, <1>9, <1>10, <1>11, <1>12,
     <1>13, <1>14, <1>15, <1>16, <1>17 DEF Next

\* Every variable of the instance keeps its type, whatever the order of execute(),
\* kill(), messages and exits.
THEOREM TypeCorrect == Spec => []TypeOK
BY TypeInit, TypeNext, PTL DEF Spec

-----------------------------------------------------------------------------
(* No process is left behind                                               *)

\* A worker that is set is a process of the transport, a local worker is none, and
\* when the last kill() of the loop is done there is neither a worker nor a fork.
Tidy ==
  /\ local => Live = {}
  /\ ~local /\ worker # 0 => worker \in Live
  /\ client \in {"lastKill", "over"} /\ kills["loop"] = "done" /\ ~local =>
       worker = 0 /\ queued = "null"
  /\ client = "over" /\ ~local => kills["loop"] = "done"

LEMMA TidyInit == Init => Tidy
BY DEF Init, Tidy, Live, Procs

\* Steps that leave the processes and the loop alone.
LEMMA TidyKept ==
  ASSUME Tidy, UNCHANGED <<local, worker, procs>>,
         \/ UNCHANGED <<queued, kills, client>>
         \/ client' \notin {"lastKill", "over"}
         \/ local
  PROVE  Tidy'
BY DEF Tidy, Live, Procs

\* kill() in its own stack frame, called or gone on with.
LEMMA TidyKill ==
  ASSUME TypeOK, Single, Tidy, NEW k \in Killers, Kill(k),
         UNCHANGED <<local, queued>>,
         \/ client' = client /\ (client = "over" => k # "loop")
         \/ k = "loop" /\ client' # "over"
  PROVE  Tidy'
<1>1. kills \in [Killers -> {"none", "queued", "delay", "exit", "done", "rejected"}]
  BY DEF TypeOK
<1>2. Live' = Live
  BY DEF Kill, Single, Live
<1>3. ~local /\ worker' # 0 => worker' \in Live'
  BY <1>2 DEF Kill, Tidy
<1>4. k # "loop" => kills'["loop"] = kills["loop"] /\ client' = client
  BY <1>1 DEF Kill, Killers
<1>5. ~local => worker' = worker
  BY DEF Kill
<1>6. k = "loop" /\ kills'["loop"] = "done" /\ ~local => worker' = 0 /\ queued' = "null"
  BY <1>1 DEF Kill, Killers
<1> QED
  BY <1>2, <1>3, <1>4, <1>5, <1>6 DEF Tidy

\* The end of a process.
LEMMA TidyExit ==
  ASSUME Single, Tidy, NEW p \in Procs, p \in Live,
         procs' = [procs EXCEPT ![p] = "exited"], worker' = 0,
         \/ kills' = kills
         \/ kills' = [k \in Killers |-> IF kills[k] = "exit" THEN "done" ELSE kills[k]],
         UNCHANGED <<local, queued, client>>
  PROVE  Tidy'
<1>1. ~local /\ Live' = {} /\ queued = "null"
  BY DEF Single, Tidy, Live
<1>2. "loop" \in Killers
  BY DEF Killers
<1> QED
  BY <1>1, <1>2 DEF Tidy

LEMMA TidyForked == ASSUME TypeOK, Single, Tidy, Forked PROVE Tidy'
<1>1. PICK p \in Procs :
        /\ worker' = p
        /\ procs' = [procs EXCEPT ![p] = IF local THEN "exited" ELSE "alive"]
  BY DEF Forked
<1>2. queued = "forking" /\ local' = local /\ client' = client
  BY DEF Forked, usage
<1>3. "loop" \in Killers /\ (kills'["loop"] = "done" <=> kills["loop"] = "done")
  BY DEF Forked, Killers
<1>4. IF local THEN Live' = {} ELSE p \in Live'
  BY <1>1, <1>2 DEF Single, Tidy, Live
<1> QED
  BY <1>1, <1>2, <1>3, <1>4 DEF Tidy

LEMMA TidyNext == TypeOK /\ Single /\ Tidy /\ [Next]_vars => Tidy'
<1> SUFFICES ASSUME TypeOK, Single, Tidy, [Next]_vars PROVE Tidy'
  OBVIOUS
<1>1. CASE UNCHANGED vars
  BY <1>1, TidyKept DEF vars, usage, inst, children, caller
<1>2. ASSUME NEW t \in Tests, Execute(t) PROVE Tidy'
  BY <1>2, TidyKept DEF Execute, usage, children
<1>3. ASSUME NEW t \in Tests, InitRejected(t) PROVE Tidy'
  BY <1>3, TidyKept DEF InitRejected, usage, inst, children, caller
<1>4. ASSUME NEW t \in Tests, Compiled(t) PROVE Tidy'
  BY <1>4, TidyKept DEF Compiled, usage, caller
<1>5. ASSUME NEW t \in Tests, CompileFailed(t) PROVE Tidy'
  BY <1>5, TidyKept DEF CompileFailed, usage, inst, children, caller
<1>6. CASE Forked
  BY <1>6, TidyForked
<1>7. CASE ForkRejected
  <2>1. "loop" \in Killers /\ (kills'["loop"] = "done" <=> kills["loop"] = "done")
    BY <1>7 DEF ForkRejected, Killers
  <2>2. UNCHANGED <<local, worker, procs, client>> /\ queued = "forking"
    BY <1>7 DEF ForkRejected, usage, children
  <2> QED
    BY <2>1, <2>2 DEF Tidy, Live
<1>8. ASSUME NEW p \in 0..MaxForks, NEW t \in Tests, Finish(p, t) PROVE Tidy'
  BY <1>8, TidyKept DEF Finish, usage, caller
<1>9. ASSUME NEW m \in completions, Deliver(m) PROVE Tidy'
  BY <1>9, TidyKept DEF Deliver, usage, caller
<1>10. ASSUME NEW k \in Killers, KillAgain(k) PROVE Tidy'
  <2>1. CASE client = "over" /\ k = "loop"
    <3>1. local /\ kills["loop"] = "delay"
      BY <1>10, <2>1 DEF KillAgain, Tidy
    <3> QED
      BY <1>10, <3>1 DEF KillAgain, Kill, Tidy, Live, usage
  <2> QED
    BY <1>10, <2>1, TidyKill DEF KillAgain, usage
<1>11. ASSUME NEW p \in Procs, ExitAfterKill(p) PROVE Tidy'
  BY <1>11, TidyExit DEF ExitAfterKill, Live, usage
<1>12. ASSUME NEW p \in Procs, UnexpectedExit(p) PROVE Tidy'
  BY <1>12, TidyExit DEF UnexpectedExit, Live, usage, caller
<1>13. ASSUME NEW p \in Procs, WorkerError(p) PROVE Tidy'
  <2>1. p \in Live /\ procs' = [procs EXCEPT ![p] = "broken"]
    BY <1>13 DEF WorkerError, Live
  <2>2. Live' = Live
    BY <2>1 DEF Single, Live
  <2> QED
    BY <1>13, <2>2 DEF WorkerError, Tidy, usage, caller
<1>14. ASSUME NEW at, at \notin {"lastKill", "over"}, StopLoop(at) PROVE Tidy'
  BY <1>14, TidyKept DEF StopLoop, usage, inst, children
<1>15. ASSUME NEW at, at # "over", CallKill("loop", at) PROVE Tidy'
  BY <1>15, TidyKill DEF CallKill, usage, Killers
<1>16. CASE Answered
  BY <1>14, <1>15, <1>16 DEF Answered
<1>17. CASE Timeout
  BY <1>15, <1>17 DEF Timeout
<1>18. CASE LastKill
  <2>1. CASE local
    BY <1>18, <2>1, TidyKept DEF LastKill, StopLoop, usage, inst, children
  <2> QED
    BY <1>15, <1>18, <2>1 DEF LastKill
<1>19. CASE Killed
  <2>1. CASE client = "lastKill" /\ kills["loop"] = "done" /\ StopLoop("over")
    BY <2>1 DEF Tidy, StopLoop, usage, inst, children, Live
  <2> QED
    BY <1>14, <1>19, <2>1 DEF Killed
<1>20. CASE Shutdown
  BY <1>20, TidyKill DEF Shutdown, CallKill, Killers, usage
<1> QED
  BY <1>1, <1>2, <1>3, <1>4, <1>5, <1>6, <1>7, <1>8, <1>9, <1>10, <1>11, <1>12,
     <1>13, <1>16, <1>17, <1>18, <1>19, <1>20 DEF Next

\* A loop that has run to its end leaves no process, however its executions, its
\* timeouts and the controller's kill() interleaved with the end of the process.
THEOREM NothingIsLeft == Spec => []NothingLeft
<1>1. Single /\ Tidy => NothingLeft
  BY InstanceAssumption DEF Single, Tidy, NothingLeft, Live, Procs
<1> QED
  BY <1>1, TypeInit, SingleInit, TidyInit, TypeNext, SingleNext, TidyNext, PTL DEF Spec

-----------------------------------------------------------------------------
(* Two tests have nothing to do with each other                            *)

\* Where the test that is sent runs, and an execute() that has not settled.
Home == IF local THEN 0 ELSE worker
Waiting(t) == request[t] # "new" /\ outcome[t] = "none"

\* Only the test of the loop waits, and not once its kill() is done.
Asked ==
  \A t \in Tests : Waiting(t) =>
    /\ t = cur /\ client \in {"execute", "kill", "gaveUp"}
    /\ ~(client = "kill" /\ kills["loop"] = "done")

\* What an instance keeps of a test goes with the state of its request.
Turns ==
  \A t \in Tests :
    /\ request[t] \in {"new", "init", "compile"} =>
         outcome[t] = "none" /\ t \notin listeners /\ t # pending
    /\ request[t] = "compile" /\ local => worker # 0
    /\ request[t] = "sent" /\ outcome[t] = "none" =>
         t = pending /\ t \in listeners /\ worker # 0
    /\ request[t] = "over" => outcome[t] # "none"
    /\ by[t] \in {t, NoTest}

\* A test that runs, or whose message is under way, is at the worker and not
\* settled, and has one message.
Places ==
  /\ \A p \in 0..MaxForks : \A t \in running[p] :
       p = Home /\ worker # 0 /\ request[t] = "sent" /\ outcome[t] = "none"
  /\ \A m \in completions :
       /\ ~local /\ m.proc = worker
       /\ request[m.test] = "sent" /\ outcome[m.test] = "none"
       /\ m.test \notin running[m.proc]
       /\ \A n \in completions : n.test = m.test => n = m

Apart == overtaken = {} => Asked /\ Turns /\ Places

LEMMA ApartInit == Init => Apart
BY InstanceAssumption DEF Init, Apart, Asked, Turns, Places, Waiting

\* A test that runs or has a message under way waits, and is the loop's.
LEMMA RunningWaits ==
  ASSUME TypeOK, Asked, Places
  PROVE  /\ \A p \in 0..MaxForks : \A t \in running[p] : t \in Tests /\ Waiting(t) /\ t = cur
         /\ \A m \in completions : m.test \in Tests /\ Waiting(m.test) /\ m.test = cur
<1>1. \A p \in 0..MaxForks : \A t \in running[p] : t \in Tests /\ Waiting(t)
  BY DEF TypeOK, Places, Waiting
<1>2. \A m \in completions : m.test \in Tests /\ Waiting(m.test)
  BY DEF TypeOK, Places, Waiting
<1> QED
  BY <1>1, <1>2 DEF Asked

\* Steps of the loop alone.
LEMMA ApartStop ==
  ASSUME Asked, Turns, Places, NEW at, StopLoop(at),
         \A t \in Tests : Waiting(t) =>
           at \in {"execute", "kill", "gaveUp"} /\ ~(at = "kill" /\ kills["loop"] = "done")
  PROVE  Asked' /\ Turns' /\ Places'
<1>1. Asked'
  BY DEF StopLoop, Asked, Waiting, tests
<1>2. Turns'
  BY DEF StopLoop, Turns, usage, inst, tests
<1>3. Places'
  BY DEF StopLoop, Places, Home, usage, inst, tests, children
<1> QED
  BY <1>1, <1>2, <1>3

LEMMA ApartExecute ==
  ASSUME TypeOK, Asked, Turns, Places, NEW t \in Tests, Execute(t)
  PROVE  Asked' /\ Turns' /\ Places'
<1>1. /\ request[t] = "new" /\ client = "idle" /\ client' = "execute" /\ cur' = t
      /\ \/ request' = [request EXCEPT ![t] = "init"]
         \/ ~local /\ request' = [request EXCEPT ![t] = "compile"]
      /\ UNCHANGED <<local, worker, pending, listeners, outcome, by, running, completions>>
      /\ request \in [Tests -> {"new", "init", "compile", "sent", "over"}]
  BY DEF Execute, InitWorker, usage, children, TypeOK
<1>2. \A q \in Tests : ~Waiting(q)
  BY <1>1 DEF Asked
<1>3. Asked'
  BY <1>1, <1>2 DEF Asked, Waiting
<1>4. Turns'
  BY <1>1 DEF Turns
<1>5. Places'
  BY <1>1 DEF Places, Home, TypeOK
<1> QED
  BY <1>3, <1>4, <1>5

\* A request that ends before it is sent.
LEMMA ApartOver ==
  ASSUME TypeOK, Asked, Turns, Places, NEW t \in Tests, request[t] \in {"init", "compile"},
         request' = [request EXCEPT ![t] = "over"],
         NEW how \in {"lost", "failed"}, outcome' = Settled({t}, how),
         \/ by' = by
         \/ by' = [by EXCEPT ![t] = t],
         \/ UNCHANGED <<pending, listeners>>
         \/ pending' = t /\ listeners' = listeners \cup {t},
         UNCHANGED <<local, worker, running, completions, kills, client, cur>>
  PROVE  Asked' /\ Turns' /\ Places'
<1>1. /\ request \in [Tests -> {"new", "init", "compile", "sent", "over"}]
      /\ by \in [Tests -> Tests \cup {NoTest}]
  BY DEF TypeOK
<1>2. \A q \in Tests : outcome'[q] = IF q = t THEN how ELSE outcome[q]
  BY DEF Settled, Turns
<1>3. t = cur /\ \A q \in Tests : Waiting(q) => q = t
  BY DEF Asked, Turns, Waiting
<1>4. Asked'
  BY <1>1, <1>2 DEF Asked, Waiting
<1>5. Turns'
  BY <1>1, <1>2, <1>3 DEF Turns, Waiting
<1>6. Places'
  BY <1>1, <1>2, RunningWaits DEF Places, Home
<1> QED
  BY <1>4, <1>5, <1>6

LEMMA ApartSent ==
  ASSUME TypeOK, Single, Tidy, Asked, Turns, Places, NEW t \in Tests,
         request[t] = "compile", NEW p \in Reachable,
         request' = [request EXCEPT ![t] = "sent"],
         pending' = t, listeners' = listeners \cup {t},
         running' = [running EXCEPT ![p] = @ \cup {t}],
         UNCHANGED <<local, worker, outcome, by, completions, kills, client, cur>>
  PROVE  Asked' /\ Turns' /\ Places'
<1>1. request \in [Tests -> {"new", "init", "compile", "sent", "over"}]
  BY DEF TypeOK
<1>2. t = cur /\ \A q \in Tests : Waiting(q) => q = t
  BY DEF Asked, Turns, Waiting
<1>3. p = Home /\ p \in 0..MaxForks /\ worker # 0
  BY InstanceAssumption DEF Reachable, Home, Single, Turns, Live, Procs
<1>4. Asked'
  BY <1>1, <1>2 DEF Asked, Waiting, Turns
<1>5. Turns'
  BY <1>1, <1>2, <1>3 DEF Turns, Waiting
<1>6. /\ \A q \in 0..MaxForks : running[q] = {}
      /\ completions = {}
  BY <1>2, RunningWaits DEF Places
<1>7. \A q \in 0..MaxForks : running'[q] = IF q = p THEN {t} ELSE {}
  BY <1>6 DEF TypeOK
<1>8. outcome[t] = "none"
  BY DEF Turns
<1>9. Places'
  BY <1>1, <1>3, <1>6, <1>7, <1>8 DEF Places, Home
<1> QED
  BY <1>4, <1>5, <1>9

LEMMA ApartCompiled ==
  ASSUME TypeOK, Single, Tidy, Asked, Turns, Places, NEW t \in Tests, Compiled(t)
  PROVE  Asked' /\ Turns' /\ Places'
<1>1. /\ request[t] = "compile" /\ pending' = t /\ listeners' = listeners \cup {t}
      /\ UNCHANGED <<local, worker, by, completions, kills, client, cur>>
  BY DEF Compiled, usage, caller
<1>2. CASE Reachable = {}
  <2>1. /\ request' = [request EXCEPT ![t] = "over"]
        /\ outcome' = Settled({t}, "lost")
        /\ running' = running
    BY <1>2 DEF Compiled
  <2> QED
    BY <1>1, <2>1, ApartOver
<1>3. CASE \E p \in Reachable :
             /\ running' = [running EXCEPT ![p] = @ \cup {t}]
             /\ request' = [request EXCEPT ![t] = "sent"]
             /\ UNCHANGED outcome
  BY <1>1, <1>3, ApartSent
<1> QED
  BY <1>2, <1>3 DEF Compiled

\* Steps that settle nothing and leave the places of the tests alone.
LEMMA ApartFork ==
  ASSUME TypeOK, Single, Tidy, Asked, Turns, Places, Forked \/ ForkRejected
  PROVE  Asked' /\ Turns' /\ Places'
<1>1. /\ queued = "forking"
      /\ UNCHANGED <<local, pending, listeners, outcome, by, running, completions, client, cur>>
      /\ worker' = worker \/ worker' \in Procs
      /\ \A t \in Tests : \/ request'[t] = request[t]
                          \/ request[t] = "init" /\ request'[t] = "compile" /\ worker' \in Procs
  BY DEF Forked, ForkRejected, usage, tests, children
<1>2. "loop" \in Killers /\ (kills'["loop"] = "done" <=> kills["loop"] = "done")
  BY DEF Forked, ForkRejected, Killers, TypeOK
<1>3. 0 \notin Procs
  BY InstanceAssumption DEF Procs
<1>4. ~local => worker = 0
  BY <1>1 DEF Single, Tidy
<1>5. Asked'
  BY <1>1, <1>2 DEF Asked, Waiting
<1>6. Turns'
  BY <1>1, <1>3 DEF Turns
<1>7. Places'
  <2>1. \A p \in 0..MaxForks : \A t \in running[p] :
          /\ t \in Tests /\ local /\ request[t] = "sent" /\ request'[t] = "sent"
          /\ worker' # 0
    BY <1>1, <1>3, <1>4 DEF Places, TypeOK
  <2>2. completions = {}
    BY <1>4, InstanceAssumption DEF Places, TypeOK, Procs
  <2> QED
    BY <1>1, <2>1, <2>2 DEF Places, Home
<1> QED
  BY <1>5, <1>6, <1>7

\* The message about a test answers that test and no other.
LEMMA ApartComplete ==
  ASSUME TypeOK, Asked, Turns, Places, NEW t \in Tests, Waiting(t), request[t] = "sent",
         NEW status \in Statuses, Complete(t, status),
         UNCHANGED <<local, worker, request, kills, client, cur>>,
         \A p \in 0..MaxForks : running'[p] = {}, completions' = {}
  PROVE  Asked' /\ Turns' /\ Places'
<1>1. t = cur /\ \A q \in Tests : Waiting(q) => q = t
  BY DEF Asked
<1>2. outcome[t] = "none" /\ t = pending /\ t \in listeners
  BY DEF Turns, Waiting
<1>3. \A q \in Tests : q \in listeners /\ outcome[q] = "none" => q = t
  BY <1>1 DEF Turns, Waiting, TypeOK
<1>4. /\ \A q \in Tests : outcome'[q] = IF q = t THEN status ELSE outcome[q]
      /\ \A q \in Tests : by'[q] = IF q = t THEN t ELSE by[q]
      /\ listeners' = {} /\ pending' = NoTest
  BY <1>2, <1>3 DEF Complete, Settled
<1>5. status # "none"
  BY DEF Statuses
<1>6. Asked'
  BY <1>1, <1>4, <1>5 DEF Asked, Waiting
<1>7. Turns'
  BY <1>1, <1>4, <1>5, InstanceAssumption DEF Turns, Waiting
<1>8. Places'
  BY DEF Places
<1> QED
  BY <1>6, <1>7, <1>8

LEMMA ApartFinish ==
  ASSUME TypeOK, Asked, Turns, Places, NEW p \in 0..MaxForks, NEW t \in Tests, Finish(p, t)
  PROVE  Asked' /\ Turns' /\ Places'
<1>1. /\ t \in running[p] /\ running' = [running EXCEPT ![p] = @ \ {t}]
      /\ UNCHANGED <<local, worker, request, kills, client, cur>>
  BY DEF Finish, usage, caller
<1>2. /\ p = Home /\ worker # 0 /\ request[t] = "sent" /\ outcome[t] = "none" /\ Waiting(t)
      /\ t = cur
  BY <1>1, RunningWaits DEF Places
<1>3. /\ \A q \in 0..MaxForks : running'[q] = {}
      /\ \A m \in completions : FALSE
  <2>1. \A q \in 0..MaxForks : \A r \in running[q] : q = p /\ r = t
    BY <1>2, RunningWaits DEF Places
  <2>2. \A m \in completions : m.test = t /\ m.proc = worker /\ ~local
    BY <1>2, RunningWaits DEF Places
  <2> QED
    BY <1>1, <1>2, <2>1, <2>2 DEF Places, Home, TypeOK
<1>4. PICK status \in Statuses :
        \/ p = 0 /\ Complete(t, status) /\ UNCHANGED completions
        \/ /\ p # 0
           /\ completions' = completions \cup {[proc |-> p, test |-> t, status |-> status]}
           /\ UNCHANGED <<outcome, by, listeners, pending>>
  BY DEF Finish
<1>5. CASE p = 0
  <2>1. completions' = {} /\ Complete(t, status)
    BY <1>3, <1>4, <1>5
  <2> QED
    BY <1>1, <1>2, <1>3, <2>1, ApartComplete
<1>6. CASE p # 0
  <2>1. /\ completions' = {[proc |-> p, test |-> t, status |-> status]}
        /\ UNCHANGED <<outcome, by, listeners, pending>>
    BY <1>3, <1>4, <1>6
  <2>2. ~local /\ p = worker
    BY <1>2, <1>6 DEF Home
  <2>3. Asked'
    BY <1>1, <2>1 DEF Asked, Waiting
  <2>4. Turns'
    BY <1>1, <2>1 DEF Turns
  <2>5. Places'
    BY <1>1, <1>2, <1>3, <2>1, <2>2 DEF Places
  <2> QED
    BY <2>3, <2>4, <2>5
<1> QED
  BY <1>5, <1>6

LEMMA ApartDeliver ==
  ASSUME TypeOK, Asked, Turns, Places, NEW m \in completions, Deliver(m)
  PROVE  Asked' /\ Turns' /\ Places'
<1>1. /\ m.test \in Tests /\ m.status \in Statuses
      /\ Waiting(m.test) /\ request[m.test] = "sent"
  BY RunningWaits DEF Places, TypeOK
<1>2. /\ completions' = completions \ {m} /\ Complete(m.test, m.status)
      /\ UNCHANGED <<local, worker, request, running, kills, client, cur>>
  BY DEF Deliver, usage, caller
<1>3. completions' = {}
  BY <1>2, RunningWaits DEF Places
<1>4. \A p \in 0..MaxForks : running'[p] = {}
  BY <1>2, RunningWaits DEF Places, Home
<1> QED
  BY <1>1, <1>2, <1>3, <1>4, ApartComplete

\* The pending execution is answered by the end of what it waits for.
LEMMA ApartAnswered ==
  ASSUME TypeOK, Asked, Turns, NEW how \in {"killed", "aborted"}, AnswerPending(how),
         UNCHANGED <<request, by>>
  PROVE  /\ \A t \in Tests : outcome'[t] \in {outcome[t], how}
         /\ \A t \in Tests : request[t] \in {"new", "init", "compile"} => outcome'[t] = outcome[t]
         /\ \A t \in Tests : request[t] = "sent" => outcome'[t] # "none"
         /\ \A t \in Tests : outcome[t] # "none" => outcome'[t] = outcome[t]
         /\ \A t \in Tests : request[t] \in {"new", "init", "compile"} =>
              outcome'[t] = "none" /\ t \notin listeners' /\ t # pending'
         /\ \A t \in Tests : request[t] = "over" => outcome'[t] # "none"
BY InstanceAssumption DEF AnswerPending, Settled, Turns, TypeOK

\* What is left when nothing runs any more.
LEMMA ApartEmptied ==
  ASSUME TypeOK, Asked, Turns, AnswerPending("killed") \/ AnswerPending("aborted"),
         UNCHANGED <<local, request, by, cur>>,
         (client' = client /\ kills'["loop"] = kills["loop"]) \/ Unsent = {},
         worker' = worker \/ ~local \/ Unsent = {},
         \A p \in 0..MaxForks : running'[p] = {}, completions' = {}
  PROVE  Asked' /\ Turns' /\ Places'
<1>1. \A t \in Tests : request[t] \in {"new", "init", "compile", "sent", "over"}
  BY DEF TypeOK
<1>2. \A t \in Tests : request[t] = "sent" \/ request[t] = "over" => outcome'[t] # "none"
  BY ApartAnswered
<1>3. \A t \in Tests : Waiting(t)' => t \in Unsent /\ Waiting(t)
  BY <1>1, <1>2, ApartAnswered DEF Waiting, Unsent
<1>4. Asked'
  BY <1>3 DEF Asked
<1>5. Turns'
  BY <1>2, ApartAnswered DEF Turns, Unsent
<1>6. Places'
  BY DEF Places
<1> QED
  BY <1>4, <1>5, <1>6

\* kill() in its own stack frame, called or gone on with.
LEMMA ApartKill ==
  ASSUME TypeOK, Single, Tidy, Asked, Turns, Places, NEW k \in Killers, Kill(k),
         overtaken' = {},
         UNCHANGED <<local, request, by, running, completions, cur>>,
         k = "loop" \/ client' = client,
         \A t \in Tests : Waiting(t) => client' \in {"execute", "kill", "gaveUp"}
  PROVE  Asked' /\ Turns' /\ Places'
<1>1. /\ kills \in [Killers -> {"none", "queued", "delay", "exit", "done", "rejected"}]
      /\ \A t \in Tests : request[t] \in {"new", "init", "compile", "sent", "over"}
  BY DEF TypeOK
<1>2. CASE /\ kills'[k] # "done" /\ \A j \in Killers \ {k} : kills'[j] = kills[j]
           /\ UNCHANGED <<worker, pending, listeners, outcome>>
  <2>1. \A t \in Tests : Waiting(t)' <=> Waiting(t)
    BY <1>2 DEF Waiting
  <2>2. kills'["loop"] = "done" => kills["loop"] = "done" /\ client' = client
    BY <1>2 DEF Killers
  <2>3. Asked'
    BY <2>1, <2>2 DEF Asked
  <2>4. Turns' /\ Places'
    BY <1>2 DEF Turns, Places, Home
  <2> QED
    BY <2>3, <2>4
<1>3. CASE /\ queued = "null" /\ worker = 0 /\ Unsent = {}
           /\ UNCHANGED <<worker, pending, listeners, outcome>>
  <2>1. \A t \in Tests : ~Waiting(t)
    BY <1>1, <1>3 DEF Waiting, Unsent, Turns
  <2>2. \A t \in Tests : ~Waiting(t)'
    BY <1>3, <2>1 DEF Waiting
  <2>3. Turns' /\ Places'
    BY <1>3 DEF Turns, Places, Home
  <2> QED
    BY <2>2, <2>3 DEF Asked
<1>4. CASE local /\ worker' = 0 /\ AnswerPending("killed") /\ Unsent = {} /\ running[0] = {}
  <2>1. \A p \in 0..MaxForks : running'[p] = {}
    BY <1>4 DEF Places, Home
  <2>2. completions' = {}
    BY <1>4 DEF Places
  <2> QED
    BY <1>4, <2>1, <2>2, ApartEmptied
<1>5. CASE /\ UNCHANGED <<worker, pending, listeners, outcome>>
           /\ \/ kills' = [kills EXCEPT ![k] = IF queued = "forking" THEN "queued" ELSE "rejected"]
              \/ kills' = [kills EXCEPT ![k] = "exit"]
  <2>1. kills'[k] # "done" /\ \A j \in Killers \ {k} : kills'[j] = kills[j]
    BY <1>1, <1>5
  <2> QED
    BY <1>2, <1>5, <2>1
<1>6. CASE /\ queued = "null" /\ worker = 0 /\ overtaken' = overtaken \cup Unsent
           /\ UNCHANGED <<worker, pending, listeners, outcome>>
  BY <1>3, <1>6
<1>7. CASE /\ local /\ worker' = 0 /\ AnswerPending("killed")
           /\ overtaken' = overtaken \cup Unsent \cup running[0]
  BY <1>4, <1>7
<1> QED
  BY <1>5, <1>6, <1>7 DEF Kill

\* The end of a process, with nothing of it going ahead of an answer.
LEMMA ApartExit ==
  ASSUME TypeOK, Single, Tidy, Asked, Turns, Places, NEW p \in Live,
         NEW kept \in {{}, Remains(p)}, Orphaned(p, kept), {m.test : m \in kept} = {},
         AnswerPending("killed") \/ AnswerPending("aborted"),
         UNCHANGED <<local, request, by, client, cur>>,
         kills'["loop"] = kills["loop"] \/ Unsent = {}
  PROVE  Asked' /\ Turns' /\ Places'
<1>1. ~local /\ worker = p /\ p \in 0..MaxForks
  BY DEF Single, Tidy
<1>2. kept = {}
  OBVIOUS
<1>3. \A q \in 0..MaxForks : running'[q] = {}
  BY <1>1 DEF Orphaned, Places, Home, TypeOK
<1>4. completions' = {}
  BY <1>1, <1>2 DEF Orphaned, Places, Remains
<1> QED
  BY <1>1, <1>3, <1>4, ApartEmptied

LEMMA ApartError ==
  ASSUME TypeOK, Single, Tidy, Asked, Turns, Places, NEW p \in Procs, WorkerError(p)
  PROVE  Asked' /\ Turns' /\ Places'
<1>1. /\ p \in Live /\ running[p] = {} /\ Remains(p) = {} /\ AnswerPending("aborted")
      /\ UNCHANGED <<local, worker, request, by, running, completions, kills, client, cur>>
  BY DEF WorkerError, Live, usage, caller
<1>2. ~local /\ worker = p
  BY <1>1 DEF Single, Tidy
<1>3. \A q \in 0..MaxForks : running'[q] = {}
  BY <1>1, <1>2 DEF Places, Home
<1>4. completions' = {}
  BY <1>1, <1>2 DEF Places, Remains
<1> QED
  BY <1>1, <1>2, <1>3, <1>4, ApartEmptied

LEMMA OvertakenGrows == [Next]_vars => overtaken \subseteq overtaken'
BY DEF Next, vars, Execute, InitRejected, Compiled, CompileFailed, Forked, ForkRejected,
       Finish, Deliver, KillAgain, ExitAfterKill, UnexpectedExit, WorkerError,
       Answered, Timeout, LastKill, Killed, Shutdown, CallKill, StopLoop, Kill, caller

LEMMA ApartNext == TypeOK /\ Single /\ Tidy /\ Apart /\ [Next]_vars => Apart'
<1> SUFFICES ASSUME TypeOK, Single, Tidy, Asked, Turns, Places, [Next]_vars, overtaken' = {}
             PROVE  Asked' /\ Turns' /\ Places'
  BY OvertakenGrows DEF Apart
<1>1. CASE UNCHANGED vars
  BY <1>1 DEF vars, usage, inst, tests, children, caller, Asked, Turns, Places, Waiting, Home
<1>2. ASSUME NEW t \in Tests, Execute(t) PROVE Asked' /\ Turns' /\ Places'
  BY <1>2, ApartExecute
<1>3. ASSUME NEW t \in Tests, InitRejected(t) PROVE Asked' /\ Turns' /\ Places'
  BY <1>3, ApartOver DEF InitRejected, usage, inst, children, caller
<1>4. ASSUME NEW t \in Tests, Compiled(t) PROVE Asked' /\ Turns' /\ Places'
  BY <1>4, ApartCompiled
<1>5. ASSUME NEW t \in Tests, CompileFailed(t) PROVE Asked' /\ Turns' /\ Places'
  BY <1>5, ApartOver DEF CompileFailed, usage, inst, children, caller
<1>6. CASE Forked \/ ForkRejected
  BY <1>6, ApartFork
<1>7. ASSUME NEW p \in 0..MaxForks, NEW t \in Tests, Finish(p, t)
      PROVE  Asked' /\ Turns' /\ Places'
  BY <1>7, ApartFinish
<1>8. ASSUME NEW m \in completions, Deliver(m) PROVE Asked' /\ Turns' /\ Places'
  BY <1>8, ApartDeliver
<1>9. ASSUME NEW k \in Killers, KillAgain(k) PROVE Asked' /\ Turns' /\ Places'
  BY <1>9, ApartKill DEF KillAgain, usage, Asked
<1>10. ASSUME NEW p \in Procs, ExitAfterKill(p) PROVE Asked' /\ Turns' /\ Places'
  <2>1. PICK kept \in {{}, Remains(p)} :
          /\ Orphaned(p, kept)
          /\ overtaken' = overtaken \cup Unsent \cup {m.test : m \in kept}
    BY <1>10 DEF ExitAfterKill
  <2>2. {m.test : m \in kept} = {} /\ Unsent = {}
    BY <2>1
  <2>3. p \in Live
    BY <1>10 DEF ExitAfterKill, Live
  <2> QED
    BY <1>10, <2>1, <2>2, <2>3, ApartExit DEF ExitAfterKill, usage
<1>11. ASSUME NEW p \in Procs, UnexpectedExit(p) PROVE Asked' /\ Turns' /\ Places'
  <2>1. PICK kept \in {{}, Remains(p)} :
          /\ Orphaned(p, kept)
          /\ overtaken' = overtaken \cup {m.test : m \in kept}
    BY <1>11 DEF UnexpectedExit
  <2>2. {m.test : m \in kept} = {}
    BY <2>1
  <2>3. p \in Live
    BY <1>11 DEF UnexpectedExit, Live
  <2> QED
    BY <1>11, <2>1, <2>2, <2>3, ApartExit DEF UnexpectedExit, usage, caller
<1>12. ASSUME NEW p \in Procs, WorkerError(p) PROVE Asked' /\ Turns' /\ Places'
  BY <1>12, ApartError
<1>13. ASSUME NEW at, CallKill("loop", at),
              \A t \in Tests : Waiting(t) => at \in {"execute", "kill", "gaveUp"}
       PROVE  Asked' /\ Turns' /\ Places'
  BY <1>13, ApartKill DEF CallKill, usage, Killers
<1>14. CASE Answered
  <2>1. \A t \in Tests : ~Waiting(t)
    BY <1>14 DEF Answered, Asked, Waiting
  <2> QED
    BY <1>13, <1>14, <2>1, ApartStop DEF Answered
<1>15. CASE Timeout
  BY <1>13, <1>15 DEF Timeout
<1>16. CASE LastKill
  <2>1. \A t \in Tests : ~Waiting(t)
    BY <1>16 DEF LastKill, Asked
  <2> QED
    BY <1>13, <1>16, <2>1, ApartStop DEF LastKill
<1>17. CASE Killed
  <2>1. CASE kills["loop"] = "done" /\ \E at \in {"idle", "gaveUp", "over"} : StopLoop(at)
    <3>1. \A t \in Tests : ~Waiting(t)
      BY <1>17, <2>1 DEF Killed, Asked
    <3> QED
      BY <2>1, <3>1, ApartStop
  <2>2. CASE StopLoop("gaveUp")
    BY <2>2, ApartStop
  <2> QED
    BY <1>17, <2>1, <2>2 DEF Killed
<1>18. CASE Shutdown
  BY <1>18, ApartKill DEF Shutdown, CallKill, Killers, usage, Asked
<1> QED
  BY <1>1, <1>2, <1>3, <1>4, <1>5, <1>6, <1>7, <1>8, <1>9, <1>10, <1>11, <1>12,
     <1>14, <1>15, <1>16, <1>17, <1>18 DEF Next

LEMMA ApartMeans == ASSUME TypeOK, Apart PROVE TestsApart
<1> SUFFICES ASSUME overtaken = {}
             PROVE  /\ Cardinality(UNION {running[p] : p \in 0..MaxForks}) <= 1
                    /\ \A t \in Tests : by[t] \in {t, NoTest}
  BY DEF TestsApart, RunsAlone, OwnAnswer
<1> DEFINE R == UNION {running[p] : p \in 0..MaxForks}
<1>1. Asked /\ Turns /\ Places
  BY DEF Apart
<1>2. R \subseteq {cur}
  BY <1>1, RunningWaits
<1>3. IsFiniteSet({cur}) /\ Cardinality({cur}) = 1
  BY FS_Singleton
<1>4. Cardinality(R) <= 1
  BY <1>2, <1>3, FS_Subset
<1> QED
  BY <1>1, <1>4 DEF Turns

\* As long as no kill() goes ahead of a compilation or of an answer, one test runs at
\* a time and is settled by its own message, though the message names no test and
\* every execute() of the instance listens for it.
THEOREM TestsStayApart == Spec => []TestsApart
BY TypeInit, SingleInit, TidyInit, ApartInit, TypeNext, SingleNext, TidyNext, ApartNext,
   ApartMeans, PTL DEF Spec
=============================================================================
