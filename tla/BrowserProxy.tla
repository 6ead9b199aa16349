------------------------------ MODULE BrowserProxy ------------------------------
(***************************************************************************)
(* packages/browser-proxy: the controller maps applicants (tests) to       *)
(* workers, a worker sends their commands to its child process, where a    *)
(* BrowserProxy runs them against the browser plugin and answers in any    *)
(* order.  A child that exits is replaced and gets the pending commands    *)
(* again.  kill() sends a last command and then signals the child.         *)
(*                                                                         *)
(* A fork is awaited (child-process/src/fork.ts).  In debug mode it looks  *)
(* for a free port, which takes many turns of the event loop and may fail; *)
(* otherwise it ends in the turn it began in, before any message of a      *)
(* child is handled, but commands asked for in that turn find no child and *)
(* fork another.  A plugin that cannot be initialised ends the run through *)
(* an uncaught exception and is not modelled.                              *)
(***************************************************************************)
EXTENDS Integers, Sequences, FiniteSets, Functions

CONSTANTS
  Commands,      \* the commands that are asked for, each once
  Applicant,     \* who asks for each
  Ends,          \* those whose action is "end"
  WorkerLimit,   \* config.workerLimit when it is a number
  MaxChildren    \* bound on the child processes ever forked

ASSUME ProxyAssumption ==
  /\ IsFiniteSet(Commands) /\ Ends \subseteq Commands /\ DOMAIN Applicant = Commands
  /\ WorkerLimit \in Nat \ {0} /\ MaxChildren \in Nat
  /\ Commands \cap Nat = {}

VARIABLES
  debug,       \* chosen once: config.debug, forks take time and may fail
  faults,      \* chosen once: children crash (outside debug mode, a bound)
  local,       \* chosen once: config.workerLimit is 'local'
  workersPool, lastWorkerIndex, applicantWorkerMap,   \* the controller's
  px,          \* the workers, their children and the commands
  closing,     \* the controller's kill()
  late         \* a command was asked for after kill() was called

proxyUsage == <<debug, faults, local>>
pools == <<workersPool, lastWorkerIndex, applicantWorkerMap>>
proxyVars == <<proxyUsage, pools, px, closing, late>>

\* kill() may let one more generation of workers be created.
LocalWorker == 2 * WorkerLimit + 1
Workers == 1..LocalWorker
LocalChild == MaxChildren + 1
Children == 1..LocalChild
Applicants == Range(Applicant)

\* The kill command of a worker is known by the worker's number.
All == Commands \cup Workers
Open == {"spawning", "forked", "sent", "wait"}

\* child: this.worker, 0 for null; spawnPromise: the fork it stands for; waits:
\* the fork that kill() waits for; raced, for the properties only: spawn() was
\* called while another fork of the worker was under way.
ProxyTypeOK ==
  /\ debug \in BOOLEAN /\ faults \in BOOLEAN /\ local \in BOOLEAN /\ late \in BOOLEAN
  /\ workersPool \in Seq(Workers) /\ lastWorkerIndex \in -1..(WorkerLimit - 1)
  /\ applicantWorkerMap \in [Applicants -> Workers \cup {0}]
  /\ closing \in {"none", "waiting", "done"}
  /\ px.worker \in [Workers -> [child : 0..LocalChild, spawnPromise : 0..LocalChild,
                                waits : 0..LocalChild, queue : SUBSET All, pool : SUBSET All,
                                raced : BOOLEAN]]
  /\ px.child \in [Children ->
       [state : {"none", "forking", "failed", "alive", "signalled", "exited"},
        owner : Workers, by : Commands \cup {0}, heard : BOOLEAN, inbox : SUBSET All]]
  /\ px.phase \in [All -> {"new", "done", "failed"} \cup Open]

NewWorker(w) ==
  [child |-> IF w = LocalWorker THEN LocalChild ELSE 0,
   spawnPromise |-> 0, waits |-> 0, queue |-> {}, pool |-> {}, raced |-> FALSE]
NewChild(c) ==
  [state |-> IF c = LocalChild THEN "alive" ELSE "none",
   owner |-> LocalWorker, by |-> 0, heard |-> FALSE, inbox |-> {}]

ProxyInit ==
  /\ debug \in BOOLEAN /\ faults \in BOOLEAN /\ local \in BOOLEAN
  /\ Cardinality({b \in 1..3 : <<debug, faults, local>>[b]}) <= 1
  /\ workersPool = <<>> /\ lastWorkerIndex = -1
  /\ applicantWorkerMap = [a \in Applicants |-> 0]
  /\ px = [worker |-> [w \in Workers |-> NewWorker(w)],
           child |-> [c \in Children |-> NewChild(c)],
           phase |-> [k \in All |-> "new"]]
  /\ closing = "none" /\ late = FALSE

-----------------------------------------------------------------------------
(* browser-proxy-worker.ts                                                 *)

Settle(s, k, how) == [s EXCEPT !.phase[k] = how]

\* send(): into the pool of pending commands and to the child.
Send(s, w, k) ==
  [s EXCEPT !.worker[w].pool = @ \cup {k}, !.child[s.worker[w].child].inbox = @ \cup {k},
            !.phase[k] = "sent"]

\* execute() after spawn(): to the child, if there is one.
Pass(s, w, k) ==
  IF s.worker[w].child # 0 THEN Send(s, w, k)
  ELSE [s EXCEPT !.worker[w].queue = @ \cup {k}, !.phase[k] = "sent"]

\* Mutant: the queue is not sent to the new child.
Connected_KeepsQueue(s, c) ==
  LET k == s.child[c].by
  IN [s EXCEPT !.child[c] = [@ EXCEPT !.state = "alive", !.heard = TRUE],
               !.worker[s.child[c].owner] = [@ EXCEPT !.child = c, !.spawnPromise = 0],
               !.phase = IF k = 0 THEN @ ELSE [@ EXCEPT ![k] = "forked"]]

\* The end of spawn(): the child is this.worker, whoever was it before, and gets the
\* queued commands; the execute() that waited for the fork can go on.
Connected(s, c) ==
  LET w == s.child[c].owner
      queued == s.worker[w].queue
      k == s.child[c].by
  IN [s EXCEPT !.child[c] = [@ EXCEPT !.state = "alive", !.heard = TRUE, !.inbox = queued],
               !.worker[w] = [@ EXCEPT !.child = c, !.spawnPromise = 0,
                                       !.queue = {}, !.pool = s.worker[w].pool \cup queued],
               !.phase = IF k = 0 THEN @ ELSE [@ EXCEPT ![k] = "forked"]]

Fresh(s) == {c \in Children : s.child[c].state = "none" /\ \A d \in 1..(c - 1) : s.child[d].state # "none"}
ForkedFor(s, w) == IF s.worker[w].child # 0 THEN {0} ELSE Fresh(s)
Forking(s, w) == {c \in Children : s.child[c].state = "forking" /\ s.child[c].owner = w}

\* spawn(), asked for by the command k or, when k is 0, by the exit of the last child.
Spawn(s, w, c, k) ==
  [s EXCEPT !.child[c] = [@ EXCEPT !.state = "forking", !.owner = w, !.by = k],
            !.worker[w] = [@ EXCEPT !.spawnPromise = c, !.raced = s.worker[w].raced \/ Forking(s, w) # {}],
            !.phase = IF k = 0 THEN @ ELSE [@ EXCEPT ![k] = "spawning"]]

\* execute(): sends at once, or calls spawn() first.
Execute(s, w, k, c) == IF s.worker[w].child # 0 THEN Send(s, w, k) ELSE Spawn(s, w, c, k)

\* Mutant: the pending commands are forgotten when the child exits.
Disconnected_Forgets(s, w) == [s EXCEPT !.worker[w] = [@ EXCEPT !.child = 0, !.pool = {}]]

\* cleanWorkerMeta() and onProxyDisconnect(): the pending commands are queued.
Disconnected(s, w) ==
  [s EXCEPT !.worker[w] = [@ EXCEPT !.child = 0, !.queue = s.worker[w].queue \cup s.worker[w].pool,
                                    !.pool = {}]]

\* kill() after the spawnPromise: the exit listener goes, the kill command is sent.
KillCommand(s, w) ==
  IF s.worker[w].child = 0 THEN Settle(s, w, "done")
  ELSE Send([s EXCEPT !.child[s.worker[w].child].heard = FALSE], w, w)

Kill(s, w) ==
  LET promise == s.worker[w].spawnPromise
  IN IF promise = 0 THEN KillCommand(s, w)
     ELSE [s EXCEPT !.worker[w].waits = promise, !.phase[w] = "wait"]

\* Mutant: the answer to the kill command is taken like any other.
Replied_NotSignalled(s, c, k) ==
  [s EXCEPT !.child[c].inbox = @ \ {k}, !.worker[s.child[c].owner].pool = @ \ {k}, !.phase[k] = "done"]

\* The response of child c: it counts when c is this.worker.  That to the kill
\* command lets kill() signal the child and forget it, the pending commands stay.
Replied(s, c, k) ==
  LET w == s.child[c].owner
      taken == [s EXCEPT !.child[c].inbox = @ \ {k}]
      answered == [taken EXCEPT !.worker[w].pool = @ \ {k}, !.phase[k] = "done"]
  IN IF s.worker[w].child # c THEN taken
     ELSE IF k = w THEN [answered EXCEPT !.child[c].state = "signalled", !.worker[w].child = 0]
     ELSE answered

\* The plugin cannot kill(): the worker's kill() rejects before it signals the child.
Refused(s, c) ==
  LET w == s.child[c].owner
  IN [s EXCEPT !.child[c].inbox = @ \ {w}, !.worker[w].pool = @ \ {w}, !.phase[w] = "failed"]

-----------------------------------------------------------------------------
(* browser-proxy-controller.ts                                             *)

Made == Cardinality({w \in Workers \ {LocalWorker} :
                      \/ w \in Range(workersPool)
                      \/ \E c \in Children : px.child[c].owner = w /\ px.child[c].state # "none"})

\* Mutant: the index of the worker just added is the size of the pool.
AddedIndex_Size == Len(workersPool) + 1
\* The index of the worker about to be added.
AddedIndex == Len(workersPool)

\* Round robin over the full pool.
NextIndex == IF lastWorkerIndex + 1 < Len(workersPool) THEN lastWorkerIndex + 1 ELSE 0

\* getWorker(): the mapped worker, a new one below the limit, the next one.
GetWorker(a, w) ==
  IF applicantWorkerMap[a] # 0
  THEN w = applicantWorkerMap[a] /\ UNCHANGED <<workersPool, lastWorkerIndex>>
  ELSE IF Len(workersPool) < WorkerLimit
  THEN /\ w = Made + 1
       /\ workersPool' = Append(workersPool, w)
       /\ lastWorkerIndex' = AddedIndex
  ELSE /\ lastWorkerIndex' = NextIndex
       /\ w = workersPool[NextIndex + 1]
       /\ UNCHANGED workersPool

\* execute(): an end forgets the applicant before it is sent.
Ask(k) ==
  LET a == Applicant[k] IN
  /\ px.phase[k] = "new" /\ closing # "done" /\ ~local
  /\ late' = (late \/ closing # "none")
  /\ \/ /\ k \in Ends /\ applicantWorkerMap[a] = 0
        /\ px' = Settle(px, k, "done")
        /\ UNCHANGED pools
     \/ \E w \in Workers \ {LocalWorker} : \E c \in ForkedFor(px, w) :
        /\ k \notin Ends \/ applicantWorkerMap[a] # 0
        /\ GetWorker(a, w)
        /\ applicantWorkerMap' = [applicantWorkerMap EXCEPT ![a] = IF k \in Ends THEN 0 ELSE w]
        /\ px' = Execute(px, w, k, c)
  /\ UNCHANGED <<proxyUsage, closing>>

\* The same with the local worker, whose BrowserProxy lives in this process.  Once
\* it is gone, no worker is found.
AskLocal(k) ==
  /\ px.phase[k] = "new" /\ local /\ px.worker[LocalWorker].child # 0
  /\ late' = (late \/ closing # "none")
  /\ px' = Send(px, LocalWorker, k)
  /\ UNCHANGED <<proxyUsage, pools, closing>>
AskTooLate(k) ==
  /\ px.phase[k] = "new" /\ local /\ px.worker[LocalWorker].child = 0
  /\ px' = Settle(px, k, IF k \in Ends THEN "done" ELSE "failed")
  /\ UNCHANGED <<proxyUsage, pools, closing, late>>

\* The turn of the event loop is over: what only waits for this process has gone on.
TurnOver ==
  /\ debug \/ \A c \in Children : px.child[c].state # "forking"
  /\ \A k \in Commands : px.phase[k] # "forked"
  /\ \A w \in Workers : px.phase[w] = "wait" => px.child[px.worker[w].waits].state \in {"forking", "failed"}

\* A BrowserProxy answers a command: its plugin's method has ended, or there is no plugin.
Reply(c, k) ==
  /\ TurnOver
  /\ px.child[c].state = "alive" /\ k \in px.child[c].inbox
  /\ px' = Replied(px, c, k)
  /\ UNCHANGED <<proxyUsage, pools, closing, late>>

KillRefused(c) ==
  LET w == px.child[c].owner IN
  /\ TurnOver
  /\ px.child[c].state = "alive" /\ px.worker[w].child = c /\ w \in px.child[c].inbox
  /\ px' = Refused(px, c)
  /\ UNCHANGED <<proxyUsage, pools, closing, late>>

\* A fork ends; without debug mode, those of a worker end in their order.
Forked(c) ==
  /\ px.child[c].state = "forking"
  /\ IF debug THEN TurnOver ELSE \A d \in Forking(px, px.child[c].owner) : c <= d
  /\ px' = Connected(px, c)
  /\ UNCHANGED <<proxyUsage, pools, closing, late>>

\* The execute() that waited for the fork of c goes on.
Resume(c) ==
  LET k == px.child[c].by IN
  /\ k # 0 /\ px.phase[k] = "forked"
  /\ px' = Pass(px, px.child[c].owner, k)
  /\ UNCHANGED <<proxyUsage, pools, closing, late>>

\* It fails: its spawnPromise is never resolved, the waiting execute() rejects.
ForkFailed(c) ==
  /\ debug /\ TurnOver /\ px.child[c].state = "forking"
  /\ LET k == px.child[c].by
         failed == [px EXCEPT !.child[c].state = "failed"]
     IN px' = IF k = 0 THEN failed ELSE Settle(failed, k, "failed")
  /\ UNCHANGED <<proxyUsage, pools, closing, late>>

\* A child exits, of itself or because it was signalled: onExit, unless kill() has
\* removed it.
Crash(c) ==
  /\ TurnOver /\ c # LocalChild
  /\ \/ faults /\ px.child[c].state = "alive"
     \/ px.child[c].state = "signalled" /\ px.child[c].heard
  /\ LET gone == [px EXCEPT !.child[c] = [@ EXCEPT !.state = "exited", !.inbox = {}]]
         w == px.child[c].owner
     IN IF ~px.child[c].heard THEN px' = gone
        ELSE \E d \in Fresh(px) : px' = Spawn(Disconnected(gone, w), w, d, 0)
  /\ UNCHANGED <<proxyUsage, pools, closing, late>>

\* kill() of each worker of ws, none of which touches another's part.
KillWorkers(ws) ==
  [worker |-> [w \in Workers |-> IF w \in ws THEN Kill(px, w).worker[w] ELSE px.worker[w]],
   child |-> [c \in Children |-> LET w == px.child[c].owner
                                IN IF w \in ws THEN Kill(px, w).child[c] ELSE px.child[c]],
   phase |-> [k \in All |-> IF k \in ws THEN Kill(px, k).phase[k] ELSE px.phase[k]]]

\* kill() of the controller, which kills all workers at once.
KillAll ==
  /\ closing = "none"
  /\ px' = KillWorkers(IF local THEN {LocalWorker} ELSE Range(workersPool))
  /\ closing' = "waiting"
  /\ UNCHANGED <<proxyUsage, pools, late>>

KillGoesOn(w) ==
  /\ px.phase[w] = "wait" /\ px.child[px.worker[w].waits].state \notin {"forking", "failed"}
  /\ px' = KillCommand(px, w)
  /\ UNCHANGED <<proxyUsage, pools, closing, late>>

\* All kills have ended, or one has rejected, which is caught.
AllKilled ==
  /\ closing = "waiting"
  /\ \/ \A w \in Workers : px.phase[w] \notin Open
     \/ \E w \in Workers : px.phase[w] = "failed"
  /\ workersPool' = <<>> /\ lastWorkerIndex' = -1
  /\ applicantWorkerMap' = [a \in Applicants |-> 0]
  /\ closing' = "done"
  /\ UNCHANGED <<proxyUsage, px, late>>

\* Proxies answer what they got, forks end.
ProxyProgress ==
  \/ \E c \in Children, k \in All : Reply(c, k)
  \/ \E c \in Children : KillRefused(c) \/ Forked(c) \/ ForkFailed(c) \/ Resume(c)
  \/ (\E w \in Workers : KillGoesOn(w)) \/ AllKilled

ProxyNext ==
  \/ ProxyProgress
  \/ \E k \in Commands : Ask(k) \/ AskLocal(k) \/ AskTooLate(k)
  \/ \E c \in Children : Crash(c)
  \/ KillAll

ProxySpec == ProxyInit /\ [][ProxyNext]_proxyVars
FairProxySpec == ProxySpec /\ WF_proxyVars(ProxyProgress)

-----------------------------------------------------------------------------
(* What the browser proxy promises                                         *)

\* Unless a worker called spawn() while it was forking, it has one child at most that
\* it has not signalled, and until kill() a pending command is with that child or,
\* between two children, queued for the next: so an exit, a respawn and new commands
\* in any order lose no command.  (Two commands of one turn race: the second child
\* takes the place of the first, whose answers are dropped.)
PendingAtChild ==
  \A w \in Workers : ~px.worker[w].raced =>
    /\ \A c \in Children :
         px.child[c].owner = w /\ px.child[c].state = "alive" => px.worker[w].child = c
    /\ px.phase[w] = "new" =>
         IF px.worker[w].child # 0
         THEN px.worker[w].queue = {} /\ px.worker[w].pool = px.child[px.worker[w].child].inbox
         ELSE /\ px.worker[w].pool = {}
              /\ px.worker[w].queue # {} =>
                   \E c \in Children : px.child[c].owner = w /\ px.child[c].state \in {"forking", "failed"}

\* When kill() has ended and no command came after it, no child is left or on its
\* way, crashes or not, unless its worker raced or a plugin refused to kill(): then
\* the child of that worker stays, and those of the workers not answered yet.
Refusals == {w \in Workers : px.phase[w] = "failed"}
NoChildLeft ==
  closing = "done" /\ ~late =>
    \A c \in Children \ {LocalChild} : px.child[c].state \in {"forking", "alive"} =>
      LET w == px.child[c].owner
      IN px.worker[w].raced \/ w \in Refusals \/ (Refusals # {} /\ px.phase[w] \in Open)

\* Nothing is waited for, outside debug mode: no command, through any number of
\* crashes, unless the controller is killed or the command's worker raced; and kill()
\* has ended unless a child may have crashed before it answered, or a worker raced.
ProxyQuiet ==
  ~debug =>
    /\ closing = "none" => \A k \in Commands : px.phase[k] \in Open =>
         \E w \in Workers : px.worker[w].raced /\ k \in px.worker[w].pool \cup px.worker[w].queue
    /\ closing = "waiting" => faults \/ \E w \in Workers : px.worker[w].raced

\* In the end nothing is waited for any more (every command is asked for once).
ProxyAnswers == <>[]ProxyQuiet
=============================================================================
