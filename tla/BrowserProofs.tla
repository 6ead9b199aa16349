----------------------------- MODULE BrowserProofs -----------------------------
(***************************************************************************)
(* The browser proxy, the sessions of the driver, the commands of the web  *)
(* application and those on tabs, for any number of commands, applicants,  *)
(* workers, children, calls, sessions and tabs.                            *)
(*                                                                         *)
(* ProxyKeeps.  Sound says of every worker that has not raced that it is   *)
(* calm (one child is alive or on its way, at most, and it is this.worker  *)
(* or what spawnPromise stands for; pool is the inbox of that child), of   *)
(* every child that the command that forked it is its own, and that an     *)
(* inbox has nothing that was not asked for.  That kill() leaves no child  *)
(* needs where the children are: InUse (before kill() the owner of each is *)
(* in the pool, and an applicant has one that is), Met (afterwards the     *)
(* kill command of each has been sent, waits for the fork of that child or *)
(* was refused) and Caught (kill() ends when all have answered or one has  *)
(* refused).                                                               *)
(*                                                                         *)
(* SessionsKept needs what a call knows between its awaits: Knows (nothing *)
(* is in the map when remote() answers, what is forgotten has been closed, *)
(* emulateDevice() deletes the session in the map).  A session opened by   *)
(* another call would spoil that, and then the applicant is in crossed.    *)
(* Visits says that what kill() has passed is closed, so nothing is open   *)
(* when it ends; after that KillLeaves counts the creations of raced that  *)
(* have ended.                                                             *)
(*                                                                         *)
(* The log is left right by a test that awaits its commands because LogOk  *)
(* knows of every command under way whether its step is open; PairIs what  *)
(* a command and the call it makes may be doing beside each other, so that *)
(* nothing of a settled one goes on.  TabsLeft needs the command of the    *)
(* tabs that is under way: Going says for each of its places which tabs    *)
(* are open, which is current and what it has left to do.                  *)
(***************************************************************************)
EXTENDS MCBrowser, SequenceTheorems, FiniteSetTheorems, TLAPS

-----------------------------------------------------------------------------
(* The commands of a browser proxy                                         *)

WorkerRecords == [child : 0..LocalChild, spawnPromise : 0..LocalChild, waits : 0..LocalChild,
                  queue : SUBSET All, pool : SUBSET All, raced : BOOLEAN]
ChildRecords == [state : {"none", "forking", "failed", "alive", "signalled", "exited"},
                 owner : Workers, by : Commands \cup {0}, heard : BOOLEAN, inbox : SUBSET All]
WorkerStates == [Workers -> WorkerRecords]
ChildStates == [Children -> ChildRecords]
PhaseNames == {"new", "done", "failed", "spawning", "forked", "sent", "wait"}
Phases == [All -> PhaseNames]
ProxyStates == [worker : WorkerStates, child : ChildStates, phase : Phases]

\* Workers and children are numbers, commands are not.
LEMMA Numbers ==
  /\ LocalChild \in Children /\ Children \subseteq Nat \ {0} /\ Children \subseteq 0..LocalChild
  /\ 0..LocalChild = Children \cup {0}
  /\ LocalWorker \in Workers /\ Workers \subseteq Nat \ {0}
  /\ Commands \cap Workers = {} /\ 0 \notin Commands /\ 0 \notin All /\ All = Commands \cup Workers
BY ProxyAssumption DEF LocalChild, Children, LocalWorker, Workers, All

\* The parts of the state of the proxy and their types.
LEMMA Fields ==
  ASSUME NEW s \in ProxyStates
  PROVE  /\ s.worker \in WorkerStates /\ s.child \in ChildStates /\ s.phase \in Phases
         /\ \A w \in Workers : s.worker[w] \in WorkerRecords
         /\ \A c \in Children : s.child[c] \in ChildRecords
         /\ \A k \in All : s.phase[k] \in PhaseNames
         /\ \A w \in Workers : /\ s.worker[w].child \in Children \cup {0}
                               /\ s.worker[w].spawnPromise \in Children \cup {0}
                               /\ s.worker[w].raced \in BOOLEAN
         /\ \A c \in Children : /\ s.child[c].owner \in Workers /\ s.child[c].by \in Commands \cup {0}
                                /\ s.child[c].heard \in BOOLEAN
<1>1. s.worker \in WorkerStates /\ s.child \in ChildStates /\ s.phase \in Phases
  BY DEF ProxyStates
<1>2. \A w \in Workers : s.worker[w] \in WorkerRecords
  BY <1>1 DEF WorkerStates
<1>3. \A c \in Children : s.child[c] \in ChildRecords
  BY <1>1 DEF ChildStates
<1>4. \A r \in WorkerRecords : r.child \in Children \cup {0} /\ r.spawnPromise \in Children \cup {0} /\ r.raced \in BOOLEAN
  BY Numbers DEF WorkerRecords
<1>5. \A r \in ChildRecords : r.owner \in Workers /\ r.by \in Commands \cup {0} /\ r.heard \in BOOLEAN
  BY DEF ChildRecords
<1>6. \A k \in All : s.phase[k] \in PhaseNames
  BY <1>1 DEF Phases
<1> QED
  BY <1>1, <1>2, <1>3, <1>4, <1>5, <1>6

\* One entry of a function is replaced.
LEMMA PutWorker ==
  ASSUME NEW W \in WorkerStates, NEW w \in Workers, NEW r \in WorkerRecords
  PROVE  LET V == [W EXCEPT ![w] = r] IN
         V \in WorkerStates /\ V[w] = r /\ \A v \in Workers \ {w} : V[v] = W[v]
BY DEF WorkerStates
LEMMA PutChild ==
  ASSUME NEW C \in ChildStates, NEW c \in Children, NEW r \in ChildRecords
  PROVE  LET D == [C EXCEPT ![c] = r] IN
         D \in ChildStates /\ D[c] = r /\ \A d \in Children \ {c} : D[d] = C[d]
BY DEF ChildStates
LEMMA PutPhase ==
  ASSUME NEW P \in Phases, NEW k \in All, NEW x \in PhaseNames
  PROVE  LET Q == [P EXCEPT ![k] = x] IN
         Q \in Phases /\ Q[k] = x /\ \A j \in All \ {k} : Q[j] = P[j]
BY DEF Phases

\* t is s with a new entry of the worker w, of the child c and, unless k is 0, of the
\* phase of k; nothing else changes.
Changes(t, s, w, r, c, d, k, x) ==
  /\ t \in ProxyStates
  /\ t.worker[w] = r /\ \A v \in Workers \ {w} : t.worker[v] = s.worker[v]
  /\ t.child[c] = d /\ \A e \in Children \ {c} : t.child[e] = s.child[e]
  /\ k # 0 => t.phase[k] = x
  /\ \A j \in All \ {k} : t.phase[j] = s.phase[j]

LEMMA ChangesFacts ==
  ASSUME NEW s \in ProxyStates, NEW w \in Workers, NEW r \in WorkerRecords,
         NEW c \in Children, NEW d \in ChildRecords, NEW k \in All \cup {0}, NEW x \in PhaseNames,
         NEW t,
         t = [s EXCEPT !.worker = [s.worker EXCEPT ![w] = r], !.child = [s.child EXCEPT ![c] = d],
                       !.phase = IF k = 0 THEN s.phase ELSE [s.phase EXCEPT ![k] = x]]
  PROVE  Changes(t, s, w, r, c, d, k, x)
<1> DEFINE W == [s.worker EXCEPT ![w] = r]
           C == [s.child EXCEPT ![c] = d]
           P == IF k = 0 THEN s.phase ELSE [s.phase EXCEPT ![k] = x]
<1>1. W \in WorkerStates /\ W[w] = r /\ \A v \in Workers \ {w} : W[v] = s.worker[v]
  BY Fields, PutWorker
<1>2. C \in ChildStates /\ C[c] = d /\ \A e \in Children \ {c} : C[e] = s.child[e]
  BY Fields, PutChild
<1>3. P \in Phases /\ (k # 0 => P[k] = x) /\ \A j \in All \ {k} : P[j] = s.phase[j]
  <2>1. CASE k = 0
    BY <2>1, Fields
  <2>2. CASE k # 0
    BY <2>2, Fields, PutPhase
  <2> QED
    BY <2>1, <2>2
<1> HIDE DEF W, C, P
<1>4. t = [s EXCEPT !.worker = W, !.child = C, !.phase = P]
  BY DEF W, C, P
<1>5. t \in ProxyStates /\ t.worker = W /\ t.child = C /\ t.phase = P
  BY <1>1, <1>2, <1>3, <1>4 DEF ProxyStates
<1> QED
  BY <1>1, <1>2, <1>3, <1>5 DEF Changes

\* What send() yields.
LEMMA SendFacts ==
  ASSUME NEW s \in ProxyStates, NEW w \in Workers, NEW k \in All,
         NEW c \in Children, c = s.worker[w].child
  PROVE  Changes(Send(s, w, k), s, w, [s.worker[w] EXCEPT !.pool = @ \cup {k}],
                 c, [s.child[c] EXCEPT !.inbox = @ \cup {k}], k, "sent")
<1> DEFINE r == [s.worker[w] EXCEPT !.pool = @ \cup {k}]
           d == [s.child[c] EXCEPT !.inbox = @ \cup {k}]
<1>1. r \in WorkerRecords
  BY Fields DEF WorkerRecords
<1>2. d \in ChildRecords
  BY Fields DEF ChildRecords
<1>3. k # 0 /\ "sent" \in PhaseNames
  BY Numbers DEF PhaseNames
<1>4. Send(s, w, k) = [s EXCEPT !.worker = [s.worker EXCEPT ![w] = r], !.child = [s.child EXCEPT ![c] = d],
                                !.phase = [s.phase EXCEPT ![k] = "sent"]]
  BY Zenon DEF Send
<1>5. [s.phase EXCEPT ![k] = "sent"] = IF k = 0 THEN s.phase ELSE [s.phase EXCEPT ![k] = "sent"]
  BY <1>3
<1> HIDE DEF r, d
<1>6. Changes(Send(s, w, k), s, w, r, c, d, k, "sent")
  BY <1>1, <1>2, <1>3, <1>4, <1>5, ChangesFacts
<1> QED
  BY <1>6 DEF r, d

\* The end of a fork.
LEMMA ConnectedFacts ==
  ASSUME NEW s \in ProxyStates, NEW c \in Children, NEW w \in Workers, w = s.child[c].owner
  PROVE  Changes(Connected(s, c), s,
                 w, [s.worker[w] EXCEPT !.child = c, !.spawnPromise = 0, !.queue = {},
                                        !.pool = s.worker[w].pool \cup s.worker[w].queue],
                 c, [s.child[c] EXCEPT !.state = "alive", !.heard = TRUE, !.inbox = s.worker[w].queue],
                 s.child[c].by, "forked")
<1> DEFINE r == [s.worker[w] EXCEPT !.child = c, !.spawnPromise = 0, !.queue = {},
                                    !.pool = s.worker[w].pool \cup s.worker[w].queue]
           d == [s.child[c] EXCEPT !.state = "alive", !.heard = TRUE, !.inbox = s.worker[w].queue]
           k == s.child[c].by
<1>0. s.worker[w] \in WorkerRecords /\ 0 \in 0..LocalChild /\ c \in 0..LocalChild
  BY Fields, Numbers
<1>1. r \in WorkerRecords
  BY <1>0 DEF WorkerRecords
<1>2. d \in ChildRecords
  <2>1. s.worker[w].queue \in SUBSET All /\ s.child[c] \in ChildRecords
    BY Fields DEF WorkerRecords
  <2> QED
    BY <2>1 DEF ChildRecords
<1>3. "forked" \in PhaseNames /\ k \in All \cup {0}
  BY Fields, Numbers DEF PhaseNames
<1>4. Connected(s, c) = [s EXCEPT !.worker = [s.worker EXCEPT ![w] = r], !.child = [s.child EXCEPT ![c] = d],
                                  !.phase = IF k = 0 THEN s.phase ELSE [s.phase EXCEPT ![k] = "forked"]]
  BY Zenon DEF Connected
<1> HIDE DEF r, d, k
<1>5. Changes(Connected(s, c), s, w, r, c, d, k, "forked")
  BY <1>1, <1>2, <1>3, <1>4, ChangesFacts
<1> QED
  BY <1>5 DEF r, d, k

\* The beginning of one.
LEMMA SpawnFacts ==
  ASSUME NEW s \in ProxyStates, NEW w \in Workers, NEW c \in Children, NEW k \in Commands \cup {0}
  PROVE  Changes(Spawn(s, w, c, k), s,
                 w, [s.worker[w] EXCEPT !.spawnPromise = c,
                                        !.raced = s.worker[w].raced \/ Forking(s, w) # {}],
                 c, [s.child[c] EXCEPT !.state = "forking", !.owner = w, !.by = k], k, "spawning")
<1> DEFINE b == s.worker[w].raced \/ Forking(s, w) # {}
           r == [s.worker[w] EXCEPT !.spawnPromise = c, !.raced = b]
           d == [s.child[c] EXCEPT !.state = "forking", !.owner = w, !.by = k]
<1>0. b \in BOOLEAN
  BY Zenon
<1>4. Spawn(s, w, c, k) = [s EXCEPT !.worker = [s.worker EXCEPT ![w] = r], !.child = [s.child EXCEPT ![c] = d],
                                    !.phase = IF k = 0 THEN s.phase ELSE [s.phase EXCEPT ![k] = "spawning"]]
  BY Zenon DEF Spawn
<1> HIDE DEF b
<1>5. s.worker[w] \in WorkerRecords /\ c \in 0..LocalChild
  BY Fields, Numbers
<1>1. r \in WorkerRecords
  BY <1>0, <1>5 DEF WorkerRecords
<1>2. d \in ChildRecords
  BY Fields DEF ChildRecords
<1>3. "spawning" \in PhaseNames /\ k \in All \cup {0}
  BY Numbers DEF PhaseNames
<1> HIDE DEF r, d
<1>6. Changes(Spawn(s, w, c, k), s, w, r, c, d, k, "spawning")
  BY <1>1, <1>2, <1>3, <1>4, ChangesFacts
<1> QED
  BY <1>6 DEF r, d, b

\* The state after the exit of the child c.
Gone(s, c) == [s EXCEPT !.child[c] = [@ EXCEPT !.state = "exited", !.inbox = {}]]

LEMMA GoneFacts ==
  ASSUME NEW s \in ProxyStates, NEW c \in Children, NEW w \in Workers
  PROVE  Changes(Gone(s, c), s, w, s.worker[w],
                 c, [s.child[c] EXCEPT !.state = "exited", !.inbox = {}], 0, "new")
<1> DEFINE d == [s.child[c] EXCEPT !.state = "exited", !.inbox = {}]
<1>1. d \in ChildRecords
  BY Fields DEF ChildRecords
<1>2. [s.worker EXCEPT ![w] = s.worker[w]] = s.worker
  BY Fields DEF WorkerStates
<1>3. Gone(s, c) = [s EXCEPT !.worker = s.worker, !.child = [s.child EXCEPT ![c] = d], !.phase = s.phase]
  <2>1. Gone(s, c) = [s EXCEPT !.child = [s.child EXCEPT ![c] = d]]
    BY Zenon DEF Gone
  <2> DEFINE C == [s.child EXCEPT ![c] = d]
  <2> HIDE DEF C
  <2>2. [s EXCEPT !.worker = s.worker, !.child = C, !.phase = s.phase] = [s EXCEPT !.child = C]
    BY DEF ProxyStates
  <2> QED
    BY <2>1, <2>2 DEF C
<1>4. "new" \in PhaseNames /\ s.worker[w] \in WorkerRecords
  BY Fields DEF PhaseNames
<1> HIDE DEF d
<1>5. Changes(Gone(s, c), s, w, s.worker[w], c, d, 0, "new")
  BY <1>1, <1>2, <1>3, <1>4, ChangesFacts
<1> QED
  BY <1>5 DEF d

\* What onProxyDisconnect() yields.
LEMMA DisconnectedFacts ==
  ASSUME NEW s \in ProxyStates, NEW w \in Workers, NEW c \in Children
  PROVE  Changes(Disconnected(s, w), s,
                 w, [s.worker[w] EXCEPT !.child = 0, !.queue = s.worker[w].queue \cup s.worker[w].pool,
                                        !.pool = {}],
                 c, s.child[c], 0, "new")
<1> DEFINE r == [s.worker[w] EXCEPT !.child = 0, !.queue = s.worker[w].queue \cup s.worker[w].pool, !.pool = {}]
<1>0. s.worker[w] \in WorkerRecords /\ 0 \in 0..LocalChild /\ c \in 0..LocalChild
  BY Fields, Numbers
<1>1. r \in WorkerRecords
  BY <1>0 DEF WorkerRecords
<1>2. [s.child EXCEPT ![c] = s.child[c]] = s.child
  BY Fields DEF ChildStates
<1>3. Disconnected(s, w) = [s EXCEPT !.worker = [s.worker EXCEPT ![w] = r], !.child = s.child, !.phase = s.phase]
  <2>1. Disconnected(s, w) = [s EXCEPT !.worker = [s.worker EXCEPT ![w] = r]]
    BY Zenon DEF Disconnected
  <2> DEFINE W == [s.worker EXCEPT ![w] = r]
  <2> HIDE DEF W
  <2>2. [s EXCEPT !.worker = W, !.child = s.child, !.phase = s.phase] = [s EXCEPT !.worker = W]
    BY DEF ProxyStates
  <2> QED
    BY <2>1, <2>2 DEF W
<1>4. "new" \in PhaseNames /\ s.child[c] \in ChildRecords
  BY Fields DEF PhaseNames
<1> HIDE DEF r
<1>5. Changes(Disconnected(s, w), s, w, r, c, s.child[c], 0, "new")
  BY <1>1, <1>2, <1>3, <1>4, ChangesFacts
<1> QED
  BY <1>5 DEF r

\* t is s after k has been answered, which no worker and no child notices.
AfterSettle(t, s, k, how) ==
  /\ t \in ProxyStates /\ t.worker = s.worker /\ t.child = s.child
  /\ t.phase[k] = how /\ \A j \in All \ {k} : t.phase[j] = s.phase[j]

LEMMA SettleFacts ==
  ASSUME NEW s \in ProxyStates, NEW k \in All, NEW how \in {"done", "failed"}
  PROVE  AfterSettle(Settle(s, k, how), s, k, how)
<1> DEFINE P == [s.phase EXCEPT ![k] = how]
<1>0. how \in PhaseNames /\ s.phase \in Phases
  BY Fields DEF PhaseNames
<1>1. P \in Phases /\ P[k] = how /\ \A j \in All \ {k} : P[j] = s.phase[j]
  BY <1>0, PutPhase
<1>2. Settle(s, k, how) = [s EXCEPT !.phase = P]
  BY Zenon DEF Settle
<1> HIDE DEF P
<1>3. LET t == [s EXCEPT !.phase = P] IN
      t \in ProxyStates /\ t.worker = s.worker /\ t.child = s.child /\ t.phase = P
  BY <1>1 DEF ProxyStates
<1> QED
  BY <1>1, <1>2, <1>3 DEF AfterSettle

\* The fork of c fails.
ForkFails(s, c) == [s EXCEPT !.child[c].state = "failed"]
LEMMA FailedFacts ==
  ASSUME NEW s \in ProxyStates, NEW w \in Workers, NEW c \in Children, NEW k \in Commands \cup {0}, k = s.child[c].by, NEW t,
         t = IF k = 0 THEN ForkFails(s, c) ELSE Settle(ForkFails(s, c), k, "failed")
  PROVE  Changes(t, s, w, s.worker[w],
                 c, [s.child[c] EXCEPT !.state = "failed"], k, "failed")
<1> DEFINE d == [s.child[c] EXCEPT !.state = "failed"]
           C == [s.child EXCEPT ![c] = d]
           P == IF k = 0 THEN s.phase ELSE [s.phase EXCEPT ![k] = "failed"]
<1>1. d \in ChildRecords
  BY Fields DEF ChildRecords
<1>2. [s.worker EXCEPT ![w] = s.worker[w]] = s.worker
  BY Fields DEF WorkerStates
<1>3. ForkFails(s, c) = [s EXCEPT !.child = C]
  BY Zenon DEF ForkFails
<1>4. C \in ChildStates
  BY <1>1, Fields, PutChild
<1> HIDE DEF d, C
<1>5. LET u == [s EXCEPT !.child = C] IN u \in ProxyStates /\ u.phase = s.phase
  BY <1>4 DEF ProxyStates
<1>6. t = [s EXCEPT !.worker = s.worker, !.child = C, !.phase = P]
  <2>1. CASE k = 0
    BY <1>3, <2>1 DEF ProxyStates
  <2>2. CASE k # 0
    <3> DEFINE u == [s EXCEPT !.child = C]
    <3>1. t = [u EXCEPT !.phase = [u.phase EXCEPT ![k] = "failed"]]
      BY <1>3, <2>2, Zenon DEF Settle
    <3>2. t = [u EXCEPT !.phase = P]
      BY <3>1, <1>5, <2>2
    <3> HIDE DEF P
    <3> QED
      BY <3>2 DEF ProxyStates
  <2> QED
    BY <2>1, <2>2
<1>7. "failed" \in PhaseNames /\ k \in All \cup {0} /\ s.worker[w] \in WorkerRecords
  BY Fields, Numbers DEF PhaseNames
<1>8. t = [s EXCEPT !.worker = [s.worker EXCEPT ![w] = s.worker[w]],
                    !.child = [s.child EXCEPT ![c] = d],
                    !.phase = IF k = 0 THEN s.phase ELSE [s.phase EXCEPT ![k] = "failed"]]
  BY <1>2, <1>6 DEF C
<1>9. Changes(t, s, w, s.worker[w], c, d, k, "failed")
  BY <1>1, <1>2, <1>7, <1>8, ChangesFacts
<1> QED
  BY <1>9 DEF d

\* What a response yields: nobody hears it when the child is not this.worker any more,
\* and the answer to the kill command lets the child go.
LEMMA RepliedFacts ==
  ASSUME NEW s \in ProxyStates, NEW c \in Children, NEW w \in Workers, NEW k \in All, w = s.child[c].owner
  PROVE  LET t == Replied(s, c, k)
             d == [s.child[c] EXCEPT !.inbox = @ \ {k}]
             r == [s.worker[w] EXCEPT !.pool = @ \ {k}]
         IN /\ s.worker[w].child # c => Changes(t, s, w, s.worker[w], c, d, 0, "new")
            /\ s.worker[w].child = c /\ k # w => Changes(t, s, w, r, c, d, k, "done")
            /\ s.worker[w].child = c /\ k = w =>
                 Changes(t, s, w, [r EXCEPT !.child = 0], c, [d EXCEPT !.state = "signalled"], k, "done")
<1> DEFINE t == Replied(s, c, k)
           d == [s.child[c] EXCEPT !.inbox = @ \ {k}]
           r == [s.worker[w] EXCEPT !.pool = @ \ {k}]
           C == [s.child EXCEPT ![c] = d]
           W == [s.worker EXCEPT ![w] = r]
           P == [s.phase EXCEPT ![k] = "done"]
           d2 == [d EXCEPT !.state = "signalled"]
           r2 == [r EXCEPT !.child = 0]
           taken == [s EXCEPT !.child = C]
           answered == [s EXCEPT !.child = C, !.worker = W, !.phase = P]
<1>1. d \in ChildRecords /\ r \in WorkerRecords
  <2>1. s.child[c] \in ChildRecords /\ s.worker[w] \in WorkerRecords
    BY Fields
  <2> QED
    BY <2>1 DEF ChildRecords, WorkerRecords
<1> HIDE DEF d, r
<1>2. d2 \in ChildRecords /\ r2 \in WorkerRecords
  <2>1. 0 \in 0..LocalChild
    BY Numbers
  <2> QED
    BY <1>1, <2>1 DEF ChildRecords, WorkerRecords
<1> HIDE DEF d2, r2
<1>3. "done" \in PhaseNames /\ "new" \in PhaseNames /\ k # 0 /\ s.worker[w] \in WorkerRecords
      /\ s.worker \in WorkerStates /\ s.child \in ChildStates /\ s.phase \in Phases
  BY Fields, Numbers DEF PhaseNames
<1>4. /\ C \in ChildStates /\ C[c] = d /\ W \in WorkerStates /\ W[w] = r /\ P \in Phases
  BY <1>1, <1>3, PutChild, PutWorker, PutPhase
<1>5. /\ [C EXCEPT ![c] = d2] = [s.child EXCEPT ![c] = d2]
      /\ [W EXCEPT ![w] = r2] = [s.worker EXCEPT ![w] = r2]
      /\ [s.worker EXCEPT ![w] = s.worker[w]] = s.worker
  BY <1>3 DEF ChildStates, WorkerStates
<1>6. [s EXCEPT !.child[c].inbox = @ \ {k}] = taken
  BY Zenon DEF d
<1> HIDE DEF C, W, P
<1>7. taken.worker = s.worker /\ taken.phase = s.phase /\ taken.child = C
  BY <1>4 DEF ProxyStates
<1>8. answered.worker = W /\ answered.phase = P /\ answered.child = C /\ answered \in ProxyStates
  BY <1>4 DEF ProxyStates
<1>9. [taken EXCEPT !.worker[w].pool = @ \ {k}, !.phase[k] = "done"] = answered
  <2>1. [taken EXCEPT !.worker[w].pool = @ \ {k}, !.phase[k] = "done"]
          = [taken EXCEPT !.worker = [taken.worker EXCEPT ![w] = [taken.worker[w] EXCEPT !.pool = @ \ {k}]],
                          !.phase = [taken.phase EXCEPT ![k] = "done"]]
    <3> HIDE DEF taken
    <3> QED
      BY Zenon
  <2>2. /\ [taken.worker EXCEPT ![w] = [taken.worker[w] EXCEPT !.pool = @ \ {k}]] = W
        /\ [taken.phase EXCEPT ![k] = "done"] = P
    <3> HIDE DEF taken
    <3> QED
      BY <1>7, Zenon DEF W, P, r
  <2>3. [taken EXCEPT !.worker = W, !.phase = P] = answered
    BY DEF ProxyStates
  <2> QED
    BY <2>1, <2>2, <2>3
<1>10. [answered EXCEPT !.child[c].state = "signalled", !.worker[w].child = 0]
         = [s EXCEPT !.worker = [s.worker EXCEPT ![w] = r2], !.child = [s.child EXCEPT ![c] = d2], !.phase = P]
  <2>1. [answered EXCEPT !.child[c].state = "signalled", !.worker[w].child = 0]
          = [answered EXCEPT
               !.child = [answered.child EXCEPT ![c] = [answered.child[c] EXCEPT !.state = "signalled"]],
               !.worker = [answered.worker EXCEPT ![w] = [answered.worker[w] EXCEPT !.child = 0]]]
    <3> HIDE DEF answered
    <3> QED
      BY Zenon
  <2>2. /\ [answered.child EXCEPT ![c] = [answered.child[c] EXCEPT !.state = "signalled"]] = [C EXCEPT ![c] = d2]
        /\ [answered.worker EXCEPT ![w] = [answered.worker[w] EXCEPT !.child = 0]] = [W EXCEPT ![w] = r2]
    <3> HIDE DEF answered
    <3> QED
      BY <1>4, <1>8, Zenon DEF d2, r2
  <2> DEFINE C3 == [C EXCEPT ![c] = d2]
             W3 == [W EXCEPT ![w] = r2]
  <2>3. C3 = [s.child EXCEPT ![c] = d2] /\ W3 = [s.worker EXCEPT ![w] = r2]
    BY <1>5
  <2> HIDE DEF C3, W3
  <2>4. [answered EXCEPT !.child = C3, !.worker = W3] = [s EXCEPT !.worker = W3, !.child = C3, !.phase = P]
    BY DEF ProxyStates
  <2>5. [answered EXCEPT !.child[c].state = "signalled", !.worker[w].child = 0]
          = [answered EXCEPT !.child = C3, !.worker = W3]
    BY <2>1, <2>2 DEF C3, W3
  <2> QED
    BY <2>3, <2>4, <2>5
<1> HIDE DEF t
<1>11. ASSUME s.worker[w].child # c PROVE Changes(t, s, w, s.worker[w], c, d, 0, "new")
  <2>1. t = taken
    BY <1>6, <1>11 DEF Replied, t
  <2>2. taken = [s EXCEPT !.worker = s.worker, !.child = C, !.phase = s.phase]
    BY DEF ProxyStates
  <2>3. t = [s EXCEPT !.worker = [s.worker EXCEPT ![w] = s.worker[w]], !.child = [s.child EXCEPT ![c] = d],
                      !.phase = s.phase]
    BY <1>5, <2>1, <2>2 DEF C
  <2> QED
    BY <1>1, <1>3, <2>3, ChangesFacts
<1>12. ASSUME s.worker[w].child = c, k # w PROVE Changes(t, s, w, r, c, d, k, "done")
  <2>1. t = answered
    BY <1>6, <1>9, <1>12 DEF Replied, t
  <2>2. t = [s EXCEPT !.worker = W, !.child = C, !.phase = P]
    BY <2>1 DEF ProxyStates
  <2>3. t = [s EXCEPT !.worker = [s.worker EXCEPT ![w] = r], !.child = [s.child EXCEPT ![c] = d],
                      !.phase = IF k = 0 THEN s.phase ELSE [s.phase EXCEPT ![k] = "done"]]
    BY <1>3, <2>2 DEF C, W, P
  <2> QED
    BY <1>1, <1>3, <2>3, ChangesFacts
<1>13. ASSUME s.worker[w].child = c, k = w PROVE Changes(t, s, w, r2, c, d2, k, "done")
  <2>1. t = [answered EXCEPT !.child[c].state = "signalled", !.worker[w].child = 0]
    BY <1>6, <1>9, <1>13 DEF Replied, t
  <2>2. t = [s EXCEPT !.worker = [s.worker EXCEPT ![w] = r2], !.child = [s.child EXCEPT ![c] = d2],
                      !.phase = IF k = 0 THEN s.phase ELSE [s.phase EXCEPT ![k] = "done"]]
    BY <1>3, <1>10, <2>1 DEF P
  <2> QED
    BY <1>2, <1>3, <2>2, ChangesFacts
<1> QED
  BY <1>11, <1>12, <1>13 DEF t, d, r, d2, r2

\* What the refusal of the kill command yields.
LEMMA RefusedFacts ==
  ASSUME NEW s \in ProxyStates, NEW c \in Children, NEW w \in Workers, w = s.child[c].owner
  PROVE  Changes(Refused(s, c), s, w, [s.worker[w] EXCEPT !.pool = @ \ {w}],
                 c, [s.child[c] EXCEPT !.inbox = @ \ {w}], w, "failed")
<1> DEFINE d == [s.child[c] EXCEPT !.inbox = @ \ {w}]
           r == [s.worker[w] EXCEPT !.pool = @ \ {w}]
<1>1. d \in ChildRecords /\ r \in WorkerRecords
  <2>1. s.child[c] \in ChildRecords /\ s.worker[w] \in WorkerRecords
    BY Fields
  <2> QED
    BY <2>1 DEF ChildRecords, WorkerRecords
<1>2. Refused(s, c) = [s EXCEPT !.worker = [s.worker EXCEPT ![w] = r], !.child = [s.child EXCEPT ![c] = d],
                                !.phase = [s.phase EXCEPT ![w] = "failed"]]
  BY Zenon DEF Refused
<1>3. w \in All /\ w # 0 /\ "failed" \in PhaseNames
  BY Numbers DEF PhaseNames
<1>4. [s.phase EXCEPT ![w] = "failed"] = IF w = 0 THEN s.phase ELSE [s.phase EXCEPT ![w] = "failed"]
  BY <1>3
<1> HIDE DEF d, r
<1>5. Changes(Refused(s, c), s, w, r, c, d, w, "failed")
  BY <1>1, <1>2, <1>3, <1>4, ChangesFacts
<1> QED
  BY <1>5 DEF d, r

\* What kill() does to w, its children and its kill command: nothing, the kill command,
\* or to wait for the fork.
Untouched(t, s, w) ==
  /\ t.worker[w] = s.worker[w] /\ t.phase[w] = s.phase[w]
  /\ \A c \in Children : s.child[c].owner = w => t.child[c] = s.child[c]
Commanded(t, s, w) ==
  LET b == s.worker[w].child IN
  IF b = 0
  THEN /\ t.worker[w] = s.worker[w] /\ t.phase[w] = "done"
       /\ \A c \in Children : s.child[c].owner = w => t.child[c] = s.child[c]
  ELSE /\ t.worker[w] = [s.worker[w] EXCEPT !.pool = @ \cup {w}] /\ t.phase[w] = "sent"
       /\ t.child[b] = [s.child[b] EXCEPT !.heard = FALSE, !.inbox = @ \cup {w}]
       /\ \A c \in Children \ {b} : s.child[c].owner = w => t.child[c] = s.child[c]
Waiting(t, s, w) ==
  /\ s.worker[w].spawnPromise # 0
  /\ t.worker[w] = [s.worker[w] EXCEPT !.waits = s.worker[w].spawnPromise] /\ t.phase[w] = "wait"
  /\ \A c \in Children : s.child[c].owner = w => t.child[c] = s.child[c]

\* What kill() of one worker yields.
LEMMA KillCommandFacts ==
  ASSUME NEW s \in ProxyStates, NEW w \in Workers,
         s.worker[w].child # 0 => s.child[s.worker[w].child].owner = w
  PROVE  LET t == KillCommand(s, w) IN
         /\ t \in ProxyStates /\ Commanded(t, s, w)
         /\ \A v \in Workers \ {w} : Untouched(t, s, v)
         /\ \A k \in Commands : t.phase[k] = s.phase[k]
<1> DEFINE b == s.worker[w].child
           t == KillCommand(s, w)
<1>1. b \in Children \cup {0} /\ w \in All /\ w \notin Commands /\ Workers \subseteq All /\ Commands \subseteq All /\ w # 0
  BY Fields, Numbers
<1>2. CASE b = 0
  <2>1. AfterSettle(t, s, w, "done")
    BY <1>1, <1>2, SettleFacts DEF KillCommand
  <2> HIDE DEF t
  <2> QED
    BY <1>1, <1>2, <2>1 DEF AfterSettle, Commanded, Untouched, t
<1>3. CASE b # 0
  <2> DEFINE h == [s.child[b] EXCEPT !.heard = FALSE]
             C == [s.child EXCEPT ![b] = h]
             u == [s EXCEPT !.child = C]
  <2>1. b \in Children /\ s.child[b] \in ChildRecords /\ s.child \in ChildStates
    BY <1>1, <1>3, Fields
  <2>2. h \in ChildRecords /\ h.owner = s.child[b].owner
    BY <2>1 DEF ChildRecords
  <2>3. [s EXCEPT !.child[s.worker[w].child].heard = FALSE] = u
    BY Zenon
  <2>4. t = Send(u, w, w)
    BY <1>3, <2>3 DEF KillCommand
  <2>5. C \in ChildStates /\ C[b] = h /\ \A c \in Children \ {b} : C[c] = s.child[c]
    <3> HIDE DEF h, b
    <3> QED
      BY <2>1, <2>2, PutChild
  <2>6. [h EXCEPT !.inbox = @ \cup {w}] = [s.child[b] EXCEPT !.heard = FALSE, !.inbox = @ \cup {w}]
    BY <2>1 DEF ChildRecords
  <2> HIDE DEF h, C
  <2>7. u \in ProxyStates /\ u.worker = s.worker /\ u.phase = s.phase /\ u.child = C
    BY <2>5 DEF ProxyStates
  <2> HIDE DEF u, t, b
  <2>8. b = u.worker[w].child
    BY <2>7 DEF b
  <2>9. Changes(t, u, w, [s.worker[w] EXCEPT !.pool = @ \cup {w}], b, [h EXCEPT !.inbox = @ \cup {w}], w, "sent")
    BY <1>1, <2>1, <2>4, <2>5, <2>7, <2>8, SendFacts
  <2>10. /\ t \in ProxyStates
         /\ t.worker[w] = [s.worker[w] EXCEPT !.pool = @ \cup {w}]
         /\ t.child[b] = [s.child[b] EXCEPT !.heard = FALSE, !.inbox = @ \cup {w}]
         /\ t.phase[w] = "sent"
         /\ \A v \in Workers \ {w} : t.worker[v] = s.worker[v] /\ t.phase[v] = s.phase[v]
         /\ \A c \in Children \ {b} : t.child[c] = s.child[c]
         /\ \A k \in Commands : t.phase[k] = s.phase[k]
    BY <1>1, <2>5, <2>6, <2>7, <2>9 DEF Changes
  <2>11. s.child[b].owner = w
    BY <1>3 DEF b
  <2>12. Commanded(t, s, w)
    BY <1>3, <2>10 DEF Commanded, b
  <2>13. \A v \in Workers \ {w} : Untouched(t, s, v)
    BY <2>10, <2>11 DEF Untouched
  <2> QED
    BY <2>10, <2>12, <2>13 DEF t
<1> QED
  BY <1>2, <1>3

LEMMA KillFacts ==
  ASSUME NEW s \in ProxyStates, NEW w \in Workers,
         s.worker[w].child # 0 => s.child[s.worker[w].child].owner = w
  PROVE  LET t == Kill(s, w) IN
         /\ t \in ProxyStates
         /\ IF s.worker[w].spawnPromise = 0 THEN Commanded(t, s, w) ELSE Waiting(t, s, w)
<1> DEFINE t == Kill(s, w)
           p == s.worker[w].spawnPromise
<1>1. CASE p = 0
  BY <1>1, KillCommandFacts DEF Kill
<1>2. CASE p # 0
  <2> DEFINE r == [s.worker[w] EXCEPT !.waits = p]
             W == [s.worker EXCEPT ![w] = r]
             P == [s.phase EXCEPT ![w] = "wait"]
  <2>1. s.worker[w] \in WorkerRecords /\ p \in 0..LocalChild /\ s.worker \in WorkerStates /\ s.phase \in Phases
        /\ w \in All /\ "wait" \in PhaseNames
    BY Fields, Numbers DEF PhaseNames
  <2>2. t = [s EXCEPT !.worker = W, !.phase = P]
    BY <1>2, Zenon DEF Kill
  <2> HIDE DEF p
  <2>3. r \in WorkerRecords
    BY <2>1 DEF WorkerRecords
  <2> HIDE DEF r
  <2>4. W \in WorkerStates /\ W[w] = r /\ P \in Phases /\ P[w] = "wait"
    BY <2>1, <2>3, PutWorker, PutPhase
  <2> HIDE DEF W, P, t
  <2>5. t \in ProxyStates /\ t.worker = W /\ t.phase = P /\ t.child = s.child
    BY <2>2, <2>4 DEF ProxyStates
  <2>6. Waiting(t, s, w)
    BY <1>2, <2>4, <2>5 DEF Waiting, r, p
  <2> QED
    BY <1>2, <2>5, <2>6 DEF t, p
<1> QED
  BY <1>1, <1>2

-----------------------------------------------------------------------------
\* Of each worker: its child is its own and has at most the pending commands; the kill
\* command is with it from "sent" on.  Unless it raced it is calm: it has one child that
\* is alive or on its way, at most, and what it waits for is there.
Live == {"alive", "forking"}
Calm(s, w) ==
  LET b == s.worker[w].child IN
  /\ \A c \in Children : s.child[c].owner = w =>
       /\ s.child[c].state = "alive" => b = c
       /\ s.child[c].state = "forking" => b = 0 /\ s.worker[w].spawnPromise = c
       /\ s.child[c].state = "signalled" => s.child[c].heard = FALSE
  /\ s.phase[w] = "sent" => b # 0 /\ s.child[b].heard = FALSE
  /\ s.phase[w] = "new" =>
       IF b # 0
       THEN /\ s.child[b].state = "alive" /\ (s.child[b].heard = TRUE \/ b = LocalChild)
            /\ s.worker[w].pool = s.child[b].inbox
       ELSE /\ s.worker[w].pool = {}
            /\ s.worker[w].queue # {} =>
                 \E c \in Children : s.child[c].owner = w /\ s.child[c].state \in {"forking", "failed"}
WorkerOk(s, w) ==
  LET b == s.worker[w].child IN
  /\ b # 0 => /\ s.child[b].owner = w /\ s.child[b].state # "none" /\ s.worker[w].queue = {}
              /\ s.child[b].inbox \subseteq s.worker[w].pool
  /\ s.worker[w].spawnPromise # 0 => b = 0
  /\ s.worker[w].pool \cup s.worker[w].queue \subseteq Commands \cup {w}
  /\ s.phase[w] # "sent" => w \notin s.worker[w].pool \cup s.worker[w].queue
  /\ s.worker[w].raced = FALSE => Calm(s, w)

\* Of each child: the command that forked it is its own, and goes on only while the
\* child is alive; it is asked for commands and for the kill command of its worker.
ByOk(s) ==
  \A c \in Children : LET k == s.child[c].by IN k # 0 =>
    /\ s.phase[k] # "new" /\ (s.phase[k] = "forked" => s.child[c].state = "alive")
    /\ \A d \in Children \ {c} : s.child[d].by # k
InboxOk(s) ==
  \A c \in Children :
    /\ s.child[c].inbox \subseteq Commands \cup {s.child[c].owner}
    /\ s.child[c].state = "none" => s.child[c].inbox = {}

Sound(s) == s \in ProxyStates /\ ByOk(s) /\ InboxOk(s) /\ \A w \in Workers : WorkerOk(s, w)

\* A worker that keeps its entry, its kill command and its children is as before.
StaysAs(t, s, v) ==
  /\ t.worker[v] = s.worker[v] /\ t.phase[v] = s.phase[v]
  /\ \A c \in Children : s.child[c].owner = v /\ s.child[c].state # "none" => t.child[c] = s.child[c]
  /\ \A c \in Children : t.child[c].owner = v /\ t.child[c].state # "none" => t.child[c] = s.child[c]

LEMMA KeptOk ==
  ASSUME NEW s \in ProxyStates, NEW v \in Workers, NEW t, StaysAs(t, s, v), WorkerOk(s, v)
  PROVE  WorkerOk(t, v)
<1> DEFINE b == s.worker[v].child
<1>1. b \in Children \cup {0} /\ t.worker[v] = s.worker[v] /\ t.phase[v] = s.phase[v]
  BY Fields DEF StaysAs
<1> HIDE DEF b
<1>2. b # 0 => s.child[b].owner = v /\ s.child[b].state # "none"
  BY DEF WorkerOk, b
<1>3. b # 0 => t.child[b] = s.child[b]
  BY <1>1, <1>2 DEF StaysAs
<1>4. ASSUME Calm(s, v) PROVE Calm(t, v)
  <2>1. ASSUME NEW c \in Children, t.child[c].owner = v
        PROVE  /\ t.child[c].state = "alive" => b = c
               /\ t.child[c].state = "forking" => b = 0 /\ t.worker[v].spawnPromise = c
               /\ t.child[c].state = "signalled" => t.child[c].heard = FALSE
    <3>1. CASE t.child[c].state = "none"
      BY <3>1
    <3>2. CASE t.child[c].state # "none"
      <4>1. t.child[c] = s.child[c]
        BY <2>1, <3>2 DEF StaysAs
      <4> QED
        BY <1>1, <1>4, <2>1, <4>1 DEF Calm, b
    <3> QED
      BY <3>1, <3>2
  <2>2. t.phase[v] = "sent" => b # 0 /\ t.child[b].heard = FALSE
    BY <1>1, <1>3, <1>4 DEF Calm, b
  <2>3. ASSUME t.phase[v] = "new", b # 0
        PROVE  /\ t.child[b].state = "alive" /\ (t.child[b].heard = TRUE \/ b = LocalChild)
               /\ t.worker[v].pool = t.child[b].inbox
    BY <1>1, <1>3, <1>4, <2>3 DEF Calm, b
  <2>4. ASSUME t.phase[v] = "new", b = 0
        PROVE  /\ t.worker[v].pool = {}
               /\ t.worker[v].queue # {} =>
                    \E c \in Children : t.child[c].owner = v /\ t.child[c].state \in {"forking", "failed"}
    <3>1. t.worker[v].pool = {}
      BY <1>1, <1>4, <2>4 DEF Calm, b
    <3>2. ASSUME t.worker[v].queue # {}
          PROVE  \E c \in Children : t.child[c].owner = v /\ t.child[c].state \in {"forking", "failed"}
      <4>1. PICK c \in Children : s.child[c].owner = v /\ s.child[c].state \in {"forking", "failed"}
        BY <1>1, <1>4, <2>4, <3>2 DEF Calm, b
      <4>2. t.child[c] = s.child[c]
        BY <4>1 DEF StaysAs
      <4> QED
        BY <4>1, <4>2
    <3> QED
      BY <3>1, <3>2
  <2> QED
    BY <1>1, <2>1, <2>2, <2>3, <2>4 DEF Calm, b
<1> QED
  BY <1>1, <1>2, <1>3, <1>4 DEF WorkerOk, b

\* A step that changes one worker, one child of it and the phase of a command or of its
\* kill command: the others are kept.
Inside(s, w, c, d, k) ==
  /\ s.child[c].state = "none" \/ s.child[c].owner = w
  /\ d.owner = w /\ d.inbox \subseteq Commands \cup {w} /\ (d.state = "none" => d.inbox = {})
  /\ k \in Commands \cup {0, w}

LEMMA InsideKept ==
  ASSUME NEW s \in ProxyStates, NEW w \in Workers, NEW r, NEW c \in Children, NEW d,
         NEW k, NEW x, NEW t, Changes(t, s, w, r, c, d, k, x), Inside(s, w, c, d, k),
         NEW v \in Workers, v # w
  PROVE  StaysAs(t, s, v)
<1>1. t.worker[v] = s.worker[v] /\ t.child[c] = d /\ \A e \in Children \ {c} : t.child[e] = s.child[e]
  BY DEF Changes
<1>2. v \in All \ {k}
  BY Numbers DEF Inside
<1>3. t.phase[v] = s.phase[v]
  BY <1>2 DEF Changes
<1>4. d.owner # v /\ (s.child[c].state = "none" \/ s.child[c].owner # v)
  BY DEF Inside
<1> QED
  BY <1>1, <1>3, <1>4 DEF StaysAs

\* All but the worker w are sound.
OthersSound(s, w) == s \in ProxyStates /\ ByOk(s) /\ InboxOk(s) /\ \A v \in Workers \ {w} : WorkerOk(s, v)
LEMMA RestSound ==
  ASSUME NEW s, NEW w \in Workers
  PROVE  Sound(s) <=> OthersSound(s, w) /\ WorkerOk(s, w)
BY DEF Sound, OthersSound

LEMMA InsideRest ==
  ASSUME NEW w \in Workers, NEW s, OthersSound(s, w), NEW r, NEW c \in Children, NEW d,
         NEW k, NEW x, NEW t, Changes(t, s, w, r, c, d, k, x), Inside(s, w, c, d, k), ByOk(t)
  PROVE  OthersSound(t, w)
<1>1. s \in ProxyStates /\ t \in ProxyStates /\ t.child[c] = d
      /\ \A e \in Children \ {c} : t.child[e] = s.child[e]
  BY DEF OthersSound, Changes
<1>2. \A v \in Workers \ {w} : WorkerOk(t, v)
  <2> SUFFICES ASSUME NEW v \in Workers, v # w PROVE WorkerOk(t, v)
    OBVIOUS
  <2>1. StaysAs(t, s, v) /\ WorkerOk(s, v)
    BY <1>1, InsideKept DEF OthersSound
  <2> QED
    BY <1>1, <2>1, KeptOk
<1>3. InboxOk(t)
  BY <1>1 DEF OthersSound, InboxOk, Inside
<1> QED
  BY <1>1, <1>2, <1>3 DEF OthersSound

\* The child is forked by whom it was before, or by a new command.
LEMMA ByKept ==
  ASSUME NEW s \in ProxyStates, ByOk(s), NEW w, NEW r, NEW c \in Children, NEW d, NEW k \in All \cup {0}, NEW x, NEW t,
         Changes(t, s, w, r, c, d, k, x), d.by = s.child[c].by,
         k # 0 => x # "new" /\ (x = "forked" => k = d.by),
         d.by # 0 /\ t.phase[d.by] = "forked" => d.state = "alive"
  PROVE  ByOk(t)
<1>1. s \in ProxyStates /\ t.child[c] = d /\ \A e \in Children \ {c} : t.child[e] = s.child[e]
  BY DEF Changes
<1>2. \A j \in All : t.phase[j] = IF k # 0 /\ j = k THEN x ELSE s.phase[j]
  BY Numbers DEF Changes
<1>3. \A e \in Children : t.child[e].by = s.child[e].by /\ s.child[e].by \in Commands \cup {0}
  BY <1>1, Fields
<1> SUFFICES ASSUME NEW e \in Children, t.child[e].by # 0
             PROVE  /\ t.phase[t.child[e].by] # "new"
                    /\ t.phase[t.child[e].by] = "forked" => t.child[e].state = "alive"
                    /\ \A f \in Children \ {e} : t.child[f].by # t.child[e].by
  BY DEF ByOk
<1> DEFINE j == s.child[e].by
<1>4. j \in All /\ j # 0 /\ t.child[e].by = j
  BY <1>3, Numbers
<1>5. s.phase[j] # "new" /\ (s.phase[j] = "forked" => s.child[e].state = "alive")
      /\ \A f \in Children \ {e} : s.child[f].by # j
  BY <1>4 DEF ByOk
<1> HIDE DEF j
<1>6. t.phase[j] # "new"
  BY <1>2, <1>4, <1>5
<1>7. t.phase[j] = "forked" => t.child[e].state = "alive"
  <2>1. CASE e = c
    BY <1>1, <1>4, <2>1
  <2>2. CASE e # c
    <3>1. s.child[c].by # j
      BY <1>5, <2>2
    <3>2. t.phase[j] = "forked" => s.phase[j] = "forked"
      BY <1>2, <1>4, <3>1
    <3> QED
      BY <1>1, <1>5, <2>2, <3>2
  <2> QED
    BY <2>1, <2>2
<1>8. \A f \in Children \ {e} : t.child[f].by # j
  BY <1>3, <1>5
<1> QED
  BY <1>4, <1>6, <1>7, <1>8

LEMMA ByNew ==
  ASSUME NEW s \in ProxyStates, ByOk(s), NEW w, NEW r, NEW c \in Children, NEW d, NEW k \in Commands \cup {0}, NEW t,
         Changes(t, s, w, r, c, d, k, "spawning"), d.by = k, k # 0 => s.phase[k] = "new"
  PROVE  ByOk(t)
<1>1. s \in ProxyStates /\ t.child[c] = d /\ \A e \in Children \ {c} : t.child[e] = s.child[e]
  BY DEF Changes
<1>2. \A j \in All : t.phase[j] = IF k # 0 /\ j = k THEN "spawning" ELSE s.phase[j]
  BY Numbers DEF Changes
<1>3. \A e \in Children : s.child[e].by \in Commands \cup {0}
  BY <1>1, Fields
<1>4. \A e \in Children : k # 0 => s.child[e].by # k
  BY DEF ByOk
<1> SUFFICES ASSUME NEW e \in Children, t.child[e].by # 0
             PROVE  /\ t.phase[t.child[e].by] # "new"
                    /\ t.phase[t.child[e].by] = "forked" => t.child[e].state = "alive"
                    /\ \A f \in Children \ {e} : t.child[f].by # t.child[e].by
  BY DEF ByOk
<1>5. CASE e = c
  BY <1>1, <1>2, <1>4, <1>5, Numbers
<1>6. CASE e # c
  <2>1. t.child[e] = s.child[e] /\ s.child[e].by # 0 /\ s.child[e].by \in All
    BY <1>1, <1>3, <1>6, Numbers
  <2>2. /\ s.phase[s.child[e].by] # "new"
        /\ s.phase[s.child[e].by] = "forked" => s.child[e].state = "alive"
        /\ \A f \in Children \ {e} : s.child[f].by # s.child[e].by
    BY <2>1 DEF ByOk
  <2>3. t.phase[s.child[e].by] = s.phase[s.child[e].by]
    BY <1>2, <1>4, <2>1
  <2> QED
    BY <1>1, <1>4, <2>1, <2>2, <2>3
<1> QED
  BY <1>5, <1>6

\* The end of a step: the worker w is as it should be.
LEMMA WorkerIs ==
  ASSUME NEW s \in ProxyStates, NEW w \in Workers, NEW b \in Children \cup {0}, b = s.worker[w].child,
         b # 0 => /\ s.child[b].owner = w /\ s.child[b].state # "none" /\ s.worker[w].queue = {}
                  /\ s.child[b].inbox \subseteq s.worker[w].pool,
         s.worker[w].spawnPromise # 0 => b = 0,
         s.worker[w].pool \cup s.worker[w].queue \subseteq Commands \cup {w},
         s.phase[w] # "sent" => w \notin s.worker[w].pool \cup s.worker[w].queue,
         s.worker[w].raced = FALSE => Calm(s, w)
  PROVE  WorkerOk(s, w)
BY DEF WorkerOk

\* A command is sent to the child.
LEMMA SendSound ==
  ASSUME NEW s, Sound(s), NEW w \in Workers, NEW k \in Commands, s.worker[w].child # 0
  PROVE  LET c == s.worker[w].child
         IN /\ Sound(Send(s, w, k)) /\ c \in Children /\ s.child[c].state # "none"
            /\ Changes(Send(s, w, k), s, w, [s.worker[w] EXCEPT !.pool = @ \cup {k}],
                       c, [s.child[c] EXCEPT !.inbox = @ \cup {k}], k, "sent")
<1> DEFINE c == s.worker[w].child
           t == Send(s, w, k)
           r == [s.worker[w] EXCEPT !.pool = @ \cup {k}]
           d == [s.child[c] EXCEPT !.inbox = @ \cup {k}]
<1>1. s \in ProxyStates /\ c \in Children /\ k \in All /\ k # 0 /\ k \notin Workers
  BY Fields, Numbers DEF Sound
<1>2. Changes(t, s, w, r, c, d, k, "sent")
  BY <1>1, SendFacts
<1>3. s.worker[w] \in WorkerRecords /\ s.child[c] \in ChildRecords
  BY <1>1, Fields
<1>4. /\ r.child = c /\ r.spawnPromise = s.worker[w].spawnPromise /\ r.queue = s.worker[w].queue
      /\ r.pool = s.worker[w].pool \cup {k} /\ r.raced = s.worker[w].raced
  BY <1>3 DEF WorkerRecords
<1>5. /\ d.state = s.child[c].state /\ d.owner = s.child[c].owner /\ d.by = s.child[c].by
      /\ d.heard = s.child[c].heard /\ d.inbox = s.child[c].inbox \cup {k}
  BY <1>3 DEF ChildRecords
<1> HIDE DEF t, r, d, c
<1>6. WorkerOk(s, w) /\ InboxOk(s) /\ ByOk(s)
  BY DEF Sound
<1>7. /\ s.child[c].owner = w /\ s.child[c].state # "none" /\ s.worker[w].queue = {}
      /\ s.child[c].inbox \subseteq s.worker[w].pool /\ s.child[c].inbox \subseteq Commands \cup {w}
  <2>1. c # 0
    BY <1>1, Numbers
  <2> QED
    BY <1>1, <1>6, <2>1 DEF WorkerOk, InboxOk, c
<1>8. /\ t \in ProxyStates /\ t.worker[w] = r /\ t.child[c] = d /\ t.phase[w] = s.phase[w]
      /\ \A e \in Children \ {c} : t.child[e] = s.child[e]
  BY <1>1, <1>2, Numbers DEF Changes
<1>9. ByOk(t)
  <2>1. d.by # 0 /\ t.phase[d.by] = "forked" => d.state = "alive"
    <3> SUFFICES ASSUME d.by # 0, t.phase[d.by] = "forked" PROVE d.state = "alive"
      OBVIOUS
    <3>1. d.by \in All /\ d.by # k
      BY <1>1, <1>2, <1>5, Fields, Numbers DEF Changes
    <3>2. s.phase[d.by] = "forked"
      BY <1>2, <3>1 DEF Changes
    <3> QED
      BY <1>1, <1>5, <1>6, <3>2 DEF ByOk
  <2> QED
    BY <1>1, <1>2, <1>5, <1>6, <2>1, ByKept
<1>10. Inside(s, w, c, d, k)
  BY <1>5, <1>7 DEF Inside
<1>11. ASSUME s.worker[w].raced = FALSE PROVE Calm(t, w)
  <2>1. Calm(s, w)
    BY <1>6, <1>11 DEF WorkerOk
  <2>2. c # 0 /\ t.worker[w].child = c /\ s.worker[w].child = c
    BY <1>1, <1>4, <1>8, Numbers DEF c
  <2>3. ASSUME NEW e \in Children, t.child[e].owner = w
        PROVE  /\ t.child[e].state = "alive" => c = e
               /\ t.child[e].state = "forking" => c = 0 /\ t.worker[w].spawnPromise = e
               /\ t.child[e].state = "signalled" => t.child[e].heard = FALSE
    <3>1. t.child[e].state = s.child[e].state /\ s.child[e].owner = w /\ t.child[e].heard = s.child[e].heard
      BY <1>5, <1>7, <1>8, <2>3
    <3> QED
      BY <1>4, <1>8, <2>1, <2>2, <3>1 DEF Calm
  <2>4. t.phase[w] = "sent" => t.child[c].heard = FALSE
    BY <1>5, <1>8, <2>1, <2>2 DEF Calm
  <2>5. t.phase[w] = "new" => /\ t.child[c].state = "alive" /\ (t.child[c].heard = TRUE \/ c = LocalChild)
                              /\ t.worker[w].pool = t.child[c].inbox
    BY <1>4, <1>5, <1>8, <2>1, <2>2 DEF Calm
  <2> QED
    BY <2>2, <2>3, <2>4, <2>5 DEF Calm
<1>12. WorkerOk(t, w)
  <2>1. /\ s.worker[w].pool \cup s.worker[w].queue \subseteq Commands \cup {w}
        /\ s.phase[w] # "sent" => w \notin s.worker[w].pool \cup s.worker[w].queue
        /\ s.worker[w].spawnPromise # 0 => c = 0
    BY <1>6 DEF WorkerOk, c
  <2>2. t.worker[w].pool \cup t.worker[w].queue \subseteq Commands \cup {w}
    BY <1>4, <1>8, <2>1
  <2>3. t.phase[w] # "sent" => w \notin t.worker[w].pool \cup t.worker[w].queue
    BY <1>1, <1>4, <1>8, <2>1
  <2>4. t.child[c].owner = w /\ t.child[c].state # "none" /\ t.worker[w].queue = {}
        /\ t.child[c].inbox \subseteq t.worker[w].pool
    BY <1>4, <1>5, <1>7, <1>8
  <2>5. t.worker[w].child = c /\ (t.worker[w].spawnPromise # 0 => c = 0)
    BY <1>4, <1>8, <2>1
  <2>6. t.worker[w].raced = FALSE => Calm(t, w)
    BY <1>4, <1>8, <1>11
  <2> QED
    BY <1>1, <1>8, <2>2, <2>3, <2>4, <2>5, <2>6, WorkerIs
<1>13. Sound(t)
  <2>1. OthersSound(s, w)
    BY RestSound
  <2>2. OthersSound(t, w)
    BY <1>2, <1>1, <1>9, <1>10, <2>1, InsideRest
  <2> QED
    BY <1>12, <2>2, RestSound
<1> QED
  BY <1>1, <1>2, <1>7, <1>13 DEF t, r, d, c

\* A new fork begins, for a command or after an exit.
Spawned(t, s, w, c, k) ==
  \E q \in BOOLEAN :
    /\ q = FALSE => s.worker[w].raced = FALSE
    /\ Changes(t, s, w, [s.worker[w] EXCEPT !.spawnPromise = c, !.raced = q],
               c, [s.child[c] EXCEPT !.state = "forking", !.owner = w, !.by = k], k, "spawning")
LEMMA SpawnSound ==
  ASSUME NEW s, NEW w \in Workers, OthersSound(s, w), NEW c \in Children, s.child[c].state = "none",
         NEW k \in Commands \cup {0}, k # 0 => s.phase[k] = "new",
         s.worker[w].child = 0,
         s.worker[w].pool \cup s.worker[w].queue \subseteq Commands \cup {w},
         s.phase[w] # "sent" => w \notin s.worker[w].pool \cup s.worker[w].queue,
         s.worker[w].raced = FALSE =>
           /\ s.phase[w] # "sent" /\ (s.phase[w] = "new" => s.worker[w].pool = {})
           /\ \A e \in Children : s.child[e].owner = w =>
                s.child[e].state # "alive" /\ (s.child[e].state = "signalled" => s.child[e].heard = FALSE)
  PROVE  Sound(Spawn(s, w, c, k)) /\ Spawned(Spawn(s, w, c, k), s, w, c, k)
<1> DEFINE t == Spawn(s, w, c, k)
           q == s.worker[w].raced \/ Forking(s, w) # {}
           r == [s.worker[w] EXCEPT !.spawnPromise = c, !.raced = q]
           d == [s.child[c] EXCEPT !.state = "forking", !.owner = w, !.by = k]
<1>1. s \in ProxyStates /\ ByOk(s) /\ InboxOk(s) /\ c # 0 /\ k \in All \cup {0} /\ k \notin Workers
  BY Numbers DEF OthersSound
<1>2. Changes(t, s, w, r, c, d, k, "spawning")
  BY <1>1, SpawnFacts
<1>3. s.worker[w] \in WorkerRecords /\ s.child[c] \in ChildRecords /\ q \in BOOLEAN
  <2>1. s.worker[w] \in WorkerRecords /\ s.child[c] \in ChildRecords
    BY <1>1, Fields
  <2>2. q \in BOOLEAN
    BY Zenon
  <2> QED
    BY <2>1, <2>2
<1>4. q = FALSE => s.worker[w].raced = FALSE /\ Forking(s, w) = {}
  <2>1. s.worker[w].raced \in BOOLEAN
    BY <1>1, Fields
  <2> QED
    BY <2>1, Zenon
<1> HIDE DEF q
<1>5. /\ r.child = 0 /\ r.spawnPromise = c /\ r.queue = s.worker[w].queue
      /\ r.pool = s.worker[w].pool /\ r.raced = q
  BY <1>3 DEF WorkerRecords
<1>6. d.state = "forking" /\ d.owner = w /\ d.by = k /\ d.inbox = s.child[c].inbox
  BY <1>3 DEF ChildRecords
<1> HIDE DEF t, r, d
<1>7. s.child[c].inbox = {}
  BY <1>1 DEF InboxOk
<1>8. /\ t \in ProxyStates /\ t.worker[w] = r /\ t.child[c] = d /\ t.phase[w] = s.phase[w]
      /\ \A e \in Children \ {c} : t.child[e] = s.child[e]
  BY <1>1, <1>2, Numbers DEF Changes
<1>9. ByOk(t)
  BY <1>1, <1>2, <1>6, ByNew
<1>10. Inside(s, w, c, d, k)
  BY <1>6, <1>7 DEF Inside
<1>11. ASSUME q = FALSE PROVE Calm(t, w)
  <2>1. ASSUME NEW e \in Children, t.child[e].owner = w
        PROVE  /\ t.child[e].state = "alive" => 0 = e
               /\ t.child[e].state = "forking" => t.worker[w].spawnPromise = e
               /\ t.child[e].state = "signalled" => t.child[e].heard = FALSE
    <3>1. CASE e = c
      BY <1>5, <1>6, <1>8, <3>1
    <3>2. CASE e # c
      <4>1. t.child[e] = s.child[e]
        BY <1>8, <3>2
      <4>2. s.child[e].state # "forking"
        BY <1>4, <1>11, <2>1, <4>1 DEF Forking
      <4> QED
        BY <1>4, <1>11, <2>1, <4>1, <4>2
    <3> QED
      BY <3>1, <3>2
  <2>2. t.phase[w] # "sent" /\ (t.phase[w] = "new" => t.worker[w].pool = {})
    BY <1>4, <1>5, <1>8, <1>11
  <2>3. \E e \in Children : t.child[e].owner = w /\ t.child[e].state \in {"forking", "failed"}
    BY <1>6, <1>8
  <2>4. t.worker[w].child = 0
    BY <1>5, <1>8
  <2> QED
    BY <2>1, <2>2, <2>3, <2>4 DEF Calm
<1>12. WorkerOk(t, w)
  <2>1. t.worker[w].child = 0 /\ t.worker[w].pool \cup t.worker[w].queue \subseteq Commands \cup {w}
    BY <1>5, <1>8
  <2>2. t.phase[w] # "sent" => w \notin t.worker[w].pool \cup t.worker[w].queue
    BY <1>5, <1>8
  <2>3. t.worker[w].raced = FALSE => Calm(t, w)
    BY <1>5, <1>8, <1>11
  <2> QED
    BY <1>8, <2>1, <2>2, <2>3, WorkerIs
<1>13. OthersSound(t, w)
  BY <1>2, <1>1, <1>9, <1>10, InsideRest
<1>14. Sound(t)
  BY <1>12, <1>13, RestSound
<1> QED
  BY <1>2, <1>3, <1>4, <1>14 DEF Spawned, t, r, d

\* A fork has ended.
LEMMA ConnectedSound ==
  ASSUME NEW s, Sound(s), NEW c \in Children, s.child[c].state = "forking"
  PROVE  LET w == s.child[c].owner
             k == s.child[c].by
         IN /\ Sound(Connected(s, c)) /\ w \in Workers /\ k \in Commands \cup {0}
            /\ Changes(Connected(s, c), s,
                 w, [s.worker[w] EXCEPT !.child = c, !.spawnPromise = 0, !.queue = {},
                                        !.pool = s.worker[w].pool \cup s.worker[w].queue],
                 c, [s.child[c] EXCEPT !.state = "alive", !.heard = TRUE, !.inbox = s.worker[w].queue],
                 k, "forked")
<1> DEFINE w == s.child[c].owner
           k == s.child[c].by
           t == Connected(s, c)
           r == [s.worker[w] EXCEPT !.child = c, !.spawnPromise = 0, !.queue = {},
                                    !.pool = s.worker[w].pool \cup s.worker[w].queue]
           d == [s.child[c] EXCEPT !.state = "alive", !.heard = TRUE, !.inbox = s.worker[w].queue]
<1>1. s \in ProxyStates /\ ByOk(s) /\ InboxOk(s) /\ c # 0 /\ w \in Workers /\ k \in Commands \cup {0}
      /\ k \in All \cup {0} /\ k \notin Workers
  BY Fields, Numbers DEF Sound
<1>2. Changes(t, s, w, r, c, d, k, "forked")
  BY <1>1, ConnectedFacts
<1>3. s.worker[w] \in WorkerRecords /\ s.child[c] \in ChildRecords
  BY <1>1, Fields
<1>4. /\ r.child = c /\ r.spawnPromise = 0 /\ r.queue = {}
      /\ r.pool = s.worker[w].pool \cup s.worker[w].queue /\ r.raced = s.worker[w].raced
  BY <1>3 DEF WorkerRecords
<1>5. /\ d.state = "alive" /\ d.owner = w /\ d.by = k /\ d.heard = TRUE /\ d.inbox = s.worker[w].queue
  BY <1>3 DEF ChildRecords
<1> HIDE DEF t, r, d
<1>6. WorkerOk(s, w)
  BY <1>1 DEF Sound
<1> HIDE DEF w, k
<1>7. s.worker[w].pool \cup s.worker[w].queue \subseteq Commands \cup {w}
      /\ (s.phase[w] # "sent" => w \notin s.worker[w].pool \cup s.worker[w].queue)
  BY <1>6 DEF WorkerOk
<1>8. /\ t \in ProxyStates /\ t.worker[w] = r /\ t.child[c] = d /\ t.phase[w] = s.phase[w]
      /\ \A e \in Children \ {c} : t.child[e] = s.child[e]
  BY <1>1, <1>2, Numbers DEF Changes
<1>9. ByOk(t)
  BY <1>1, <1>2, <1>5, ByKept DEF k
<1>10. Inside(s, w, c, d, k)
  BY <1>1, <1>5, <1>7 DEF Inside, w
<1>11. ASSUME s.worker[w].raced = FALSE PROVE Calm(t, w)
  <2>1. Calm(s, w)
    BY <1>6, <1>11 DEF WorkerOk
  <2>2. s.worker[w].child = 0 /\ s.worker[w].spawnPromise = c
    BY <2>1, <1>1 DEF Calm, w
  <2>3. ASSUME NEW e \in Children, t.child[e].owner = w
        PROVE  /\ t.child[e].state = "alive" => c = e
               /\ t.child[e].state # "forking"
               /\ t.child[e].state = "signalled" => t.child[e].heard = FALSE
    <3>1. CASE e = c
      BY <1>5, <1>8, <3>1
    <3>2. CASE e # c
      <4>1. t.child[e] = s.child[e] /\ e # 0
        BY <1>8, <3>2, Numbers
      <4> QED
        BY <2>1, <2>2, <2>3, <3>2, <4>1 DEF Calm
    <3> QED
      BY <3>1, <3>2
  <2>4. t.phase[w] # "sent"
    BY <1>8, <2>1, <2>2 DEF Calm
  <2>5. t.phase[w] = "new" => t.worker[w].pool = t.child[c].inbox
    <3>1. s.phase[w] = "new" => s.worker[w].pool = {}
      BY <2>1, <2>2 DEF Calm
    <3>2. t.worker[w].pool = s.worker[w].pool \cup s.worker[w].queue /\ t.child[c].inbox = s.worker[w].queue
      BY <1>4, <1>5, <1>8
    <3>3. t.phase[w] = s.phase[w]
      BY <1>8
    <3> QED
      BY <3>1, <3>2, <3>3
  <2>6. t.child[c].state = "alive" /\ t.child[c].heard = TRUE /\ t.worker[w].child = c
    BY <1>4, <1>5, <1>8
  <2> QED
    BY <1>1, <2>3, <2>4, <2>5, <2>6 DEF Calm
<1>12. WorkerOk(t, w)
  <2>1. t.worker[w].child = c /\ t.worker[w].pool \cup t.worker[w].queue \subseteq Commands \cup {w}
        /\ t.worker[w].queue = {} /\ t.worker[w].spawnPromise = 0
    BY <1>4, <1>7, <1>8
  <2>2. t.phase[w] # "sent" => w \notin t.worker[w].pool \cup t.worker[w].queue
    BY <1>4, <1>7, <1>8
  <2>3. t.worker[w].raced = FALSE => Calm(t, w)
    BY <1>4, <1>8, <1>11
  <2>4. t.child[c].owner = w /\ t.child[c].state # "none" /\ t.child[c].inbox \subseteq t.worker[w].pool
    BY <1>4, <1>5, <1>8
  <2> QED
    BY <1>1, <1>8, <2>1, <2>2, <2>3, <2>4, WorkerIs
<1>13. OthersSound(t, w)
  BY <1>1, <1>2, <1>9, <1>10, InsideRest, RestSound
<1>14. Sound(t)
  BY <1>1, <1>12, <1>13, RestSound
<1> QED
  BY <1>1, <1>2, <1>14 DEF t, r, d, w, k

\* The exit of a child that nobody listens to.
LEMMA GoneSound ==
  ASSUME NEW s, Sound(s), NEW c \in Children, s.child[c].heard = FALSE, c # LocalChild,
         s.child[c].state \in {"alive", "signalled"}, s.child[c].by # 0 => s.phase[s.child[c].by] # "forked"
  PROVE  LET w == s.child[c].owner
         IN /\ Sound(Gone(s, c)) /\ w \in Workers
            /\ Changes(Gone(s, c), s, w, s.worker[w],
                       c, [s.child[c] EXCEPT !.state = "exited", !.inbox = {}], 0, "new")
<1> DEFINE w == s.child[c].owner
           b == s.worker[w].child
           t == Gone(s, c)
           d == [s.child[c] EXCEPT !.state = "exited", !.inbox = {}]
<1>1. s \in ProxyStates /\ ByOk(s) /\ InboxOk(s) /\ c # 0 /\ w \in Workers /\ b \in Children \cup {0}
  BY Fields, Numbers DEF Sound
<1>2. Changes(t, s, w, s.worker[w], c, d, 0, "new")
  BY <1>1, GoneFacts
<1>3. s.child[c] \in ChildRecords
  BY <1>1, Fields
<1>4. /\ d.state = "exited" /\ d.owner = w /\ d.by = s.child[c].by /\ d.heard = FALSE /\ d.inbox = {}
  BY <1>3 DEF ChildRecords
<1> HIDE DEF t, d
<1>5. WorkerOk(s, w)
  BY <1>1 DEF Sound
<1> HIDE DEF w, b
<1>6. /\ t \in ProxyStates /\ t.worker[w] = s.worker[w] /\ t.child[c] = d
      /\ \A e \in Children \ {c} : t.child[e] = s.child[e]
      /\ \A j \in All : t.phase[j] = s.phase[j]
  BY <1>1, <1>2, Numbers DEF Changes
<1>7. t.phase[w] = s.phase[w]
  BY <1>1, <1>6, Numbers
<1>8. ByOk(t)
  <2>1. d.by # 0 => t.phase[d.by] # "forked"
    BY <1>1, <1>3, <1>4, <1>6, Numbers DEF ChildRecords
  <2>2. 0 \in All \cup {0}
    OBVIOUS
  <2> QED
    BY <1>1, <1>2, <1>4, <2>1, <2>2, ByKept
<1>9. Inside(s, w, c, d, 0)
  BY <1>4 DEF Inside, w
<1>10. b = s.worker[w].child /\ t.worker[w].child = b /\ s.child[c].owner = w
  BY <1>6 DEF b, w
<1>11. b # 0 => /\ t.child[b].owner = w /\ t.child[b].state # "none" /\ t.worker[w].queue = {}
                /\ t.child[b].inbox \subseteq t.worker[w].pool
  BY <1>1, <1>4, <1>5, <1>6, <1>10 DEF WorkerOk
<1>12. ASSUME s.worker[w].raced = FALSE PROVE Calm(t, w)
  <2>1. Calm(s, w)
    BY <1>5, <1>12 DEF WorkerOk
  <2>2. ASSUME NEW e \in Children, t.child[e].owner = w
        PROVE  /\ t.child[e].state = "alive" => b = e
               /\ t.child[e].state = "forking" => b = 0 /\ t.worker[w].spawnPromise = e
               /\ t.child[e].state = "signalled" => t.child[e].heard = FALSE
    BY <1>4, <1>6, <1>10, <2>1, <2>2 DEF Calm
  <2>3. t.phase[w] = "sent" => b # 0 /\ t.child[b].heard = FALSE
    BY <1>1, <1>4, <1>6, <1>7, <1>10, <2>1 DEF Calm
  <2>4. ASSUME t.phase[w] = "new", b # 0
        PROVE  /\ t.child[b].state = "alive" /\ (t.child[b].heard = TRUE \/ b = LocalChild)
               /\ t.worker[w].pool = t.child[b].inbox
    <3>1. s.child[b].state = "alive" /\ (s.child[b].heard = TRUE \/ b = LocalChild)
          /\ s.worker[w].pool = s.child[b].inbox
      BY <1>7, <1>10, <2>1, <2>4 DEF Calm
    <3>2. b # c
      BY <3>1
    <3> QED
      BY <1>1, <1>6, <2>4, <3>1, <3>2
  <2>5. ASSUME t.phase[w] = "new", b = 0
        PROVE  /\ t.worker[w].pool = {}
               /\ t.worker[w].queue # {} =>
                    \E e \in Children : t.child[e].owner = w /\ t.child[e].state \in {"forking", "failed"}
    <3>1. /\ s.worker[w].pool = {}
          /\ s.worker[w].queue # {} =>
               \E e \in Children : s.child[e].owner = w /\ s.child[e].state \in {"forking", "failed"}
      BY <1>7, <1>10, <2>1, <2>5 DEF Calm
    <3>2. ASSUME NEW e \in Children, s.child[e].state \in {"forking", "failed"}
          PROVE  t.child[e] = s.child[e]
      BY <1>6, <3>2
    <3> QED
      BY <1>6, <3>1, <3>2
  <2> QED
    BY <1>10, <2>2, <2>3, <2>4, <2>5 DEF Calm
<1>13. WorkerOk(t, w)
  <2>1. /\ t.worker[w].spawnPromise # 0 => b = 0
        /\ t.worker[w].pool \cup t.worker[w].queue \subseteq Commands \cup {w}
        /\ t.phase[w] # "sent" => w \notin t.worker[w].pool \cup t.worker[w].queue
    BY <1>5, <1>6, <1>7, <1>10 DEF WorkerOk
  <2>2. t.worker[w].raced = FALSE => Calm(t, w)
    BY <1>6, <1>12
  <2> QED
    BY <1>1, <1>6, <1>10, <1>11, <2>1, <2>2, WorkerIs
<1>14. Sound(t)
  <2>1. OthersSound(t, w)
    BY <1>1, <1>2, <1>8, <1>9, InsideRest, RestSound
  <2> QED
    BY <1>1, <1>13, <2>1, RestSound
<1> QED
  BY <1>1, <1>2, <1>14 DEF t, d, w

\* The exit of one whose worker listens: the pending commands wait for another.
Respawn(s, w, c, e) == Spawn(Disconnected(Gone(s, c), w), w, e, 0)
Respawned(t, s, w, c, e) ==
  /\ \A k \in All : t.phase[k] = s.phase[k]
  /\ t.child[c].state = "exited" /\ t.child[c].owner = w
  /\ t.child[e].state = "forking" /\ t.child[e].owner = w
  /\ \A f \in Children \ {c, e} : t.child[f] = s.child[f]
  /\ \A v \in Workers \ {w} : t.worker[v] = s.worker[v]
  /\ t.worker[w].raced = FALSE =>
       s.worker[w].raced = FALSE /\ s.child[c].state = "alive" /\ s.phase[w] # "sent"
LEMMA RespawnSound ==
  ASSUME NEW s, Sound(s), NEW c \in Children, NEW e \in Children, NEW w \in Workers, w = s.child[c].owner,
         s.child[c].heard = TRUE, s.child[c].state \in {"alive", "signalled"}, s.child[e].state = "none",
         s.child[c].by # 0 => s.phase[s.child[c].by] # "forked"
  PROVE  Sound(Respawn(s, w, c, e)) /\ Respawned(Respawn(s, w, c, e), s, w, c, e)
<1> DEFINE g == Gone(s, c)
           u == Disconnected(g, w)
           t == Respawn(s, w, c, e)
           dc == [s.child[c] EXCEPT !.state = "exited", !.inbox = {}]
           ru == [g.worker[w] EXCEPT !.child = 0, !.queue = g.worker[w].queue \cup g.worker[w].pool, !.pool = {}]
<1>1. s \in ProxyStates /\ ByOk(s) /\ InboxOk(s) /\ c # e /\ WorkerOk(s, w) /\ s.child[c].by \in Commands \cup {0}
      /\ OthersSound(s, w)
  BY Fields, RestSound DEF Sound
<1>2. Changes(g, s, w, s.worker[w], c, dc, 0, "new")
  BY <1>1, GoneFacts
<1>3. dc.state = "exited" /\ dc.owner = w /\ dc.by = s.child[c].by /\ dc.inbox = {}
  <2>1. s.child[c] \in ChildRecords
    BY <1>1, Fields
  <2> QED
    BY <2>1 DEF ChildRecords
<1> HIDE DEF g, dc
<1>4. /\ g \in ProxyStates /\ g.worker[w] = s.worker[w] /\ g.child[c] = dc
      /\ \A f \in Children \ {c} : g.child[f] = s.child[f]
      /\ \A v \in Workers \ {w} : g.worker[v] = s.worker[v]
      /\ \A k \in All : g.phase[k] = s.phase[k]
  BY <1>2, Numbers DEF Changes
<1>5. OthersSound(g, w)
  <2>1. dc.by # 0 => g.phase[dc.by] # "forked"
    BY <1>1, <1>3, <1>4, Numbers
  <2>2. 0 \in All \cup {0}
    OBVIOUS
  <2>3. ByOk(g)
    BY <1>1, <1>2, <1>3, <2>1, <2>2, ByKept
  <2>4. Inside(s, w, c, dc, 0)
    BY <1>3 DEF Inside
  <2> QED
    BY <1>1, <1>2, <2>3, <2>4, InsideRest
<1>6. Changes(u, g, w, ru, c, g.child[c], 0, "new")
  BY <1>4, DisconnectedFacts
<1>7. ru.child = 0 /\ ru.queue = s.worker[w].queue \cup s.worker[w].pool /\ ru.pool = {} /\ ru.raced = s.worker[w].raced
  <2>1. g.worker[w] \in WorkerRecords
    BY <1>4, Fields
  <2> QED
    BY <1>4, <2>1 DEF WorkerRecords
<1> HIDE DEF u, ru
<1>8. /\ u \in ProxyStates /\ u.worker[w] = ru /\ u.child[c] = dc
      /\ \A f \in Children \ {c} : u.child[f] = s.child[f]
      /\ \A v \in Workers \ {w} : u.worker[v] = s.worker[v]
      /\ \A k \in All : u.phase[k] = s.phase[k]
  <2>1. /\ u \in ProxyStates /\ u.worker[w] = ru /\ u.child[c] = g.child[c]
        /\ \A f \in Children \ {c} : u.child[f] = g.child[f]
        /\ \A v \in Workers \ {w} : u.worker[v] = g.worker[v]
        /\ \A k \in All : u.phase[k] = g.phase[k]
    BY <1>6, Numbers DEF Changes
  <2> QED
    BY <1>4, <2>1
<1>9. OthersSound(u, w)
  <2>1. g.child[c].by # 0 => u.phase[g.child[c].by] # "forked"
    BY <1>1, <1>3, <1>4, <1>8, Numbers
  <2>2. 0 \in All \cup {0}
    OBVIOUS
  <2>3. ByOk(u)
    BY <1>4, <1>5, <1>6, <2>1, <2>2, ByKept DEF OthersSound
  <2>4. Inside(g, w, c, g.child[c], 0)
    BY <1>3, <1>4 DEF Inside
  <2> QED
    BY <1>5, <1>6, <2>3, <2>4, InsideRest
<1>10. ASSUME s.worker[w].raced = FALSE
       PROVE  /\ s.child[c].state = "alive" /\ s.phase[w] # "sent"
              /\ \A f \in Children : u.child[f].owner = w =>
                   u.child[f].state # "alive" /\ (u.child[f].state = "signalled" => u.child[f].heard = FALSE)
  <2>1. Calm(s, w)
    BY <1>1, <1>10 DEF WorkerOk
  <2>2. s.child[c].state = "alive" /\ s.worker[w].child = c
    BY <2>1 DEF Calm
  <2>3. s.phase[w] # "sent"
    BY <2>1, <2>2 DEF Calm
  <2>4. ASSUME NEW f \in Children, u.child[f].owner = w
        PROVE  u.child[f].state # "alive" /\ (u.child[f].state = "signalled" => u.child[f].heard = FALSE)
    BY <1>3, <1>8, <2>1, <2>2, <2>4 DEF Calm
  <2> QED
    BY <2>2, <2>3, <2>4
<1>11. /\ u.worker[w].pool \cup u.worker[w].queue \subseteq Commands \cup {w}
       /\ u.phase[w] # "sent" => w \notin u.worker[w].pool \cup u.worker[w].queue
       /\ u.phase[w] = s.phase[w] /\ u.worker[w].raced = s.worker[w].raced /\ u.worker[w].child = 0
       /\ u.worker[w].pool = {}
  <2>1. u.phase[w] = s.phase[w]
    BY <1>8, Numbers
  <2>2. /\ s.worker[w].pool \cup s.worker[w].queue \subseteq Commands \cup {w}
        /\ s.phase[w] # "sent" => w \notin s.worker[w].pool \cup s.worker[w].queue
    BY <1>1 DEF WorkerOk
  <2> QED
    BY <1>7, <1>8, <2>1, <2>2
<1>12. u.child[e].state = "none" /\ 0 \in Commands \cup {0}
  BY <1>1, <1>8
<1>13. t = Spawn(u, w, e, 0)
  BY DEF Respawn, u, g
<1> HIDE DEF t
<1>14. Sound(t) /\ Spawned(t, u, w, e, 0)
  <2>1. u.worker[w].raced = FALSE =>
          /\ u.phase[w] # "sent" /\ (u.phase[w] = "new" => u.worker[w].pool = {})
          /\ \A f \in Children : u.child[f].owner = w =>
               u.child[f].state # "alive" /\ (u.child[f].state = "signalled" => u.child[f].heard = FALSE)
    BY <1>10, <1>11
  <2>2. 0 # 0 => u.phase[0] = "new"
    OBVIOUS
  <2>3. Sound(Spawn(u, w, e, 0)) /\ Spawned(Spawn(u, w, e, 0), u, w, e, 0)
    BY <1>9, <1>11, <1>12, <2>1, <2>2, SpawnSound
  <2> QED
    BY <1>13, <2>3
<1>15. PICK q \in BOOLEAN : /\ (q = FALSE => u.worker[w].raced = FALSE)
                            /\ Changes(t, u, w, [u.worker[w] EXCEPT !.spawnPromise = e, !.raced = q],
                                  e, [u.child[e] EXCEPT !.state = "forking", !.owner = w, !.by = 0], 0, "spawning")
  BY <1>14 DEF Spawned
<1>16. /\ t.worker[w].raced = q /\ t.child[e].state = "forking" /\ t.child[e].owner = w
       /\ \A f \in Children \ {e} : t.child[f] = u.child[f]
       /\ \A v \in Workers \ {w} : t.worker[v] = u.worker[v]
       /\ \A k \in All : t.phase[k] = u.phase[k]
  <2>1. u.worker[w] \in WorkerRecords /\ u.child[e] \in ChildRecords
    BY <1>8, Fields
  <2>2. [u.worker[w] EXCEPT !.spawnPromise = e, !.raced = q].raced = q
    BY <2>1 DEF WorkerRecords
  <2>3. LET x == [u.child[e] EXCEPT !.state = "forking", !.owner = w, !.by = 0]
        IN x.state = "forking" /\ x.owner = w
    BY <2>1 DEF ChildRecords
  <2> QED
    BY <1>15, <2>2, <2>3, Numbers DEF Changes
<1>17. t.worker[w].raced = FALSE =>
         s.worker[w].raced = FALSE /\ s.child[c].state = "alive" /\ s.phase[w] # "sent"
  BY <1>10, <1>11, <1>15, <1>16
<1>18. \A k \in All : t.phase[k] = s.phase[k]
  BY <1>8, <1>16
<1>19. t.child[c].state = "exited" /\ t.child[c].owner = w
  BY <1>1, <1>3, <1>8, <1>16
<1>20. \A f \in Children \ {c, e} : t.child[f] = s.child[f]
  BY <1>8, <1>16
<1>21. \A v \in Workers \ {w} : t.worker[v] = s.worker[v]
  BY <1>8, <1>16
<1> QED
  BY <1>14, <1>16, <1>17, <1>18, <1>19, <1>20, <1>21 DEF t, Respawned

\* kill() of the workers ws.
Killed(t, s, ws) ==
  /\ t \in ProxyStates
  /\ \A w \in ws : s.phase[w] # "sent" /\ (Commanded(t, s, w) \/ Waiting(t, s, w))
  /\ \A v \in Workers \ ws : Untouched(t, s, v)
  /\ \A k \in Commands : t.phase[k] = s.phase[k]

\* The children of a killed worker, and of all.
Child(t, s, c) ==
  /\ t.child[c].state = s.child[c].state /\ t.child[c].owner = s.child[c].owner
  /\ t.child[c].by = s.child[c].by
  /\ t.child[c].inbox \subseteq s.child[c].inbox \cup {s.child[c].owner}
  /\ t.child[c] # s.child[c] => t.child[c].state # "none" /\ s.worker[s.child[c].owner].child = c

LEMMA KilledChildren ==
  ASSUME NEW s, Sound(s), NEW ws \in SUBSET Workers, NEW t, Killed(t, s, ws), NEW c \in Children
  PROVE  Child(t, s, c) /\ (s.child[c].owner \notin ws => t.child[c] = s.child[c])
<1> DEFINE w == s.child[c].owner
           b == s.worker[w].child
<1>1. s \in ProxyStates /\ w \in Workers /\ s.child[c] \in ChildRecords /\ WorkerOk(s, w) /\ c # 0
  BY Fields, Numbers DEF Sound
<1>2. b # 0 => s.child[b].state # "none"
  BY <1>1 DEF WorkerOk
<1> HIDE DEF w, b
<1>3. t.child[c] = s.child[c] => Child(t, s, c)
  BY DEF Child
<1>4. CASE w \notin ws
  BY <1>1, <1>3, <1>4 DEF Killed, Untouched, w
<1>5. CASE w \in ws /\ b # c
  <2>1. t.child[c] = s.child[c]
    BY <1>1, <1>5 DEF Killed, Commanded, Waiting, w, b
  <2> QED
    BY <1>3, <1>5, <2>1 DEF w
<1>6. CASE w \in ws /\ b = c
  <2>1. t.child[c] = s.child[c] \/ t.child[c] = [s.child[c] EXCEPT !.heard = FALSE, !.inbox = @ \cup {w}]
    BY <1>1, <1>6 DEF Killed, Commanded, Waiting, w, b
  <2>2. LET d == [s.child[c] EXCEPT !.heard = FALSE, !.inbox = @ \cup {w}]
        IN d.state = s.child[c].state /\ d.owner = w /\ d.by = s.child[c].by /\ d.inbox = s.child[c].inbox \cup {w}
    BY <1>1 DEF ChildRecords, w
  <2> QED
    BY <1>1, <1>2, <1>3, <1>6, <2>1, <2>2 DEF Child, w, b
<1> QED
  BY <1>4, <1>5, <1>6 DEF w

LEMMA KilledWorker ==
  ASSUME NEW s, Sound(s), NEW ws \in SUBSET Workers, NEW t, Killed(t, s, ws), NEW w \in ws
  PROVE  WorkerOk(t, w)
<1> DEFINE b == s.worker[w].child
<1>1. s \in ProxyStates /\ t \in ProxyStates /\ w \in Workers /\ b \in Children \cup {0} /\ WorkerOk(s, w)
      /\ s.phase[w] # "sent" /\ s.worker[w] \in WorkerRecords
  BY Fields DEF Sound, Killed
<1>2. ASSUME NEW c \in Children
      PROVE  /\ t.child[c].state = s.child[c].state /\ t.child[c].owner = s.child[c].owner
             /\ s.child[c].owner = w /\ b # c => t.child[c] = s.child[c]
  <2>1. Child(t, s, c)
    BY KilledChildren
  <2> QED
    BY <2>1 DEF Child, b
<1>3. CASE Waiting(t, s, w)
  <2>1. /\ t.worker[w].child = b /\ t.worker[w].spawnPromise = s.worker[w].spawnPromise
        /\ t.worker[w].queue = s.worker[w].queue /\ t.worker[w].pool = s.worker[w].pool
        /\ t.worker[w].raced = s.worker[w].raced
    BY <1>1, <1>3 DEF Waiting, WorkerRecords
  <2>2. b = 0 /\ t.phase[w] = "wait"
    BY <1>1, <1>3 DEF Waiting, WorkerOk
  <2>3. s.worker[w].raced = FALSE => Calm(s, w)
    BY <1>1 DEF WorkerOk
  <2>4. \A c \in Children : s.child[c].owner = w => t.child[c] = s.child[c]
    BY <1>3 DEF Waiting
  <2>5. s.worker[w].raced = FALSE => Calm(t, w)
    <3> HIDE DEF b
    <3> QED
      BY <1>2, <2>1, <2>2, <2>3, <2>4 DEF Calm, b
  <2>6. /\ t.worker[w].pool \cup t.worker[w].queue \subseteq Commands \cup {w}
        /\ w \notin t.worker[w].pool \cup t.worker[w].queue
    BY <1>1, <2>1 DEF WorkerOk
  <2> HIDE DEF b
  <2> QED
    BY <1>1, <2>1, <2>2, <2>5, <2>6, WorkerIs
<1>4. CASE Commanded(t, s, w) /\ b = 0
  <2>1. t.worker[w] = s.worker[w] /\ t.phase[w] = "done"
        /\ \A c \in Children : s.child[c].owner = w => t.child[c] = s.child[c]
    BY <1>4 DEF Commanded
  <2>2. s.worker[w].raced = FALSE => Calm(s, w)
    BY <1>1 DEF WorkerOk
  <2>3. s.worker[w].raced = FALSE => Calm(t, w)
    BY <1>2, <1>4, <2>1, <2>2 DEF Calm
  <2>4. /\ t.worker[w].pool \cup t.worker[w].queue \subseteq Commands \cup {w}
        /\ w \notin t.worker[w].pool \cup t.worker[w].queue
    BY <1>1, <2>1 DEF WorkerOk
  <2> QED
    BY <1>1, <1>4, <2>1, <2>3, <2>4, WorkerIs
<1>5. CASE Commanded(t, s, w) /\ b # 0
  <2>1. /\ t.worker[w] = [s.worker[w] EXCEPT !.pool = @ \cup {w}] /\ t.phase[w] = "sent"
        /\ t.child[b] = [s.child[b] EXCEPT !.heard = FALSE, !.inbox = @ \cup {w}]
    BY <1>5 DEF Commanded
  <2>2. /\ t.worker[w].child = b /\ t.worker[w].spawnPromise = s.worker[w].spawnPromise
        /\ t.worker[w].queue = s.worker[w].queue /\ t.worker[w].pool = s.worker[w].pool \cup {w}
        /\ t.worker[w].raced = s.worker[w].raced
    BY <1>1, <2>1 DEF WorkerRecords
  <2>3. s.child[b] \in ChildRecords
    BY <1>1, <1>5, Fields
  <2>4. /\ t.child[b].heard = FALSE /\ t.child[b].inbox = s.child[b].inbox \cup {w}
        /\ t.child[b].owner = s.child[b].owner /\ t.child[b].state = s.child[b].state
    BY <2>1, <2>3 DEF ChildRecords
  <2>5. /\ s.child[b].owner = w /\ s.child[b].state # "none" /\ s.worker[w].queue = {}
        /\ s.child[b].inbox \subseteq s.worker[w].pool
        /\ s.worker[w].pool \cup s.worker[w].queue \subseteq Commands \cup {w}
        /\ s.worker[w].spawnPromise = 0
    BY <1>1, <1>5 DEF WorkerOk
  <2>6. s.worker[w].raced = FALSE => Calm(s, w)
    BY <1>1 DEF WorkerOk
  <2>7. ASSUME s.worker[w].raced = FALSE PROVE Calm(t, w)
    <3>1. ASSUME NEW c \in Children, t.child[c].owner = w
          PROVE  /\ t.child[c].state = "alive" => b = c
                 /\ t.child[c].state # "forking"
                 /\ t.child[c].state = "signalled" => t.child[c].heard = FALSE
      <4>1. CASE c = b
        <5>1. t.child[c].state # "forking"
          BY <1>2, <1>5, <2>5, <2>6, <2>7, <3>1, <4>1 DEF Calm
        <5> QED
          BY <2>4, <4>1, <5>1
      <4>2. CASE c # b
        <5>1. t.child[c] = s.child[c] /\ s.child[c].owner = w
          BY <1>2, <3>1, <4>2
        <5> QED
          BY <1>5, <2>6, <2>7, <5>1 DEF Calm
      <4> QED
        BY <4>1, <4>2
    <3> HIDE DEF b
    <3> QED
      BY <1>5, <2>1, <2>2, <2>4, <3>1 DEF Calm
  <2> HIDE DEF b
  <2>8. t.worker[w].pool \cup t.worker[w].queue \subseteq Commands \cup {w}
    BY <2>2, <2>5
  <2>9. t.child[b].owner = w /\ t.child[b].state # "none" /\ t.worker[w].queue = {}
        /\ t.child[b].inbox \subseteq t.worker[w].pool
    BY <2>2, <2>4, <2>5
  <2> QED
    BY <1>1, <2>1, <2>2, <2>5, <2>7, <2>8, <2>9, WorkerIs
<1> QED
  BY <1>3, <1>4, <1>5 DEF Killed

LEMMA KilledSound ==
  ASSUME NEW s, Sound(s), NEW ws \in SUBSET Workers, NEW t, Killed(t, s, ws)
  PROVE  Sound(t)
<1>1. s \in ProxyStates /\ t \in ProxyStates
  BY DEF Sound, Killed
<1>2. \A c \in Children : Child(t, s, c) /\ (s.child[c].owner \notin ws => t.child[c] = s.child[c])
  BY KilledChildren
<1>3. ASSUME NEW v \in Workers PROVE WorkerOk(t, v)
  <2>1. CASE v \in ws
    BY <2>1, KilledWorker
  <2>2. CASE v \notin ws
    <3>1. Untouched(t, s, v)
      BY <2>2 DEF Killed
    <3>2. \A c \in Children : t.child[c].owner = v => t.child[c] = s.child[c]
      BY <1>2, <2>2 DEF Child
    <3>3. StaysAs(t, s, v) /\ WorkerOk(s, v)
      BY <3>1, <3>2 DEF Untouched, StaysAs, Sound
    <3> QED
      BY <1>1, <3>3, KeptOk
  <2> QED
    BY <2>1, <2>2
<1>4. ByOk(t)
  <2>1. \A c \in Children : t.child[c].by = s.child[c].by /\ t.child[c].state = s.child[c].state
                            /\ s.child[c].by \in Commands \cup {0}
    BY <1>1, <1>2, Fields DEF Child
  <2>2. \A k \in Commands : t.phase[k] = s.phase[k]
    BY DEF Killed
  <2> QED
    BY <2>1, <2>2 DEF Sound, ByOk
<1>5. InboxOk(t)
  <2> SUFFICES ASSUME NEW c \in Children
               PROVE  /\ t.child[c].inbox \subseteq Commands \cup {t.child[c].owner}
                      /\ t.child[c].state = "none" => t.child[c].inbox = {}
    BY DEF InboxOk
  <2>1. /\ s.child[c].inbox \subseteq Commands \cup {s.child[c].owner}
        /\ s.child[c].state = "none" => s.child[c].inbox = {}
    BY DEF Sound, InboxOk
  <2> QED
    BY <1>2, <2>1 DEF Child
<1> QED
  BY <1>1, <1>3, <1>4, <1>5 DEF Sound

\* What KillWorkers yields.
LEMMA KillsFacts ==
  ASSUME Sound(px), NEW ws \in SUBSET Workers, \A w \in ws : px.phase[w] # "sent"
  PROVE  /\ Killed(KillWorkers(ws), px, ws)
         /\ \A w \in ws : px.worker[w].spawnPromise # 0 => Waiting(KillWorkers(ws), px, w)
<1> DEFINE t == KillWorkers(ws)
           K(w) == Kill(px, w)
           W == [w \in Workers |-> IF w \in ws THEN K(w).worker[w] ELSE px.worker[w]]
           C == [c \in Children |-> LET w == px.child[c].owner
                                    IN IF w \in ws THEN K(w).child[c] ELSE px.child[c]]
           P == [k \in All |-> IF k \in ws THEN K(k).phase[k] ELSE px.phase[k]]
<1>1. px \in ProxyStates /\ px.worker \in WorkerStates /\ px.child \in ChildStates /\ px.phase \in Phases
  BY DEF Sound, ProxyStates
<1>2. ASSUME NEW w \in Workers
      PROVE  /\ K(w) \in ProxyStates /\ (Commanded(K(w), px, w) \/ Waiting(K(w), px, w))
             /\ px.worker[w].spawnPromise # 0 => Waiting(K(w), px, w)
  <2>1. px.worker[w].child # 0 => px.child[px.worker[w].child].owner = w
    BY DEF Sound, WorkerOk
  <2> QED
    BY <1>1, <2>1, KillFacts
<1> HIDE DEF K
<1>3. t = [worker |-> W, child |-> C, phase |-> P]
  BY DEF KillWorkers, K
<1>4. ASSUME NEW w \in Workers
      PROVE  K(w).worker \in WorkerStates /\ K(w).child \in ChildStates /\ K(w).phase \in Phases
  BY <1>2 DEF ProxyStates
<1>5. W \in WorkerStates
  BY <1>1, <1>4 DEF WorkerStates
<1>6. \A c \in Children : px.child[c].owner \in Workers
  BY <1>1, Fields
<1>7. C \in ChildStates
  <2>1. ASSUME NEW c \in Children PROVE C[c] \in ChildRecords
    <3>1. px.child[c].owner \in Workers /\ px.child[c] \in ChildRecords
      BY <1>1, <1>6 DEF ChildStates
    <3>2. K(px.child[c].owner).child[c] \in ChildRecords
      BY <1>4, <3>1 DEF ChildStates
    <3> QED
      BY <3>1, <3>2
  <2> QED
    BY <2>1 DEF ChildStates
<1>8. P \in Phases
  <2>1. ASSUME NEW k \in All PROVE P[k] \in PhaseNames
    <3>1. CASE k \in ws
      BY <3>1, <1>4, Numbers DEF Phases
    <3>2. CASE k \notin ws
      BY <3>2, <1>1 DEF Phases
    <3> QED
      BY <3>1, <3>2
  <2> QED
    BY <2>1 DEF Phases
<1>9. t \in ProxyStates /\ t.worker = W /\ t.child = C /\ t.phase = P
  <2> HIDE DEF W, C, P
  <2> QED
    BY <1>3, <1>5, <1>7, <1>8 DEF ProxyStates
<1> HIDE DEF t
<1>10. ASSUME NEW v \in Workers \ ws PROVE Untouched(t, px, v)
  <2>1. t.worker[v] = px.worker[v] /\ t.phase[v] = px.phase[v]
    BY <1>9, Numbers
  <2>2. \A c \in Children : px.child[c].owner = v => t.child[c] = px.child[c]
    BY <1>9
  <2> QED
    BY <2>1, <2>2 DEF Untouched
<1>11. \A k \in Commands : t.phase[k] = px.phase[k]
  BY <1>9, Numbers
<1>12. ASSUME NEW w \in ws
       PROVE  /\ Commanded(t, px, w) \/ Waiting(t, px, w)
              /\ px.worker[w].spawnPromise # 0 => Waiting(t, px, w)
  <2>1. t.worker[w] = K(w).worker[w] /\ t.phase[w] = K(w).phase[w] /\ w \in Workers
    BY <1>9, Numbers
  <2>2. \A c \in Children : px.child[c].owner = w => t.child[c] = K(w).child[c]
    BY <1>9
  <2>3. Waiting(K(w), px, w) => Waiting(t, px, w)
    BY <2>1, <2>2 DEF Waiting
  <2>4. ASSUME Commanded(K(w), px, w) PROVE Commanded(t, px, w)
    <3> DEFINE b == px.worker[w].child
    <3>1. b # 0 => b \in Children /\ px.child[b].owner = w
      BY <1>1, <2>1, Fields DEF Sound, WorkerOk
    <3>2. b # 0 => t.child[b] = K(w).child[b]
      BY <2>2, <3>1
    <3>3. \A c \in Children \ {b} : px.child[c].owner = w => t.child[c] = K(w).child[c]
      BY <2>2
    <3> QED
      BY <2>1, <2>2, <2>4, <3>2, <3>3 DEF Commanded
  <2> QED
    BY <1>2, <2>1, <2>3, <2>4
<1> QED
  BY <1>9, <1>10, <1>11, <1>12 DEF Killed, t

\* The kill command of one that has waited.
LEMMA KillCommandKilled ==
  ASSUME NEW s, Sound(s), NEW w \in Workers, s.phase[w] # "sent"
  PROVE  Killed(KillCommand(s, w), s, {w}) /\ Commanded(KillCommand(s, w), s, w)
<1>1. s \in ProxyStates /\ (s.worker[w].child # 0 => s.child[s.worker[w].child].owner = w)
  BY DEF Sound, WorkerOk
<1>2. LET t == KillCommand(s, w) IN
         /\ t \in ProxyStates /\ Commanded(t, s, w)
         /\ \A v \in Workers \ {w} : Untouched(t, s, v)
         /\ \A k \in Commands : t.phase[k] = s.phase[k]
  BY <1>1, KillCommandFacts
<1> QED
  BY <1>2 DEF Killed

\* A command is answered without a child.
LEMMA SettleSound ==
  ASSUME NEW s, Sound(s), NEW k \in Commands, NEW how \in {"done", "failed"}
  PROVE  /\ Sound(Settle(s, k, how)) /\ AfterSettle(Settle(s, k, how), s, k, how)
         /\ \A w \in Workers : Settle(s, k, how).phase[w] = s.phase[w]
<1> DEFINE t == Settle(s, k, how)
<1>1. s \in ProxyStates /\ k \in All /\ how \in PhaseNames
  BY Numbers DEF Sound, PhaseNames
<1>2. AfterSettle(t, s, k, how)
  BY <1>1, SettleFacts
<1> HIDE DEF t
<1>3. t \in ProxyStates /\ t.worker = s.worker /\ t.child = s.child /\ \A w \in Workers : t.phase[w] = s.phase[w]
  BY <1>2, Numbers DEF AfterSettle
<1>4. ASSUME NEW w \in Workers PROVE WorkerOk(t, w)
  BY <1>1, <1>3, KeptOk DEF StaysAs, Sound
<1>5. ByOk(t)
  <2> SUFFICES ASSUME NEW c \in Children, s.child[c].by # 0
               PROVE  /\ t.phase[s.child[c].by] # "new"
                      /\ t.phase[s.child[c].by] = "forked" => s.child[c].state = "alive"
                      /\ \A d \in Children \ {c} : s.child[d].by # s.child[c].by
    BY <1>3 DEF ByOk
  <2>1. s.child[c].by \in All
    BY <1>1, Fields, Numbers
  <2>2. t.phase[s.child[c].by] = s.phase[s.child[c].by] \/ t.phase[s.child[c].by] \in {"done", "failed"}
    BY <1>2, <2>1 DEF AfterSettle
  <2> QED
    BY <2>2 DEF Sound, ByOk
<1>6. InboxOk(t)
  BY <1>3 DEF Sound, InboxOk
<1> QED
  BY <1>2, <1>3, <1>4, <1>5, <1>6 DEF Sound, t

\* A fork has failed.
LEMMA FailedSound ==
  ASSUME NEW s, Sound(s), NEW c \in Children, s.child[c].state = "forking", NEW k, k = s.child[c].by, NEW t,
         t = IF k = 0 THEN ForkFails(s, c) ELSE Settle(ForkFails(s, c), k, "failed")
  PROVE  LET w == s.child[c].owner
         IN /\ Sound(t) /\ w \in Workers /\ k \in Commands \cup {0}
            /\ Changes(t, s, w, s.worker[w], c, [s.child[c] EXCEPT !.state = "failed"], k, "failed")
<1> DEFINE w == s.child[c].owner
           d == [s.child[c] EXCEPT !.state = "failed"]
           b == s.worker[w].child
<1>1. s \in ProxyStates /\ ByOk(s) /\ InboxOk(s) /\ w \in Workers /\ k \in Commands \cup {0}
      /\ k \in All \cup {0} /\ k \notin Workers /\ b \in Children \cup {0}
  BY Fields, Numbers DEF Sound
<1>2. Changes(t, s, w, s.worker[w], c, d, k, "failed")
  BY <1>1, FailedFacts
<1>3. s.child[c] \in ChildRecords
  BY <1>1, Fields
<1>4. d.state = "failed" /\ d.owner = w /\ d.by = k /\ d.inbox = s.child[c].inbox /\ d.heard = s.child[c].heard
  BY <1>3 DEF ChildRecords
<1> HIDE DEF d
<1>5. WorkerOk(s, w) /\ s.child[c].inbox \subseteq Commands \cup {w}
  BY <1>1 DEF Sound, InboxOk
<1>6. /\ t \in ProxyStates /\ t.worker[w] = s.worker[w] /\ t.child[c] = d /\ t.phase[w] = s.phase[w]
      /\ \A e \in Children \ {c} : t.child[e] = s.child[e]
  BY <1>1, <1>2, Numbers DEF Changes
<1>7. ByOk(t)
  <2>1. d.by # 0 => t.phase[d.by] = "failed"
    BY <1>2, <1>4 DEF Changes
  <2> QED
    BY <1>1, <1>2, <1>4, <2>1, ByKept
<1>8. Inside(s, w, c, d, k)
  BY <1>1, <1>4, <1>5 DEF Inside
<1> HIDE DEF w, b
<1>9. b = s.worker[w].child /\ t.worker[w].child = b /\ s.child[c].owner = w
  BY <1>6 DEF b, w
<1>10. b # 0 => /\ t.child[b].owner = w /\ t.child[b].state # "none" /\ t.worker[w].queue = {}
                /\ t.child[b].inbox \subseteq t.worker[w].pool
  <2> SUFFICES ASSUME b # 0
               PROVE  /\ t.child[b].owner = w /\ t.child[b].state # "none" /\ t.worker[w].queue = {}
                      /\ t.child[b].inbox \subseteq t.worker[w].pool
    OBVIOUS
  <2>1. /\ s.child[b].owner = w /\ s.child[b].state # "none" /\ s.worker[w].queue = {}
        /\ s.child[b].inbox \subseteq s.worker[w].pool
    BY <1>5, <1>9 DEF WorkerOk
  <2>2. CASE b = c
    BY <1>4, <1>6, <2>1, <2>2
  <2>3. CASE b # c
    BY <1>1, <1>6, <2>1, <2>3
  <2> QED
    BY <2>2, <2>3
<1>11. ASSUME s.worker[w].raced = FALSE PROVE Calm(t, w)
  <2>1. Calm(s, w)
    BY <1>5, <1>11 DEF WorkerOk
  <2>2. b = 0
    BY <1>9, <2>1 DEF Calm
  <2>3. ASSUME NEW e \in Children, t.child[e].owner = w
        PROVE  /\ t.child[e].state # "alive"
               /\ t.child[e].state = "forking" => t.worker[w].spawnPromise = e
               /\ t.child[e].state = "signalled" => t.child[e].heard = FALSE
    <3>1. CASE e = c
      BY <1>4, <1>6, <3>1
    <3>2. CASE e # c
      <4>1. t.child[e] = s.child[e] /\ e # 0
        BY <1>6, <3>2, Numbers
      <4> QED
        BY <1>6, <1>9, <2>1, <2>2, <2>3, <4>1 DEF Calm
    <3> QED
      BY <3>1, <3>2
  <2>4. t.phase[w] # "sent" /\ (t.phase[w] = "new" => t.worker[w].pool = {})
    BY <1>6, <1>9, <2>1, <2>2 DEF Calm
  <2>5. t.child[c].owner = w /\ t.child[c].state \in {"forking", "failed"}
    BY <1>4, <1>6
  <2> QED
    BY <1>9, <2>2, <2>3, <2>4, <2>5 DEF Calm
<1>12. WorkerOk(t, w)
  <2>1. /\ t.worker[w].spawnPromise # 0 => b = 0
        /\ t.worker[w].pool \cup t.worker[w].queue \subseteq Commands \cup {w}
        /\ t.phase[w] # "sent" => w \notin t.worker[w].pool \cup t.worker[w].queue
    BY <1>5, <1>6, <1>9 DEF WorkerOk
  <2>2. t.worker[w].raced = FALSE => Calm(t, w)
    BY <1>6, <1>11
  <2> QED
    BY <1>1, <1>6, <1>9, <1>10, <2>1, <2>2, WorkerIs
<1>13. Sound(t)
  BY <1>1, <1>2, <1>7, <1>8, <1>12, InsideRest, RestSound
<1> QED
  BY <1>1, <1>2, <1>13 DEF w, d

\* A response has come.
LEMMA RepliedSound ==
  ASSUME NEW s, Sound(s), NEW c \in Children, s.child[c].state = "alive", NEW k \in s.child[c].inbox,
         s.child[c].by # 0 => s.phase[s.child[c].by] # "forked"
  PROVE  LET t == Replied(s, c, k)
             w == s.child[c].owner
         IN /\ Sound(t) /\ w \in Workers /\ k \in Commands \cup {w}
            /\ \A e \in Children \ {c} : t.child[e] = s.child[e]
            /\ t.child[c].owner = w /\ t.child[c].state \in {"alive", "signalled"}
            /\ \A v \in Workers : t.worker[v].raced = s.worker[v].raced /\ t.worker[v].waits = s.worker[v].waits
            /\ \/ \A v \in Workers : t.phase[v] = s.phase[v]
               \/ /\ s.phase[w] = "sent" /\ t.phase[w] = "done" /\ \A v \in Workers \ {w} : t.phase[v] = s.phase[v]
                  /\ s.worker[w].child = c /\ t.child[c].state = "signalled"
<1> DEFINE w == s.child[c].owner
           b == s.worker[w].child
           t == Replied(s, c, k)
           d == [s.child[c] EXCEPT !.inbox = @ \ {k}]
           r == [s.worker[w] EXCEPT !.pool = @ \ {k}]
           r2 == [r EXCEPT !.child = 0]
           d2 == [d EXCEPT !.state = "signalled"]
<1>1. s \in ProxyStates /\ ByOk(s) /\ InboxOk(s) /\ c # 0 /\ w \in Workers /\ b \in Children \cup {0}
      /\ s.child[c] \in ChildRecords /\ s.worker[w] \in WorkerRecords /\ WorkerOk(s, w)
  BY Fields, Numbers DEF Sound
<1>2. k \in Commands \cup {w} /\ k \in All /\ k # 0 /\ w \notin Commands /\ 0 \notin All
  BY <1>1, Numbers DEF InboxOk
<1>3. /\ b # c => Changes(t, s, w, s.worker[w], c, d, 0, "new")
      /\ b = c /\ k # w => Changes(t, s, w, r, c, d, k, "done")
      /\ b = c /\ k = w => Changes(t, s, w, r2, c, d2, k, "done")
  BY <1>1, <1>2, RepliedFacts
<1>4. /\ d.state = "alive" /\ d.owner = w /\ d.by = s.child[c].by /\ d.inbox = s.child[c].inbox \ {k}
      /\ d.heard = s.child[c].heard
      /\ d2.state = "signalled" /\ d2.owner = w /\ d2.by = s.child[c].by /\ d2.inbox = s.child[c].inbox \ {k}
      /\ d2.heard = s.child[c].heard
  BY <1>1 DEF ChildRecords
<1>5. /\ r.child = b /\ r.spawnPromise = s.worker[w].spawnPromise /\ r.queue = s.worker[w].queue
      /\ r.pool = s.worker[w].pool \ {k} /\ r.raced = s.worker[w].raced /\ r.waits = s.worker[w].waits
      /\ r2.child = 0 /\ r2.spawnPromise = s.worker[w].spawnPromise /\ r2.queue = s.worker[w].queue
      /\ r2.pool = s.worker[w].pool \ {k} /\ r2.raced = s.worker[w].raced /\ r2.waits = s.worker[w].waits
  BY <1>1 DEF WorkerRecords
<1> HIDE DEF t, d, r, d2, r2
<1>6. s.child[c].inbox \subseteq Commands \cup {w} /\ s.child[c].owner = w
  BY <1>1 DEF InboxOk
<1> HIDE DEF w, b
<1>7. /\ b = s.worker[w].child
      /\ b # 0 => /\ s.child[b].owner = w /\ s.child[b].state # "none" /\ s.worker[w].queue = {}
                  /\ s.child[b].inbox \subseteq s.worker[w].pool
      /\ s.worker[w].spawnPromise # 0 => b = 0
      /\ s.worker[w].pool \cup s.worker[w].queue \subseteq Commands \cup {w}
      /\ s.phase[w] # "sent" => w \notin s.worker[w].pool \cup s.worker[w].queue
      /\ s.worker[w].raced = FALSE => Calm(s, w)
  BY <1>1 DEF WorkerOk, b
<1>8. CASE b # c
  <2>1. Changes(t, s, w, s.worker[w], c, d, 0, "new")
    BY <1>3, <1>8
  <2>2. /\ t \in ProxyStates /\ t.child[c] = d /\ \A v \in Workers : t.worker[v] = s.worker[v]
        /\ \A e \in Children \ {c} : t.child[e] = s.child[e]
        /\ \A v \in Workers : t.phase[v] = s.phase[v]
    BY <1>1, <1>2, <2>1, Numbers DEF Changes
  <2>3. ByOk(t) /\ Inside(s, w, c, d, 0)
    <3>1. d.by # 0 => d.state = "alive"
      BY <1>4
    <3>2. 0 \in All \cup {0}
      OBVIOUS
    <3>3. ByOk(t)
      BY <1>1, <1>4, <2>1, <3>1, <3>2, ByKept
    <3> QED
      BY <1>4, <1>6, <3>3 DEF Inside
  <2>4. ASSUME s.worker[w].raced = FALSE PROVE Calm(t, w)
    <3>1. Calm(s, w)
      BY <1>7, <2>4
    <3>2. FALSE
      BY <1>6, <1>7, <1>8, <3>1 DEF Calm
    <3> QED
      BY <3>2
  <2>5. b # 0 => t.child[b] = s.child[b]
    BY <1>1, <1>8, <2>2
  <2>6. WorkerOk(t, w)
    <3>1. t.worker[w] = s.worker[w] /\ t.phase[w] = s.phase[w]
      BY <1>1, <2>2
    <3>2. b # 0 => /\ t.child[b].owner = w /\ t.child[b].state # "none" /\ t.worker[w].queue = {}
                   /\ t.child[b].inbox \subseteq t.worker[w].pool
      BY <1>7, <2>5, <3>1
    <3>3. /\ b = t.worker[w].child /\ (t.worker[w].spawnPromise # 0 => b = 0)
          /\ t.worker[w].pool \cup t.worker[w].queue \subseteq Commands \cup {w}
          /\ t.phase[w] # "sent" => w \notin t.worker[w].pool \cup t.worker[w].queue
      BY <1>7, <3>1
    <3>4. t.worker[w].raced = FALSE => Calm(t, w)
      BY <2>4, <3>1
    <3> QED
      BY <1>1, <2>2, <3>2, <3>3, <3>4, WorkerIs
  <2>7. Sound(t)
    BY <1>1, <2>1, <2>3, <2>6, InsideRest, RestSound
  <2> QED
    BY <1>1, <1>2, <1>4, <2>2, <2>7 DEF t, w
<1>9. CASE b = c /\ k # w
  <2>1. Changes(t, s, w, r, c, d, k, "done") /\ k \notin Workers /\ k \in Commands
    BY <1>2, <1>3, <1>9, Numbers
  <2>2. /\ t \in ProxyStates /\ t.child[c] = d /\ t.worker[w] = r /\ \A v \in Workers \ {w} : t.worker[v] = s.worker[v]
        /\ \A e \in Children \ {c} : t.child[e] = s.child[e]
        /\ \A v \in Workers : t.phase[v] = s.phase[v]
    BY <2>1, Numbers DEF Changes
  <2>3. ByOk(t) /\ Inside(s, w, c, d, k)
    <3>1. d.by # 0 => d.state = "alive"
      BY <1>4
    <3>2. ByOk(t)
      BY <1>1, <1>2, <1>4, <2>1, <3>1, ByKept
    <3> QED
      BY <1>4, <1>6, <2>1, <3>2 DEF Inside
  <2>4. ASSUME s.worker[w].raced = FALSE PROVE Calm(t, w)
    <3>1. Calm(s, w)
      BY <1>7, <2>4
    <3>2. ASSUME NEW e \in Children, t.child[e].owner = w
          PROVE  /\ t.child[e].state = "alive" => c = e
                 /\ t.child[e].state = "forking" => c = 0 /\ t.worker[w].spawnPromise = e
                 /\ t.child[e].state = "signalled" => t.child[e].heard = FALSE
      <4>1. t.child[e].state = s.child[e].state /\ s.child[e].owner = w /\ t.child[e].heard = s.child[e].heard
        BY <1>4, <1>6, <2>2, <3>2, <1>1 DEF ChildRecords
      <4> QED
        BY <1>5, <1>7, <1>9, <2>2, <3>1, <4>1 DEF Calm
    <3>3. t.phase[w] = "sent" => t.child[c].heard = FALSE
      BY <1>1, <1>4, <1>7, <1>9, <2>2, <3>1 DEF Calm
    <3>4. ASSUME t.phase[w] = "new"
          PROVE  /\ t.child[c].state = "alive" /\ (t.child[c].heard = TRUE \/ c = LocalChild)
                 /\ t.worker[w].pool = t.child[c].inbox
      <4>1. s.phase[w] = "new" /\ s.worker[w].child = c
        BY <1>1, <1>7, <1>9, <2>2, <3>4
      <4>2. (s.child[c].heard = TRUE \/ c = LocalChild) /\ s.worker[w].pool = s.child[c].inbox
        BY <1>1, <3>1, <4>1 DEF Calm
      <4>3. t.worker[w].pool = s.worker[w].pool \ {k} /\ t.child[c].inbox = s.child[c].inbox \ {k}
            /\ t.child[c].heard = s.child[c].heard /\ t.child[c].state = "alive"
        BY <1>4, <1>5, <2>2
      <4> QED
        BY <4>2, <4>3
    <3>5. t.worker[w].child = c
      BY <1>5, <1>9, <2>2
    <3> QED
      BY <1>1, <3>2, <3>3, <3>4, <3>5 DEF Calm
  <2>5. WorkerOk(t, w)
    <3>1. t.worker[w].pool \cup t.worker[w].queue \subseteq Commands \cup {w}
          /\ (t.phase[w] # "sent" => w \notin t.worker[w].pool \cup t.worker[w].queue)
      BY <1>1, <1>5, <1>7, <2>2
    <3>2. t.child[c].owner = w /\ t.child[c].state # "none" /\ t.worker[w].queue = {}
          /\ t.child[c].inbox \subseteq t.worker[w].pool
      BY <1>1, <1>4, <1>5, <1>7, <1>9, <2>2
    <3>3. t.worker[w].child = c /\ (t.worker[w].spawnPromise # 0 => c = 0)
          /\ (t.worker[w].raced = FALSE => Calm(t, w))
      BY <1>5, <1>7, <1>9, <2>2, <2>4
    <3> QED
      BY <1>1, <2>2, <3>1, <3>2, <3>3, WorkerIs
  <2>6. Sound(t)
    BY <1>1, <2>1, <2>3, <2>5, InsideRest, RestSound
  <2>7. \A v \in Workers : t.worker[v].raced = s.worker[v].raced /\ t.worker[v].waits = s.worker[v].waits
    BY <1>5, <2>2
  <2> QED
    BY <1>1, <1>2, <1>4, <2>2, <2>6, <2>7 DEF t, w
<1>10. CASE b = c /\ k = w
  <2>1. Changes(t, s, w, r2, c, d2, k, "done")
    BY <1>3, <1>10
  <2>2. /\ t \in ProxyStates /\ t.child[c] = d2 /\ t.worker[w] = r2 /\ \A v \in Workers \ {w} : t.worker[v] = s.worker[v]
        /\ \A e \in Children \ {c} : t.child[e] = s.child[e]
        /\ t.phase[w] = "done" /\ \A v \in Workers \ {w} : t.phase[v] = s.phase[v]
    BY <1>1, <1>2, <1>10, <2>1, Numbers DEF Changes
  <2>3. ByOk(t) /\ Inside(s, w, c, d2, k)
    <3>1. d2.by # 0 => t.phase[d2.by] # "forked"
      <4>1. d2.by # 0 => d2.by \in All \ {k}
        BY <1>1, <1>2, <1>4, <1>10, Fields, Numbers
      <4> QED
        BY <1>4, <2>1, <4>1 DEF Changes
    <3>2. ByOk(t)
      BY <1>1, <1>2, <1>4, <2>1, <3>1, ByKept
    <3> QED
      BY <1>4, <1>6, <1>10, <3>2 DEF Inside
  <2>4. s.phase[w] = "sent"
    BY <1>1, <1>7, <1>10
  <2>5. ASSUME s.worker[w].raced = FALSE PROVE Calm(t, w)
    <3>1. Calm(s, w)
      BY <1>7, <2>5
    <3>2. s.child[c].heard = FALSE
      BY <1>1, <1>7, <1>10, <2>4, <3>1 DEF Calm
    <3>3. ASSUME NEW e \in Children, t.child[e].owner = w
          PROVE  /\ t.child[e].state # "alive" /\ t.child[e].state # "forking"
                 /\ t.child[e].state = "signalled" => t.child[e].heard = FALSE
      <4>1. CASE e = c
        BY <1>4, <2>2, <3>2, <4>1
      <4>2. CASE e # c
        <5>1. t.child[e] = s.child[e]
          BY <2>2, <4>2
        <5> QED
          BY <1>1, <1>7, <1>10, <3>1, <3>3, <4>2, <5>1 DEF Calm
      <4> QED
        BY <4>1, <4>2
    <3>4. t.worker[w].child = 0
      BY <1>5, <2>2
    <3> QED
      BY <2>2, <3>3, <3>4 DEF Calm
  <2>6. WorkerOk(t, w)
    <3>1. t.worker[w].child = 0 /\ t.worker[w].pool \cup t.worker[w].queue \subseteq Commands \cup {w}
          /\ w \notin t.worker[w].pool \cup t.worker[w].queue
      BY <1>1, <1>5, <1>7, <1>10, <2>2
    <3>2. t.worker[w].raced = FALSE => Calm(t, w)
      BY <1>5, <2>2, <2>5
    <3> QED
      BY <2>2, <1>1, <3>1, <3>2, WorkerIs
  <2>7. Sound(t)
    BY <1>1, <2>1, <2>3, <2>6, InsideRest, RestSound
  <2>8. \A v \in Workers : t.worker[v].raced = s.worker[v].raced /\ t.worker[v].waits = s.worker[v].waits
    BY <1>5, <2>2
  <2> QED
    BY <1>1, <1>2, <1>4, <1>7, <1>10, <2>2, <2>4, <2>7, <2>8 DEF t, w
<1> QED
  BY <1>8, <1>9, <1>10 DEF b, w

\* The kill command is refused.
LEMMA RefusedSound ==
  ASSUME NEW s, Sound(s), NEW c \in Children, s.child[c].state = "alive",
         s.worker[s.child[c].owner].child = c, s.child[c].owner \in s.child[c].inbox
  PROVE  LET t == Refused(s, c)
             w == s.child[c].owner
         IN /\ Sound(t) /\ w \in Workers /\ s.phase[w] = "sent"
            /\ Changes(t, s, w, [s.worker[w] EXCEPT !.pool = @ \ {w}],
                       c, [s.child[c] EXCEPT !.inbox = @ \ {w}], w, "failed")
<1> DEFINE w == s.child[c].owner
           t == Refused(s, c)
           d == [s.child[c] EXCEPT !.inbox = @ \ {w}]
           r == [s.worker[w] EXCEPT !.pool = @ \ {w}]
<1>1. s \in ProxyStates /\ ByOk(s) /\ InboxOk(s) /\ c # 0 /\ c \in Children \cup {0} /\ w \in Workers /\ w \in All /\ w # 0
      /\ s.child[c] \in ChildRecords /\ s.worker[w] \in WorkerRecords /\ WorkerOk(s, w)
      /\ s.worker[w].child = c /\ w \in s.child[c].inbox /\ w \notin Commands
  BY Fields, Numbers DEF Sound
<1>2. Changes(t, s, w, r, c, d, w, "failed")
  BY <1>1, RefusedFacts
<1>3. /\ d.state = "alive" /\ d.owner = w /\ d.by = s.child[c].by /\ d.inbox = s.child[c].inbox \ {w}
      /\ d.heard = s.child[c].heard
  BY <1>1 DEF ChildRecords
<1>4. /\ r.child = c /\ r.spawnPromise = s.worker[w].spawnPromise /\ r.queue = s.worker[w].queue
      /\ r.pool = s.worker[w].pool \ {w} /\ r.raced = s.worker[w].raced
  BY <1>1 DEF WorkerRecords
<1> HIDE DEF t, d, r
<1>5. s.child[c].inbox \subseteq Commands \cup {w} /\ s.child[c].owner = w
  BY <1>1 DEF InboxOk
<1> HIDE DEF w
<1>6. /\ s.child[c].inbox \subseteq s.worker[w].pool /\ s.worker[w].queue = {} /\ s.worker[w].spawnPromise = 0
      /\ s.worker[w].pool \cup s.worker[w].queue \subseteq Commands \cup {w}
      /\ s.phase[w] # "sent" => w \notin s.worker[w].pool \cup s.worker[w].queue
      /\ s.worker[w].raced = FALSE => Calm(s, w)
  BY <1>1 DEF WorkerOk
<1>7. /\ t \in ProxyStates /\ t.child[c] = d /\ t.worker[w] = r /\ t.phase[w] = "failed"
      /\ \A e \in Children \ {c} : t.child[e] = s.child[e]
  BY <1>1, <1>2 DEF Changes
<1>8. ByOk(t) /\ Inside(s, w, c, d, w)
  <2>1. d.by # 0 => d.state = "alive"
    BY <1>3
  <2>2. ByOk(t)
    BY <1>1, <1>2, <1>3, <2>1, ByKept
  <2> QED
    BY <1>3, <1>5, <2>2 DEF Inside
<1>9. ASSUME s.worker[w].raced = FALSE PROVE Calm(t, w)
  <2>1. Calm(s, w)
    BY <1>6, <1>9
  <2>2. ASSUME NEW e \in Children, t.child[e].owner = w
        PROVE  /\ t.child[e].state = "alive" => c = e
               /\ t.child[e].state # "forking"
               /\ t.child[e].state = "signalled" => t.child[e].heard = FALSE
    <3>1. CASE e = c
      BY <1>3, <1>7, <3>1
    <3>2. CASE e # c
      <4>1. t.child[e] = s.child[e]
        BY <1>7, <3>2
      <4> QED
        BY <1>1, <2>1, <2>2, <3>2, <4>1 DEF Calm
    <3> QED
      BY <3>1, <3>2
  <2>3. t.worker[w].child = c
    BY <1>4, <1>7
  <2> QED
    BY <1>7, <2>2, <2>3 DEF Calm
<1>10. WorkerOk(t, w)
  <2>1. t.worker[w].pool \cup t.worker[w].queue \subseteq Commands \cup {w}
        /\ w \notin t.worker[w].pool \cup t.worker[w].queue
    BY <1>4, <1>6, <1>7
  <2>2. t.child[c].owner = w /\ t.child[c].state # "none" /\ t.worker[w].queue = {}
        /\ t.child[c].inbox \subseteq t.worker[w].pool
    BY <1>3, <1>4, <1>6, <1>7
  <2>3. t.worker[w].child = c /\ t.worker[w].spawnPromise = 0 /\ (t.worker[w].raced = FALSE => Calm(t, w))
    BY <1>4, <1>6, <1>7, <1>9
  <2> QED
    BY <1>1, <1>7, <2>1, <2>2, <2>3, WorkerIs
<1>11. s.phase[w] = "sent"
  BY <1>1, <1>6
<1>12. Sound(t)
  <2>1. OthersSound(s, w)
    BY <1>1, RestSound
  <2> QED
    BY <1>1, <1>2, <1>8, <1>10, <2>1, InsideRest, RestSound
<1> QED
  BY <1>1, <1>2, <1>11, <1>12 DEF t, d, r, w

-----------------------------------------------------------------------------
\* The pool of workers, and what it says of the children and of the applicants as
\* long as the controller has not been killed.
Pools ==
  /\ workersPool \in Seq(Workers) /\ lastWorkerIndex \in Nat \cup {-1}
  /\ applicantWorkerMap \in [Applicants -> Workers \cup {0}]

InUse ==
  closing = "none" =>
    /\ \A w \in Workers : px.phase[w] = "new"
    /\ \A a \in Applicants : applicantWorkerMap[a] # 0 => applicantWorkerMap[a] \in Range(workersPool)
    /\ \A c \in Children \ {LocalChild} :
         px.child[c].state # "none" => ~local /\ px.child[c].owner \in Range(workersPool)

\* Once it has been killed, the worker of a child that is left has been asked to kill
\* it, unless a command came too late or the worker raced; one that waits does so for
\* the fork of that child.
MetChild(s, c) ==
  LET w == s.child[c].owner IN
  s.child[c].state \in Live /\ s.worker[w].raced = FALSE =>
    s.phase[w] \notin {"new", "done"} /\ (s.phase[w] = "wait" => s.worker[w].waits = c)
Met == closing # "none" /\ ~late => \A c \in Children \ {LocalChild} : MetChild(px, c)

\* kill() ends when all have answered or one has refused.
Caught ==
  closing = "done" =>
    (\E w \in Workers : px.phase[w] = "failed") \/ \A w \in Workers : px.phase[w] \notin Open

ProxyInv == Sound(px) /\ Pools /\ InUse /\ Met /\ Caught

LEMMA ProxyInvInit == ASSUME ProxyInit PROVE ProxyInv
<1>1. px = [worker |-> [w \in Workers |-> NewWorker(w)], child |-> [c \in Children |-> NewChild(c)],
            phase |-> [k \in All |-> "new"]]
  BY DEF ProxyInit
<1>2. \A w \in Workers : /\ NewWorker(w) \in WorkerRecords
                         /\ NewWorker(w).child = (IF w = LocalWorker THEN LocalChild ELSE 0)
                         /\ NewWorker(w).spawnPromise = 0 /\ NewWorker(w).queue = {} /\ NewWorker(w).pool = {}
  BY Numbers DEF NewWorker, WorkerRecords
<1>3. \A c \in Children : /\ NewChild(c) \in ChildRecords /\ NewChild(c).inbox = {}
                          /\ NewChild(c).owner = LocalWorker /\ NewChild(c).by = 0
                          /\ NewChild(c).state = (IF c = LocalChild THEN "alive" ELSE "none")
  BY Numbers DEF NewChild, ChildRecords
<1>4. /\ px \in ProxyStates
      /\ \A w \in Workers : px.worker[w] = NewWorker(w) /\ px.phase[w] = "new"
      /\ \A c \in Children : px.child[c] = NewChild(c)
  BY <1>1, <1>2, <1>3, Numbers DEF ProxyStates, WorkerStates, ChildStates, Phases, PhaseNames
<1>5. ByOk(px) /\ InboxOk(px)
  BY <1>3, <1>4 DEF ByOk, InboxOk
<1>6. ASSUME NEW w \in Workers PROVE WorkerOk(px, w)
  <2>1. CASE w = LocalWorker
    <3>1. px.worker[w].child = LocalChild /\ px.child[LocalChild].state = "alive"
          /\ px.child[LocalChild].inbox = {} /\ px.child[LocalChild].owner = w
      BY <1>2, <1>3, <1>4, <2>1, Numbers
    <3> QED
      BY <1>2, <1>3, <1>4, <3>1 DEF WorkerOk, Calm
  <2>2. CASE w # LocalWorker
    BY <1>2, <1>3, <1>4, <2>2 DEF WorkerOk, Calm
  <2> QED
    BY <2>1, <2>2
<1>7. Pools /\ InUse /\ Met /\ Caught
  <2>1. workersPool = <<>> /\ lastWorkerIndex = -1 /\ closing = "none"
        /\ applicantWorkerMap = [a \in Applicants |-> 0]
    BY DEF ProxyInit
  <2>2. \A c \in Children \ {LocalChild} : px.child[c].state = "none"
    BY <1>3, <1>4
  <2> QED
    BY <2>1, <2>2, <1>4 DEF Pools, InUse, Met, Caught
<1> QED
  BY <1>4, <1>5, <1>6, <1>7 DEF ProxyInv, Sound

\* A step of the children and the commands, which the controller does not see.
LEMMA Unseen ==
  ASSUME ProxyInv, Sound(px'), UNCHANGED <<proxyUsage, pools, closing, late>>,
         \A w \in Workers : px'.phase[w] = px.phase[w],
         \A c \in Children \ {LocalChild} : px'.child[c].state # "none" =>
           px.child[c].state # "none" /\ px'.child[c].owner = px.child[c].owner,
         closing # "none" /\ ~late => \A c \in Children \ {LocalChild} : MetChild(px, c) => MetChild(px', c)
  PROVE  ProxyInv'
<1>1. Pools'
  BY DEF ProxyInv, Pools, pools
<1>2. InUse'
  BY DEF ProxyInv, InUse, pools, proxyUsage
<1>3. Met'
  BY DEF ProxyInv, Met
<1>4. Caught'
  BY DEF ProxyInv, Caught
<1> QED
  BY <1>1, <1>2, <1>3, <1>4 DEF ProxyInv

MetKept(t, s) ==
  /\ \A v \in Workers : t.phase[v] = s.phase[v]
  /\ \A e \in Children : t.child[e].owner = s.child[e].owner
  /\ \A e \in Children : MetChild(s, e) => MetChild(t, e)
LEMMA MetChanges ==
  ASSUME NEW s \in ProxyStates, NEW w \in Workers, NEW r, NEW c \in Children, NEW d,
         NEW k \in Commands \cup {0}, NEW x, NEW t, Changes(t, s, w, r, c, d, k, x),
         d.owner = s.child[c].owner, d.state \in Live => s.child[c].state \in Live,
         r.raced = FALSE => s.worker[w].raced = FALSE, r.waits = s.worker[w].waits
  PROVE  MetKept(t, s)
<1>1. \A v \in Workers : t.phase[v] = s.phase[v]
  BY Numbers DEF Changes
<1>2. \A e \in Children : /\ t.child[e].owner = s.child[e].owner /\ s.child[e].owner \in Workers
                          /\ t.child[e].state \in Live => s.child[e].state \in Live
  BY Fields DEF Changes
<1>3. \A v \in Workers : /\ t.worker[v].raced = FALSE => s.worker[v].raced = FALSE
                         /\ t.worker[v].waits = s.worker[v].waits
  BY DEF Changes
<1> QED
  BY <1>1, <1>2, <1>3 DEF MetChild, MetKept
\* What getWorker() returns is in the pool.
LEMMA GetWorkerFacts ==
  ASSUME Pools, NEW a \in Applicants, NEW w \in Workers, GetWorker(a, w),
         applicantWorkerMap[a] # 0 => (closing = "none" => applicantWorkerMap[a] \in Range(workersPool))
  PROVE  /\ workersPool' \in Seq(Workers) /\ lastWorkerIndex' \in Nat \cup {-1}
         /\ Range(workersPool) \subseteq Range(workersPool')
         /\ closing = "none" => w \in Range(workersPool')
<1>1. /\ workersPool \in Seq(Workers) /\ Len(workersPool) \in Nat
      /\ DOMAIN workersPool = 1..Len(workersPool) /\ lastWorkerIndex \in Nat \cup {-1}
  BY DEF Pools
<1>2. CASE applicantWorkerMap[a] # 0
  BY <1>1, <1>2 DEF GetWorker
<1>3. CASE applicantWorkerMap[a] = 0 /\ Len(workersPool) < WorkerLimit
  <2>1. workersPool' = Append(workersPool, w) /\ lastWorkerIndex' = Len(workersPool)
    BY <1>3 DEF GetWorker, AddedIndex
  <2>2. /\ workersPool' \in Seq(Workers) /\ DOMAIN workersPool' = 1..(Len(workersPool) + 1)
        /\ \A i \in DOMAIN workersPool : i \in DOMAIN workersPool' /\ workersPool'[i] = workersPool[i]
        /\ Len(workersPool) + 1 \in DOMAIN workersPool' /\ workersPool'[Len(workersPool) + 1] = w
    BY <1>1, <2>1
  <2>3. Range(workersPool) \subseteq Range(workersPool') /\ w \in Range(workersPool')
    BY <2>2 DEF Range
  <2> QED
    BY <1>1, <2>1, <2>2, <2>3
<1>4. CASE applicantWorkerMap[a] = 0 /\ ~(Len(workersPool) < WorkerLimit)
  <2>1. lastWorkerIndex' = NextIndex /\ w = workersPool[NextIndex + 1] /\ workersPool' = workersPool
    BY <1>4 DEF GetWorker
  <2>2. NextIndex \in Nat /\ NextIndex + 1 \in DOMAIN workersPool
    <3>1. Len(workersPool) >= 1
      BY <1>1, <1>4, ProxyAssumption
    <3> QED
      BY <1>1, <3>1 DEF NextIndex
  <2>3. w \in Range(workersPool)
    BY <2>1, <2>2 DEF Range
  <2> QED
    BY <1>1, <2>1, <2>2, <2>3
<1> QED
  BY <1>2, <1>3, <1>4

\* The steps of the controller and of the children, one by one.
LEMMA AskInv == ASSUME ProxyInv, NEW k \in Commands, Ask(k) PROVE ProxyInv'
<1> DEFINE a == Applicant[k]
<1>1. closing' = closing /\ local' = local /\ late' = (late \/ closing # "none") /\ closing # "done"
      /\ px.phase[k] = "new" /\ ~local
  BY DEF Ask, proxyUsage
<1>2. Met' /\ Caught'
  BY <1>1 DEF Met, Caught
<1>3. CASE px' = Settle(px, k, "done") /\ UNCHANGED pools
  <2>1. "done" \in {"done", "failed"}
    OBVIOUS
  <2>2. Sound(px') /\ AfterSettle(px', px, k, "done") /\ \A w \in Workers : px'.phase[w] = px.phase[w]
    BY <1>3, <2>1, SettleSound DEF ProxyInv
  <2>3. Pools' /\ InUse'
    BY <1>1, <1>3, <2>2 DEF ProxyInv, Pools, InUse, pools, AfterSettle
  <2> QED
    BY <1>2, <2>2, <2>3 DEF ProxyInv
<1>4. ASSUME NEW w \in Workers \ {LocalWorker}, NEW c \in ForkedFor(px, w),
             k \notin Ends \/ applicantWorkerMap[a] # 0, GetWorker(a, w),
             applicantWorkerMap' = [applicantWorkerMap EXCEPT ![a] = IF k \in Ends THEN 0 ELSE w],
             px' = Execute(px, w, k, c)
      PROVE  ProxyInv'
  <2>1. px \in ProxyStates /\ k \in All /\ Sound(px) /\ WorkerOk(px, w)
    BY Numbers DEF ProxyInv, Sound
  <2>2. /\ Sound(px') /\ \A v \in Workers : px'.phase[v] = px.phase[v]
        /\ \A d \in Children : px'.child[d].state # "none" =>
              \/ px.child[d].state # "none" /\ px'.child[d].owner = px.child[d].owner
              \/ px'.child[d].owner = w
    <3>1. CASE px.worker[w].child # 0
      <4> DEFINE b == px.worker[w].child
      <4>1. px' = Send(px, w, k)
        BY <1>4, <3>1 DEF Execute
      <4>2. /\ Sound(px') /\ b \in Children /\ px.child[b].state # "none"
            /\ Changes(px', px, w, [px.worker[w] EXCEPT !.pool = @ \cup {k}],
                       b, [px.child[b] EXCEPT !.inbox = @ \cup {k}], k, "sent")
        BY <2>1, <3>1, <4>1, SendSound
      <4>3. [px.child[b] EXCEPT !.inbox = @ \cup {k}].owner = px.child[b].owner
        <5>1. px.child[b] \in ChildRecords
          BY <2>1, <4>2, Fields
        <5> QED
          BY <5>1 DEF ChildRecords
      <4> HIDE DEF b
      <4> QED
        BY <4>2, <4>3, Numbers DEF Changes
    <3>2. CASE px.worker[w].child = 0
      <4>1. px' = Spawn(px, w, c, k) /\ c \in Children /\ px.child[c].state = "none"
        BY <1>4, <3>2 DEF Execute, ForkedFor, Fresh
      <4>2. /\ px.worker[w].pool \cup px.worker[w].queue \subseteq Commands \cup {w}
            /\ px.phase[w] # "sent" => w \notin px.worker[w].pool \cup px.worker[w].queue
            /\ px.worker[w].raced = FALSE => Calm(px, w)
        BY <2>1 DEF WorkerOk
      <4>3. px.worker[w].raced = FALSE =>
              /\ px.phase[w] # "sent" /\ (px.phase[w] = "new" => px.worker[w].pool = {})
              /\ \A e \in Children : px.child[e].owner = w =>
                   px.child[e].state # "alive" /\ (px.child[e].state = "signalled" => px.child[e].heard = FALSE)
        BY <3>2, <4>2, Numbers DEF Calm
      <4>4. OthersSound(px, w) /\ k \in Commands \cup {0}
        BY <2>1, RestSound
      <4>5. Sound(px') /\ Spawned(px', px, w, c, k)
        BY <1>1, <3>2, <4>1, <4>2, <4>3, <4>4, SpawnSound
      <4>6. [px.child[c] EXCEPT !.state = "forking", !.owner = w, !.by = k].owner = w
        <5>1. px.child[c] \in ChildRecords
          BY <2>1, <4>1, Fields
        <5> QED
          BY <5>1 DEF ChildRecords
      <4> QED
        BY <4>1, <4>5, <4>6, Numbers DEF Spawned, Changes
    <3> QED
      BY <3>1, <3>2
  <2>3. a \in Applicants
    BY ProxyAssumption DEF Applicants, Range
  <2>4. /\ workersPool' \in Seq(Workers) /\ lastWorkerIndex' \in Nat \cup {-1}
        /\ Range(workersPool) \subseteq Range(workersPool')
        /\ closing = "none" => w \in Range(workersPool')
    BY <1>4, <2>3, GetWorkerFacts DEF ProxyInv, InUse
  <2>5. Pools'
    BY <1>4, <2>3, <2>4 DEF ProxyInv, Pools
  <2>6. InUse'
    <3> SUFFICES ASSUME closing = "none"
                 PROVE  /\ \A v \in Workers : px'.phase[v] = "new"
                        /\ \A e \in Applicants : applicantWorkerMap'[e] # 0 =>
                              applicantWorkerMap'[e] \in Range(workersPool')
                        /\ \A d \in Children \ {LocalChild} :
                              px'.child[d].state # "none" => ~local' /\ px'.child[d].owner \in Range(workersPool')
      BY <1>1 DEF InUse
    <3>1. /\ \A v \in Workers : px.phase[v] = "new"
          /\ \A e \in Applicants : applicantWorkerMap[e] # 0 => applicantWorkerMap[e] \in Range(workersPool)
          /\ \A d \in Children \ {LocalChild} : px.child[d].state # "none" => px.child[d].owner \in Range(workersPool)
      BY DEF ProxyInv, InUse
    <3>2. \A e \in Applicants : applicantWorkerMap'[e] # 0 =>
              applicantWorkerMap'[e] = applicantWorkerMap[e] \/ applicantWorkerMap'[e] = w
      BY <1>4, <2>3 DEF ProxyInv, Pools
    <3>3. ~local'
      BY <1>1
    <3> QED
      BY <2>2, <2>4, <3>1, <3>2, <3>3
  <2> QED
    BY <1>2, <2>2, <2>5, <2>6 DEF ProxyInv
<1> QED
  BY <1>3, <1>4 DEF Ask

\* A command is sent to the child that the worker has.
LEMMA SendInv ==
  ASSUME ProxyInv, NEW w \in Workers, NEW k \in Commands, px.worker[w].child # 0, px' = Send(px, w, k),
         UNCHANGED <<proxyUsage, pools, closing>>, late' = late \/ late' = (late \/ closing # "none")
  PROVE  ProxyInv'
<1> DEFINE b == px.worker[w].child
           r == [px.worker[w] EXCEPT !.pool = @ \cup {k}]
           d == [px.child[b] EXCEPT !.inbox = @ \cup {k}]
<1>1. px \in ProxyStates /\ Sound(px)
  BY DEF ProxyInv, Sound
<1>2. Sound(px') /\ b \in Children /\ px.child[b].state # "none" /\ Changes(px', px, w, r, b, d, k, "sent")
  BY <1>1, SendSound
<1>3. d.owner = px.child[b].owner /\ d.state = px.child[b].state /\ r.raced = px.worker[w].raced
      /\ r.waits = px.worker[w].waits
  <2>1. px.child[b] \in ChildRecords /\ px.worker[w] \in WorkerRecords
    BY <1>1, <1>2, Fields
  <2> QED
    BY <2>1 DEF ChildRecords, WorkerRecords
<1> HIDE DEF b, r, d
<1>4. /\ \A v \in Workers : px'.phase[v] = px.phase[v]
      /\ \A e \in Children : px'.child[e].owner = px.child[e].owner
      /\ \A e \in Children : MetChild(px, e) => MetChild(px', e)
  <2>1. k \in Commands \cup {0}
    OBVIOUS
  <2>2. d.state \in Live => px.child[b].state \in Live
    BY <1>3
  <2>3. r.raced = FALSE => px.worker[w].raced = FALSE
    BY <1>3
  <2>4. MetKept(px', px)
    BY <1>1, <1>2, <1>3, <2>1, <2>2, <2>3, MetChanges
  <2> QED
    BY <2>4 DEF MetKept
<1>5. \A e \in Children : px'.child[e].state = px.child[e].state
  BY <1>2, <1>3 DEF Changes
<1>6. Pools' /\ InUse' /\ Caught'
  BY <1>4, <1>5 DEF ProxyInv, Pools, InUse, Caught, pools, proxyUsage
<1>7. Met'
  BY <1>4 DEF ProxyInv, Met
<1> QED
  BY <1>2, <1>6, <1>7 DEF ProxyInv

LEMMA AskLocalInv == ASSUME ProxyInv, NEW k \in Commands, AskLocal(k) PROVE ProxyInv'
<1>1. LocalWorker \in Workers
  BY Numbers
<1> QED
  BY <1>1, SendInv DEF AskLocal

LEMMA AskTooLateInv == ASSUME ProxyInv, NEW k \in Commands, AskTooLate(k) PROVE ProxyInv'
<1> DEFINE how == IF k \in Ends THEN "done" ELSE "failed"
<1>1. how \in {"done", "failed"} /\ px' = Settle(px, k, how) /\ UNCHANGED <<proxyUsage, pools, closing, late>>
  BY DEF AskTooLate
<1> HIDE DEF how
<1>2. Sound(px') /\ AfterSettle(px', px, k, how) /\ \A w \in Workers : px'.phase[w] = px.phase[w]
  BY <1>1, SettleSound DEF ProxyInv
<1>3. px'.worker = px.worker /\ px'.child = px.child
  BY <1>2 DEF AfterSettle
<1>4. px \in ProxyStates
  BY DEF ProxyInv, Sound
<1>5. \A c \in Children : MetChild(px, c) => MetChild(px', c)
  BY <1>2, <1>3, <1>4, Fields DEF MetChild
<1> QED
  BY <1>1, <1>2, <1>3, <1>5, Unseen

LEMMA ResumeInv == ASSUME ProxyInv, NEW c \in Children, Resume(c) PROVE ProxyInv'
<1> DEFINE k == px.child[c].by
           w == px.child[c].owner
           r == [px.worker[w] EXCEPT !.queue = @ \cup {k}]
<1>1. /\ px \in ProxyStates /\ Sound(px) /\ k # 0 /\ px.phase[k] = "forked" /\ k \in Commands /\ w \in Workers
      /\ px' = Pass(px, w, k) /\ UNCHANGED <<proxyUsage, pools, closing, late>>
  BY Fields DEF ProxyInv, Sound, Resume
<1>2. ByOk(px) /\ WorkerOk(px, w) /\ InboxOk(px) /\ c # 0
  BY <1>1, Numbers DEF Sound
<1>3. px.child[c].state = "alive"
  BY <1>1, <1>2 DEF ByOk
<1>4. CASE px.worker[w].child # 0
  BY <1>1, <1>4, SendInv DEF Pass
<1>5. CASE px.worker[w].child = 0
  <2>1. px.worker[w] \in WorkerRecords /\ px.child[c] \in ChildRecords /\ k \in All /\ "sent" \in PhaseNames
        /\ k \in All \cup {0}
    BY <1>1, Fields, Numbers DEF PhaseNames
  <2>2. r \in WorkerRecords
    BY <2>1 DEF WorkerRecords
  <2>3. px' = [px EXCEPT !.worker = [px.worker EXCEPT ![w] = r], !.phase = [px.phase EXCEPT ![k] = "sent"]]
    BY <1>1, <1>5, Zenon DEF Pass
  <2>4. [px.child EXCEPT ![c] = px.child[c]] = px.child
    BY <1>1, Fields DEF ChildStates
  <2> DEFINE W == [px.worker EXCEPT ![w] = r]
             P == [px.phase EXCEPT ![k] = "sent"]
  <2>5. P = IF k = 0 THEN px.phase ELSE [px.phase EXCEPT ![k] = "sent"]
    BY <1>1
  <2> HIDE DEF W, P
  <2>6. px' = [px EXCEPT !.worker = W, !.child = px.child, !.phase = P]
    BY <1>1, <2>3 DEF W, P, ProxyStates
  <2> HIDE DEF r, w, k
  <2>7. Changes(px', px, w, r, c, px.child[c], k, "sent")
    BY <1>1, <2>1, <2>2, <2>4, <2>5, <2>6, ChangesFacts DEF W, P
  <2>8. /\ r.child = 0 /\ r.spawnPromise = px.worker[w].spawnPromise /\ r.queue = px.worker[w].queue \cup {k}
        /\ r.pool = px.worker[w].pool /\ r.raced = px.worker[w].raced /\ r.waits = px.worker[w].waits
    BY <1>5, <2>1 DEF WorkerRecords, r
  <2>9. px.worker[w].raced # FALSE
    BY <1>2, <1>3, <1>5 DEF WorkerOk, Calm, w
  <2>10. Inside(px, w, c, px.child[c], k)
    BY <1>1, <1>2, <1>3 DEF Inside, w, InboxOk
  <2>11. ByOk(px')
    BY <1>1, <1>2, <1>3, <2>1, <2>7, ByKept
  <2>12. /\ px' \in ProxyStates /\ px'.worker[w] = r /\ px'.phase[w] = px.phase[w]
    BY <1>1, <2>7, Numbers DEF Changes
  <2>13. WorkerOk(px', w)
    <3>1. /\ px.worker[w].pool \cup px.worker[w].queue \subseteq Commands \cup {w}
          /\ px.phase[w] # "sent" => w \notin px.worker[w].pool \cup px.worker[w].queue
      BY <1>2 DEF WorkerOk
    <3>2. w # k
      BY <1>1, Numbers
    <3> QED
      BY <1>1, <2>8, <2>9, <2>12, <3>1, <3>2, WorkerIs
  <2>14. Sound(px')
    BY <1>1, <2>7, <2>10, <2>11, <2>13, InsideRest, RestSound
  <2>15. /\ \A v \in Workers : px'.phase[v] = px.phase[v]
         /\ \A e \in Children : px'.child[e].owner = px.child[e].owner
         /\ \A e \in Children : MetChild(px, e) => MetChild(px', e)
    <3>1. k \in Commands \cup {0}
      BY <1>1
    <3>2. r.raced = FALSE => px.worker[w].raced = FALSE
      BY <2>8
    <3>3. MetKept(px', px)
      BY <1>1, <2>7, <2>8, <3>1, <3>2, MetChanges
    <3> QED
      BY <3>3 DEF MetKept
  <2>16. \A e \in Children : px'.child[e].state = px.child[e].state
    BY <2>7 DEF Changes
  <2> QED
    BY <1>1, <2>14, <2>15, <2>16, Unseen
<1> QED
  BY <1>4, <1>5

\* A child under TurnOver: the command that forked it has gone on.
LEMMA Resumed ==
  ASSUME ProxyInv, TurnOver, NEW c \in Children
  PROVE  px.child[c].by # 0 => px.phase[px.child[c].by] # "forked"
BY Fields DEF ProxyInv, Sound, TurnOver

\* The kill command of a worker has been asked for only after kill().
LEMMA KillAsked ==
  ASSUME ProxyInv, NEW w \in Workers, px.phase[w] # "new"
  PROVE  closing # "none"
BY DEF ProxyInv, InUse

\* The phase of the kill command of w becomes x, after kill().
LEMMA KillMoves ==
  ASSUME ProxyInv, Sound(px'), UNCHANGED <<proxyUsage, pools, closing, late>>,
         NEW w \in Workers, px.phase[w] \in Open, px'.phase[w] \in {"sent", "done", "failed"},
         \A v \in Workers \ {w} : px'.phase[v] = px.phase[v],
         closing # "none" /\ ~late => \A c \in Children \ {LocalChild} : MetChild(px, c) => MetChild(px', c)
  PROVE  ProxyInv'
<1>1. Pools'
  BY DEF ProxyInv, Pools, pools
<1>2. closing # "none"
  BY KillAsked DEF Open
<1>3. InUse'
  BY <1>2 DEF InUse
<1>4. Met'
  BY DEF ProxyInv, Met
<1>5. Caught'
  <2> SUFFICES ASSUME closing = "done"
               PROVE  (\E v \in Workers : px'.phase[v] = "failed") \/ \A v \in Workers : px'.phase[v] \notin Open
    BY DEF Caught
  <2>1. PICK v \in Workers : px.phase[v] = "failed"
    BY DEF ProxyInv, Caught
  <2>2. v # w
    BY <2>1 DEF Open
  <2> QED
    BY <2>1, <2>2
<1> QED
  BY <1>1, <1>3, <1>4, <1>5 DEF ProxyInv

LEMMA ReplyInv == ASSUME ProxyInv, NEW c \in Children, NEW k \in All, Reply(c, k) PROVE ProxyInv'
<1> DEFINE w == px.child[c].owner
<1>1. /\ px \in ProxyStates /\ Sound(px) /\ TurnOver /\ px.child[c].state = "alive" /\ k \in px.child[c].inbox
      /\ px' = Replied(px, c, k) /\ UNCHANGED <<proxyUsage, pools, closing, late>>
  BY DEF ProxyInv, Sound, Reply
<1>2. /\ Sound(px') /\ w \in Workers
      /\ \A e \in Children \ {c} : px'.child[e] = px.child[e]
      /\ px'.child[c].owner = w /\ px'.child[c].state \in {"alive", "signalled"}
      /\ \A v \in Workers : px'.worker[v].raced = px.worker[v].raced /\ px'.worker[v].waits = px.worker[v].waits
      /\ \/ \A v \in Workers : px'.phase[v] = px.phase[v]
         \/ /\ px.phase[w] = "sent" /\ px'.phase[w] = "done" /\ \A v \in Workers \ {w} : px'.phase[v] = px.phase[v]
            /\ px.worker[w].child = c /\ px'.child[c].state = "signalled"
  BY <1>1, Resumed, RepliedSound
<1>3. \A e \in Children : px'.child[e].owner = px.child[e].owner /\ px.child[e].owner \in Workers
                          /\ (px'.child[e].state \in Live => px.child[e].state \in Live)
                          /\ (px'.child[e].state # "none" => px.child[e].state # "none")
  BY <1>1, <1>2, Fields DEF Live
<1>4. CASE \A v \in Workers : px'.phase[v] = px.phase[v]
  <2>1. \A e \in Children : MetChild(px, e) => MetChild(px', e)
    BY <1>2, <1>3, <1>4 DEF MetChild
  <2> QED
    BY <1>1, <1>2, <1>3, <1>4, <2>1, Unseen
<1>5. CASE /\ px.phase[w] = "sent" /\ px'.phase[w] = "done" /\ \A v \in Workers \ {w} : px'.phase[v] = px.phase[v]
           /\ px.worker[w].child = c /\ px'.child[c].state = "signalled"
  <2>1. ASSUME NEW e \in Children, MetChild(px, e) PROVE MetChild(px', e)
    <3>1. CASE px.child[e].owner # w
      BY <1>2, <1>3, <1>5, <2>1, <3>1 DEF MetChild
    <3>2. CASE e = c
      BY <1>5, <3>2 DEF MetChild, Live
    <3>3. CASE px.child[e].owner = w /\ e # c /\ px.worker[w].raced = TRUE
      BY <1>2, <1>3, <3>3 DEF MetChild
    <3>4. CASE px.child[e].owner = w /\ e # c /\ px.worker[w].raced = FALSE
      <4>1. Calm(px, w) /\ c # 0
        BY <1>1, <1>2, <3>4, Numbers DEF Sound, WorkerOk
      <4>2. px.child[e].state \notin Live
        BY <1>5, <3>4, <4>1 DEF Calm, Live
      <4> QED
        BY <1>3, <4>2 DEF MetChild
    <3>5. px.worker[w].raced \in BOOLEAN
      BY <1>1, <1>2, Fields
    <3> QED
      BY <3>1, <3>2, <3>3, <3>4, <3>5
  <2>2. px.phase[w] \in Open
    BY <1>5 DEF Open
  <2> QED
    BY <1>1, <1>2, <1>5, <2>1, <2>2, KillMoves
<1> QED
  BY <1>2, <1>4, <1>5

LEMMA KillRefusedInv == ASSUME ProxyInv, NEW c \in Children, KillRefused(c) PROVE ProxyInv'
<1> DEFINE w == px.child[c].owner
           r == [px.worker[w] EXCEPT !.pool = @ \ {w}]
           d == [px.child[c] EXCEPT !.inbox = @ \ {w}]
<1>1. /\ px \in ProxyStates /\ Sound(px) /\ px.child[c].state = "alive" /\ px.worker[w].child = c
      /\ w \in px.child[c].inbox /\ w \in Workers
      /\ px' = Refused(px, c) /\ UNCHANGED <<proxyUsage, pools, closing, late>>
  BY Fields DEF ProxyInv, Sound, KillRefused
<1>2. Sound(px') /\ px.phase[w] = "sent" /\ Changes(px', px, w, r, c, d, w, "failed")
  BY <1>1, RefusedSound
<1>3. d.owner = w /\ d.state = "alive" /\ r.raced = px.worker[w].raced /\ r.waits = px.worker[w].waits
  <2>1. px.child[c] \in ChildRecords /\ px.worker[w] \in WorkerRecords
    BY <1>1, Fields
  <2> QED
    BY <1>1, <2>1 DEF ChildRecords, WorkerRecords
<1> HIDE DEF w, r, d
<1>4. /\ px'.phase[w] = "failed" /\ \A v \in Workers \ {w} : px'.phase[v] = px.phase[v]
      /\ \A e \in Children : px'.child[e].owner = px.child[e].owner /\ px'.child[e].state = px.child[e].state
      /\ \A v \in Workers : px'.worker[v].raced = px.worker[v].raced /\ px'.worker[v].waits = px.worker[v].waits
  <2>1. w # 0 /\ px.child[c].owner = w
    BY <1>1, Numbers DEF w
  <2> QED
    BY <1>1, <1>2, <1>3, <2>1, Numbers DEF Changes
<1>5. ASSUME NEW e \in Children, MetChild(px, e) PROVE MetChild(px', e)
  <2>1. px.child[e].owner \in Workers
    BY <1>1, Fields
  <2> QED
    BY <1>4, <1>5, <2>1 DEF MetChild
<1>6. px.phase[w] \in Open
  BY <1>2 DEF Open
<1> QED
  BY <1>1, <1>2, <1>4, <1>5, <1>6, KillMoves

LEMMA ForkedInv == ASSUME ProxyInv, NEW c \in Children, Forked(c) PROVE ProxyInv'
<1> DEFINE w == px.child[c].owner
           k == px.child[c].by
           r == [px.worker[w] EXCEPT !.child = c, !.spawnPromise = 0, !.queue = {},
                                     !.pool = px.worker[w].pool \cup px.worker[w].queue]
           d == [px.child[c] EXCEPT !.state = "alive", !.heard = TRUE, !.inbox = px.worker[w].queue]
<1>1. /\ px \in ProxyStates /\ Sound(px) /\ px.child[c].state = "forking"
      /\ px' = Connected(px, c) /\ UNCHANGED <<proxyUsage, pools, closing, late>>
  BY DEF ProxyInv, Sound, Forked
<1>2. Sound(px') /\ w \in Workers /\ k \in Commands \cup {0} /\ Changes(px', px, w, r, c, d, k, "forked")
  BY <1>1, ConnectedSound
<1>3. d.owner = w /\ d.state = "alive" /\ r.raced = px.worker[w].raced /\ r.waits = px.worker[w].waits
  <2>1. px.child[c] \in ChildRecords /\ px.worker[w] \in WorkerRecords
    BY <1>1, <1>2, Fields
  <2> QED
    BY <2>1 DEF ChildRecords, WorkerRecords
<1>4. r.raced = FALSE => px.worker[w].raced = FALSE
  BY <1>3
<1>5. px.child[c].state \in Live /\ d.owner = px.child[c].owner
  BY <1>1, <1>3 DEF Live
<1> HIDE DEF w, r, d, k
<1>6. MetKept(px', px)
  BY <1>1, <1>2, <1>3, <1>4, <1>5, MetChanges
<1>7. \A e \in Children : px'.child[e].state # "none" => px.child[e].state # "none"
  BY <1>1, <1>2 DEF Changes
<1> QED
  BY <1>1, <1>2, <1>6, <1>7, Unseen DEF MetKept

LEMMA ForkFailedInv == ASSUME ProxyInv, NEW c \in Children, ForkFailed(c) PROVE ProxyInv'
<1> DEFINE w == px.child[c].owner
           k == px.child[c].by
           d == [px.child[c] EXCEPT !.state = "failed"]
<1>1. /\ px \in ProxyStates /\ Sound(px) /\ px.child[c].state = "forking"
      /\ px' = IF k = 0 THEN ForkFails(px, c) ELSE Settle(ForkFails(px, c), k, "failed")
      /\ UNCHANGED <<proxyUsage, pools, closing, late>>
  BY DEF ProxyInv, Sound, ForkFailed, ForkFails
<1>2. Sound(px') /\ w \in Workers /\ k \in Commands \cup {0}
      /\ Changes(px', px, w, px.worker[w], c, d, k, "failed")
  <2>1. PICK j : j = k
    OBVIOUS
  <2> HIDE DEF k
  <2>2. j = px.child[c].by /\ px' = IF j = 0 THEN ForkFails(px, c) ELSE Settle(ForkFails(px, c), j, "failed")
    BY <1>1, <2>1 DEF k
  <2>3. Sound(px') /\ w \in Workers /\ j \in Commands \cup {0}
        /\ Changes(px', px, w, px.worker[w], c, d, j, "failed")
    BY <1>1, <2>2, FailedSound
  <2> QED
    BY <2>1, <2>3
<1>3. d.owner = w /\ d.state = "failed"
  <2>1. px.child[c] \in ChildRecords
    BY <1>1, Fields
  <2> QED
    BY <2>1 DEF ChildRecords
<1>4. d.state \in Live => px.child[c].state \in Live
  BY <1>3 DEF Live
<1>5. d.owner = px.child[c].owner
  BY <1>3
<1> HIDE DEF w, d, k
<1>6. MetKept(px', px)
  BY <1>1, <1>2, <1>4, <1>5, MetChanges
<1>7. \A e \in Children : px'.child[e].state # "none" => px.child[e].state # "none"
  BY <1>1, <1>2 DEF Changes
<1> QED
  BY <1>1, <1>2, <1>6, <1>7, Unseen DEF MetKept

LEMMA CrashInv == ASSUME ProxyInv, NEW c \in Children, Crash(c) PROVE ProxyInv'
<1> DEFINE w == px.child[c].owner
<1>1. /\ px \in ProxyStates /\ Sound(px) /\ w \in Workers /\ TurnOver /\ c # LocalChild
      /\ px.child[c].state \in {"alive", "signalled"} /\ px.child[c].heard \in BOOLEAN
      /\ UNCHANGED <<proxyUsage, pools, closing, late>>
      /\ px.child[c].by # 0 => px.phase[px.child[c].by] # "forked"
  BY Resumed, Fields DEF ProxyInv, Sound, Crash
<1>2. CASE px.child[c].heard = FALSE
  <2> DEFINE d == [px.child[c] EXCEPT !.state = "exited", !.inbox = {}]
  <2>1. px' = Gone(px, c)
    BY <1>2 DEF Crash, Gone
  <2>2. Sound(px') /\ Changes(px', px, w, px.worker[w], c, d, 0, "new")
    BY <1>1, <1>2, <2>1, GoneSound
  <2>3. d.owner = px.child[c].owner /\ d.state = "exited"
    <3>1. px.child[c] \in ChildRecords
      BY <1>1, Fields
    <3> QED
      BY <3>1 DEF ChildRecords
  <2>4. d.state \in Live => px.child[c].state \in Live
    BY <2>3 DEF Live
  <2>5. 0 \in Commands \cup {0}
    OBVIOUS
  <2> HIDE DEF w, d
  <2>6. MetKept(px', px)
    BY <1>1, <2>2, <2>3, <2>4, <2>5, MetChanges
  <2>7. \A e \in Children : px'.child[e].state # "none" => px.child[e].state # "none"
    BY <1>1, <2>2 DEF Changes
  <2> QED
    BY <1>1, <2>2, <2>6, <2>7, Unseen DEF MetKept
<1>3. CASE px.child[c].heard = TRUE
  <2>1. PICK e \in Fresh(px) : px' = Respawn(px, w, c, e)
    BY <1>3 DEF Crash, Respawn, Gone
  <2>2. e \in Children /\ px.child[e].state = "none"
    BY <2>1 DEF Fresh
  <2>3. /\ Sound(px') /\ \A k \in All : px'.phase[k] = px.phase[k]
        /\ px'.child[c].state = "exited" /\ px'.child[c].owner = w
        /\ px'.child[e].state = "forking" /\ px'.child[e].owner = w
        /\ \A f \in Children \ {c, e} : px'.child[f] = px.child[f]
        /\ \A v \in Workers \ {w} : px'.worker[v] = px.worker[v]
        /\ px'.worker[w].raced = FALSE =>
             px.worker[w].raced = FALSE /\ px.child[c].state = "alive" /\ px.phase[w] # "sent"
    <3>1. Sound(px') /\ Respawned(px', px, w, c, e)
      BY <1>1, <1>3, <2>1, <2>2, RespawnSound
    <3> QED
      BY <3>1 DEF Respawned
  <2>4. \A v \in Workers : px'.phase[v] = px.phase[v]
    BY <2>3, Numbers
  <2>5. Pools' /\ Caught'
    BY <1>1, <2>4 DEF ProxyInv, Pools, Caught, pools
  <2>6. InUse'
    <3> SUFFICES ASSUME closing = "none", NEW f \in Children \ {LocalChild}, px'.child[f].state # "none"
                 PROVE  ~local /\ px'.child[f].owner \in Range(workersPool)
      BY <1>1, <2>4 DEF ProxyInv, InUse, pools, proxyUsage
    <3>1. \A g \in Children \ {LocalChild} :
            px.child[g].state # "none" => ~local /\ px.child[g].owner \in Range(workersPool)
      BY DEF ProxyInv, InUse
    <3>2. ~local /\ w \in Range(workersPool)
      BY <1>1, <3>1
    <3>3. px'.child[f].owner = w \/ px'.child[f] = px.child[f]
      BY <2>3
    <3> QED
      BY <3>1, <3>2, <3>3
  <2>7. Met'
    <3> SUFFICES ASSUME closing # "none", ~late, NEW f \in Children \ {LocalChild} PROVE MetChild(px', f)
      BY <1>1 DEF Met
    <3>1. \A g \in Children \ {LocalChild} : MetChild(px, g)
      BY DEF ProxyInv, Met
    <3>2. ASSUME px'.worker[w].raced = FALSE PROVE px.phase[w] \notin {"new", "done", "wait"}
      <4>1. px.child[c].state \in Live /\ px.worker[w].raced = FALSE /\ px.child[c].state = "alive"
        BY <2>3, <3>2 DEF Live
      <4>2. px.phase[w] \notin {"new", "done"} /\ (px.phase[w] = "wait" => px.worker[w].waits = c)
        BY <1>1, <3>1, <4>1 DEF MetChild
      <4>3. px.phase[w] = "wait" => px.child[px.worker[w].waits].state \in {"forking", "failed"}
        BY <1>1 DEF TurnOver
      <4> QED
        BY <4>1, <4>2, <4>3
    <3>3. CASE px'.child[f].owner = w
      BY <1>1, <2>4, <3>2, <3>3 DEF MetChild
    <3>4. CASE px'.child[f].owner # w
      <4>1. px'.child[f] = px.child[f] /\ px.child[f].owner \in Workers
        BY <1>1, <2>3, <3>4, Fields
      <4>2. px'.worker[px.child[f].owner] = px.worker[px.child[f].owner]
        BY <2>3, <3>4, <4>1
      <4>3. MetChild(px, f)
        BY <3>1
      <4> QED
        BY <2>4, <4>1, <4>2, <4>3 DEF MetChild
    <3> QED
      BY <3>3, <3>4
  <2> QED
    BY <2>3, <2>5, <2>6, <2>7 DEF ProxyInv
<1> QED
  BY <1>1, <1>2, <1>3

\* What a killed worker leaves: a child of it that is left has been asked for.
LEMMA KilledMet ==
  ASSUME NEW s, Sound(s), NEW ws \in SUBSET Workers, NEW t, Killed(t, s, ws), NEW c \in Children,
         s.child[c].owner \in ws,
         s.child[c].state = "forking" /\ s.worker[s.child[c].owner].spawnPromise = c =>
           Waiting(t, s, s.child[c].owner)
  PROVE  MetChild(t, c)
<1> DEFINE w == s.child[c].owner
           b == s.worker[w].child
<1>1. s \in ProxyStates /\ w \in Workers /\ WorkerOk(s, w) /\ c # 0 /\ s.worker[w] \in WorkerRecords
      /\ b \in Children \cup {0}
  BY Fields, Numbers DEF Sound
<1>2. t.child[c].state = s.child[c].state /\ t.child[c].owner = w
  <2>1. Child(t, s, c)
    BY KilledChildren
  <2> QED
    BY <2>1 DEF Child
<1>3. Commanded(t, s, w) \/ Waiting(t, s, w)
  BY DEF Killed
<1>4. t.worker[w].raced = s.worker[w].raced
  BY <1>1, <1>3 DEF Commanded, Waiting, WorkerRecords
<1> SUFFICES ASSUME t.child[c].state \in Live, s.worker[w].raced = FALSE
             PROVE  t.phase[w] \notin {"new", "done"} /\ (t.phase[w] = "wait" => t.worker[w].waits = c)
  BY <1>2, <1>4 DEF MetChild
<1>5. Calm(s, w) /\ (s.worker[w].spawnPromise # 0 => b = 0)
  BY <1>1 DEF WorkerOk
<1>6. \/ s.child[c].state = "alive" /\ b = c
      \/ s.child[c].state = "forking" /\ b = 0 /\ s.worker[w].spawnPromise = c
  BY <1>2, <1>5 DEF Calm, Live
<1>7. CASE Waiting(t, s, w)
  <2>1. t.phase[w] = "wait" /\ t.worker[w].waits = s.worker[w].spawnPromise /\ s.worker[w].spawnPromise # 0
    BY <1>1, <1>7 DEF Waiting, WorkerRecords
  <2> HIDE DEF w, b
  <2> QED
    BY <1>1, <1>5, <1>6, <2>1
<1>8. CASE Commanded(t, s, w) /\ b # 0
  <2>1. t.phase[w] = "sent"
    BY <1>8 DEF Commanded
  <2> QED
    BY <2>1
<1>9. CASE b = 0
  <2>1. Waiting(t, s, w)
    BY <1>1, <1>6, <1>9
  <2> QED
    BY <1>7, <2>1
<1> QED
  BY <1>3, <1>7, <1>8, <1>9

LEMMA KillAllInv == ASSUME ProxyInv, KillAll PROVE ProxyInv'
<1> DEFINE ws == IF local THEN {LocalWorker} ELSE Range(workersPool)
<1>1. /\ closing = "none" /\ closing' = "waiting" /\ px' = KillWorkers(ws) /\ UNCHANGED <<proxyUsage, pools, late>>
      /\ Sound(px)
  BY DEF ProxyInv, KillAll
<1>2. ws \in SUBSET Workers
  <2>1. Range(workersPool) \subseteq Workers
    BY DEF ProxyInv, Pools, Range
  <2> QED
    BY <2>1, Numbers
<1>3. /\ \A w \in Workers : px.phase[w] = "new"
      /\ \A c \in Children \ {LocalChild} : px.child[c].state # "none" => px.child[c].owner \in ws
  BY <1>1 DEF ProxyInv, InUse
<1> HIDE DEF ws
<1>4. Killed(px', px, ws) /\ \A w \in ws : px.worker[w].spawnPromise # 0 => Waiting(px', px, w)
  <2>1. \A w \in ws : px.phase[w] # "sent"
    BY <1>2, <1>3
  <2> QED
    BY <1>1, <1>2, <2>1, KillsFacts
<1>5. Sound(px')
  BY <1>1, <1>2, <1>4, KilledSound
<1>6. Pools'
  BY <1>1 DEF ProxyInv, Pools, pools
<1>7. ASSUME NEW c \in Children \ {LocalChild} PROVE MetChild(px', c)
  <2>1. CASE px.child[c].state = "none"
    <3>1. Child(px', px, c)
      BY <1>1, <1>2, <1>4, KilledChildren
    <3> QED
      BY <2>1, <3>1 DEF Child, MetChild, Live
  <2>2. CASE px.child[c].state # "none"
    <3>1. px.child[c].owner \in ws /\ c # 0
      BY <1>3, <2>2, Numbers
    <3>2. px.worker[px.child[c].owner].spawnPromise = c => Waiting(px', px, px.child[c].owner)
      BY <1>4, <3>1
    <3> QED
      BY <1>1, <1>2, <1>4, <3>1, <3>2, KilledMet
  <2> QED
    BY <2>1, <2>2
<1> QED
  BY <1>1, <1>5, <1>6, <1>7 DEF ProxyInv, InUse, Met, Caught

LEMMA KillGoesOnInv == ASSUME ProxyInv, NEW w \in Workers, KillGoesOn(w) PROVE ProxyInv'
<1>1. /\ px.phase[w] = "wait" /\ px.child[px.worker[w].waits].state \notin {"forking", "failed"}
      /\ px' = KillCommand(px, w) /\ UNCHANGED <<proxyUsage, pools, closing, late>>
      /\ Sound(px) /\ px \in ProxyStates /\ WorkerOk(px, w)
  BY DEF ProxyInv, KillGoesOn, Sound
<1>2. Killed(px', px, {w}) /\ Commanded(px', px, w)
  BY <1>1, KillCommandKilled
<1>3. Sound(px') /\ {w} \in SUBSET Workers
  BY <1>1, <1>2, KilledSound
<1>4. px'.phase[w] \in {"sent", "done", "failed"} /\ \A v \in Workers \ {w} : px'.phase[v] = px.phase[v]
  BY <1>2 DEF Killed, Commanded, Untouched
<1>5. ASSUME closing # "none", ~late, NEW c \in Children \ {LocalChild}, MetChild(px, c) PROVE MetChild(px', c)
  <2>1. Child(px', px, c) /\ px.child[c].owner \in Workers
        /\ (px.child[c].owner # w => px'.child[c] = px.child[c])
    <3>1. Child(px', px, c) /\ (px.child[c].owner \notin {w} => px'.child[c] = px.child[c])
      BY <1>1, <1>2, <1>3, KilledChildren
    <3>2. px.child[c].owner \in Workers
      BY <1>1, Fields
    <3> QED
      BY <3>1, <3>2
  <2>2. CASE px.child[c].owner # w
    <3>1. Untouched(px', px, px.child[c].owner)
      BY <1>2, <2>1, <2>2 DEF Killed
    <3> QED
      BY <1>5, <2>1, <2>2, <3>1 DEF MetChild, Untouched
  <2>3. CASE px.child[c].owner = w /\ px.worker[w].raced = TRUE
    <3>1. px'.worker[w].raced = TRUE
      <4>1. px.worker[w] \in WorkerRecords
        BY <1>1, Fields
      <4> QED
        BY <1>2, <2>3, <4>1 DEF Commanded, WorkerRecords
    <3> QED
      BY <2>1, <2>3, <3>1 DEF Child, MetChild
  <2>4. CASE px.child[c].owner = w /\ px.worker[w].raced = FALSE
    <3>1. px.child[c].state # "forking"
      BY <1>1, <1>5, <2>4 DEF MetChild, Live
    <3> QED
      BY <1>1, <1>2, <1>3, <2>4, <3>1, KilledMet
  <2>5. px.worker[w].raced \in BOOLEAN
    BY <1>1, Fields
  <2> QED
    BY <2>2, <2>3, <2>4, <2>5
<1>6. px.phase[w] \in Open
  BY <1>1 DEF Open
<1> QED
  BY <1>1, <1>3, <1>4, <1>5, <1>6, KillMoves

LEMMA AllKilledInv == ASSUME ProxyInv, AllKilled PROVE ProxyInv'
<1>1. /\ closing = "waiting" /\ closing' = "done" /\ UNCHANGED <<proxyUsage, px, late>>
      /\ workersPool' = <<>> /\ lastWorkerIndex' = -1 /\ applicantWorkerMap' = [a \in Applicants |-> 0]
      /\ (\E w \in Workers : px.phase[w] = "failed") \/ \A w \in Workers : px.phase[w] \notin Open
  BY DEF AllKilled
<1>2. Pools'
  <2>1. <<>> \in Seq(Workers)
    OBVIOUS
  <2> QED
    BY <1>1, <2>1 DEF Pools
<1>3. Sound(px') /\ InUse' /\ Caught'
  BY <1>1 DEF ProxyInv, InUse, Caught
<1>4. Met'
  BY <1>1 DEF ProxyInv, Met
<1> QED
  BY <1>2, <1>3, <1>4 DEF ProxyInv

LEMMA ProxyInvNext == ASSUME ProxyInv, [ProxyNext]_proxyVars PROVE ProxyInv'
<1>1. CASE UNCHANGED proxyVars
  BY <1>1 DEF proxyVars, pools, proxyUsage, ProxyInv, Pools, InUse, Met, Caught
<1>2. CASE ProxyProgress
  BY <1>2, ReplyInv, KillRefusedInv, ForkedInv, ForkFailedInv, ResumeInv, KillGoesOnInv, AllKilledInv
     DEF ProxyProgress
<1>3. CASE \E k \in Commands : Ask(k) \/ AskLocal(k) \/ AskTooLate(k)
  BY <1>3, AskInv, AskLocalInv, AskTooLateInv
<1>4. CASE \E c \in Children : Crash(c)
  BY <1>4, CrashInv
<1>5. CASE KillAll
  BY <1>5, KillAllInv
<1> QED
  BY <1>1, <1>2, <1>3, <1>4, <1>5 DEF ProxyNext

\* The two properties.
LEMMA ProxyInvMeans == ASSUME ProxyInv PROVE PendingAtChild /\ NoChildLeft
<1>1. px \in ProxyStates
  BY DEF ProxyInv, Sound
<1>2. PendingAtChild
  <2> SUFFICES ASSUME NEW w \in Workers, ~px.worker[w].raced
               PROVE  /\ \A c \in Children :
                           px.child[c].owner = w /\ px.child[c].state = "alive" => px.worker[w].child = c
                      /\ px.phase[w] = "new" =>
                           IF px.worker[w].child # 0
                           THEN px.worker[w].queue = {} /\ px.worker[w].pool = px.child[px.worker[w].child].inbox
                           ELSE /\ px.worker[w].pool = {}
                                /\ px.worker[w].queue # {} =>
                                     \E c \in Children : px.child[c].owner = w
                                                         /\ px.child[c].state \in {"forking", "failed"}
    BY Zenon DEF PendingAtChild
  <2>1. px.worker[w].raced = FALSE
    BY <1>1, Fields
  <2>2. Calm(px, w) /\ (px.worker[w].child # 0 => px.worker[w].queue = {})
    BY <2>1 DEF ProxyInv, Sound, WorkerOk
  <2> QED
    BY <2>2 DEF Calm
<1>3. NoChildLeft
  <2> SUFFICES ASSUME closing = "done", ~late, NEW c \in Children \ {LocalChild},
                      px.child[c].state \in {"forking", "alive"},
                      ~px.worker[px.child[c].owner].raced, px.child[c].owner \notin Refusals
               PROVE  Refusals # {} /\ px.phase[px.child[c].owner] \in Open
    BY Zenon DEF NoChildLeft
  <2> DEFINE w == px.child[c].owner
  <2>1. w \in Workers /\ px.worker[w].raced = FALSE /\ px.phase[w] \in PhaseNames
    BY <1>1, Fields, Numbers
  <2>2. MetChild(px, c) /\ px.child[c].state \in Live
    BY DEF ProxyInv, Met, Live
  <2>3. px.phase[w] \notin {"new", "done", "failed"}
    BY <2>1, <2>2 DEF MetChild, Refusals
  <2>4. px.phase[w] \in Open
    BY <2>1, <2>3 DEF Open, PhaseNames
  <2>5. \E v \in Workers : px.phase[v] = "failed"
    BY <2>1, <2>4 DEF ProxyInv, Caught
  <2> QED
    BY <2>4, <2>5 DEF Refusals
<1> QED
  BY <1>2, <1>3

\* No command that is pending in a browser proxy is lost, whatever exits and is forked
\* in between, and no child outlives kill() unless a worker refused the kill command,
\* was asked for a child twice in one turn, or is asked for commands after kill():
\* PendingAtChild and NoChildLeft.
THEOREM CommandsAreKept == BrowserSpec => []ProxyKeeps
<1> DEFINE Inv == part = "proxy" => ProxyInv
<1>1. BrowserInit => Inv
  BY ProxyInvInit DEF BrowserInit
<1>2. Inv /\ [BrowserNext]_browserVars => Inv'
  <2> SUFFICES ASSUME Inv, [BrowserNext]_browserVars, (part = "proxy")' PROVE ProxyInv'
    OBVIOUS
  <2>1. part' = part /\ [ProxyNext]_proxyVars
    BY DEF BrowserNext, browserVars, OfProxy, OfSessions, OfApp, OfTabs, proxyVars
  <2> QED
    BY <2>1, ProxyInvNext
<1>3. Inv => ProxyKeeps
  BY ProxyInvMeans DEF ProxyKeeps
<1> QED
  BY <1>1, <1>2, <1>3, PTL DEF BrowserSpec

-----------------------------------------------------------------------------
(* The sessions of the driver                                              *)

CallRecords ==
  [pc : Over \cup {"loop", "create", "remote", "use", "drop", "redo", "end", "delete", "forget"},
   who : SessionUsers, client : 0..MaxSessions, visited : SUBSET SessionUsers,
   kind : Kinds \cup {"expire"}, then : {"use", "delete", "done"}]

\* The open sessions that were opened for the applicant a.
OpenOf(a) == {s \in Sessions : session[s] = "open" /\ opener[s] = a}

\* SessionsKept when the server does not reject.
Held == \A a \in SessionUsers \ crossed : OpenOf(a) \subseteq {browserClients[a]}

\* What a call knows of the sessions of its applicant, while none is opened beside it:
\* there is nothing to replace when remote() answers, and what it forgets has been closed.
Knows(r) ==
  /\ r.pc = "drop" => r.kind = "emulate"
  /\ r.who \notin crossed =>
       /\ r.pc = "remote" => browserClients[r.who] = 0
       /\ r.pc \in {"redo", "forget"} => OpenOf(r.who) = {}
       /\ r.pc \in {"use", "drop"} /\ r.kind = "emulate" => OpenOf(r.who) \subseteq {r.client}

\* kill() goes over the map with the flag set: what creates a session since then is in raced.
Killing == {"loop", "end", "delete", "forget"}
Creating == {o \in Calls : op[o].pc \in {"create", "remote"}}
KillsSince ==
  /\ op[KillOp].pc \in Killing \cup {"idle", "done"}
  /\ op[KillOp].pc = "idle" => op[KillOp].visited = {}
  /\ op[KillOp].pc # "idle" => killed /\ Creating \subseteq raced

\* What it has visited and left in the map is closed, the session it is at excepted.
At(a) == op[KillOp].pc # "loop" /\ op[KillOp].who = a
Visits ==
  op[KillOp].pc \in Killing =>
    \A a \in op[KillOp].visited \ crossed : browserClients[a] # 0 /\ (At(a) \/ OpenOf(a) = {})

\* After it a session is open only if its creation was under way when kill() began, and
\* has ended.
OpenSessions == {s \in Sessions : session[s] = "open" /\ opener[s] \notin crossed}
CreationsOver == raced \ Creating
KillLeaves == op[KillOp].pc = "done" => Cardinality(OpenSessions) <= Cardinality(CreationsOver)

Tracked == Held /\ Visits /\ KillLeaves /\ \A o \in Calls : Knows(op[o])

DriverInv == SessionsTypeOK /\ KillsSince /\ (~rejects => Tracked)

\* The records a step of a method may leave.
LEMMA EndedRecord ==
  ASSUME NEW how \in Over \cup {"loop"}
  PROVE  /\ Ended(how) \in CallRecords /\ Ended(how).pc = how /\ Ended(how).visited = {}
<1>1. \E a \in SessionUsers : TRUE
  BY SessionsAssumption
<1>2. Nobody \in SessionUsers
  BY <1>1, Zenon DEF Nobody
<1>3. 0 \in 0..MaxSessions
  BY SessionsAssumption
<1> QED
  BY <1>2, <1>3 DEF Ended, CallRecords, Kinds, Over

\* The end of a method.
LEMMA FinishRecord ==
  ASSUME SessionsTypeOK, NEW o \in Calls, NEW how \in {"done", "failed"}
  PROVE  /\ Finish(o, how) \in CallRecords
         /\ o # KillOp => Finish(o, how).pc = how
         /\ o = KillOp => Finish(o, how).pc = "loop" /\ Finish(o, how).visited = op[o].visited
<1>1. op[o].visited \in SUBSET SessionUsers
  BY DEF SessionsTypeOK
<1>2. how \in Over /\ "loop" \in Over \cup {"loop"}
  BY DEF Over
<1>3. Ended(how) \in CallRecords /\ Ended(how).pc = how
  BY <1>2, EndedRecord
<1>4. Ended("loop") \in CallRecords /\ Ended("loop").pc = "loop"
  BY <1>2, EndedRecord
<1> QED
  BY <1>1, <1>3, <1>4 DEF Finish, CallRecords

\* Where createClient() and what follows it lead a call.
LEMMA CreateClientRecord ==
  ASSUME SessionsTypeOK, NEW o \in Ops, NEW then \in {"use", "delete", "done"},
         NEW r, r = CreateClient(o, then)
  PROVE  /\ r \in CallRecords
         /\ r.pc \in {"create", "delete", "failed"}
         /\ r.pc = "create" => ~killed
<1>1. o \in Calls /\ o # KillOp /\ op[o] \in CallRecords
  BY SessionsAssumption DEF Calls, SessionsTypeOK, CallRecords
<1>2. Finish(o, "failed") \in CallRecords /\ Finish(o, "failed").pc = "failed"
  BY <1>1, FinishRecord
<1> QED
  BY <1>1, <1>2 DEF CreateClient, CallRecords

\* createClient() has found or opened a session.
LEMMA CreatedRecord ==
  ASSUME SessionsTypeOK, NEW o \in Ops, NEW s \in Sessions, NEW r, r = Created(o, s)
  PROVE  /\ r \in CallRecords
         /\ r.pc \in {"use", "delete", "done"}
         /\ r.pc = "use" /\ r.kind = "emulate" => r.client = s /\ r.who = op[o].who
<1>1. o \in Calls /\ o # KillOp /\ op[o] \in CallRecords /\ s \in 0..MaxSessions
  BY SessionsAssumption DEF Calls, SessionsTypeOK, CallRecords, Sessions
<1>2. Finish(o, "done") \in CallRecords /\ Finish(o, "done").pc = "done"
  BY <1>1, FinishRecord
<1> DEFINE c == IF op[o].kind = "emulate" THEN s ELSE 0
<1>3. c \in 0..MaxSessions
  BY <1>1, SessionsAssumption
<1>4. CASE op[o].then = "use"
  BY <1>1, <1>3, <1>4 DEF Created, CallRecords
<1>5. CASE op[o].then = "delete"
  BY <1>1, <1>5 DEF Created, CallRecords
<1> QED
  BY <1>2, <1>4, <1>5 DEF Created

\* createClient() has failed.
LEMMA NotCreatedRecord ==
  ASSUME SessionsTypeOK, NEW o \in Ops, NEW r, r = NotCreated(o)
  PROVE  r \in CallRecords /\ r.pc \in {"delete", "failed"}
<1>1. o \in Calls /\ o # KillOp /\ op[o] \in CallRecords
  BY SessionsAssumption DEF Calls, SessionsTypeOK, CallRecords
<1>2. Finish(o, "failed") \in CallRecords /\ Finish(o, "failed").pc = "failed"
  BY <1>1, FinishRecord
<1> QED
  BY <1>1, <1>2 DEF NotCreated, CallRecords

\* A step of one call leaves the others where they are.
Leaves(o, r) == op' \in [Calls -> CallRecords] /\ op'[o] = r /\ \A p \in Calls \ {o} : op'[p] = op[p]

\* A step changes one call.
LEMMA StepFacts ==
  ASSUME SessionsTypeOK, NEW o \in Calls, NEW r \in CallRecords, Step(o, r)
  PROVE  Leaves(o, r) /\ expired' \in SUBSET SessionUsers
<1>1. op \in [Calls -> CallRecords] /\ expired \in SUBSET SessionUsers
  BY DEF SessionsTypeOK, CallRecords
<1>2. op[o].who \in SessionUsers
  BY <1>1 DEF CallRecords
<1> QED
  BY <1>1, <1>2 DEF Step, Marked, Leaves

\* Fewer on the left, more on the right.
LEMMA Counted ==
  ASSUME NEW A, NEW B \in SUBSET A, NEW D, NEW C \in SUBSET D, IsFiniteSet(A), IsFiniteSet(D),
         Cardinality(A) <= Cardinality(C)
  PROVE  Cardinality(B) <= Cardinality(D)
<1>1. IsFiniteSet(B) /\ Cardinality(B) <= Cardinality(A)
  BY FS_Subset
<1>2. IsFiniteSet(C) /\ Cardinality(C) <= Cardinality(D)
  BY FS_Subset
<1>3. /\ Cardinality(A) \in Nat /\ Cardinality(B) \in Nat
      /\ Cardinality(C) \in Nat /\ Cardinality(D) \in Nat
  BY <1>1, <1>2, FS_CardinalityType
<1> QED
  BY <1>1, <1>2, <1>3

\* There are finitely many sessions and creations.
LEMMA FiniteSessions ==
  ASSUME SessionsTypeOK
  PROVE  IsFiniteSet(OpenSessions) /\ IsFiniteSet(CreationsOver)
<1>1. IsFiniteSet(Sessions)
  BY SessionsAssumption, FS_Interval DEF Sessions
<1>2. IsFiniteSet(Calls)
  BY SessionsAssumption, FS_AddElement DEF Calls
<1>3. OpenSessions \in SUBSET Sessions /\ CreationsOver \in SUBSET Calls
  BY DEF OpenSessions, CreationsOver, SessionsTypeOK
<1> QED
  BY <1>1, <1>2, <1>3, FS_Subset
LEMMA FiniteCreations == ASSUME SessionsTypeOK' PROVE IsFiniteSet(CreationsOver')
<1>1. IsFiniteSet(Calls)
  BY SessionsAssumption, FS_AddElement DEF Calls
<1>2. CreationsOver' \in SUBSET Calls
  BY DEF CreationsOver, SessionsTypeOK
<1> QED
  BY <1>1, <1>2, FS_Subset

\* Without a new session the count of those that kill() leaves stays right.
LEMMA LeavesNoMore ==
  ASSUME SessionsTypeOK, SessionsTypeOK', KillLeaves, op'[KillOp].pc = "done" => op[KillOp].pc = "done",
         OpenSessions' \subseteq OpenSessions, CreationsOver \subseteq CreationsOver'
  PROVE  KillLeaves'
<1> SUFFICES ASSUME op'[KillOp].pc = "done"
             PROVE  Cardinality(OpenSessions') <= Cardinality(CreationsOver')
  BY DEF KillLeaves
<1>1. Cardinality(OpenSessions) <= Cardinality(CreationsOver)
  BY DEF KillLeaves
<1>2. IsFiniteSet(OpenSessions) /\ IsFiniteSet(CreationsOver')
  BY FiniteSessions, FiniteCreations
<1>3. OpenSessions' \in SUBSET OpenSessions /\ CreationsOver \in SUBSET CreationsOver'
  OBVIOUS
<1> QED
  BY <1>1, <1>2, <1>3, Counted

\* A step that opens no session and leaves the map alone.
Closing ==
  /\ session' \in [Sessions -> {"none", "open", "closed"}]
  /\ \A s \in Sessions : session'[s] = "open" => session[s] = "open"
Rests == Closing /\ UNCHANGED <<sessionModes, ready, browserClients, killed, raced, ghosts>>

LEMMA RestsFacts ==
  ASSUME Rests
  PROVE  /\ \A a : OpenOf(a)' \subseteq OpenOf(a)
         /\ OpenSessions' \subseteq OpenSessions
         /\ browserClients' = browserClients /\ crossed' = crossed /\ opener' = opener
         /\ killed' = killed /\ raced' = raced /\ rejects' = rejects
         /\ Held => Held'
         /\ \A r : Knows(r) => Knows(r)'
<1>1. /\ browserClients' = browserClients /\ crossed' = crossed /\ opener' = opener
      /\ killed' = killed /\ raced' = raced /\ rejects' = rejects
  BY DEF Rests, ghosts, sessionModes
<1>2. \A a : OpenOf(a)' \subseteq OpenOf(a)
  BY <1>1 DEF OpenOf, Rests, Closing
<1>3. OpenSessions' \subseteq OpenSessions
  BY <1>1 DEF OpenSessions, Rests, Closing
<1>4. Held => Held'
  BY <1>1, <1>2 DEF Held
<1>5. ASSUME NEW r, Knows(r) PROVE Knows(r)'
  BY <1>1, <1>2, <1>5 DEF Knows
<1> QED
  BY <1>1, <1>2, <1>3, <1>4, <1>5

LEMMA RestsType ==
  ASSUME SessionsTypeOK, Rests, NEW o \in Calls, NEW r \in CallRecords, Step(o, r)
  PROVE  SessionsTypeOK'
<1>1. op' \in [Calls -> CallRecords] /\ expired' \in SUBSET SessionUsers
  BY StepFacts DEF Leaves
<1> QED
  BY <1>1 DEF SessionsTypeOK, Rests, Closing, sessionModes, ghosts, CallRecords

\* Only a call that was creating a session already goes on creating one after kill().
Admitted(o, r) == r.pc \in {"create", "remote"} => op[o].pc \in {"create", "remote"} \/ ~killed

\* Such a step of a method.
LEMMA QuietStep ==
  ASSUME DriverInv, NEW o \in Ops, NEW r \in CallRecords, Step(o, r), Rests,
         Admitted(o, r), ~rejects /\ Tracked => Knows(r)'
  PROVE  DriverInv'
<1>1. o \in Calls /\ KillOp \in Calls /\ o # KillOp
  BY SessionsAssumption DEF Calls
<1>2. SessionsTypeOK /\ SessionsTypeOK'
  BY <1>1, RestsType DEF DriverInv
<1>3. rejects' = rejects
  BY RestsFacts
<1>4. Leaves(o, r)
  BY <1>1, <1>2, StepFacts
<1>5. op'[KillOp] = op[KillOp] /\ op'[o] = r /\ \A p \in Calls \ {o} : op'[p] = op[p]
  BY <1>1, <1>4 DEF Leaves
<1>7. op[KillOp].pc # "idle" => Creating' \subseteq Creating
  BY <1>5 DEF Creating, Admitted, DriverInv, KillsSince
<1>8. KillsSince'
  BY <1>5, <1>7, RestsFacts DEF DriverInv, KillsSince
<1> SUFFICES ASSUME ~rejects PROVE Tracked'
  BY <1>2, <1>3, <1>8 DEF DriverInv
<1>12. Tracked
  BY DEF DriverInv
<1>6. Held'
  BY <1>12, RestsFacts DEF Tracked
<1>9. Visits'
  <2> SUFFICES ASSUME op[KillOp].pc \in Killing, NEW a \in op[KillOp].visited \ crossed
               PROVE  browserClients[a] # 0 /\ (At(a) \/ OpenOf(a)' = {})
    BY <1>5, RestsFacts DEF Visits, At
  <2>1. browserClients[a] # 0 /\ (At(a) \/ OpenOf(a) = {})
    BY <1>12 DEF Tracked, Visits
  <2>2. OpenOf(a)' \subseteq OpenOf(a)
    BY RestsFacts
  <2> QED
    BY <2>1, <2>2
<1>10. KillLeaves'
  <2>1. CASE op[KillOp].pc # "done"
    BY <2>1, <1>5 DEF KillLeaves
  <2>2. CASE op[KillOp].pc = "done"
    <3>1. CreationsOver \subseteq CreationsOver'
      BY <2>2, <1>7, RestsFacts DEF CreationsOver
    <3> QED
      BY <3>1, <1>2, <1>5, <1>12, RestsFacts, LeavesNoMore DEF Tracked
  <2> QED
    BY <2>1, <2>2
<1>11. ASSUME NEW p \in Calls PROVE Knows(op[p])'
  <2>1. CASE p = o
    <3>1. Knows(r)'
      BY <1>12
    <3> QED
      BY <3>1, <2>1, <1>5 DEF Knows
  <2>2. CASE p # o
    <3>1. PICK q : q = op[p]
      OBVIOUS
    <3>2. Knows(q)'
      BY <3>1, <1>12, RestsFacts DEF Tracked
    <3> QED
      BY <3>1, <3>2, <2>2, <1>5 DEF Knows
  <2> QED
    BY <2>1, <2>2
<1> QED
  BY <1>6, <1>9, <1>10, <1>11 DEF Tracked

-----------------------------------------------------------------------------
(* The steps of the methods                                                *)

LEMMA LookUpInv == ASSUME DriverInv, NEW o \in Ops, LookUp(o) PROVE DriverInv'
<1>1. o \in Calls /\ SessionsTypeOK /\ op[o] \in CallRecords /\ browserClients[op[o].who] \in 0..MaxSessions
  BY DEF Calls, DriverInv, SessionsTypeOK, CallRecords
<1>2. Rests
  BY <1>1 DEF LookUp, Rests, Closing, SessionsTypeOK
<1> DEFINE found == browserClients[op[o].who]
           r == IF found # 0 THEN Created(o, found)
                ELSE IF op[o].who \in expired THEN NotCreated(o)
                ELSE [op[o] EXCEPT !.pc = "remote"]
<1>3. Step(o, r) /\ op[o].pc = "create"
  BY DEF LookUp, FindClient
<1>4. CASE found # 0
  <2>0. found \in Sessions
    BY <1>1, <1>4, SessionsAssumption DEF Sessions
  <2>1. PICK x : x = Created(o, found)
    OBVIOUS
  <2>2. /\ x \in CallRecords /\ x.pc \in {"use", "delete", "done"}
        /\ x.pc = "use" /\ x.kind = "emulate" => x.client = found /\ x.who = op[o].who
    BY <2>0, <2>1, <1>1, CreatedRecord
  <2>3. ASSUME Tracked PROVE Knows(x)
    <3>1. x.who \notin crossed /\ x.pc = "use" /\ x.kind = "emulate" => OpenOf(x.who) \subseteq {x.client}
      BY <2>2, <2>3, <1>1 DEF Tracked, Held, CallRecords
    <3> QED
      BY <2>2, <3>1 DEF Knows
  <2>4. Tracked => Knows(x)'
    BY <2>3, <1>2, RestsFacts
  <2>5. Step(o, x) /\ Admitted(o, x)
    BY <1>3, <1>4, <2>1, <2>2 DEF Admitted
  <2> QED
    BY <2>2, <2>4, <2>5, <1>2, QuietStep
<1>5. CASE found = 0 /\ op[o].who \in expired
  <2>1. PICK x : x = NotCreated(o)
    OBVIOUS
  <2>2. x \in CallRecords /\ x.pc \in {"delete", "failed"}
    BY <2>1, <1>1, NotCreatedRecord
  <2>3. Knows(x)'
    BY <2>2 DEF Knows
  <2>4. Step(o, x) /\ Admitted(o, x)
    BY <1>3, <1>5, <2>1, <2>2 DEF Admitted
  <2> QED
    BY <2>2, <2>3, <2>4, <1>2, QuietStep
<1>6. CASE found = 0 /\ op[o].who \notin expired
  <2>1. PICK x : x = [op[o] EXCEPT !.pc = "remote"]
    OBVIOUS
  <2>2. x \in CallRecords /\ x.pc = "remote" /\ x.who = op[o].who
    BY <2>1, <1>1 DEF CallRecords
  <2>3. Knows(x)'
    <3>1. Knows(x)
      BY <2>2, <1>6 DEF Knows
    <3> QED
      BY <3>1, <1>2, RestsFacts
  <2>4. Step(o, x) /\ Admitted(o, x)
    BY <1>3, <1>6, <2>1, <2>2 DEF Admitted
  <2> QED
    BY <2>2, <2>3, <2>4, <1>2, QuietStep
<1> QED
  BY <1>4, <1>5, <1>6

LEMMA NotOpenedInv == ASSUME DriverInv, NEW o \in Ops, NotOpened(o) PROVE DriverInv'
<1>1. o \in Calls /\ SessionsTypeOK
  BY DEF Calls, DriverInv
<1>2. Rests
  BY <1>1 DEF NotOpened, Rests, Closing, SessionsTypeOK
<1>3. PICK x : x = NotCreated(o)
  OBVIOUS
<1>4. x \in CallRecords /\ x.pc \in {"delete", "failed"}
  BY <1>3, <1>1, NotCreatedRecord
<1>5. Knows(x)' /\ Admitted(o, x) /\ Step(o, x)
  BY <1>3, <1>4 DEF Knows, Admitted, NotOpened
<1> QED
  BY <1>2, <1>4, <1>5, QuietStep

LEMMA UsedInv == ASSUME DriverInv, NEW o \in Ops, Used(o) PROVE DriverInv'
<1>1. o \in Calls /\ o # KillOp /\ SessionsTypeOK /\ op[o] \in CallRecords /\ op[o].pc = "use"
  BY SessionsAssumption DEF Calls, DriverInv, SessionsTypeOK, CallRecords, Used
<1>2. Rests
  BY <1>1 DEF Used, Rests, Closing, SessionsTypeOK
<1>3. ASSUME NEW x \in CallRecords, Step(o, x), x.pc \in {"delete", "end", "failed", "done"} \/ (x.pc = "create" /\ ~killed)
      PROVE  DriverInv'
  <2>1. Knows(x)' /\ Admitted(o, x)
    BY <1>3 DEF Knows, Admitted
  <2> QED
    BY <1>2, <1>3, <2>1, QuietStep
<1>4. Finish(o, "done") \in CallRecords /\ Finish(o, "done").pc = "done"
  BY <1>1, FinishRecord
<1>5. CASE op[o].kind = "again" /\ Step(o, [CreateClient(o, "use") EXCEPT !.kind = IF @ = "again" THEN "once" ELSE @])
  <2>1. PICK y : y = CreateClient(o, "use")
    OBVIOUS
  <2>2. y \in CallRecords /\ y.pc \in {"create", "delete", "failed"} /\ (y.pc = "create" => ~killed)
    BY <2>1, <1>1, CreateClientRecord
  <2>3. PICK x : x = [y EXCEPT !.kind = IF @ = "again" THEN "once" ELSE @]
    OBVIOUS
  <2>4. x \in CallRecords /\ x.pc = y.pc
    BY <2>2, <2>3 DEF CallRecords, Kinds
  <2>5. Step(o, x)
    BY <1>5, <2>1, <2>3
  <2> QED
    BY <2>2, <2>4, <2>5, <1>3
<1>6. CASE Step(o, Finish(o, "done"))
  BY <1>3, <1>4, <1>6
<1>7. CASE Step(o, [op[o] EXCEPT !.pc = "end", !.kind = "end"])
  <2>1. PICK x : x = [op[o] EXCEPT !.pc = "end", !.kind = "end"]
    OBVIOUS
  <2>2. x \in CallRecords /\ x.pc = "end"
    BY <2>1, <1>1 DEF CallRecords, Kinds
  <2> QED
    BY <2>1, <2>2, <1>3, <1>7
<1>8. CASE op[o].kind = "emulate" /\ Step(o, [op[o] EXCEPT !.pc = "drop"])
  <2>1. PICK x : x = [op[o] EXCEPT !.pc = "drop"]
    OBVIOUS
  <2>2. x \in CallRecords /\ x.pc = "drop" /\ x.kind = "emulate" /\ x.who = op[o].who /\ x.client = op[o].client
    BY <2>1, <1>1, <1>8 DEF CallRecords
  <2>3. ASSUME Tracked PROVE Knows(x)'
    <3>1. Knows(op[o])
      BY <2>3, <1>1 DEF Tracked
    <3>2. Knows(x)
      BY <3>1, <2>2, <1>1, <1>8 DEF Knows
    <3> QED
      BY <3>2, <1>2, RestsFacts
  <2>4. Step(o, x) /\ Admitted(o, x)
    BY <2>1, <2>2, <1>8 DEF Admitted
  <2> QED
    BY <2>2, <2>3, <2>4, <1>2, QuietStep
<1> QED
  BY <1>5, <1>6, <1>7, <1>8 DEF Used, UseBrowser, CloseTab

LEMMA DroppedInv == ASSUME DriverInv, NEW o \in Ops, Dropped(o) PROVE DriverInv'
<1>1. o \in Calls /\ o # KillOp /\ SessionsTypeOK /\ op[o] \in CallRecords /\ op[o].pc = "drop"
  BY SessionsAssumption DEF Calls, DriverInv, SessionsTypeOK, CallRecords, Dropped
<1>2. CASE /\ session' = [session EXCEPT ![op[o].client] = "closed"]
           /\ Step(o, [op[o] EXCEPT !.pc = "redo", !.client = 0])
  <2>1. Rests
    BY <1>1, <1>2 DEF Dropped, Rests, Closing, SessionsTypeOK
  <2>2. PICK x : x = [op[o] EXCEPT !.pc = "redo", !.client = 0]
    OBVIOUS
  <2>0. 0 \in 0..MaxSessions
    BY SessionsAssumption
  <2>3. x \in CallRecords /\ x.pc = "redo" /\ x.who = op[o].who
    BY <2>0, <2>2, <1>1 DEF CallRecords
  <2>4. ASSUME Tracked, x.who \notin crossed' PROVE OpenOf(x.who)' = {}
    <3>1. crossed' = crossed /\ opener' = opener
      BY <2>1, RestsFacts
    <3>2. OpenOf(x.who) \subseteq {op[o].client}
      BY <3>1, <2>3, <2>4, <1>1 DEF Tracked, Knows
    <3> QED
      BY <3>1, <3>2, <1>1, <1>2 DEF OpenOf, SessionsTypeOK
  <2>5. Tracked => Knows(x)'
    BY <2>3, <2>4 DEF Knows
  <2>6. Step(o, x) /\ Admitted(o, x)
    BY <2>2, <2>3, <1>2 DEF Admitted
  <2> QED
    BY <2>1, <2>3, <2>5, <2>6, QuietStep
<1>3. CASE Step(o, Finish(o, "failed")) /\ UNCHANGED session
  <2>1. Rests
    BY <1>1, <1>3 DEF Dropped, Rests, Closing, SessionsTypeOK
  <2>2. PICK x : x = Finish(o, "failed")
    OBVIOUS
  <2>3. x \in CallRecords /\ x.pc = "failed"
    BY <2>2, <1>1, FinishRecord
  <2>4. Knows(x)' /\ Admitted(o, x) /\ Step(o, x)
    BY <2>2, <2>3, <1>3 DEF Knows, Admitted
  <2> QED
    BY <2>1, <2>3, <2>4, QuietStep
<1> QED
  BY <1>2, <1>3 DEF Dropped

\* A call of a method, an expiry check.
LEMMA CallsInv == ASSUME DriverInv, NEW o \in Ops, CallPlugin(o) \/ CheckTimeout(o) PROVE DriverInv'
<1>1. o \in Calls /\ SessionsTypeOK /\ op[o] \in CallRecords /\ op[o].pc = "idle"
  BY DEF Calls, DriverInv, SessionsTypeOK, CallRecords, CallPlugin, CheckTimeout
<1>2. Rests
  BY <1>1 DEF CallPlugin, CheckTimeout, Rests, Closing, SessionsTypeOK
<1>3. ASSUME NEW x \in CallRecords, Step(o, x), x.pc \in {"end", "failed"} \/ (x.pc = "create" /\ ~killed)
      PROVE  DriverInv'
  <2>1. Knows(x)' /\ Admitted(o, x)
    BY <1>3 DEF Knows, Admitted
  <2> QED
    BY <1>2, <1>3, <2>1, QuietStep
<1>4. CASE CallPlugin(o)
  <2>1. PICK a \in SessionUsers, k \in Kinds :
          LET r == [op[o] EXCEPT !.who = a, !.kind = k]
          IN Step(o, IF k = "end" THEN [r EXCEPT !.pc = "end"]
                     ELSE IF killed THEN Ended("failed")
                     ELSE [r EXCEPT !.pc = "create", !.then = "use"])
    BY <1>4 DEF CallPlugin
  <2>2. PICK r : r = [op[o] EXCEPT !.who = a, !.kind = k]
    OBVIOUS
  <2>3. r \in CallRecords
    BY <2>2, <1>1 DEF CallRecords
  <2>4. CASE k = "end"
    <3>1. [r EXCEPT !.pc = "end"] \in CallRecords /\ [r EXCEPT !.pc = "end"].pc = "end"
      BY <2>3 DEF CallRecords
    <3> QED
      BY <3>1, <2>1, <2>2, <2>4, <1>3
  <2>5. CASE k # "end" /\ killed
    <3>1. Ended("failed") \in CallRecords /\ Ended("failed").pc = "failed"
      BY EndedRecord DEF Over
    <3> QED
      BY <3>1, <2>1, <2>2, <2>5, <1>3
  <2>6. CASE k # "end" /\ ~killed
    <3>1. [r EXCEPT !.pc = "create", !.then = "use"] \in CallRecords
          /\ [r EXCEPT !.pc = "create", !.then = "use"].pc = "create"
      BY <2>3 DEF CallRecords
    <3> QED
      BY <3>1, <2>1, <2>2, <2>6, <1>3
  <2> QED
    BY <2>4, <2>5, <2>6
<1>5. CASE CheckTimeout(o)
  <2>1. PICK a \in SessionUsers : Step(o, [op[o] EXCEPT !.pc = "end", !.who = a, !.kind = "expire"])
    BY <1>5 DEF CheckTimeout
  <2>2. /\ [op[o] EXCEPT !.pc = "end", !.who = a, !.kind = "expire"] \in CallRecords
        /\ [op[o] EXCEPT !.pc = "end", !.who = a, !.kind = "expire"].pc = "end"
    BY <1>1 DEF CallRecords
  <2> QED
    BY <2>1, <2>2, <1>3
<1> QED
  BY <1>4, <1>5

\* The sessions that end() deletes.
LEMMA DeleteFacts ==
  ASSUME DriverInv, NEW o \in Calls, DeleteSession(o), NEW a, a = op[o].who
  PROVE  /\ Rests
         /\ \/ Step(o, [op[o] EXCEPT !.pc = "forget"])
            \/ Step(o, Finish(o, "failed"))
         /\ ~rejects /\ Tracked /\ a \notin crossed => OpenOf(a)' = {}
<1>0. PICK mine, held : mine = op[o].client /\ held = browserClients[a]
  OBVIOUS
<1>1. /\ SessionsTypeOK /\ op[o] \in CallRecords /\ op[o].pc = "delete"
      /\ a \in SessionUsers /\ session \in [Sessions -> {"none", "open", "closed"}]
  BY DEF DriverInv, SessionsTypeOK, CallRecords, DeleteSession
<1>2. ~rejects /\ Tracked /\ a \notin crossed => OpenOf(a) \subseteq {held}
  BY <1>0, <1>1 DEF Tracked, Held
<1>3. UNCHANGED <<sessionModes, ready, browserClients, killed, raced, ghosts>>
  BY DEF DeleteSession
<1>4. opener' = opener
  BY <1>3 DEF ghosts
<1>5. CASE held # mine
  <2>1. DeleteBoth(o)
    BY <1>0, <1>5 DEF DeleteSession
  <2>2. \A s \in Sessions :
          IF s \in {mine, held} \ {0} /\ session[s] = "open"
          THEN session'[s] = "closed" \/ (rejects /\ session'[s] = "open")
          ELSE session'[s] = session[s]
    BY <2>1, <1>0 DEF DeleteBoth
  <2>3. session' \in [Sessions -> {"none", "open", "closed"}] /\ Step(o, [op[o] EXCEPT !.pc = "forget"])
    BY <2>1 DEF DeleteBoth
  <2>4. Rests
    BY <2>2, <2>3, <1>3 DEF Rests, Closing
  <2>5. 0 \notin Sessions
    BY SessionsAssumption DEF Sessions
  <2>6. ~rejects => \A s \in Sessions : s = held => session'[s] # "open"
    BY <2>2, <2>5
  <2>7. \A s \in Sessions : session'[s] = "open" => session[s] = "open"
    BY <2>2
  <2>8. ~rejects /\ Tracked /\ a \notin crossed => OpenOf(a)' = {}
    BY <2>6, <2>7, <1>2, <1>4 DEF OpenOf
  <2> QED
    BY <2>3, <2>4, <2>8
<1>6. CASE held = mine
  <2>1. CASE session' = [session EXCEPT ![mine] = "closed"] /\ Step(o, [op[o] EXCEPT !.pc = "forget"])
    <3>1. Rests
      BY <1>1, <1>3, <2>1 DEF Rests, Closing
    <3>2. ~rejects /\ Tracked /\ a \notin crossed => OpenOf(a)' = {}
      BY <1>1, <1>2, <1>4, <1>6, <2>1 DEF OpenOf
    <3> QED
      BY <2>1, <3>1, <3>2
  <2>2. CASE Rejecting(mine) /\ Step(o, Finish(o, "failed")) /\ UNCHANGED session
    <3>1. Rests
      BY <1>1, <1>3, <2>2 DEF Rests, Closing
    <3>2. ~rejects /\ Tracked /\ a \notin crossed => OpenOf(a)' = {}
      BY <1>1, <1>2, <1>4, <1>6, <2>2 DEF OpenOf, Rejecting
    <3> QED
      BY <2>2, <3>1, <3>2
  <2> QED
    BY <1>0, <1>6, <2>1, <2>2 DEF DeleteSession
<1> QED
  BY <1>5, <1>6

LEMMA DeleteSessionInv == ASSUME DriverInv, NEW o \in Ops, DeleteSession(o) PROVE DriverInv'
<1>1. o \in Calls /\ o # KillOp /\ SessionsTypeOK /\ op[o] \in CallRecords
  BY SessionsAssumption DEF Calls, DriverInv, SessionsTypeOK, CallRecords
<1>2. Rests
  BY <1>1, DeleteFacts
<1>3. CASE Step(o, [op[o] EXCEPT !.pc = "forget"])
  <2>1. PICK x : x = [op[o] EXCEPT !.pc = "forget"]
    OBVIOUS
  <2>2. x \in CallRecords /\ x.pc = "forget" /\ x.who = op[o].who
    BY <2>1, <1>1 DEF CallRecords
  <2>3. ASSUME ~rejects, Tracked, x.who \notin crossed' PROVE OpenOf(x.who)' = {}
    <3>1. crossed' = crossed
      BY <1>2, RestsFacts
    <3> QED
      BY <3>1, <2>2, <2>3, <1>1, DeleteFacts
  <2>4. ~rejects /\ Tracked => Knows(x)'
    BY <2>2, <2>3 DEF Knows
  <2>5. Step(o, x) /\ Admitted(o, x)
    BY <2>1, <2>2, <1>3 DEF Admitted
  <2> QED
    BY <2>2, <2>4, <2>5, <1>2, QuietStep
<1>4. CASE Step(o, Finish(o, "failed"))
  <2>1. PICK x : x = Finish(o, "failed")
    OBVIOUS
  <2>2. x \in CallRecords /\ x.pc = "failed"
    BY <2>1, <1>1, FinishRecord
  <2>3. Knows(x)' /\ Admitted(o, x) /\ Step(o, x)
    BY <2>1, <2>2, <1>4 DEF Knows, Admitted
  <2> QED
    BY <2>2, <2>3, <1>2, QuietStep
<1> QED
  BY <1>1, <1>3, <1>4, DeleteFacts

LEMMA EndingInv == ASSUME DriverInv, NEW o \in Ops, Ending(o) PROVE DriverInv'
<1>1. /\ o \in Calls /\ o # KillOp /\ SessionsTypeOK /\ op[o] \in CallRecords
      /\ browserClients[op[o].who] \in 0..MaxSessions
  BY SessionsAssumption DEF Calls, DriverInv, SessionsTypeOK, CallRecords
<1>2. Rests
  BY <1>1 DEF Ending, Rests, Closing, SessionsTypeOK
<1>3. ASSUME NEW x \in CallRecords, Step(o, x), x.pc \in {"delete", "done"} \/ (x.pc = "create" /\ ~killed)
      PROVE  DriverInv'
  <2>1. Knows(x)' /\ Admitted(o, x)
    BY <1>3 DEF Knows, Admitted
  <2> QED
    BY <1>2, <1>3, <2>1, QuietStep
<1>4. PICK s \in 0..MaxSessions : s = browserClients[op[o].who]
  BY <1>1
<1>5. PICK r : r = [op[o] EXCEPT !.client = s]
  OBVIOUS
<1>6. r \in CallRecords
  BY <1>1, <1>5 DEF CallRecords
<1>7. Step(o, IF s = 0 THEN Finish(o, "done")
              ELSE IF killed THEN [r EXCEPT !.pc = "delete"]
              ELSE [r EXCEPT !.pc = "create", !.then = "delete"])
  BY <1>4, <1>5 DEF Ending
<1>8. CASE s = 0
  <2>1. Finish(o, "done") \in CallRecords /\ Finish(o, "done").pc = "done"
    BY <1>1, FinishRecord
  <2> QED
    BY <2>1, <1>3, <1>7, <1>8
<1>9. CASE s # 0 /\ killed
  <2>1. [r EXCEPT !.pc = "delete"] \in CallRecords /\ [r EXCEPT !.pc = "delete"].pc = "delete"
    BY <1>6 DEF CallRecords
  <2> QED
    BY <2>1, <1>3, <1>7, <1>9
<1>10. CASE s # 0 /\ ~killed
  <2>1. /\ [r EXCEPT !.pc = "create", !.then = "delete"] \in CallRecords
        /\ [r EXCEPT !.pc = "create", !.then = "delete"].pc = "create"
    BY <1>6 DEF CallRecords
  <2> QED
    BY <2>1, <1>3, <1>7, <1>10
<1> QED
  BY <1>8, <1>9, <1>10

\* A session is forgotten once it is closed.
LEMMA ForgetStep ==
  ASSUME DriverInv, NEW o \in Calls, NEW r \in CallRecords, op[o].pc \in {"redo", "forget"},
         Forgotten(o, r), expired' \in SUBSET SessionUsers,
         UNCHANGED <<sessionModes, ready, killed, session, raced, ghosts>>,
         r.pc \in {"create", "delete", "done", "failed", "loop"}, r.pc = "create" => ~killed,
         o = KillOp => r.pc = "loop" /\ r.visited = op[KillOp].visited
  PROVE  DriverInv'
<1>1. PICK a : a = op[o].who
  OBVIOUS
<1>2. /\ SessionsTypeOK /\ op \in [Calls -> CallRecords] /\ a \in SessionUsers
      /\ browserClients \in [SessionUsers -> 0..MaxSessions] /\ KillOp \in Calls
  BY <1>1 DEF DriverInv, SessionsTypeOK, CallRecords, Calls
<1>3. /\ opener' = opener /\ crossed' = crossed /\ rejects' = rejects /\ killed' = killed
      /\ raced' = raced /\ session' = session
  BY DEF ghosts, sessionModes
<1>4. 0 \in 0..MaxSessions
  BY SessionsAssumption
<1>5. /\ browserClients' \in [SessionUsers -> 0..MaxSessions] /\ browserClients'[a] = 0
      /\ \A b \in SessionUsers \ {a} : browserClients'[b] = browserClients[b]
  BY <1>1, <1>2, <1>4 DEF Forgotten
<1>6. \A q \in CallRecords :
        LET f == [q EXCEPT !.visited = q.visited \ {a}] IN
        /\ f \in CallRecords /\ f.pc = q.pc /\ f.who = q.who /\ f.client = q.client /\ f.kind = q.kind
        /\ f.visited = q.visited \ {a}
  BY DEF CallRecords
<1>7. op' = [p \in Calls |-> [(IF p = o THEN r ELSE op[p]) EXCEPT
                                !.visited = (IF p = o THEN r ELSE op[p]).visited \ {a}]]
  BY <1>1 DEF Forgotten
<1>0. \A p \in Calls : (IF p = o THEN r ELSE op[p]) \in CallRecords
  BY <1>2
<1>8. op' \in [Calls -> CallRecords]
  BY <1>0, <1>6, <1>7
<1>9. \A p \in Calls : LET q == IF p = o THEN r ELSE op[p] IN
        /\ op'[p].pc = q.pc /\ op'[p].who = q.who /\ op'[p].client = q.client /\ op'[p].kind = q.kind
        /\ op'[p].visited = q.visited \ {a}
  <2> SUFFICES ASSUME NEW p \in Calls, NEW q, q = IF p = o THEN r ELSE op[p]
               PROVE  /\ op'[p].pc = q.pc /\ op'[p].who = q.who /\ op'[p].client = q.client
                      /\ op'[p].kind = q.kind /\ op'[p].visited = q.visited \ {a}
    OBVIOUS
  <2>1. q \in CallRecords
    BY <1>0
  <2>2. op'[p] = [q EXCEPT !.visited = q.visited \ {a}]
    BY <1>7
  <2> QED
    BY <2>1, <2>2, <1>6
<1>10. SessionsTypeOK'
  BY <1>2, <1>5, <1>8 DEF SessionsTypeOK, CallRecords, sessionModes, ghosts
<1>11. op[KillOp].pc # "idle" => Creating' \subseteq Creating
  BY <1>9 DEF Creating, DriverInv, KillsSince
<1>12. op'[KillOp].visited = op[KillOp].visited \ {a}
  BY <1>2, <1>9
<1>13. /\ o = KillOp => op'[KillOp].pc = "loop" /\ op[KillOp].pc \in Killing
       /\ o # KillOp => op'[KillOp].pc = op[KillOp].pc /\ op'[KillOp].who = op[KillOp].who
  <2>1. CASE o = KillOp
    <3>1. op[KillOp].pc \in Killing
      BY <2>1 DEF DriverInv, KillsSince, Killing
    <3>2. op'[KillOp].pc = r.pc
      BY <2>1, <1>2, <1>9
    <3> QED
      BY <2>1, <3>1, <3>2
  <2>2. CASE o # KillOp
    BY <2>2, <1>2, <1>9
  <2> QED
    BY <2>1, <2>2
<1>14. KillsSince'
  BY <1>3, <1>11, <1>12, <1>13 DEF DriverInv, KillsSince, Killing
<1> SUFFICES ASSUME ~rejects PROVE Tracked'
  BY <1>3, <1>10, <1>14 DEF DriverInv
<1>15. Tracked
  BY DEF DriverInv
<1>16. \A b : OpenOf(b)' = OpenOf(b)
  BY <1>3 DEF OpenOf
<1>17. OpenSessions' = OpenSessions
  BY <1>3 DEF OpenSessions
<1>18. a \notin crossed => OpenOf(a) = {}
  BY <1>1, <1>15 DEF Tracked, Knows
<1>19. Held'
  BY <1>3, <1>5, <1>15, <1>16, <1>18 DEF Tracked, Held
<1>20. Visits'
  <2> SUFFICES ASSUME op'[KillOp].pc \in Killing, NEW b \in op'[KillOp].visited \ crossed
               PROVE  browserClients'[b] # 0 /\ (At(b)' \/ OpenOf(b)' = {})
    BY <1>3 DEF Visits
  <2>1. b \in op[KillOp].visited \ crossed /\ b # a /\ op[KillOp].pc \in Killing
    BY <1>12, <1>13
  <2>2. browserClients[b] # 0 /\ (At(b) \/ OpenOf(b) = {})
    BY <2>1, <1>15 DEF Tracked, Visits
  <2>3. b \in SessionUsers
    BY <2>1, <1>2 DEF CallRecords
  <2>4. At(b) => At(b)'
    BY <2>1, <1>1, <1>13 DEF At
  <2> QED
    BY <2>1, <2>2, <2>3, <2>4, <1>5, <1>16
<1>21. KillLeaves'
  <2>1. CASE op'[KillOp].pc # "done"
    BY <2>1 DEF KillLeaves
  <2>2. CASE op'[KillOp].pc = "done"
    <3>1. op[KillOp].pc = "done"
      BY <2>2, <1>13
    <3>2. CreationsOver \subseteq CreationsOver'
      BY <3>1, <1>3, <1>11 DEF CreationsOver
    <3> QED
      BY <3>1, <3>2, <1>2, <1>10, <1>15, <1>17, LeavesNoMore DEF Tracked
  <2> QED
    BY <2>1, <2>2
<1>22. ASSUME NEW p \in Calls PROVE Knows(op[p])'
  <2>1. CASE p = o
    <3>1. op'[p].pc \in {"create", "delete", "done", "failed", "loop"}
      BY <2>1, <1>9
    <3> QED
      BY <3>1 DEF Knows
  <2>2. CASE p # o
    <3>1. Knows(op[p])
      BY <1>15 DEF Tracked
    <3>2. PICK q \in CallRecords : q = op[p]
      BY <1>2
    <3>3. /\ op'[p].pc = q.pc /\ op'[p].who = q.who /\ op'[p].client = q.client /\ op'[p].kind = q.kind
          /\ q.who \in SessionUsers
      BY <3>2, <2>2, <1>9 DEF CallRecords
    <3>4. browserClients[q.who] = 0 => browserClients'[q.who] = 0
      BY <3>3, <1>5
    <3>5. Knows(q)
      BY <3>1, <3>2
    <3>6. PICK x : x = op'[p]
      OBVIOUS
    <3>7. /\ x.pc = "drop" => x.kind = "emulate"
          /\ x.who \notin crossed' =>
               /\ x.pc = "remote" => browserClients'[x.who] = 0
               /\ x.pc \in {"redo", "forget"} => OpenOf(x.who)' = {}
               /\ x.pc \in {"use", "drop"} /\ x.kind = "emulate" => OpenOf(x.who)' \subseteq {x.client}
      BY <3>3, <3>4, <3>5, <3>6, <1>3, <1>16 DEF Knows
    <3> QED
      BY <3>6, <3>7 DEF Knows, OpenOf
  <2> QED
    BY <2>1, <2>2
<1> QED
  BY <1>19, <1>20, <1>21, <1>22 DEF Tracked

LEMMA EmulateInv == ASSUME DriverInv, NEW o \in Ops, Emulate(o) PROVE DriverInv'
<1>1. o \in Calls /\ o # KillOp /\ SessionsTypeOK /\ op[o].who \in SessionUsers /\ expired \in SUBSET SessionUsers
  BY SessionsAssumption DEF Calls, DriverInv, SessionsTypeOK
<1>2. PICK y : y = CreateClient(o, "done")
  OBVIOUS
<1>3. y \in CallRecords /\ y.pc \in {"create", "delete", "failed"} /\ (y.pc = "create" => ~killed)
  BY <1>1, <1>2, CreateClientRecord
<1>4. PICK x : x = [y EXCEPT !.client = 0]
  OBVIOUS
<1>5. 0 \in 0..MaxSessions
  BY SessionsAssumption
<1>6. x \in CallRecords /\ x.pc = y.pc
  BY <1>3, <1>4, <1>5 DEF CallRecords
<1>7. Forgotten(o, x) /\ Marked(o, x)
  BY <1>2, <1>4 DEF Emulate
<1>8. expired' \in SUBSET SessionUsers
  BY <1>1, <1>7 DEF Marked
<1>9. op[o].pc = "redo" /\ UNCHANGED <<sessionModes, ready, killed, session, raced, ghosts>>
  BY DEF Emulate
<1>10. x.pc \in {"create", "delete", "done", "failed", "loop"} /\ (x.pc = "create" => ~killed)
  BY <1>3, <1>6
<1> QED
  BY <1>1, <1>6, <1>7, <1>8, <1>9, <1>10, ForgetStep

LEMMA ForgetInv == ASSUME DriverInv, NEW o \in Calls, Forget(o) PROVE DriverInv'
<1>1. SessionsTypeOK /\ op[o].who \in SessionUsers /\ expired \in SUBSET SessionUsers
  BY DEF DriverInv, SessionsTypeOK
<1>2. PICK x : x = Finish(o, "done")
  OBVIOUS
<1>3. /\ x \in CallRecords
      /\ o # KillOp => x.pc = "done"
      /\ o = KillOp => x.pc = "loop" /\ x.visited = op[o].visited
  BY <1>1, <1>2, FinishRecord
<1>4. Forgotten(o, x) /\ Marked(o, x)
  BY <1>2 DEF Forget
<1>5. expired' \in SUBSET SessionUsers
  BY <1>1, <1>4 DEF Marked
<1>6. op[o].pc = "forget" /\ UNCHANGED <<sessionModes, ready, killed, session, raced, ghosts>>
  BY DEF Forget
<1>7. x.pc \in {"create", "delete", "done", "failed", "loop"} /\ (x.pc = "create" => ~killed)
  BY <1>3
<1>8. o = KillOp => x.pc = "loop" /\ x.visited = op[KillOp].visited
  BY <1>3
<1> QED
  BY <1>3, <1>4, <1>5, <1>6, <1>7, <1>8, ForgetStep

\* A session is opened, for an applicant without one.
LEMMA OpenedInv == ASSUME DriverInv, NEW o \in Ops, Opened(o) PROVE DriverInv'
<1>1. PICK a : a = op[o].who
  OBVIOUS
<1>2. /\ SessionsTypeOK /\ op[o] \in CallRecords /\ a \in SessionUsers /\ o \in Calls /\ o # KillOp
      /\ op[o].pc = "remote" /\ KillOp \in Calls
      /\ browserClients \in [SessionUsers -> 0..MaxSessions]
      /\ session \in [Sessions -> {"none", "open", "closed"}] /\ opener \in [Sessions -> SessionUsers]
      /\ crossed \in SUBSET SessionUsers
  BY <1>1, SessionsAssumption DEF DriverInv, SessionsTypeOK, CallRecords, Calls, Opened
<1>3. PICK s \in Sessions :
        /\ session[s] = "none"
        /\ session' = [session EXCEPT ![s] = "open"]
        /\ browserClients' = [browserClients EXCEPT ![a] = s]
        /\ Step(o, Created(o, s))
        /\ opener' = [opener EXCEPT ![s] = a]
  BY <1>1 DEF Opened
<1>4. crossed' = IF \E p \in Calls \ {o} : Occupied(p, a) THEN crossed \cup {a} ELSE crossed
  BY <1>1 DEF Opened
<1>5. rejects' = rejects /\ killed' = killed /\ raced' = raced /\ ready' = ready /\ localServer' = localServer
  BY DEF Opened, sessionModes
<1>6. PICK x : x = Created(o, s)
  OBVIOUS
<1>7. /\ x \in CallRecords /\ x.pc \in {"use", "delete", "done"}
      /\ x.pc = "use" /\ x.kind = "emulate" => x.client = s /\ x.who = a
  BY <1>1, <1>2, <1>6, CreatedRecord
<1>8. Leaves(o, x) /\ expired' \in SUBSET SessionUsers
  BY <1>2, <1>3, <1>6, <1>7, StepFacts
<1>9. op' \in [Calls -> CallRecords] /\ op'[o] = x /\ \A p \in Calls \ {o} : op'[p] = op[p]
  BY <1>8 DEF Leaves
<1>10. s \in 0..MaxSessions /\ s # 0
  BY SessionsAssumption DEF Sessions
<1>11. /\ browserClients' \in [SessionUsers -> 0..MaxSessions] /\ browserClients'[a] = s
       /\ \A b \in SessionUsers \ {a} : browserClients'[b] = browserClients[b]
  BY <1>2, <1>3, <1>10
<1>12. SessionsTypeOK'
  <2>1. session' \in [Sessions -> {"none", "open", "closed"}] /\ opener' \in [Sessions -> SessionUsers]
    BY <1>2, <1>3
  <2>2. crossed' \in SUBSET SessionUsers
    BY <1>2, <1>4
  <2> QED
    BY <2>1, <2>2, <1>2, <1>5, <1>8, <1>9, <1>11 DEF SessionsTypeOK, CallRecords
<1>13. Creating' = Creating \ {o}
  BY <1>2, <1>7, <1>9 DEF Creating
<1>14. op'[KillOp] = op[KillOp]
  BY <1>2, <1>9
<1>15. KillsSince'
  BY <1>5, <1>13, <1>14 DEF DriverInv, KillsSince
<1> SUFFICES ASSUME ~rejects PROVE Tracked'
  BY <1>5, <1>12, <1>15 DEF DriverInv
<1>16. Tracked
  BY DEF DriverInv
<1>17. crossed \subseteq crossed'
  BY <1>4
<1>18. \A b : b # a => OpenOf(b)' = OpenOf(b)
  BY <1>2, <1>3 DEF OpenOf
<1>19. a \notin crossed' => browserClients[a] = 0
  BY <1>1, <1>2, <1>16, <1>17 DEF Tracked, Knows
<1>20. a \notin crossed' => OpenOf(a)' = {s}
  <2> SUFFICES ASSUME a \notin crossed' PROVE OpenOf(a)' = {s}
    OBVIOUS
  <2>1. OpenOf(a) \subseteq {0}
    BY <1>2, <1>16, <1>17, <1>19 DEF Tracked, Held
  <2>2. 0 \notin Sessions
    BY SessionsAssumption DEF Sessions
  <2>3. OpenOf(a) = {}
    BY <2>1, <2>2 DEF OpenOf
  <2>4. \A t \in Sessions \ {s} : session'[t] = session[t] /\ opener'[t] = opener[t]
    BY <1>2, <1>3
  <2>5. session'[s] = "open" /\ opener'[s] = a
    BY <1>2, <1>3
  <2> QED
    BY <2>3, <2>4, <2>5 DEF OpenOf
<1>21. Held'
  <2> SUFFICES ASSUME NEW b \in SessionUsers \ crossed' PROVE OpenOf(b)' \subseteq {browserClients'[b]}
    BY DEF Held
  <2>1. CASE b = a
    BY <2>1, <1>11, <1>20
  <2>2. CASE b # a
    BY <2>2, <1>11, <1>16, <1>17, <1>18 DEF Tracked, Held
  <2> QED
    BY <2>1, <2>2
<1>22. Visits'
  <2> SUFFICES ASSUME op[KillOp].pc \in Killing, NEW b \in op[KillOp].visited \ crossed'
               PROVE  browserClients'[b] # 0 /\ (At(b) \/ OpenOf(b)' = {})
    BY <1>14 DEF Visits, At
  <2>1. browserClients[b] # 0 /\ (At(b) \/ OpenOf(b) = {})
    BY <1>16, <1>17 DEF Tracked, Visits
  <2>2. b # a
    BY <2>1, <1>19
  <2>3. b \in SessionUsers
    BY <1>2 DEF SessionsTypeOK
  <2> QED
    BY <2>1, <2>2, <2>3, <1>11, <1>18
<1>23. KillLeaves'
  <2> SUFFICES ASSUME op[KillOp].pc = "done"
               PROVE  Cardinality(OpenSessions') <= Cardinality(CreationsOver')
    BY <1>14 DEF KillLeaves
  <2>1. Cardinality(OpenSessions) <= Cardinality(CreationsOver)
    BY <1>16 DEF Tracked, KillLeaves
  <2>2. IsFiniteSet(OpenSessions) /\ IsFiniteSet(CreationsOver)
    BY <1>2, FiniteSessions
  <2>3. OpenSessions' \subseteq OpenSessions \cup {s}
    BY <1>2, <1>3, <1>17 DEF OpenSessions
  <2>4. o \in Creating /\ o \in raced
    BY <1>2 DEF Creating, DriverInv, KillsSince
  <2>5. CreationsOver' = CreationsOver \cup {o} /\ o \notin CreationsOver
    BY <2>4, <1>5, <1>13 DEF CreationsOver
  <2>6. s \notin OpenSessions
    BY <1>3 DEF OpenSessions
  <2>7. /\ Cardinality(OpenSessions \cup {s}) = Cardinality(OpenSessions) + 1
        /\ IsFiniteSet(OpenSessions \cup {s})
    BY <2>2, <2>6, FS_AddElement
  <2>8. /\ Cardinality(CreationsOver \cup {o}) = Cardinality(CreationsOver) + 1
        /\ IsFiniteSet(CreationsOver \cup {o})
    BY <2>2, <2>5, FS_AddElement
  <2>9. Cardinality(OpenSessions \cup {s}) <= Cardinality(CreationsOver')
    <3>1. Cardinality(OpenSessions) \in Nat /\ Cardinality(CreationsOver) \in Nat
      BY <2>2, FS_CardinalityType
    <3> QED
      BY <3>1, <2>1, <2>5, <2>7, <2>8
  <2> QED
    BY <2>3, <2>5, <2>7, <2>8, <2>9, Counted
<1>24. ASSUME NEW p \in Calls PROVE Knows(op[p])'
  <2>1. CASE p = o
    <3>1. x.pc = "use" /\ x.kind = "emulate" /\ x.who \notin crossed' => OpenOf(x.who)' \subseteq {x.client}
      BY <1>7, <1>20
    <3>2. Knows(x)'
      BY <3>1, <1>7 DEF Knows
    <3> QED
      BY <3>2, <2>1, <1>9 DEF Knows
  <2>2. CASE p # o
    <3>1. PICK q : q = op[p]
      OBVIOUS
    <3>2. Knows(q) /\ q \in CallRecords
      BY <3>1, <1>2, <1>16 DEF Tracked, SessionsTypeOK, CallRecords
    <3>3. CASE q.who = a /\ a \notin crossed'
      <4>1. ~Occupied(p, a)
        BY <3>3, <2>2, <1>2, <1>4
      <4>2. q.pc \in Over \cup {"loop"}
        BY <4>1, <3>1, <3>3 DEF Occupied, Busy
      <4>3. Knows(q)'
        BY <4>2 DEF Knows, Over
      <4> QED
        BY <4>3, <3>1, <2>2, <1>9 DEF Knows
    <3>4. CASE q.who # a \/ a \in crossed'
      <4>1. q.who \in SessionUsers
        BY <3>2 DEF CallRecords
      <4>2. q.who \notin crossed' => /\ q.who # a /\ OpenOf(q.who)' = OpenOf(q.who)
                                     /\ browserClients'[q.who] = browserClients[q.who]
        BY <4>1, <3>4, <1>11, <1>18
      <4>3. Knows(q)'
        BY <4>2, <3>2, <1>17 DEF Knows
      <4> QED
        BY <4>3, <3>1, <2>2, <1>9 DEF Knows
    <3> QED
      BY <3>3, <3>4
  <2> QED
    BY <2>1, <2>2
<1> QED
  BY <1>21, <1>22, <1>23, <1>24 DEF Tracked


-----------------------------------------------------------------------------
(* kill()                                                                  *)

\* A step of kill() at an applicant.
LEMMA QuietKill ==
  ASSUME DriverInv, NEW r \in CallRecords, Step(KillOp, r), Rests, op[KillOp].pc \in Killing,
         r.pc \in Killing, ~rejects /\ Tracked => Knows(r)',
         ~rejects /\ Tracked =>
           \A a \in r.visited \ crossed :
             browserClients[a] # 0 /\ ((r.pc # "loop" /\ r.who = a) \/ OpenOf(a)' = {})
  PROVE  DriverInv'
<1>1. KillOp \in Calls /\ SessionsTypeOK
  BY DEF Calls, DriverInv
<1>2. SessionsTypeOK' /\ Leaves(KillOp, r)
  BY <1>1, RestsType, StepFacts
<1>3. op'[KillOp] = r /\ \A p \in Calls \ {KillOp} : op'[p] = op[p]
  BY <1>2 DEF Leaves
<1>4. Creating' = Creating
  BY <1>3 DEF Creating, Killing
<1>5. KillsSince'
  BY <1>3, <1>4, RestsFacts DEF DriverInv, KillsSince, Killing
<1>6. rejects' = rejects
  BY RestsFacts
<1> SUFFICES ASSUME ~rejects PROVE Tracked'
  BY <1>2, <1>5, <1>6 DEF DriverInv
<1>7. Tracked
  BY DEF DriverInv
<1>8. Held'
  BY <1>7, RestsFacts DEF Tracked
<1>9. Visits'
  BY <1>3, <1>7, RestsFacts DEF Visits, At
<1>10. KillLeaves'
  BY <1>3 DEF KillLeaves, Killing
<1>11. ASSUME NEW p \in Calls PROVE Knows(op[p])'
  <2>1. CASE p = KillOp
    <3>1. Knows(r)'
      BY <1>7
    <3> QED
      BY <3>1, <2>1, <1>3 DEF Knows
  <2>2. CASE p # KillOp
    <3>1. PICK q : q = op[p]
      OBVIOUS
    <3>2. Knows(q)'
      BY <3>1, <1>7, RestsFacts DEF Tracked
    <3> QED
      BY <3>1, <3>2, <2>2, <1>3 DEF Knows
  <2> QED
    BY <2>1, <2>2
<1> QED
  BY <1>8, <1>9, <1>10, <1>11 DEF Tracked

LEMMA KillPluginInv == ASSUME DriverInv, KillPlugin PROVE DriverInv'
<1>1. KillOp \in Calls /\ SessionsTypeOK /\ op[KillOp] \in CallRecords /\ op[KillOp].pc = "idle"
  BY DEF Calls, DriverInv, SessionsTypeOK, CallRecords, KillPlugin
<1>2. PICK r : r = [op[KillOp] EXCEPT !.pc = "loop"]
  OBVIOUS
<1>3. r \in CallRecords /\ r.pc = "loop" /\ r.visited = {}
  BY <1>1, <1>2 DEF CallRecords, DriverInv, KillsSince
<1>4. Leaves(KillOp, r) /\ expired' \in SUBSET SessionUsers
  BY <1>1, <1>2, <1>3, StepFacts DEF KillPlugin
<1>5. op' \in [Calls -> CallRecords] /\ op'[KillOp] = r /\ \A p \in Calls \ {KillOp} : op'[p] = op[p]
  BY <1>4 DEF Leaves
<1>6. /\ killed' = TRUE /\ raced' = {o \in Calls : op[o].pc \in {"create", "remote"}}
      /\ browserClients' = browserClients /\ session' = session /\ opener' = opener
      /\ crossed' = crossed /\ rejects' = rejects /\ localServer' = localServer /\ ready' = ready
  BY DEF KillPlugin, ghosts, sessionModes
<1>7. SessionsTypeOK'
  BY <1>1, <1>4, <1>5, <1>6 DEF SessionsTypeOK, CallRecords
<1>8. Creating' = Creating /\ raced' = Creating
  BY <1>1, <1>3, <1>5, <1>6 DEF Creating
<1>9. KillsSince'
  BY <1>3, <1>5, <1>6, <1>8 DEF KillsSince, Killing
<1> SUFFICES ASSUME ~rejects PROVE Tracked'
  BY <1>6, <1>7, <1>9 DEF DriverInv
<1>10. Tracked
  BY DEF DriverInv
<1>11. \A a : OpenOf(a)' = OpenOf(a)
  BY <1>6 DEF OpenOf
<1>12. Held'
  BY <1>6, <1>10, <1>11 DEF Tracked, Held
<1>13. Visits' /\ KillLeaves'
  BY <1>3, <1>5 DEF Visits, KillLeaves
<1>14. \A q : Knows(q) => Knows(q)'
  BY <1>6, <1>11 DEF Knows
<1>15. ASSUME NEW p \in Calls PROVE Knows(op[p])'
  <2>1. PICK q : q = op'[p]
    OBVIOUS
  <2>2. Knows(q)'
    <3>1. CASE p = KillOp
      BY <3>1, <2>1, <1>3, <1>5 DEF Knows
    <3>2. CASE p # KillOp
      <4>1. q = op[p]
        BY <2>1, <3>2, <1>5
      <4> QED
        BY <4>1, <1>10, <1>14 DEF Tracked
    <3> QED
      BY <3>1, <3>2
  <2> QED
    BY <2>1, <2>2 DEF Knows
<1> QED
  BY <1>12, <1>13, <1>15 DEF Tracked

LEMMA NextApplicantInv == ASSUME DriverInv, NextApplicant(KillOp) PROVE DriverInv'
<1>1. SessionsTypeOK /\ op[KillOp] \in CallRecords /\ op[KillOp].pc = "loop"
  BY DEF Calls, DriverInv, SessionsTypeOK, CallRecords, NextApplicant
<1>2. Rests
  BY <1>1 DEF NextApplicant, Rests, Closing, SessionsTypeOK
<1>3. PICK b \in SessionUsers :
        /\ browserClients[b] # 0
        /\ Step(KillOp, [op[KillOp] EXCEPT !.pc = "end", !.who = b, !.visited = @ \cup {b}])
  BY DEF NextApplicant
<1>4. PICK r : r = [op[KillOp] EXCEPT !.pc = "end", !.who = b, !.visited = @ \cup {b}]
  OBVIOUS
<1>5. r \in CallRecords /\ r.pc = "end" /\ r.who = b /\ r.visited = op[KillOp].visited \cup {b}
  BY <1>1, <1>4 DEF CallRecords
<1>6. Knows(r)'
  BY <1>5 DEF Knows
<1>7. ASSUME Tracked, NEW a \in r.visited \ crossed
      PROVE  browserClients[a] # 0 /\ ((r.pc # "loop" /\ r.who = a) \/ OpenOf(a)' = {})
  <2>1. CASE a = b
    BY <2>1, <1>3, <1>5
  <2>2. CASE a # b
    <3>1. a \in op[KillOp].visited \ crossed
      BY <2>2, <1>5
    <3>2. browserClients[a] # 0 /\ OpenOf(a) = {}
      BY <3>1, <1>1, <1>7 DEF Tracked, Visits, At, Killing
    <3>3. OpenOf(a)' \subseteq OpenOf(a)
      BY <1>2, RestsFacts
    <3> QED
      BY <3>2, <3>3
  <2> QED
    BY <2>1, <2>2
<1>8. Step(KillOp, r) /\ op[KillOp].pc \in Killing /\ r.pc \in Killing
  BY <1>1, <1>3, <1>4, <1>5 DEF Killing
<1> QED
  BY <1>2, <1>5, <1>6, <1>7, <1>8, QuietKill

\* While kill() is at an applicant, what it leaves behind is closed.
LEMMA AtOne ==
  ASSUME Tracked, op[KillOp].pc \in Killing, Rests, NEW b, b = op[KillOp].who
  PROVE  \A a \in op[KillOp].visited \ crossed : browserClients[a] # 0 /\ (a = b \/ OpenOf(a)' = {})
<1> SUFFICES ASSUME NEW a \in op[KillOp].visited \ crossed
             PROVE  browserClients[a] # 0 /\ (a = b \/ OpenOf(a)' = {})
  OBVIOUS
<1>1. browserClients[a] # 0 /\ (a = b \/ OpenOf(a) = {})
  BY DEF Tracked, Visits, At
<1>2. OpenOf(a)' \subseteq OpenOf(a)
  BY RestsFacts
<1> QED
  BY <1>1, <1>2

LEMMA EndingKillInv == ASSUME DriverInv, Ending(KillOp) PROVE DriverInv'
<1>1. /\ KillOp \in Calls /\ SessionsTypeOK /\ op[KillOp] \in CallRecords /\ op[KillOp].pc = "end"
      /\ browserClients[op[KillOp].who] \in 0..MaxSessions /\ killed
  BY DEF Calls, DriverInv, SessionsTypeOK, CallRecords, Ending, KillsSince
<1>2. Rests
  BY <1>1 DEF Ending, Rests, Closing, SessionsTypeOK
<1>3. PICK b, s : b = op[KillOp].who /\ s = browserClients[b]
  OBVIOUS
<1>4. op[KillOp].pc \in Killing
  BY <1>1 DEF Killing
<1>5. CASE s = 0
  <2>1. PICK r : r = Finish(KillOp, "done")
    OBVIOUS
  <2>2. r \in CallRecords /\ r.pc = "loop" /\ r.visited = op[KillOp].visited
    BY <2>1, <1>1, FinishRecord
  <2>3. Step(KillOp, r)
    BY <2>1, <1>3, <1>5 DEF Ending
  <2>4. Knows(r)' /\ r.pc \in Killing
    BY <2>2 DEF Knows, Killing
  <2>5. ASSUME Tracked, NEW a \in r.visited \ crossed
        PROVE  browserClients[a] # 0 /\ ((r.pc # "loop" /\ r.who = a) \/ OpenOf(a)' = {})
    <3>1. browserClients[a] # 0 /\ (a = b \/ OpenOf(a)' = {})
      BY <2>2, <2>5, <1>2, <1>3, <1>4, AtOne
    <3> QED
      BY <3>1, <1>3, <1>5
  <2> QED
    BY <2>2, <2>3, <2>4, <2>5, <1>2, <1>4, QuietKill
<1>6. CASE s # 0
  <2>1. PICK r : r = [op[KillOp] EXCEPT !.client = s, !.pc = "delete"]
    OBVIOUS
  <2>2. r \in CallRecords /\ r.pc = "delete" /\ r.visited = op[KillOp].visited /\ r.who = b
    BY <2>1, <1>1, <1>3 DEF CallRecords
  <2>3. Step(KillOp, [[op[KillOp] EXCEPT !.client = s] EXCEPT !.pc = "delete"])
    BY <1>1, <1>3, <1>6 DEF Ending
  <2>4. Step(KillOp, r)
    BY <2>1, <2>3, Zenon
  <2>5. Knows(r)' /\ r.pc \in Killing
    BY <2>2 DEF Knows, Killing
  <2>6. ASSUME Tracked, NEW a \in r.visited \ crossed
        PROVE  browserClients[a] # 0 /\ ((r.pc # "loop" /\ r.who = a) \/ OpenOf(a)' = {})
    <3>1. browserClients[a] # 0 /\ (a = b \/ OpenOf(a)' = {})
      BY <2>2, <2>6, <1>2, <1>3, <1>4, AtOne
    <3> QED
      BY <3>1, <2>2
  <2> QED
    BY <2>2, <2>4, <2>5, <2>6, <1>2, <1>4, QuietKill
<1> QED
  BY <1>5, <1>6

LEMMA DeleteSessionKillInv == ASSUME DriverInv, DeleteSession(KillOp) PROVE DriverInv'
<1>1. KillOp \in Calls /\ SessionsTypeOK /\ op[KillOp] \in CallRecords /\ op[KillOp].pc = "delete"
  BY DEF Calls, DriverInv, SessionsTypeOK, CallRecords, DeleteSession
<1>2. PICK b : b = op[KillOp].who
  OBVIOUS
<1>3. Rests /\ (~rejects /\ Tracked /\ b \notin crossed => OpenOf(b)' = {})
  BY <1>1, <1>2, DeleteFacts
<1>4. op[KillOp].pc \in Killing
  BY <1>1 DEF Killing
<1>5. CASE Step(KillOp, [op[KillOp] EXCEPT !.pc = "forget"])
  <2>1. PICK r : r = [op[KillOp] EXCEPT !.pc = "forget"]
    OBVIOUS
  <2>2. r \in CallRecords /\ r.pc = "forget" /\ r.visited = op[KillOp].visited /\ r.who = b
    BY <2>1, <1>1, <1>2 DEF CallRecords
  <2>3. Step(KillOp, r) /\ r.pc \in Killing
    BY <2>1, <2>2, <1>5 DEF Killing
  <2>4. ~rejects /\ Tracked => Knows(r)'
    <3>1. crossed' = crossed
      BY <1>3, RestsFacts
    <3>2. ~rejects /\ Tracked /\ r.who \notin crossed' => OpenOf(r.who)' = {}
      BY <3>1, <2>2, <1>3
    <3> QED
      BY <3>2, <2>2 DEF Knows
  <2>5. ASSUME Tracked, NEW a \in r.visited \ crossed
        PROVE  browserClients[a] # 0 /\ ((r.pc # "loop" /\ r.who = a) \/ OpenOf(a)' = {})
    <3>1. browserClients[a] # 0 /\ (a = b \/ OpenOf(a)' = {})
      BY <2>2, <2>5, <1>2, <1>3, <1>4, AtOne
    <3> QED
      BY <3>1, <2>2
  <2> QED
    BY <2>2, <2>3, <2>4, <2>5, <1>3, <1>4, QuietKill
<1>6. CASE Step(KillOp, Finish(KillOp, "failed"))
  <2>1. PICK r : r = Finish(KillOp, "failed")
    OBVIOUS
  <2>2. r \in CallRecords /\ r.pc = "loop" /\ r.visited = op[KillOp].visited
    BY <2>1, <1>1, FinishRecord
  <2>3. Step(KillOp, r) /\ r.pc \in Killing /\ Knows(r)'
    BY <2>1, <2>2, <1>6 DEF Killing, Knows
  <2>4. ASSUME ~rejects, Tracked, NEW a \in r.visited \ crossed
        PROVE  browserClients[a] # 0 /\ ((r.pc # "loop" /\ r.who = a) \/ OpenOf(a)' = {})
    <3>1. browserClients[a] # 0 /\ (a = b \/ OpenOf(a)' = {})
      BY <2>2, <2>4, <1>2, <1>3, <1>4, AtOne
    <3> QED
      BY <3>1, <2>4, <1>3
  <2> QED
    BY <2>2, <2>3, <2>4, <1>3, <1>4, QuietKill
<1> QED
  BY <1>1, <1>2, <1>5, <1>6, DeleteFacts

\* When kill() has been over the map nothing is open in it.
LEMMA LoopOverInv == ASSUME DriverInv, LoopOver(KillOp) PROVE DriverInv'
<1>1. KillOp \in Calls /\ SessionsTypeOK /\ op[KillOp].pc = "loop"
  BY DEF Calls, DriverInv, LoopOver
<1>2. PICK r : r = Ended("done")
  OBVIOUS
<1>3. r \in CallRecords /\ r.pc = "done" /\ r.visited = {}
  BY <1>2, EndedRecord DEF Over
<1>4. Step(KillOp, r)
  BY <1>2 DEF LoopOver
<1>5. Rests
  BY <1>1 DEF LoopOver, Rests, Closing, SessionsTypeOK
<1>6. SessionsTypeOK' /\ Leaves(KillOp, r)
  BY <1>1, <1>3, <1>4, <1>5, RestsType, StepFacts
<1>7. op'[KillOp] = r /\ \A p \in Calls \ {KillOp} : op'[p] = op[p]
  BY <1>6 DEF Leaves
<1>8. Creating' = Creating
  BY <1>1, <1>3, <1>7 DEF Creating
<1>9. KillsSince'
  BY <1>1, <1>3, <1>5, <1>7, <1>8, RestsFacts DEF DriverInv, KillsSince
<1>10. rejects' = rejects
  BY <1>5, RestsFacts
<1> SUFFICES ASSUME ~rejects PROVE Tracked'
  BY <1>6, <1>9, <1>10 DEF DriverInv
<1>11. Tracked
  BY DEF DriverInv
<1>12. Held' /\ Visits'
  BY <1>3, <1>5, <1>7, <1>11, RestsFacts DEF Tracked, Visits, Killing
<1>13. KillLeaves'
  <2>1. ASSUME NEW s \in OpenSessions PROVE FALSE
    <3>1. PICK a \in SessionUsers \ crossed : a = opener[s]
      BY <2>1, <1>1 DEF OpenSessions, SessionsTypeOK
    <3>2. s \in OpenOf(a) /\ s # 0
      BY <2>1, <3>1, SessionsAssumption DEF OpenSessions, OpenOf, Sessions
    <3>3. browserClients[a] = s
      BY <3>2, <1>11 DEF Tracked, Held
    <3>4. a \in op[KillOp].visited \ crossed
      BY <3>1, <3>2, <3>3 DEF LoopOver
    <3>5. OpenOf(a) = {}
      BY <3>4, <1>1, <1>11 DEF Tracked, Visits, At, Killing
    <3> QED
      BY <3>2, <3>5
  <2>2. OpenSessions' = {}
    BY <2>1, <1>5, RestsFacts
  <2>3. Cardinality(OpenSessions') = 0
    BY <2>2, FS_EmptySet
  <2>4. Cardinality(CreationsOver') \in Nat
    BY <1>6, FiniteCreations, FS_CardinalityType
  <2> QED
    BY <2>3, <2>4 DEF KillLeaves
<1>14. ASSUME NEW p \in Calls PROVE Knows(op[p])'
  <2>1. PICK q : q = op'[p]
    OBVIOUS
  <2>2. Knows(q)'
    <3>1. CASE p = KillOp
      BY <3>1, <2>1, <1>3, <1>7 DEF Knows
    <3>2. CASE p # KillOp
      <4>1. q = op[p]
        BY <2>1, <3>2, <1>7
      <4> QED
        BY <4>1, <1>5, <1>11, RestsFacts DEF Tracked
    <3> QED
      BY <3>1, <3>2
  <2> QED
    BY <2>1, <2>2 DEF Knows
<1> QED
  BY <1>12, <1>13, <1>14 DEF Tracked

-----------------------------------------------------------------------------
(* All together                                                            *)

LEMMA DriverInvInit == ASSUME SessionsInit PROVE DriverInv
<1>1. Ended("idle") \in CallRecords /\ Ended("idle").pc = "idle" /\ Ended("idle").visited = {}
  BY EndedRecord DEF Over
<1>2. op \in [Calls -> CallRecords] /\ \A o \in Calls : op[o].pc = "idle" /\ op[o].visited = {}
  BY <1>1 DEF SessionsInit
<1>3. 0 \in 0..MaxSessions /\ \E a \in SessionUsers : TRUE
  BY SessionsAssumption
<1>4. Nobody \in SessionUsers
  BY <1>3, Zenon DEF Nobody
<1>5. SessionsTypeOK
  BY <1>2, <1>3, <1>4 DEF SessionsInit, SessionsTypeOK, CallRecords
<1>6. KillOp \in Calls
  BY DEF Calls
<1>7. KillsSince
  BY <1>2, <1>6 DEF KillsSince
<1>8. \A a : OpenOf(a) = {}
  BY DEF SessionsInit, OpenOf
<1>9. Held /\ Visits /\ KillLeaves
  BY <1>2, <1>6, <1>8 DEF Held, Visits, KillLeaves, Killing
<1>10. \A o \in Calls : Knows(op[o])
  BY <1>2 DEF Knows
<1> QED
  BY <1>5, <1>7, <1>9, <1>10 DEF DriverInv, Tracked

LEMMA ServerReadyInv == ASSUME DriverInv, ServerReady PROVE DriverInv'
<1>1. /\ UNCHANGED <<sessionModes, browserClients, expired, killed, session, op, raced, ghosts>>
      /\ ready' = TRUE
  BY DEF ServerReady
<1> QED
  BY <1>1 DEF DriverInv, SessionsTypeOK, KillsSince, Tracked, Held, Visits, KillLeaves, Knows, OpenOf,
              OpenSessions, CreationsOver, Creating, At, sessionModes, ghosts

LEMMA KillOpInv == ASSUME DriverInv, CallStep(KillOp) PROVE DriverInv'
<1>1. op[KillOp].pc \in Killing \cup {"idle", "done"} /\ KillOp \in Calls
  BY DEF DriverInv, KillsSince, Calls
<1>2. ~(LookUp(KillOp) \/ Opened(KillOp) \/ NotOpened(KillOp) \/ Used(KillOp) \/ Dropped(KillOp) \/ Emulate(KillOp))
  BY <1>1 DEF Killing, LookUp, Opened, NotOpened, Used, Dropped, Emulate
<1> QED
  BY <1>1, <1>2, EndingKillInv, DeleteSessionKillInv, ForgetInv, NextApplicantInv, LoopOverInv DEF CallStep

LEMMA DriverInvNext == ASSUME DriverInv, [SessionsNext]_sessionVars PROVE DriverInv'
<1>1. CASE UNCHANGED sessionVars
  BY <1>1 DEF DriverInv, SessionsTypeOK, KillsSince, Tracked, Held, Visits, KillLeaves, Knows, OpenOf,
              OpenSessions, CreationsOver, Creating, At, sessionVars, sessionModes, ghosts
<1>2. CASE \E o \in Ops : CallStep(o)
  <2>1. PICK o \in Ops : CallStep(o)
    BY <1>2
  <2>2. o # KillOp /\ o \in Calls
    BY SessionsAssumption DEF Calls
  <2>3. ~NextApplicant(o) /\ ~LoopOver(o)
    BY <2>2 DEF NextApplicant, LoopOver
  <2> QED
    BY <2>1, <2>2, <2>3, LookUpInv, OpenedInv, NotOpenedInv, UsedInv, DroppedInv, EmulateInv, EndingInv,
       DeleteSessionInv, ForgetInv DEF CallStep
<1>3. CASE \E o \in Ops : CallPlugin(o) \/ CheckTimeout(o)
  BY <1>3, CallsInv
<1> QED
  BY <1>1, <1>2, <1>3, ServerReadyInv, KillOpInv, KillPluginInv DEF SessionsNext, SessionsProgress, Calls

\* The two properties.
LEMMA DriverInvMeans == ASSUME DriverInv PROVE SessionsKept /\ NoSessionLeft
<1>1. SessionsKept
  <2> SUFFICES ASSUME ~rejects, NEW s \in Sessions, session[s] = "open", opener[s] \notin crossed
               PROVE  browserClients[opener[s]] = s
    BY DEF SessionsKept
  <2>1. opener[s] \in SessionUsers \ crossed
    BY DEF DriverInv, SessionsTypeOK
  <2> QED
    BY <2>1 DEF DriverInv, Tracked, Held, OpenOf
<1>2. NoSessionLeft
  <2> SUFFICES ASSUME op[KillOp].pc = "done", ~rejects
               PROVE  Cardinality(OpenSessions) <= Cardinality(raced)
    BY DEF NoSessionLeft, OpenSessions
  <2>1. Cardinality(OpenSessions) <= Cardinality(CreationsOver)
    BY DEF DriverInv, Tracked, KillLeaves
  <2>2. IsFiniteSet(OpenSessions)
    BY FiniteSessions DEF DriverInv
  <2>3. IsFiniteSet(raced)
    <3>1. IsFiniteSet(Calls)
      BY SessionsAssumption, FS_AddElement DEF Calls
    <3> QED
      BY <3>1, FS_Subset DEF DriverInv, SessionsTypeOK
  <2>4. CreationsOver \in SUBSET raced
    BY DEF CreationsOver
  <2> QED
    BY <2>1, <2>2, <2>3, <2>4, Counted
<1> QED
  BY <1>1, <1>2

\* As long as the server does not reject, the driver loses no session, and kill() leaves
\* only those open whose creation was under way when it began, except for applicants for
\* whom a session was opened beside another of their calls: SessionsKept and
\* NoSessionLeft.
THEOREM SessionsAreKept == BrowserSpec => []DriverKeeps
<1> DEFINE Inv == part = "sessions" => DriverInv
<1>1. BrowserInit => Inv
  BY DriverInvInit DEF BrowserInit
<1>2. Inv /\ [BrowserNext]_browserVars => Inv'
  <2> SUFFICES ASSUME Inv, [BrowserNext]_browserVars, (part = "sessions")' PROVE DriverInv'
    OBVIOUS
  <2>1. part' = part /\ [SessionsNext]_sessionVars
    BY DEF BrowserNext, browserVars, OfProxy, OfSessions, OfApp, OfTabs, sessionVars
  <2> QED
    BY <2>1, DriverInvNext
<1>3. Inv => DriverKeeps
  BY DriverInvMeans DEF DriverKeeps
<1> QED
  BY <1>1, <1>2, <1>3, PTL DEF BrowserSpec

-----------------------------------------------------------------------------
(* The commands of the web application                                     *)

\* The values of the variables.
Asking == {"ask", "asks", "try", "tries", "exist", "call", "float", "shot"}
Places == {"idle", "init", "before", "run", "asked", "inner", "rejected", "shot", "closing", "over"}
CommandRecords ==
  [pc : Places, rest : Seq(Asking), kind : {"plain", "timer", "float", "passed", "failed"}, soft : BOOLEAN,
   asked : 0..MaxPolls, opened : BOOLEAN, settled : {"no", "ok", "error"}]

\* A call in these places asks for nothing.
QuietPlaces == {"idle", "shot", "closing", "over"}
IsAssertion(r) == r.kind \in {"passed", "failed"}
\* What the record of a call says, whosever it is.
RecordIs(r) ==
  /\ r.pc = "idle" => r = NotCalled
  /\ r.settled = "ok" => r.pc = "over"
  /\ r.pc \in {"shot", "closing"} => r.settled = "error"
  /\ r.settled # "no" /\ r.kind # "timer" => r.pc \in QuietPlaces
  /\ r.kind # "float" => r.rest \in Seq(Asking \ {"float"})
  /\ r.pc = "rejected" => IsAssertion(r)
  /\ r.pc \in {"asked", "inner"} => r.rest # <<>>
  /\ IsAssertion(r) =>
       /\ r.pc \in {"run", "asked", "rejected", "over"} /\ r.rest \in Seq({"shot"})
       /\ r.pc # "over" => r.settled = "no"
\* A command and the call it makes.
PairIs(r, i) ==
  /\ RecordIs(r) /\ RecordIs(i)
  /\ i.kind = "plain" /\ i.rest \in Seq({"ask", "tries"}) /\ i.pc # "inner"
  /\ r.pc = "idle" => i.pc = "idle"
  /\ r.kind # "float" =>
       /\ i.pc \notin QuietPlaces => r.pc = "inner"
       /\ i.settled = "error" => r.pc = "inner" \/ r.settled = "error"
CallsAre == \A c \in AppCalls : PairIs(call[Command(c)], call[Inner(Command(c))])

\* A test that awaits its commands, none of which has failed or goes on by itself.
Smooth ==
  /\ ~parallel /\ process = "up"
  /\ \A w \in Wrapped : call[w].settled # "error" /\ call[w].kind \notin {"timer", "float", "failed"}
UnderWay(c) == call[Command(c)].pc \notin {"idle", "over"}
Base == <<<<"test">>>>
WithStep(w) == <<<<"test">>, w>>
\* The log while r is the record of the command w under way.
LogOf(r, w) ==
  IF r.pc \in {"init", "before"} THEN ~isLogOpened /\ stepStack = Base /\ r.kind = "plain"
  ELSE /\ stepStack = WithStep(w) /\ (isLogOpened <=> r.kind = "plain")
       /\ r.kind = "plain" => r.opened
LogOk ==
  /\ \A c, d \in AppCalls : UnderWay(c) /\ UnderWay(d) => c = d
  /\ (\A c \in AppCalls : ~UnderWay(c)) => ~isLogOpened /\ stepStack = Base
  /\ \A c \in AppCalls :
       /\ UnderWay(c) => LogOf(call[Command(c)], Command(c))
       /\ call[Inner(Command(c))].pc # "before" /\ ~call[Inner(Command(c))].opened

CallsFine == call \in [Wrapped -> CommandRecords] /\ CallsAre
AppInv == CallsFine /\ AssertionsHeard /\ (Smooth => LogOk)

LEMMA WrappedFacts ==
  /\ \A c \in AppCalls : Command(c) \in Wrapped /\ Inner(Command(c)) \in Wrapped /\ Command(c) # Inner(Command(c))
  /\ \A c, d \in AppCalls : Command(c) # Inner(Command(d)) /\ (Command(c) = Command(d) => c = d)
       /\ (Inner(Command(c)) = Inner(Command(d)) => c = d)
  /\ \A w \in Wrapped : w[1] \in AppCalls /\ (w = Command(w[1]) \/ w = Inner(Command(w[1])))
       /\ Inner(w) = Inner(Command(w[1])) /\ w # <<"test">>
  /\ \A c : Command(c)[1] = c /\ Inner(Command(c))[1] = c
BY DEF Wrapped, Command, Inner

\* A method asks for what calls ask for, and only one of them for a call that is not awaited.
LEMMA MethodFacts ==
  \A m \in Methods \cup ShortMethods :
    m \in Seq(Asking) /\ (m # SetValueByScript => m \in Seq(Asking \ {"float"}))
<1> DEFINE A == Asking \ {"float"}
           Fine(m) == m \in Seq(Asking) /\ (m # SetValueByScript => m \in Seq(A))
<1>1. \A m \in Seq(A) : Fine(m)
  OBVIOUS
<1>2. /\ <<>> \in Seq(A) /\ (\A x \in A : <<x>> \in Seq(A)) /\ (\A x, y \in A : <<x, y>> \in Seq(A))
      /\ (\A x, y, z \in A : <<x, y, z>> \in Seq(A))
      /\ (\A x, y, z, u \in A : <<x, y, z, u>> \in Seq(A))
  OBVIOUS
<1>3. /\ "ask" \in A /\ "asks" \in A /\ "try" \in A /\ "tries" \in A /\ "exist" \in A /\ "call" \in A
      /\ "shot" \in A
  BY DEF Asking
<1>4. SetValueByScript \in Seq(Asking)
  BY DEF SetValueByScript, Asking
<1>5. Fine(SetValueByScript)
  BY <1>4
<1> HIDE DEF A
<1>6. OneRequest \in Seq(A) /\ WaitForExist \in Seq(A) /\ OpenPage \in Seq(A) /\ ShortMethods \subseteq Seq(A)
  BY <1>2, <1>3, Zenon DEF WaitForExist, OneRequest, OpenPage, ShortMethods
<1>7. /\ VisibleMethods \subseteq Seq(A) /\ BecomeMethods \subseteq Seq(A) /\ ClickMethods \subseteq Seq(A)
      /\ ValueMethods \subseteq Seq(A) /\ TextMethods \subseteq Seq(A) /\ SelectMethods \subseteq Seq(A)
      /\ StateMethods \subseteq Seq(A) /\ MoveMethods \subseteq Seq(A)
  <2>1. /\ VisibleMethods \subseteq Seq(A) /\ BecomeMethods \subseteq Seq(A) /\ ClickMethods \subseteq Seq(A)
        /\ ValueMethods \subseteq Seq(A)
    BY <1>2, <1>3, Zenon DEF VisibleMethods, BecomeMethods, ClickMethods, ValueMethods
  <2>2. TextMethods \subseteq Seq(A) /\ SelectMethods \subseteq Seq(A)
    BY <1>2, <1>3, Zenon DEF TextMethods, SelectMethods
  <2>3. StateMethods \subseteq Seq(A) /\ MoveMethods \subseteq Seq(A)
    BY <1>2, <1>3, Zenon DEF StateMethods, MoveMethods
  <2> QED
    BY <2>1, <2>2, <2>3
<1>8. /\ CountMethods \subseteq Seq(A) /\ AlertMethods \subseteq Seq(A) /\ FrameMethods \subseteq Seq(A)
      /\ UrlMethods \subseteq Seq(A) /\ KeyMethods \subseteq Seq(A) /\ ElementMethods \subseteq Seq(A)
      /\ CheckMethods \subseteq Seq(A)
  BY <1>2, <1>3, <1>6, Zenon DEF CountMethods, AlertMethods, FrameMethods, UrlMethods, KeyMethods, ElementMethods,
                                 CheckMethods
<1>9. FieldMethods \subseteq Seq(A) \cup {SetValueByScript}
  <2>1. /\ <<"call">> \in Seq(A) /\ <<"exist", "ask", "exist", "ask">> \in Seq(A) /\ <<"exist", "call">> \in Seq(A)
        /\ <<"exist", "ask">> \in Seq(A) /\ <<"call", "shot">> \in Seq(A) /\ <<"exist", "ask", "shot">> \in Seq(A)
    BY <1>2, <1>3
  <2> QED
    BY <2>1, <1>6, Zenon DEF FieldMethods
<1>10. Methods \cup ShortMethods \subseteq Seq(A) \cup {SetValueByScript}
  BY <1>6, <1>7, <1>8, <1>9, Zenon DEF Methods
<1> QED
  BY <1>1, <1>5, <1>10 DEF A

\* The end of the step of the test's only command.
LEMMA EndOfStep ==
  ASSUME NEW w \in Wrapped, stepStack = WithStep(w)
  PROVE  EndStep(w) = Base
<1>1. w # <<"test">>
  BY WrappedFacts
<1>2. Len(stepStack) = 2 /\ stepStack[2] = w /\ stepStack[1] # w
  BY <1>1 DEF WithStep
<1>3. w \in ToSet(stepStack)
  BY <1>2 DEF ToSet, WithStep
<1>4. {i \in 1..Len(stepStack) : stepStack[i] = w} = {2}
  BY <1>2
<1>5. Max({2}) = 2
  BY DEF Max
<1>6. SelectLastInSeq(stepStack, LAMBDA s : s = w) = 2
  BY <1>4, <1>5 DEF SelectLastInSeq
<1>7. SubSeq(stepStack, 1, 2 - 1) = Base
  <2>1. stepStack \in Seq({<<"test">>, w}) /\ stepStack[1] = <<"test">> /\ 2 - 1 = 1
    BY DEF WithStep
  <2>2. SubSeq(stepStack, 1, 1) \in Seq({<<"test">>, w}) /\ Len(SubSeq(stepStack, 1, 1)) = 1
    BY <1>2, <2>1
  <2>3. SubSeq(stepStack, 1, 1)[1] = stepStack[1]
    BY <1>2, <2>1, <2>2
  <2>4. SubSeq(stepStack, 1, 1) = <<stepStack[1]>>
    <3> DEFINE one == SubSeq(stepStack, 1, 1)
    <3>1. <<stepStack[1]>> \in Seq({<<"test">>, w}) /\ Len(<<stepStack[1]>>) = 1
      BY <2>1
    <3>2. \A i \in 1..Len(one) : one[i] = <<stepStack[1]>>[i]
      BY <2>2, <2>3
    <3> QED
      BY <2>2, <3>1, <3>2, SeqEqual
  <2> QED
    BY <2>1, <2>4 DEF Base
<1> QED
  BY <1>3, <1>6, <1>7 DEF EndStep

-----------------------------------------------------------------------------
\* Who fails in a request or in a call that it waits for.
LEMMA RejectedFacts ==
  ASSUME NEW r \in CommandRecords, RecordIs(r), r.pc \in {"asked", "inner"}, ~IsAssertion(r) \/ r.pc = "asked"
  PROVE  /\ Rejected(r) \in CommandRecords /\ RecordIs(Rejected(r)) /\ Rejected(r).kind = r.kind
         /\ Rejected(r).pc \in {"rejected", "shot", "over"} /\ (Rejected(r).pc = "rejected" <=> IsAssertion(r))
         /\ Rejected(r).soft = r.soft /\ Rejected(r).opened = r.opened
         /\ Rejected(r).rest \in {<<>>, r.rest}
         /\ (~IsAssertion(r) => Rejected(r).settled = "error")
         /\ (IsAssertion(r) => Rejected(r).settled = r.settled)
<1>0. <<>> \in Seq(Asking) /\ <<>> \in Seq(Asking \ {"float"})
  OBVIOUS
<1>1. CASE IsAssertion(r)
  BY <1>1 DEF Rejected, RecordIs, IsAssertion, CommandRecords, Places, QuietPlaces, NotCalled
<1>2. CASE ~IsAssertion(r)
  <2>1. r.settled # "ok"
    BY DEF RecordIs
  <2> DEFINE q == [r EXCEPT !.settled = IF @ = "no" THEN "error" ELSE @, !.rest = <<>>,
                            !.pc = IF r.opened THEN "shot" ELSE "over"]
  <2>2. Rejected(r) = q
    BY <1>2 DEF Rejected, IsAssertion
  <2>3. /\ q \in CommandRecords /\ q.settled = "error" /\ q.rest = <<>> /\ q.pc \in {"shot", "over"}
        /\ q.kind = r.kind /\ q.soft = r.soft /\ q.opened = r.opened
    BY <2>1, <1>0 DEF CommandRecords, Places
  <2> HIDE DEF q
  <2>4. RecordIs(q)
    BY <2>3, <1>0, <1>2 DEF RecordIs, IsAssertion, QuietPlaces
  <2> QED
    BY <2>2, <2>3, <2>4, <1>2 DEF IsAssertion
<1> QED
  BY <1>1, <1>2

\* A call that goes on with what it asks for, or with the next.
LEMMA OnwardFacts ==
  ASSUME NEW r \in CommandRecords, RecordIs(r), r.pc \in {"run", "asked", "inner"}, r.rest # <<>>,
         NEW q, q.pc \in {"run", "asked", "inner"}, q.rest = r.rest \/ q.rest = Tail(r.rest),
         q.kind = r.kind, q.settled = r.settled, IsAssertion(r) => q.pc # "inner",
         q.pc = "run" \/ q.rest = r.rest
  PROVE  RecordIs(q)
<1>1. /\ r.rest \in Seq(Asking \ {"float"}) => Tail(r.rest) \in Seq(Asking \ {"float"})
      /\ r.rest \in Seq({"shot"}) => Tail(r.rest) \in Seq({"shot"})
  OBVIOUS
<1> QED
  BY <1>1 DEF RecordIs, IsAssertion, QuietPlaces

\* A step of one call keeps the pairs of the others.
LEMMA OnePair ==
  ASSUME CallsAre, call \in [Wrapped -> CommandRecords], NEW w \in Wrapped, NEW q,
         call' = [call EXCEPT ![w] = q],
         w = Command(w[1]) => PairIs(q, call[Inner(Command(w[1]))]),
         w = Inner(Command(w[1])) => PairIs(call[Command(w[1])], q)
  PROVE  CallsAre'
<1> SUFFICES ASSUME NEW c \in AppCalls PROVE PairIs(call'[Command(c)], call'[Inner(Command(c))])
  BY DEF CallsAre
<1>0. PairIs(call[Command(c)], call[Inner(Command(c))])
  BY DEF CallsAre
<1>1. CASE w = Command(c)
  <2>1. call'[Command(c)] = q /\ call'[Inner(Command(c))] = call[Inner(Command(c))]
    BY <1>1, WrappedFacts
  <2> QED
    BY <1>1, <2>1, WrappedFacts
<1>2. CASE w = Inner(Command(c))
  <2>1. call'[Inner(Command(c))] = q /\ call'[Command(c)] = call[Command(c)]
    BY <1>2, WrappedFacts
  <2> QED
    BY <1>2, <2>1, WrappedFacts
<1>3. CASE w # Command(c) /\ w # Inner(Command(c))
  <2>1. call'[Inner(Command(c))] = call[Inner(Command(c))] /\ call'[Command(c)] = call[Command(c)]
    BY <1>3, WrappedFacts
  <2> QED
    BY <1>0, <2>1
<1> QED
  BY <1>1, <1>2, <1>3

LEMMA PairFacts ==
  ASSUME CallsFine, NEW w \in Wrapped
  PROVE  /\ RecordIs(call[w]) /\ call[w] \in CommandRecords
         /\ PairIs(call[Command(w[1])], call[Inner(Command(w[1]))])
BY WrappedFacts DEF CallsFine, CallsAre, PairIs

LEMMA PairStep ==
  ASSUME CallsFine, NEW w \in Wrapped, NEW q \in CommandRecords, Set(w, q),
         w = Command(w[1]) => PairIs(q, call[Inner(Command(w[1]))]),
         w = Inner(Command(w[1])) => PairIs(call[Command(w[1])], q)
  PROVE  CallsFine'
BY OnePair DEF CallsFine, Set

\* A step of a call that is neither called nor quiet afterwards, or is over, and waits
\* for no other.
LEMMA SingleStep ==
  ASSUME CallsFine, NEW w \in Wrapped, NEW q \in CommandRecords, Set(w, q), RecordIs(q),
         call[w].pc \notin {"idle", "inner"} \/ call[Inner(w)].pc \in QuietPlaces, call[w].pc # "idle",
         q.pc # "idle", q.kind = call[w].kind \/ (w = Command(w[1]) /\ q.kind # "plain" /\ call[w].kind # "float"),
         w = Inner(Command(w[1])) => q.pc # "inner" /\ q.kind = "plain" /\ q.rest \in Seq({"ask", "tries"}),
         q.settled = "error" \/ (q.settled = call[w].settled /\ call[w].pc # "inner") \/ call[Inner(w)].settled = "ok",
         call[w].pc \in QuietPlaces => q.pc \in QuietPlaces /\ q.settled = call[w].settled
  PROVE  CallsFine'
<1> DEFINE r == call[Command(w[1])]
           i == call[Inner(Command(w[1]))]
<1>1. PairIs(r, i) /\ Inner(w) = Inner(Command(w[1]))
  BY PairFacts, WrappedFacts
<1>2. CASE w = Command(w[1])
  <2>1. PairIs(q, i)
    BY <1>1, <1>2 DEF PairIs, QuietPlaces
  <2> QED
    BY <1>2, <2>1, PairStep, WrappedFacts
<1>3. CASE w = Inner(Command(w[1]))
  <2>1. PairIs(r, q)
    BY <1>1, <1>3 DEF PairIs, QuietPlaces
  <2> QED
    BY <1>3, <2>1, PairStep, WrappedFacts
<1> QED
  BY <1>2, <1>3, WrappedFacts


\* A call that has not been made.
LEMMA BlankCall ==
  /\ NotCalled \in CommandRecords /\ NotCalled.pc = "idle" /\ NotCalled.kind = "plain" /\ NotCalled.settled = "no"
  /\ NotCalled.rest = <<>> /\ ~NotCalled.opened
BY AppAssumption DEF NotCalled, CommandRecords, Places

\* Each step of the calls keeps them fine.
LEMMA CallKeeps == ASSUME CallsFine, NEW c \in AppCalls, Call(c) PROVE CallsFine'
<1> DEFINE w == Command(c)
<1>1. w \in Wrapped /\ w = Command(w[1]) /\ w # Inner(Command(w[1]))
  BY WrappedFacts
<1>2. PICK m \in Methods \cup ShortMethods, kind \in {"timer", "float", "plain"} :
        /\ Set(w, [NotCalled EXCEPT !.pc = "init", !.rest = m, !.kind = kind])
        /\ kind # "float" => m # SetValueByScript
  <2>1. OpenPage # SetValueByScript
    <3>1. Len(OpenPage) = 2 /\ Len(SetValueByScript) = 3
      BY DEF OpenPage, SetValueByScript
    <3> QED
      BY <3>1
  <2>2. PICK m \in Methods \cup ShortMethods, timer \in BOOLEAN :
          /\ timer => m = OpenPage
          /\ Set(w, [NotCalled EXCEPT !.pc = "init", !.rest = m,
                       !.kind = IF timer THEN "timer" ELSE IF m = SetValueByScript THEN "float" ELSE "plain"])
    BY DEF Call
  <2> DEFINE kd == IF timer THEN "timer" ELSE IF m = SetValueByScript THEN "float" ELSE "plain"
  <2>3. kd \in {"timer", "float", "plain"} /\ (kd # "float" => m # SetValueByScript)
    BY <2>1, <2>2, Zenon
  <2>4. Set(w, [NotCalled EXCEPT !.pc = "init", !.rest = m, !.kind = kd])
    BY <2>2, Zenon
  <2> HIDE DEF kd
  <2> QED
    BY <2>3, <2>4
<1> DEFINE q == [NotCalled EXCEPT !.pc = "init", !.rest = m, !.kind = kind]
<1>3. m \in Seq(Asking) /\ (m # SetValueByScript => m \in Seq(Asking \ {"float"}))
  BY MethodFacts
<1>4. /\ q \in CommandRecords /\ q.pc = "init" /\ q.rest = m /\ q.kind = kind /\ q.settled = "no"
  BY <1>3, BlankCall DEF CommandRecords, Places
<1> HIDE DEF q
<1>5. RecordIs(q)
  BY <1>2, <1>3, <1>4 DEF RecordIs, IsAssertion, QuietPlaces
<1>6. call[w].pc = "idle" /\ PairIs(call[w], call[Inner(w)])
  BY <1>1, PairFacts DEF Call, MayCall
<1>7. call[Inner(w)] = NotCalled
  BY <1>6 DEF PairIs, RecordIs
<1>8. PairIs(q, call[Inner(w)])
  BY <1>4, <1>5, <1>6, <1>7 DEF PairIs, NotCalled, QuietPlaces
<1> QED
  BY <1>1, <1>2, <1>4, <1>8, PairStep DEF q

LEMMA InitialisedKeeps == ASSUME CallsFine, NEW w \in Wrapped, Initialised(w) PROVE CallsFine'
<1>1. PICK p \in {"run", "before"} : Set(w, [call[w] EXCEPT !.pc = p])
  BY DEF Initialised
<1> DEFINE r == call[w]
           q == [r EXCEPT !.pc = p]
<1>2. r \in CommandRecords /\ RecordIs(r) /\ PairIs(call[Command(w[1])], call[Inner(Command(w[1]))]) /\ r.pc = "init"
  BY PairFacts DEF Initialised
<1>3. q \in CommandRecords /\ q.pc = p /\ q.rest = r.rest /\ q.kind = r.kind /\ q.settled = r.settled
  BY <1>2 DEF CommandRecords, Places
<1> HIDE DEF q
<1>4. RecordIs(q)
  BY <1>2, <1>3 DEF RecordIs, IsAssertion, QuietPlaces
<1>5. w = Inner(Command(w[1])) => q.kind = "plain" /\ q.rest \in Seq({"ask", "tries"})
  BY <1>2, <1>3 DEF PairIs
<1> QED
  BY <1>1, <1>2, <1>3, <1>4, <1>5, SingleStep DEF QuietPlaces, q

LEMMA OpenStepKeeps == ASSUME CallsFine, NEW w \in Wrapped, OpenStep(w) PROVE CallsFine'
<1> DEFINE r == call[w]
           q == [r EXCEPT !.pc = "run", !.opened = TRUE]
<1>1. CASE call' = call
  BY <1>1 DEF CallsFine, CallsAre
<1>2. CASE Set(w, q)
  <2>1. r \in CommandRecords /\ RecordIs(r) /\ PairIs(call[Command(w[1])], call[Inner(Command(w[1]))]) /\ r.pc = "before"
    BY PairFacts DEF OpenStep
  <2>2. q \in CommandRecords /\ q.pc = "run" /\ q.rest = r.rest /\ q.kind = r.kind /\ q.settled = r.settled
    BY <2>1 DEF CommandRecords, Places
  <2> HIDE DEF q
  <2>3. RecordIs(q)
    BY <2>1, <2>2 DEF RecordIs, IsAssertion, QuietPlaces
  <2>4. w = Inner(Command(w[1])) => q.kind = "plain" /\ q.rest \in Seq({"ask", "tries"})
    BY <2>1, <2>2 DEF PairIs
  <2> QED
    BY <1>2, <2>1, <2>2, <2>3, <2>4, SingleStep DEF QuietPlaces, q
<1> QED
  BY <1>1, <1>2 DEF OpenStep


\* What a call of another awaits.
LEMMA InnerCalled ==
  ASSUME CallsFine, NEW w \in Wrapped, w = Command(w[1]), NEW q \in CommandRecords, NEW body,
         body \in {WaitForExist, OneRequest}, CallsInner(w, q, body),
         RecordIs(q), q.kind = "float" \/ q.pc = "inner", q.pc # "idle"
  PROVE  /\ CallsFine'
         /\ call' = [call EXCEPT ![w] = q, ![Inner(w)] = [NotCalled EXCEPT !.pc = "init", !.rest = body]]
<1> DEFINE i == [NotCalled EXCEPT !.pc = "init", !.rest = body]
<1>1. body \in Seq({"ask", "tries"}) /\ body \in Seq(Asking \ {"float"}) /\ body \in Seq(Asking)
  <2>1. WaitForExist \in Seq({"ask", "tries"}) /\ OneRequest \in Seq({"ask", "tries"})
    BY DEF WaitForExist, OneRequest
  <2>2. {"ask", "tries"} \subseteq Asking \ {"float"}
    BY DEF Asking
  <2>3. Seq({"ask", "tries"}) \subseteq Seq(Asking \ {"float"}) /\ Seq(Asking \ {"float"}) \subseteq Seq(Asking)
    BY <2>2
  <2> QED
    BY <2>1, <2>3
<1>2. i \in CommandRecords /\ i.pc = "init" /\ i.rest = body /\ i.kind = "plain" /\ i.settled = "no"
  BY <1>1, BlankCall DEF CommandRecords, Places
<1>3. call' = [call EXCEPT ![w] = q, ![Inner(w)] = i]
  BY DEF CallsInner
<1> HIDE DEF i
<1>4. RecordIs(i)
  BY <1>1, <1>2 DEF RecordIs, IsAssertion
<1>5. PairIs(q, i)
  BY <1>1, <1>2, <1>4 DEF PairIs
<1>6. call' \in [Wrapped -> CommandRecords]
  BY <1>2, <1>3, WrappedFacts DEF CallsFine
<1>7. ASSUME NEW d \in AppCalls PROVE PairIs(call'[Command(d)], call'[Inner(Command(d))])
  <2>1. CASE d = w[1]
    <3>1. call'[Command(d)] = q /\ call'[Inner(Command(d))] = i
      BY <1>3, <2>1, WrappedFacts DEF CallsFine
    <3> QED
      BY <1>5, <3>1
  <2>2. CASE d # w[1]
    <3>1. call'[Command(d)] = call[Command(d)] /\ call'[Inner(Command(d))] = call[Inner(Command(d))]
      BY <1>3, <2>2, WrappedFacts DEF CallsFine
    <3> QED
      BY <3>1 DEF CallsFine, CallsAre
  <2> QED
    BY <2>1, <2>2
<1> QED
  BY <1>3, <1>6, <1>7 DEF CallsFine, CallsAre, i

LEMMA GoesKeeps == ASSUME CallsFine, NEW w \in Wrapped, Goes(w) PROVE CallsFine'
<1> DEFINE r == call[w]
<1>0. /\ r \in CommandRecords /\ RecordIs(r) /\ PairIs(call[Command(w[1])], call[Inner(Command(w[1]))])
      /\ r.pc = "run" /\ r.rest # <<>>
  BY PairFacts DEF Goes
<1>1. Head(r.rest) \in Asking /\ Tail(r.rest) \in Seq(Asking)
  BY <1>0 DEF CommandRecords
<1>2. w = Inner(Command(w[1])) =>
        /\ r.kind = "plain" /\ Tail(r.rest) \in Seq({"ask", "tries"}) /\ r.rest \in Seq({"ask", "tries"})
        /\ Head(r.rest) \in {"ask", "tries"}
  BY <1>0 DEF PairIs
<1>3. CASE Set(w, [r EXCEPT !.pc = "asked"])
  <2> DEFINE q == [r EXCEPT !.pc = "asked"]
  <2>1. q \in CommandRecords /\ q.pc = "asked" /\ q.rest = r.rest /\ q.kind = r.kind /\ q.settled = r.settled
    BY <1>0 DEF CommandRecords, Places
  <2> HIDE DEF q
  <2>2. RecordIs(q)
    BY <1>0, <2>1, OnwardFacts
  <2> QED
    BY <1>0, <1>2, <1>3, <2>1, <2>2, SingleStep DEF QuietPlaces, q
<1>4. CASE Head(r.rest) = "shot" /\ Set(w, [r EXCEPT !.rest = Tail(@)])
  <2> DEFINE q == [r EXCEPT !.rest = Tail(@)]
  <2>1. q \in CommandRecords /\ q.pc = "run" /\ q.rest = Tail(r.rest) /\ q.kind = r.kind /\ q.settled = r.settled
    BY <1>0, <1>1 DEF CommandRecords
  <2> HIDE DEF q
  <2>2. RecordIs(q)
    BY <1>0, <2>1, OnwardFacts
  <2> QED
    BY <1>0, <1>2, <1>4, <2>1, <2>2, SingleStep DEF QuietPlaces, q
<1>5. CASE /\ Head(r.rest) \in {"exist", "call"}
           /\ CallsInner(w, [r EXCEPT !.pc = "inner"], WaitForExist) \/ CallsInner(w, [r EXCEPT !.pc = "inner"], OneRequest)
  <2> DEFINE q == [r EXCEPT !.pc = "inner"]
  <2>1. q \in CommandRecords /\ q.pc = "inner" /\ q.rest = r.rest /\ q.kind = r.kind /\ q.settled = r.settled
    BY <1>0 DEF CommandRecords, Places
  <2>2. ~IsAssertion(r)
    <3>1. r.rest \in Seq({"shot"}) => Head(r.rest) = "shot"
      BY <1>0
    <3> QED
      BY <1>0, <1>5, <3>1 DEF RecordIs
  <2>3. w = Command(w[1])
    BY <1>2, <1>5, WrappedFacts
  <2>4. PICK body \in {WaitForExist, OneRequest} : CallsInner(w, q, body)
    BY <1>5
  <2> HIDE DEF q
  <2>5. RecordIs(q)
    BY <1>0, <2>1, <2>2, OnwardFacts
  <2> QED
    BY <2>1, <2>3, <2>4, <2>5, InnerCalled
<1>6. CASE Head(r.rest) = "float" /\ CallsInner(w, [r EXCEPT !.rest = Tail(@)], OneRequest)
  <2> DEFINE q == [r EXCEPT !.rest = Tail(@)]
  <2>1. q \in CommandRecords /\ q.pc = "run" /\ q.rest = Tail(r.rest) /\ q.kind = r.kind /\ q.settled = r.settled
    BY <1>0, <1>1 DEF CommandRecords
  <2>2. r.kind = "float"
    <3>1. r.rest \in Seq(Asking \ {"float"}) => Head(r.rest) # "float"
      BY <1>0
    <3> QED
      BY <1>0, <1>6, <3>1 DEF RecordIs
  <2>3. w = Command(w[1])
    BY <1>2, <1>6, WrappedFacts
  <2> HIDE DEF q
  <2>4. RecordIs(q)
    BY <1>0, <2>1, <2>2, OnwardFacts DEF IsAssertion
  <2>5. CallsInner(w, q, OneRequest)
    BY <1>6 DEF q
  <2> QED
    BY <2>1, <2>2, <2>3, <2>4, <2>5, InnerCalled
<1> QED
  BY <1>3, <1>4, <1>5, <1>6 DEF Goes

LEMMA ResolvesKeeps == ASSUME CallsFine, NEW w \in Wrapped, Resolves(w) PROVE CallsFine'
<1> DEFINE r == call[w]
           q == [r EXCEPT !.pc = "over", !.settled = IF @ = "no" THEN "ok" ELSE @]
<1>0. /\ r \in CommandRecords /\ RecordIs(r) /\ PairIs(call[Command(w[1])], call[Inner(Command(w[1]))])
      /\ r.pc = "run" /\ ~IsAssertion(r) /\ Set(w, q)
  BY PairFacts DEF Resolves, IsAssertion
<1>1. /\ q \in CommandRecords /\ q.pc = "over" /\ q.rest = r.rest /\ q.kind = r.kind
      /\ q.settled = (IF r.settled = "no" THEN "ok" ELSE r.settled)
  BY <1>0 DEF CommandRecords, Places
<1> HIDE DEF q
<1>2. RecordIs(q) /\ r.settled # "ok"
  BY <1>0, <1>1 DEF RecordIs, IsAssertion, QuietPlaces
<1>3. CASE w = Command(w[1])
  <2>1. PairIs(q, call[Inner(Command(w[1]))])
    BY <1>0, <1>1, <1>2, <1>3 DEF PairIs, QuietPlaces
  <2> QED
    BY <1>0, <1>1, <1>3, <2>1, PairStep, WrappedFacts
<1>4. CASE w = Inner(Command(w[1]))
  <2>1. PairIs(call[Command(w[1])], q)
    BY <1>0, <1>1, <1>2, <1>4 DEF PairIs, QuietPlaces, RecordIs
  <2> QED
    BY <1>0, <1>1, <1>4, <2>1, PairStep, WrappedFacts
<1> QED
  BY <1>3, <1>4, WrappedFacts


LEMMA InnerSettledKeeps == ASSUME CallsFine, NEW w \in Wrapped, InnerSettled(w) PROVE CallsFine'
<1> DEFINE r == call[w]
           i == call[Inner(w)]
<1>0. /\ r \in CommandRecords /\ RecordIs(r) /\ r.pc = "inner" /\ PairIs(call[Command(w[1])], call[Inner(Command(w[1]))])
      /\ Inner(w) = Inner(Command(w[1])) /\ i.settled # "no" /\ r.rest # <<>>
  BY PairFacts, WrappedFacts DEF InnerSettled, Settled, RecordIs
<1>1. w = Command(w[1])
  BY <1>0, WrappedFacts DEF PairIs
<1>2. i.pc \in QuietPlaces /\ ~IsAssertion(r) /\ PairIs(r, i)
  BY <1>0, <1>1 DEF PairIs, RecordIs, IsAssertion
<1>3. CASE i.settled = "ok"
  <2> DEFINE q == [r EXCEPT !.pc = "run", !.rest = Tail(@)]
  <2>1. q \in CommandRecords /\ q.pc = "run" /\ q.rest = Tail(r.rest) /\ q.kind = r.kind /\ q.settled = r.settled
    <3>1. Tail(r.rest) \in Seq(Asking)
      BY <1>0, <1>3 DEF CommandRecords
    <3> QED
      BY <1>0, <3>1 DEF CommandRecords, Places
  <2>2. Set(w, q)
    BY <1>3 DEF InnerSettled
  <2> HIDE DEF q
  <2>3. RecordIs(q)
    BY <1>0, <1>2, <1>3, <2>1, OnwardFacts
  <2>4. PairIs(q, i)
    BY <1>2, <1>3, <2>1, <2>3 DEF PairIs, QuietPlaces
  <2> QED
    BY <1>0, <1>1, <2>1, <2>2, <2>4, PairStep, WrappedFacts
<1>4. CASE i.settled = "error"
  <2>1. Set(w, Rejected(r))
    BY <1>4 DEF InnerSettled
  <2>2. /\ Rejected(r) \in CommandRecords /\ RecordIs(Rejected(r)) /\ Rejected(r).kind = r.kind
        /\ Rejected(r).pc \in {"shot", "over"} /\ Rejected(r).settled = "error"
    BY <1>0, <1>2, RejectedFacts
  <2>3. PairIs(Rejected(r), i)
    BY <1>2, <2>2 DEF PairIs, QuietPlaces
  <2> QED
    BY <1>0, <1>1, <2>1, <2>2, <2>3, PairStep, WrappedFacts
<1> QED
  <2>1. i \in CommandRecords
    BY PairFacts, WrappedFacts
  <2> QED
    BY <1>0, <1>3, <1>4, <2>1 DEF CommandRecords

LEMMA ErrorHandledKeeps == ASSUME CallsFine, NEW w \in Wrapped, ErrorHandled(w) \/ ClosesAgain(w) PROVE CallsFine'
<1> DEFINE r == call[w]
<1>0. /\ r \in CommandRecords /\ RecordIs(r) /\ r.pc \in {"shot", "closing"}
      /\ PairIs(call[Command(w[1])], call[Inner(Command(w[1]))])
  BY PairFacts DEF ErrorHandled, ClosesAgain
<1>1. CASE call' = call
  BY <1>1 DEF CallsFine, CallsAre
<1>2. ASSUME NEW p \in {"closing", "over"}, Set(w, [r EXCEPT !.pc = p]) PROVE CallsFine'
  <2> DEFINE q == [r EXCEPT !.pc = p]
  <2>1. q \in CommandRecords /\ q.pc = p /\ q.rest = r.rest /\ q.kind = r.kind /\ q.settled = r.settled
    BY <1>0, <1>2 DEF CommandRecords, Places
  <2> HIDE DEF q
  <2>2. RecordIs(q)
    BY <1>0, <2>1 DEF RecordIs, IsAssertion, QuietPlaces
  <2>3. w = Inner(Command(w[1])) => q.kind = "plain" /\ q.rest \in Seq({"ask", "tries"})
    BY <1>0, <2>1 DEF PairIs
  <2> QED
    BY <1>0, <1>2, <2>1, <2>2, <2>3, SingleStep DEF QuietPlaces, q
<1> QED
  BY <1>1, <1>2 DEF ErrorHandled, ClosesAgain

LEMMA PageTimeoutKeeps == ASSUME CallsFine, NEW w \in Wrapped, PageTimeout(w) PROVE CallsFine'
<1> DEFINE r == call[w]
           q == [r EXCEPT !.settled = "error"]
<1>0. /\ r \in CommandRecords /\ RecordIs(r) /\ r.kind = "timer" /\ PairIs(call[Command(w[1])], call[Inner(Command(w[1]))])
      /\ Set(w, q) /\ r.pc \in {"run", "asked", "inner"}
  BY PairFacts DEF PageTimeout
<1>1. q \in CommandRecords /\ q.pc = r.pc /\ q.rest = r.rest /\ q.kind = r.kind /\ q.settled = "error"
  BY <1>0 DEF CommandRecords
<1> HIDE DEF q
<1>2. w = Command(w[1])
  BY <1>0, WrappedFacts DEF PairIs
<1>3. RecordIs(q)
  BY <1>0, <1>1 DEF RecordIs, IsAssertion, QuietPlaces
<1>4. PairIs(q, call[Inner(Command(w[1]))])
  BY <1>0, <1>1, <1>2, <1>3 DEF PairIs
<1> QED
  BY <1>0, <1>1, <1>2, <1>4, PairStep, WrappedFacts

LEMMA CallAssertionKeeps == ASSUME CallsFine, NEW c \in AppCalls, CallAssertion(c) PROVE CallsFine'
<1> DEFINE w == Command(c)
<1>1. w \in Wrapped /\ w = Command(w[1]) /\ w # Inner(Command(w[1]))
  BY WrappedFacts
<1>2. PICK kind \in {"passed", "failed"}, soft \in BOOLEAN :
        Set(w, [NotCalled EXCEPT !.pc = "run", !.rest = <<"shot">>, !.kind = kind, !.soft = soft])
  BY DEF CallAssertion
<1> DEFINE q == [NotCalled EXCEPT !.pc = "run", !.rest = <<"shot">>, !.kind = kind, !.soft = soft]
<1>3. /\ <<"shot">> \in Seq({"shot"}) /\ <<"shot">> \in Seq(Asking) /\ <<"shot">> \in Seq(Asking \ {"float"})
  BY DEF Asking
<1>4. q \in CommandRecords /\ q.pc = "run" /\ q.rest = <<"shot">> /\ q.kind = kind /\ q.settled = "no"
  BY <1>3, BlankCall DEF CommandRecords, Places
<1> HIDE DEF q
<1>5. RecordIs(q)
  BY <1>2, <1>3, <1>4 DEF RecordIs, IsAssertion, QuietPlaces
<1>6. call[w].pc = "idle" /\ PairIs(call[w], call[Inner(w)])
  BY <1>1, PairFacts DEF CallAssertion, MayCall
<1>7. call[Inner(w)] = NotCalled
  BY <1>6 DEF PairIs, RecordIs
<1>8. PairIs(q, call[Inner(w)])
  BY <1>4, <1>5, <1>6, <1>7 DEF PairIs, NotCalled, QuietPlaces
<1> QED
  BY <1>1, <1>2, <1>4, <1>8, PairStep DEF q

LEMMA AssertHandledKeeps == ASSUME CallsFine, NEW c \in AppCalls, AssertHandled(c) PROVE CallsFine'
<1> DEFINE w == Command(c)
           r == call[w]
           i == call[Inner(Command(w[1]))]
<1>0. /\ w \in Wrapped /\ w = Command(w[1]) /\ w # Inner(Command(w[1]))
      /\ r \in CommandRecords /\ RecordIs(r) /\ PairIs(r, i) /\ r.pc \in {"run", "rejected"} /\ IsAssertion(r)
  BY PairFacts, WrappedFacts DEF AssertHandled, RecordIs, IsAssertion
<1>1. ASSUME NEW s \in {"ok", "error"}, Set(w, [[r EXCEPT !.pc = "over"] EXCEPT !.settled = s])
      PROVE  CallsFine'
  <2> DEFINE q == [[r EXCEPT !.pc = "over"] EXCEPT !.settled = s]
  <2>1. q \in CommandRecords /\ q.pc = "over" /\ q.rest = r.rest /\ q.kind = r.kind /\ q.settled = s
    BY <1>0 DEF CommandRecords, Places
  <2> HIDE DEF q
  <2>2. RecordIs(q)
    BY <1>0, <2>1 DEF RecordIs, IsAssertion, QuietPlaces
  <2>3. PairIs(q, i)
    BY <1>0, <2>1, <2>2 DEF PairIs, IsAssertion, QuietPlaces, RecordIs
  <2> QED
    BY <1>0, <1>1, <2>1, <2>3, PairStep DEF q
<1>2. CASE Set(w, [r EXCEPT !.kind = "failed", !.pc = "run", !.rest = <<"shot">>])
  <2> DEFINE q == [r EXCEPT !.kind = "failed", !.pc = "run", !.rest = <<"shot">>]
  <2>1. /\ <<"shot">> \in Seq({"shot"}) /\ <<"shot">> \in Seq(Asking) /\ <<"shot">> \in Seq(Asking \ {"float"})
    BY DEF Asking
  <2>2. q \in CommandRecords /\ q.pc = "run" /\ q.rest = <<"shot">> /\ q.kind = "failed" /\ q.settled = r.settled
    BY <1>0, <2>1 DEF CommandRecords, Places
  <2> HIDE DEF q
  <2>3. RecordIs(q)
    BY <1>0, <2>1, <2>2 DEF RecordIs, IsAssertion, QuietPlaces
  <2>4. PairIs(q, i)
    BY <1>0, <2>2, <2>3 DEF PairIs, IsAssertion, QuietPlaces, RecordIs
  <2> QED
    BY <1>0, <1>2, <2>2, <2>4, PairStep DEF q
<1>3. \/ \E s \in {"ok", "error"} : Set(w, [[r EXCEPT !.pc = "over"] EXCEPT !.settled = s])
      \/ Set(w, [r EXCEPT !.kind = "failed", !.pc = "run", !.rest = <<"shot">>])
  BY DEF AssertHandled
<1> QED
  BY <1>1, <1>2, <1>3

LEMMA RespondKeeps == ASSUME CallsFine, NEW w \in Wrapped, Respond(w) PROVE CallsFine'
<1> DEFINE r == call[w]
<1>0. /\ r \in CommandRecords /\ RecordIs(r) /\ r.pc = "asked" /\ PairIs(call[Command(w[1])], call[Inner(Command(w[1]))])
      /\ r.rest # <<>>
  BY PairFacts DEF Respond, RecordIs
<1>1. w = Inner(Command(w[1])) =>
        r.kind = "plain" /\ Tail(r.rest) \in Seq({"ask", "tries"}) /\ r.rest \in Seq({"ask", "tries"})
  BY <1>0 DEF PairIs
<1>2. CASE Set(w, [r EXCEPT !.pc = "run", !.rest = Tail(@), !.asked = 0])
  <2> DEFINE q == [r EXCEPT !.pc = "run", !.rest = Tail(@), !.asked = 0]
  <2>1. q \in CommandRecords /\ q.pc = "run" /\ q.rest = Tail(r.rest) /\ q.kind = r.kind /\ q.settled = r.settled
    <3>1. Tail(r.rest) \in Seq(Asking) /\ 0 \in 0..MaxPolls
      BY <1>0, AppAssumption DEF CommandRecords
    <3> QED
      BY <1>0, <3>1 DEF CommandRecords, Places
  <2> HIDE DEF q
  <2>2. RecordIs(q)
    BY <1>0, <2>1, OnwardFacts
  <2> QED
    BY <1>0, <1>1, <1>2, <2>1, <2>2, SingleStep DEF QuietPlaces, q
<1>3. CASE Set(w, Rejected(r))
  <2>1. /\ Rejected(r) \in CommandRecords /\ RecordIs(Rejected(r)) /\ Rejected(r).kind = r.kind
        /\ Rejected(r).pc \in {"rejected", "shot", "over"} /\ Rejected(r).rest \in {<<>>, r.rest}
        /\ (~IsAssertion(r) => Rejected(r).settled = "error")
        /\ (IsAssertion(r) => Rejected(r).settled = r.settled)
    BY <1>0, RejectedFacts
  <2>2. w = Inner(Command(w[1])) => Rejected(r).rest \in Seq({"ask", "tries"})
    <3>1. <<>> \in Seq({"ask", "tries"})
      OBVIOUS
    <3> QED
      BY <1>1, <2>1, <3>1
  <2> QED
    BY <1>0, <1>1, <1>3, <2>1, <2>2, SingleStep DEF QuietPlaces
<1>4. CASE r.asked < MaxPolls /\ Set(w, [r EXCEPT !.asked = @ + 1])
  <2> DEFINE q == [r EXCEPT !.asked = @ + 1]
  <2>1. q \in CommandRecords /\ q.pc = "asked" /\ q.rest = r.rest /\ q.kind = r.kind /\ q.settled = r.settled
    <3>1. r.asked + 1 \in 0..MaxPolls
      BY <1>0, <1>4, AppAssumption DEF CommandRecords
    <3> QED
      BY <1>0, <3>1 DEF CommandRecords
  <2> HIDE DEF q
  <2>2. RecordIs(q)
    BY <1>0, <2>1, OnwardFacts
  <2> QED
    BY <1>0, <1>1, <1>4, <2>1, <2>2, SingleStep DEF QuietPlaces, q
<1>5. CASE Set(w, [r EXCEPT !.pc = "over"])
  <2> DEFINE q == [r EXCEPT !.pc = "over"]
  <2>1. q \in CommandRecords /\ q.pc = "over" /\ q.rest = r.rest /\ q.kind = r.kind /\ q.settled = r.settled
    BY <1>0 DEF CommandRecords, Places
  <2> HIDE DEF q
  <2>2. RecordIs(q)
    BY <1>0, <2>1 DEF RecordIs, IsAssertion, QuietPlaces
  <2> QED
    BY <1>0, <1>1, <1>5, <2>1, <2>2, SingleStep DEF QuietPlaces, q
<1> QED
  BY <1>2, <1>3, <1>4, <1>5 DEF Respond, Answered, AskAgain


LEMMA CallsStep == CallsFine /\ [AppNext]_appVars => CallsFine'
<1> SUFFICES ASSUME CallsFine, [AppNext]_appVars PROVE CallsFine'
  OBVIOUS
<1>1. CASE call' = call
  BY <1>1 DEF CallsFine, CallsAre
<1>2. CASE AppProgress
  BY <1>1, <1>2, InitialisedKeeps, OpenStepKeeps, GoesKeeps, ResolvesKeeps, InnerSettledKeeps, ErrorHandledKeeps,
     RespondKeeps, AssertHandledKeeps DEF AppProgress, InitRejects, Release
<1> QED
  BY <1>1, <1>2, CallKeeps, CallAssertionKeeps, PageTimeoutKeeps DEF AppNext, KillController, appVars

-----------------------------------------------------------------------------
\* A failed assertion that has settled stays, and only the end of an assertion makes one.
Failed(r) == r.kind = "failed" /\ r.settled # "no"
SameVerdict(r, q) == (Failed(q) <=> Failed(r)) /\ (Failed(r) => q.settled = r.settled)

LEMMA VerdictKept ==
  ASSUME CallsFine, AssertionsHeard, softErrors' = softErrors,
         \A c \in AppCalls : SameVerdict(call[Command(c)], call'[Command(c)])
  PROVE  AssertionsHeard'
BY DEF AssertionsHeard, SameVerdict, Failed

LEMMA OneVerdict ==
  ASSUME CallsFine, NEW w \in Wrapped, NEW q, Set(w, q), w = Command(w[1]) => SameVerdict(call[w], q)
  PROVE  \A c \in AppCalls : SameVerdict(call[Command(c)], call'[Command(c)])
<1> TAKE c \in AppCalls
<1>1. CASE w = Command(c)
  BY <1>1, WrappedFacts DEF CallsFine, Set
<1>2. CASE w # Command(c)
  BY <1>2, WrappedFacts DEF CallsFine, Set, SameVerdict
<1> QED
  BY <1>1, <1>2

LEMMA HeardStep == CallsFine /\ AssertionsHeard /\ [AppNext]_appVars => AssertionsHeard'
<1> SUFFICES ASSUME CallsFine, AssertionsHeard, [AppNext]_appVars PROVE AssertionsHeard'
  OBVIOUS
<1> DEFINE Kept == \A c \in AppCalls : SameVerdict(call[Command(c)], call'[Command(c)])
<1>1. CASE call' = call /\ softErrors' = softErrors
  BY <1>1, VerdictKept DEF SameVerdict
<1>2. ASSUME NEW c \in AppCalls, Call(c) \/ CallAssertion(c) PROVE AssertionsHeard'
  <2>1. PICK q : Set(Command(c), q) /\ q.settled = "no" /\ softErrors' = softErrors
    <3>1. CASE Call(c)
      <4>1. PICK m, kind : Set(Command(c), [NotCalled EXCEPT !.pc = "init", !.rest = m, !.kind = kind])
        BY <3>1, Zenon DEF Call
      <4>2. [NotCalled EXCEPT !.pc = "init", !.rest = m, !.kind = kind].settled = "no"
        BY DEF NotCalled
      <4> QED
        BY <3>1, <4>1, <4>2 DEF Call
    <3>2. CASE CallAssertion(c)
      <4>1. PICK kind, soft : Set(Command(c), [NotCalled EXCEPT !.pc = "run", !.rest = <<"shot">>, !.kind = kind, !.soft = soft])
        BY <3>2, Zenon DEF CallAssertion
      <4>2. [NotCalled EXCEPT !.pc = "run", !.rest = <<"shot">>, !.kind = kind, !.soft = soft].settled = "no"
        BY DEF NotCalled
      <4> QED
        BY <3>2, <4>1, <4>2 DEF CallAssertion
    <3> QED
      BY <1>2, <3>1, <3>2
  <2>2. call[Command(c)].pc = "idle" /\ RecordIs(call[Command(c)])
    BY <1>2, PairFacts, WrappedFacts DEF Call, CallAssertion, MayCall
  <2>3. SameVerdict(call[Command(c)], q)
    BY <2>1, <2>2, BlankCall DEF SameVerdict, Failed, RecordIs
  <2> QED
    BY <2>1, <2>3, OneVerdict, VerdictKept, WrappedFacts
<1>3. ASSUME NEW w \in Wrapped, NEW q, Set(w, q), q.kind = call[w].kind, softErrors' = softErrors,
             q.settled = call[w].settled \/ q.kind # "failed"
      PROVE  AssertionsHeard'
  <2>1. SameVerdict(call[w], q)
    BY <1>3 DEF SameVerdict, Failed
  <2> QED
    BY <1>3, <2>1, OneVerdict, VerdictKept
<1>4. ASSUME NEW w \in Wrapped, Initialised(w) \/ OpenStep(w) \/ ErrorHandled(w) \/ ClosesAgain(w) PROVE AssertionsHeard'
  <2>1. call[w] \in CommandRecords /\ softErrors' = softErrors
    BY <1>4, PairFacts DEF Initialised, OpenStep, ErrorHandled, ClosesAgain
  <2>2. \/ call' = call
        \/ \E p \in Places : Set(w, [call[w] EXCEPT !.pc = p])
        \/ Set(w, [call[w] EXCEPT !.pc = "run", !.opened = TRUE])
    BY <1>4 DEF Initialised, OpenStep, ErrorHandled, ClosesAgain, Places
  <2>3. ASSUME NEW p \in Places, Set(w, [call[w] EXCEPT !.pc = p]) PROVE AssertionsHeard'
    <3>1. /\ [call[w] EXCEPT !.pc = p].kind = call[w].kind
          /\ [call[w] EXCEPT !.pc = p].settled = call[w].settled
      BY <2>1 DEF CommandRecords
    <3> QED
      BY <1>3, <2>1, <2>3, <3>1
  <2>4. ASSUME Set(w, [call[w] EXCEPT !.pc = "run", !.opened = TRUE]) PROVE AssertionsHeard'
    <3>1. /\ [call[w] EXCEPT !.pc = "run", !.opened = TRUE].kind = call[w].kind
          /\ [call[w] EXCEPT !.pc = "run", !.opened = TRUE].settled = call[w].settled
      BY <2>1 DEF CommandRecords
    <3> QED
      BY <1>3, <2>1, <2>4, <3>1
  <2> QED
    BY <1>1, <2>1, <2>2, <2>3, <2>4
<1>5. ASSUME NEW w \in Wrapped, Goes(w) PROVE AssertionsHeard'
  <2>1. call[w] \in CommandRecords /\ softErrors' = softErrors /\ PairIs(call[Command(w[1])], call[Inner(Command(w[1]))])
        /\ call[w].rest # <<>>
    BY <1>5, PairFacts DEF Goes
  <2>2. PICK q \in {[call[w] EXCEPT !.pc = "asked"], [call[w] EXCEPT !.rest = Tail(@)], [call[w] EXCEPT !.pc = "inner"]} :
          \/ Set(w, q)
          \/ /\ Head(call[w].rest) \in {"exist", "call", "float"}
             /\ CallsInner(w, q, WaitForExist) \/ CallsInner(w, q, OneRequest)
    BY <1>5 DEF Goes
  <2>3. q.kind = call[w].kind /\ q.settled = call[w].settled
    BY <2>1, <2>2 DEF CommandRecords
  <2>4. ASSUME NEW body, CallsInner(w, q, body), Head(call[w].rest) \in {"exist", "call", "float"} PROVE Kept
    <3>1. w = Command(w[1])
      <4>1. call[w].rest \in Seq({"ask", "tries"}) => Head(call[w].rest) \in {"ask", "tries"}
        BY <2>1
      <4> QED
        BY <2>1, <2>4, <4>1, WrappedFacts DEF PairIs
    <3>2. ASSUME NEW c \in AppCalls PROVE SameVerdict(call[Command(c)], call'[Command(c)])
      <4>1. call'[Command(c)] = (IF Command(c) = w THEN q ELSE call[Command(c)])
        BY <2>4, <3>1, WrappedFacts DEF CallsInner, CallsFine
      <4> QED
        BY <2>3, <4>1 DEF SameVerdict, Failed
    <3> QED
      BY <3>2
  <2> QED
    BY <1>3, <2>1, <2>2, <2>3, <2>4, VerdictKept
<1>6. ASSUME NEW w \in Wrapped, Resolves(w) PROVE AssertionsHeard'
  <2> DEFINE q == [call[w] EXCEPT !.pc = "over", !.settled = IF @ = "no" THEN "ok" ELSE @]
  <2>1. call[w] \in CommandRecords /\ softErrors' = softErrors /\ Set(w, q) /\ call[w].kind # "failed"
    BY <1>6, PairFacts DEF Resolves
  <2>2. q.kind = call[w].kind
    BY <2>1 DEF CommandRecords
  <2> QED
    BY <1>3, <2>1, <2>2
<1>7. ASSUME NEW w \in Wrapped, InnerSettled(w) \/ Respond(w) PROVE AssertionsHeard'
  <2>1. /\ call[w] \in CommandRecords /\ RecordIs(call[w]) /\ softErrors' = softErrors /\ call[w].pc \in {"asked", "inner"}
        /\ ~IsAssertion(call[w]) \/ call[w].pc = "asked"
    BY <1>7, PairFacts DEF InnerSettled, Respond, RecordIs, IsAssertion
  <2>2. \/ call' = call
        \/ \E q \in {[call[w] EXCEPT !.pc = "run", !.rest = Tail(@)], [call[w] EXCEPT !.pc = "over"],
                     [call[w] EXCEPT !.pc = "run", !.rest = Tail(@), !.asked = 0], [call[w] EXCEPT !.asked = @ + 1],
                     Rejected(call[w])} : Set(w, q)
    BY <1>7 DEF InnerSettled, Respond, AskAgain, Answered
  <2>3. ASSUME NEW q \in {[call[w] EXCEPT !.pc = "run", !.rest = Tail(@)], [call[w] EXCEPT !.pc = "over"],
                     [call[w] EXCEPT !.pc = "run", !.rest = Tail(@), !.asked = 0], [call[w] EXCEPT !.asked = @ + 1]}
        PROVE  q.kind = call[w].kind /\ q.settled = call[w].settled
    BY <2>1, <2>3 DEF CommandRecords
  <2>4. Rejected(call[w]).kind = call[w].kind /\ (call[w].kind = "failed" => Rejected(call[w]).settled = call[w].settled)
    BY <2>1, RejectedFacts DEF IsAssertion
  <2> QED
    BY <1>1, <1>3, <2>1, <2>2, <2>3, <2>4
<1>8. ASSUME NEW w \in Wrapped, PageTimeout(w) PROVE AssertionsHeard'
  <2> DEFINE q == [call[w] EXCEPT !.settled = "error"]
  <2>1. call[w] \in CommandRecords /\ softErrors' = softErrors /\ Set(w, q) /\ call[w].kind = "timer"
    BY <1>8, PairFacts DEF PageTimeout
  <2>2. q.kind = "timer"
    BY <2>1 DEF CommandRecords
  <2> QED
    BY <1>3, <2>1, <2>2
<1>9. ASSUME NEW c \in AppCalls, AssertHandled(c) PROVE AssertionsHeard'
  <2> DEFINE w == Command(c)
             r == call[w]
  <2>1. /\ r \in CommandRecords /\ RecordIs(r) /\ r.pc \in {"run", "rejected"} /\ IsAssertion(r) /\ r.settled = "no"
        /\ w \in Wrapped
    BY <1>9, PairFacts, WrappedFacts DEF AssertHandled, RecordIs, IsAssertion
  <2>2. c \notin softErrors
    BY <2>1 DEF AssertionsHeard
  <2>3. ASSUME NEW q, Set(w, q), NEW d \in AppCalls, d # c PROVE call'[Command(d)] = call[Command(d)]
    BY <2>3, WrappedFacts DEF CallsFine, Set
  <2>4. ASSUME NEW q, Set(w, q) PROVE call'[w] = q
    BY <2>1, <2>4 DEF CallsFine, Set
  <2>5. CASE softErrors' = softErrors /\ Set(w, [r EXCEPT !.kind = "failed", !.pc = "run", !.rest = <<"shot">>])
    <3>1. [r EXCEPT !.kind = "failed", !.pc = "run", !.rest = <<"shot">>].settled = "no"
      BY <2>1 DEF CommandRecords
    <3> QED
      BY <2>2, <2>3, <2>4, <2>5, <3>1 DEF AssertionsHeard
  <2>6. ASSUME NEW s \in {"ok", "error"}, Set(w, [[r EXCEPT !.pc = "over"] EXCEPT !.settled = s]),
               softErrors' \in {softErrors, softErrors \cup {c}},
               c \in softErrors' <=> (r.kind = "failed" /\ s = "ok")
        PROVE  AssertionsHeard'
    <3> DEFINE q == [[r EXCEPT !.pc = "over"] EXCEPT !.settled = s]
    <3>1. q.settled = s /\ q.kind = r.kind
      BY <2>1 DEF CommandRecords
    <3> HIDE DEF q
    <3>2. \A d \in AppCalls : d # c => (d \in softErrors' <=> d \in softErrors) /\ call'[Command(d)] = call[Command(d)]
      BY <2>3, <2>6 DEF q
    <3>3. call'[w] = q
      BY <2>4, <2>6 DEF q
    <3> QED
      BY <2>6, <3>1, <3>2, <3>3 DEF AssertionsHeard
  <2>7. CASE r.kind = "passed"
    BY <1>9, <2>2, <2>5, <2>6, <2>7 DEF AssertHandled
  <2>8. CASE r.kind = "failed" /\ r.soft /\ r.pc = "run"
    <3>1. softErrors' = softErrors \cup {c} /\ Set(w, [[r EXCEPT !.pc = "over"] EXCEPT !.settled = "ok"])
      BY <1>9, <2>8 DEF AssertHandled, Recorded
    <3> QED
      BY <2>6, <2>8, <3>1
  <2>9. CASE r.kind = "failed" /\ ~(r.soft /\ r.pc = "run")
    <3>1. softErrors' = softErrors /\ Set(w, [[r EXCEPT !.pc = "over"] EXCEPT !.settled = "error"])
      BY <1>9, <2>9 DEF AssertHandled, Recorded
    <3> QED
      BY <2>2, <2>6, <2>9, <3>1
  <2> QED
    BY <2>1, <2>7, <2>8, <2>9 DEF IsAssertion
<1>10. CASE AppProgress
  BY <1>1, <1>4, <1>5, <1>6, <1>7, <1>9, <1>10 DEF AppProgress, InitRejects, Release
<1> QED
  BY <1>1, <1>2, <1>8, <1>10 DEF AppNext, KillController, appVars


-----------------------------------------------------------------------------
\* What a step of one call does to the log: nothing, or what the call of a command says.
LEMMA LogSame ==
  ASSUME CallsFine, LogOk, NEW w \in Wrapped, NEW q, Set(w, q), UNCHANGED logState,
         w = Command(w[1]) => call[w].pc \notin {"idle", "over"} /\ q.pc \notin {"idle", "over"} /\ LogOf(q, w),
         w = Inner(Command(w[1])) => q.pc # "before" /\ ~q.opened
  PROVE  LogOk'
<1>1. \A v \in Wrapped : call'[v] = (IF v = w THEN q ELSE call[v])
  BY DEF CallsFine, Set
<1>2. \A c \in AppCalls : UnderWay(c)' <=> UnderWay(c)
  BY <1>1, WrappedFacts DEF UnderWay
<1>3. isLogOpened' = isLogOpened /\ stepStack' = stepStack
  BY DEF logState
<1>4. ASSUME NEW c \in AppCalls, UnderWay(c)' PROVE LogOf(call[Command(c)], Command(c))'
  <2>1. CASE w = Command(c)
    <3>1. call'[Command(c)] = q /\ LogOf(q, w)
      BY <1>1, <2>1, WrappedFacts
    <3> QED
      BY <1>3, <2>1, <3>1 DEF LogOf
  <2>2. CASE w # Command(c)
    <3>1. call'[Command(c)] = call[Command(c)] /\ LogOf(call[Command(c)], Command(c))
      BY <1>1, <1>2, <1>4, <2>2, WrappedFacts DEF LogOk
    <3> QED
      BY <1>3, <3>1 DEF LogOf
  <2> QED
    BY <2>1, <2>2
<1>5. \A c \in AppCalls : call'[Inner(Command(c))].pc # "before" /\ ~call'[Inner(Command(c))].opened
  BY <1>1, WrappedFacts DEF LogOk
<1>6. \A c, d \in AppCalls : UnderWay(c)' /\ UnderWay(d)' => c = d
  BY <1>2 DEF LogOk
<1>7. (\A c \in AppCalls : ~UnderWay(c)') => ~isLogOpened' /\ stepStack' = Base
  BY <1>2, <1>3 DEF LogOk
<1> QED
  BY <1>4, <1>5, <1>6, <1>7 DEF LogOk

\* The only command under way is called, or goes on.
LEMMA LogOfOne ==
  ASSUME CallsFine, LogOk, NEW c \in AppCalls, NEW q, Set(Command(c), q),
         \A d \in AppCalls \ {c} : ~UnderWay(d), q.pc # "over", q.pc # "idle", LogOf(q, Command(c))'
  PROVE  LogOk'
<1>1. \A v \in Wrapped : call'[v] = (IF v = Command(c) THEN q ELSE call[v])
  BY WrappedFacts DEF CallsFine, Set
<1>2. \A d \in AppCalls : UnderWay(d)' <=> d = c
  BY <1>1, WrappedFacts DEF UnderWay
<1>3. ASSUME NEW d \in AppCalls, UnderWay(d)' PROVE LogOf(call[Command(d)], Command(d))'
  <2>1. d = c /\ call'[Command(c)] = q
    BY <1>1, <1>2, <1>3, WrappedFacts
  <2> QED
    BY <2>1 DEF LogOf
<1>4. \A d \in AppCalls : call'[Inner(Command(d))].pc # "before" /\ ~call'[Inner(Command(d))].opened
  BY <1>1, WrappedFacts DEF LogOk
<1> QED
  BY <1>2, <1>3, <1>4 DEF LogOk

\* It ends.
LEMMA LogOfNone ==
  ASSUME CallsFine, LogOk, NEW c \in AppCalls, UnderWay(c), NEW q, Set(Command(c), q), q.pc = "over",
         ~isLogOpened', stepStack' = Base
  PROVE  LogOk'
<1>1. \A v \in Wrapped : call'[v] = (IF v = Command(c) THEN q ELSE call[v])
  BY WrappedFacts DEF CallsFine, Set
<1>2. \A d \in AppCalls : ~UnderWay(d)'
  BY <1>1, WrappedFacts DEF UnderWay, LogOk
<1>3. \A d \in AppCalls : call'[Inner(Command(d))].pc # "before" /\ ~call'[Inner(Command(d))].opened
  BY <1>1, WrappedFacts DEF LogOk
<1> QED
  BY <1>2, <1>3 DEF LogOk

\* Of calls that have not failed: who waits for one is the command that opened the step.
LEMMA SmoothFacts ==
  ASSUME CallsFine, LogOk, Smooth, NEW w \in Wrapped
  PROVE  /\ call[w] \in CommandRecords /\ RecordIs(call[w]) /\ call[w].settled # "error" /\ call[w].kind \in {"plain", "passed"}
         /\ call[w].pc \notin {"shot", "closing"}
         /\ w = Command(w[1]) /\ UnderWay(w[1]) => LogOf(call[w], w)
         /\ w = Inner(Command(w[1])) =>
              /\ call[w].pc # "before" /\ ~call[w].opened /\ call[w].kind = "plain"
              /\ call[w].pc \notin QuietPlaces =>
                   call[Command(w[1])].pc = "inner" /\ isLogOpened
<1>1. /\ call[w] \in CommandRecords /\ RecordIs(call[w]) /\ call[w].settled # "error" /\ call[w].kind \in {"plain", "passed"}
      /\ call[w].pc \notin {"shot", "closing"} /\ PairIs(call[Command(w[1])], call[Inner(Command(w[1]))])
  <2>1. call[w] \in CommandRecords /\ RecordIs(call[w]) /\ PairIs(call[Command(w[1])], call[Inner(Command(w[1]))])
    BY PairFacts
  <2>2. call[w].settled # "error" /\ call[w].kind \notin {"timer", "float", "failed"}
    BY DEF Smooth
  <2> QED
    BY <2>1, <2>2 DEF RecordIs, CommandRecords
<1>2. w = Command(w[1]) /\ UnderWay(w[1]) => LogOf(call[w], w)
  BY WrappedFacts DEF LogOk
<1>3. ASSUME w = Inner(Command(w[1]))
      PROVE  /\ call[w].pc # "before" /\ ~call[w].opened /\ call[w].kind = "plain"
             /\ call[w].pc \notin QuietPlaces => call[Command(w[1])].pc = "inner" /\ isLogOpened
  <2> DEFINE c == w[1]
             r == call[Command(c)]
  <2>1. c \in AppCalls /\ Command(c) \in Wrapped
    BY WrappedFacts
  <2>2. call[w].pc # "before" /\ ~call[w].opened /\ call[w].kind = "plain"
    BY <1>1, <1>3, <2>1 DEF LogOk, PairIs
  <2>3. r.kind \notin {"timer", "float", "failed"} /\ RecordIs(r) /\ r \in CommandRecords
    BY <2>1, PairFacts DEF Smooth
  <2>4. ASSUME call[w].pc \notin QuietPlaces PROVE r.pc = "inner" /\ isLogOpened
    <3>1. r.pc = "inner"
      BY <1>1, <1>3, <2>3, <2>4 DEF PairIs
    <3>2. r.kind = "plain"
      BY <2>3, <3>1 DEF RecordIs, IsAssertion, CommandRecords
    <3>3. LogOf(r, Command(c))
      BY <2>1, <3>1 DEF LogOk, UnderWay
    <3> QED
      BY <3>1, <3>2, <3>3 DEF LogOf
  <2> QED
    BY <2>2, <2>4
<1> QED
  BY <1>1, <1>2, <1>3


\* What has not failed now had not failed before.
SmoothCall(r) == r.settled # "error" /\ r.kind \notin {"timer", "float", "failed"}
LEMMA SmoothOne ==
  ASSUME CallsFine, NEW w \in Wrapped, NEW q, Set(w, q), Smooth', parallel' = parallel, process = "up",
         SmoothCall(q) => SmoothCall(call[w])
  PROVE  Smooth /\ SmoothCall(q)
<1>1. \A v \in Wrapped : call'[v] = (IF v = w THEN q ELSE call[v])
  BY DEF CallsFine, Set
<1>2. \A v \in Wrapped : SmoothCall(call'[v])
  BY DEF Smooth, SmoothCall
<1>3. SmoothCall(q) /\ SmoothCall(call[w])
  BY <1>1, <1>2
<1>4. \A v \in Wrapped : SmoothCall(call[v])
  BY <1>1, <1>2, <1>3
<1> QED
  BY <1>3, <1>4 DEF Smooth, SmoothCall

\* The log with the step of a command.
LEMMA BaseStep == ASSUME NEW w PROVE Append(Base, w) = WithStep(w)
<1> DEFINE S == {<<"test">>, w}
<1>1. Base \in Seq(S) /\ Len(Base) = 1 /\ Base[1] = <<"test">>
  BY DEF Base
<1>2. WithStep(w) \in Seq(S) /\ Len(WithStep(w)) = 2 /\ WithStep(w)[1] = <<"test">> /\ WithStep(w)[2] = w
  BY DEF WithStep
<1> HIDE DEF S
<1>3. w \in S
  BY DEF S
<1>4. PICK b \in Seq(S) : b = Base /\ Len(b) = 1 /\ b[1] = <<"test">>
  BY <1>1
<1>6. Append(b, w) \in Seq(S) /\ Len(Append(b, w)) = 2 /\ Append(b, w)[1] = <<"test">> /\ Append(b, w)[2] = w
  <2>1. /\ Append(b, w) \in Seq(S) /\ Len(Append(b, w)) = Len(b) + 1
        /\ \A i \in 1..Len(b) : Append(b, w)[i] = b[i]
        /\ Append(b, w)[Len(b) + 1] = w
    BY <1>3, AppendProperties
  <2>2. Len(b) = 1 /\ 1 \in 1..1 /\ 1 + 1 = 2
    BY <1>4
  <2> QED
    BY <1>4, <2>1, <2>2
<1>5. \A i \in 1..Len(Append(b, w)) : Append(b, w)[i] = WithStep(w)[i]
  BY <1>2, <1>6
<1> QED
  BY <1>2, <1>4, <1>6, <1>5, SeqEqual

LogInv == CallsFine /\ (Smooth => LogOk)

LEMMA CallLogs == ASSUME LogInv, NEW c \in AppCalls, Smooth', Call(c) \/ CallAssertion(c) PROVE LogOk'
<1> DEFINE w == Command(c)
<1>0. /\ CallsFine /\ w \in Wrapped /\ process = "up" /\ parallel' = parallel /\ call[w].pc = "idle" /\ RecordIs(call[w])
      /\ ~parallel
  <2>1. MayCall(c) /\ parallel' = parallel
    BY DEF Call, CallAssertion, appModes
  <2>2. ~parallel'
    BY DEF Smooth
  <2>3. process = "up" /\ call[w].pc = "idle"
    BY <2>1 DEF MayCall
  <2> QED
    BY <2>1, <2>2, <2>3, PairFacts, WrappedFacts DEF LogInv
<1>1. PICK q : /\ Set(w, q) /\ q.settled = "no"
               /\ \/ q.pc = "init" /\ q.kind \in {"timer", "float", "plain"} /\ UNCHANGED logState
                  \/ /\ q.pc = "run" /\ q.kind \in {"passed", "failed"}
                     /\ stepStack' = Append(stepStack, w) /\ isLogOpened' = isLogOpened
  <2>1. CASE Call(c)
    <3>1. PICK m \in Methods \cup ShortMethods, timer \in BOOLEAN :
            /\ timer => m = OpenPage
            /\ Set(w, [NotCalled EXCEPT !.pc = "init", !.rest = m,
                         !.kind = IF timer THEN "timer" ELSE IF m = SetValueByScript THEN "float" ELSE "plain"])
      BY <2>1 DEF Call
    <3> DEFINE kd == IF timer THEN "timer" ELSE IF m = SetValueByScript THEN "float" ELSE "plain"
               q == [NotCalled EXCEPT !.pc = "init", !.rest = m, !.kind = kd]
    <3>2. kd \in {"timer", "float", "plain"}
      BY Zenon
    <3>3. Set(w, q)
      BY <3>1, Zenon
    <3> HIDE DEF kd
    <3>4. q.pc = "init" /\ q.kind = kd /\ q.settled = "no"
      BY DEF NotCalled
    <3> HIDE DEF q
    <3> QED
      BY <2>1, <3>2, <3>3, <3>4 DEF Call
  <2>2. CASE CallAssertion(c)
    <3>1. PICK kind \in {"passed", "failed"}, soft \in BOOLEAN :
            Set(w, [NotCalled EXCEPT !.pc = "run", !.rest = <<"shot">>, !.kind = kind, !.soft = soft])
      BY <2>2, Zenon DEF CallAssertion
    <3> DEFINE q == [NotCalled EXCEPT !.pc = "run", !.rest = <<"shot">>, !.kind = kind, !.soft = soft]
    <3>2. q.pc = "run" /\ q.kind = kind /\ q.settled = "no"
      BY DEF NotCalled
    <3> HIDE DEF q
    <3> QED
      BY <2>2, <3>1, <3>2 DEF CallAssertion, q
  <2> QED
    BY <2>1, <2>2
<1>2. call[w] = NotCalled
  BY <1>0 DEF RecordIs
<1>3. Smooth /\ SmoothCall(q)
  BY <1>0, <1>1, <1>2, BlankCall, SmoothOne DEF SmoothCall
<1>4. LogOk
  BY <1>3 DEF LogInv
<1>5. ASSUME NEW d \in AppCalls PROVE ~UnderWay(d)
  <2>1. call[Command(d)].pc # "idle" => call[Command(d)].settled # "no"
    BY <1>0 DEF Call, CallAssertion, MayCall, Settled
  <2>2. /\ RecordIs(call[Command(d)]) /\ call[Command(d)].kind \in {"plain", "passed"}
        /\ call[Command(d)].pc \notin {"shot", "closing"}
    BY <1>0, <1>3, <1>4, SmoothFacts, WrappedFacts
  <2> QED
    BY <2>1, <2>2 DEF RecordIs, UnderWay, QuietPlaces
<1>6. ~isLogOpened /\ stepStack = Base
  BY <1>4, <1>5 DEF LogOk
<1>7. Append(Base, w) = WithStep(w)
  BY BaseStep
<1>8. LogOf(q, w)'
  BY <1>1, <1>3, <1>6, <1>7 DEF LogOf, SmoothCall, logState
<1> QED
  BY <1>0, <1>1, <1>4, <1>5, <1>8, LogOfOne

\* A step that leaves the log alone.
LEMMA LogLeft ==
  ASSUME LogInv, Smooth', NEW w \in Wrapped, NEW q, Set(w, q), UNCHANGED logState, parallel' = parallel,
         process = "up", q.kind = call[w].kind, q.settled = call[w].settled, q.opened = call[w].opened,
         call[w].pc \in {"run", "asked", "inner"}, q.pc \in {"run", "asked", "inner", "rejected"}
  PROVE  LogOk'
<1>1. CallsFine
  BY DEF LogInv
<1>2. Smooth /\ SmoothCall(q)
  BY <1>1, SmoothOne DEF SmoothCall
<1>3. LogOk
  BY <1>2 DEF LogInv
<1>4. CASE w = Command(w[1])
  <2>1. LogOf(call[w], w)
    BY <1>1, <1>2, <1>3, <1>4, SmoothFacts, WrappedFacts DEF UnderWay
  <2>2. LogOf(q, w)
    BY <2>1 DEF LogOf
  <2> QED
    BY <1>1, <1>3, <1>4, <2>2, LogSame, WrappedFacts
<1>5. CASE w = Inner(Command(w[1]))
  <2>1. ~call[w].opened
    BY <1>1, <1>2, <1>3, <1>5, SmoothFacts
  <2> QED
    BY <1>1, <1>3, <1>5, <2>1, LogSame, WrappedFacts
<1> QED
  BY <1>4, <1>5, WrappedFacts

LEMMA InitialisedLogs == ASSUME LogInv, NEW w \in Wrapped, Smooth', Initialised(w) PROVE LogOk'
<1> DEFINE r == call[w]
           q == [r EXCEPT !.pc = IF isLogOpened THEN "run" ELSE "before"]
<1>0. CallsFine /\ r \in CommandRecords /\ r.pc = "init" /\ Set(w, q) /\ UNCHANGED logState /\ parallel' = parallel /\ process = "up"
  BY PairFacts DEF LogInv, Initialised, appModes
<1>1. /\ q.pc = (IF isLogOpened THEN "run" ELSE "before") /\ q.kind = r.kind /\ q.settled = r.settled /\ q.opened = r.opened
  BY <1>0 DEF CommandRecords
<1> HIDE DEF q
<1>2. Smooth
  BY <1>0, <1>1, SmoothOne DEF SmoothCall
<1>3. LogOk
  BY <1>2 DEF LogInv
<1>4. CASE w = Command(w[1])
  <2>1. LogOf(r, w)
    BY <1>0, <1>2, <1>3, <1>4, SmoothFacts, WrappedFacts DEF UnderWay
  <2>2. LogOf(q, w) /\ q.pc = "before"
    BY <1>0, <1>1, <2>1 DEF LogOf
  <2> QED
    BY <1>0, <1>3, <1>4, <2>2, LogSame, WrappedFacts
<1>5. CASE w = Inner(Command(w[1]))
  <2>1. ~r.opened /\ isLogOpened
    BY <1>0, <1>2, <1>3, <1>5, SmoothFacts DEF QuietPlaces
  <2> QED
    BY <1>0, <1>1, <1>3, <1>5, <2>1, LogSame, WrappedFacts
<1> QED
  BY <1>4, <1>5, WrappedFacts

LEMMA OpenStepLogs == ASSUME LogInv, NEW w \in Wrapped, Smooth', OpenStep(w) PROVE LogOk'
<1> DEFINE r == call[w]
<1>12. CallsFine /\ r \in CommandRecords
  BY PairFacts DEF LogInv
<1>13. PICK q : q = [r EXCEPT !.pc = "run", !.opened = TRUE]
  OBVIOUS
<1>0. /\ CallsFine /\ r \in CommandRecords /\ r.pc = "before" /\ Set(w, q) /\ parallel' = parallel /\ process = "up"
      /\ stepStack' = Append(stepStack, w) /\ isLogOpened' = TRUE
  BY <1>12, <1>13 DEF OpenStep, appModes, Smooth
<1>1. q.pc = "run" /\ q.kind = r.kind /\ q.settled = r.settled /\ q.opened = TRUE
  BY <1>12, <1>13 DEF CommandRecords
<1>2. Smooth
  BY <1>0, <1>1, SmoothOne DEF SmoothCall
<1>3. LogOk
  BY <1>2 DEF LogInv
<1>4. w = Command(w[1]) /\ w[1] \in AppCalls
  BY <1>0, <1>2, <1>3, SmoothFacts, WrappedFacts
<1>5. UnderWay(w[1]) /\ LogOf(r, w)
  BY <1>0, <1>2, <1>3, <1>4, SmoothFacts DEF UnderWay
<1>6. stepStack = Base /\ r.kind = "plain"
  BY <1>0, <1>5 DEF LogOf
<1>7. Append(Base, w) = WithStep(w)
  BY BaseStep
<1>8. LogOf(q, w)'
  <2>1. stepStack' = WithStep(w)
    BY <1>0, <1>6, <1>7
  <2> QED
    BY <1>0, <1>1, <1>6, <2>1 DEF LogOf
<1>9. \A d \in AppCalls \ {w[1]} : ~UnderWay(d)
  BY <1>3, <1>4, <1>5 DEF LogOk
<1>10. PICK c \in AppCalls : w = Command(c) /\ c = w[1]
  BY <1>4
<1>11. Set(Command(c), q) /\ (\A d \in AppCalls \ {c} : ~UnderWay(d)) /\ LogOf(q, Command(c))'
  BY <1>0, <1>8, <1>9, <1>10
<1> QED
  BY <1>0, <1>1, <1>3, <1>11, LogOfOne

LEMMA GoesLogs == ASSUME LogInv, NEW w \in Wrapped, Smooth', Goes(w) PROVE LogOk'
<1> DEFINE r == call[w]
<1>0. /\ CallsFine /\ r \in CommandRecords /\ RecordIs(r) /\ r.pc = "run" /\ r.rest # <<>> /\ UNCHANGED logState
      /\ parallel' = parallel /\ process = "up" /\ PairIs(call[Command(w[1])], call[Inner(Command(w[1]))])
  BY PairFacts DEF LogInv, Goes, appModes
<1>1. PICK q \in {[call[w] EXCEPT !.pc = "asked"], [call[w] EXCEPT !.rest = Tail(@)], [call[w] EXCEPT !.pc = "inner"]} :
        \/ Set(w, q) /\ q.pc # "inner"
        \/ /\ Head(call[w].rest) \in {"exist", "call"}
           /\ CallsInner(w, q, WaitForExist) \/ CallsInner(w, q, OneRequest)
           /\ q.pc = "inner"
        \/ Head(call[w].rest) = "float" /\ CallsInner(w, q, OneRequest)
  <2>1. /\ [call[w] EXCEPT !.pc = "asked"].pc = "asked" /\ [call[w] EXCEPT !.rest = Tail(@)].pc = "run"
        /\ [call[w] EXCEPT !.pc = "inner"].pc = "inner"
    BY <1>0 DEF CommandRecords
  <2> QED
    BY <2>1 DEF Goes
<1>2. q.kind = r.kind /\ q.settled = r.settled /\ q.opened = r.opened /\ q.pc \in {"run", "asked", "inner"}
  BY <1>0, <1>1 DEF CommandRecords
<1>3. CASE Set(w, q) /\ q.pc # "inner"
  BY <1>0, <1>2, <1>3, LogLeft
<1>4. ASSUME NEW body, CallsInner(w, q, body), Head(r.rest) \in {"exist", "call", "float"}
      PROVE  LogOk' \/ Head(r.rest) = "float"
  <2>1. w = Command(w[1]) /\ w[1] \in AppCalls /\ Inner(w) = Inner(Command(w[1])) /\ Inner(w) # w
    <3>1. r.rest \in Seq({"ask", "tries"}) => Head(r.rest) \in {"ask", "tries"}
      BY <1>0
    <3> QED
      BY <1>0, <1>4, <3>1, WrappedFacts DEF PairIs
  <2>2. PICK i : i = [NotCalled EXCEPT !.pc = "init", !.rest = body]
    OBVIOUS
  <2>3. \A v \in Wrapped : call'[v] = (IF v = Inner(w) THEN i ELSE IF v = w THEN q ELSE call[v])
    BY <1>0, <1>4, <2>1, <2>2, WrappedFacts DEF CallsInner, CallsFine
  <2>4. i.pc = "init" /\ ~i.opened /\ i.kind = "plain" /\ i.settled = "no"
    BY <2>2 DEF NotCalled
  <2>5. \A v \in Wrapped : SmoothCall(call'[v])
    BY DEF Smooth, SmoothCall
  <2>6. SmoothCall(q) /\ SmoothCall(r)
    BY <1>2, <2>1, <2>3, <2>5 DEF SmoothCall
  <2>7. SmoothCall(call[Inner(w)])
    BY <1>0, <2>1, <2>6 DEF PairIs, SmoothCall
  <2>8. \A v \in Wrapped : SmoothCall(call[v])
    BY <2>3, <2>5, <2>6, <2>7
  <2>9. Smooth /\ LogOk
    <3>1. Smooth
      BY <1>0, <2>8 DEF Smooth, SmoothCall
    <3> QED
      BY <3>1 DEF LogInv
  <2>10. PICK c \in AppCalls : w = Command(c) /\ c = w[1]
    BY <2>1
  <2>11. ASSUME q.pc = "inner" PROVE LogOk'
    <3>1. UnderWay(c) /\ LogOf(r, w)
      BY <1>0, <2>9, <2>10, SmoothFacts, WrappedFacts DEF UnderWay
    <3>2. \A d \in AppCalls : call'[Command(d)] = (IF d = c THEN q ELSE call[Command(d)])
      BY <2>3, <2>10, WrappedFacts
    <3>3. \A d \in AppCalls : UnderWay(d)' <=> UnderWay(d)
      BY <1>2, <2>11, <3>1, <3>2 DEF UnderWay
    <3>4. isLogOpened' = isLogOpened /\ stepStack' = stepStack
      BY <1>0 DEF logState
    <3>5. LogOf(q, w)
      BY <1>0, <1>2, <3>1 DEF LogOf
    <3>6. ASSUME NEW d \in AppCalls, UnderWay(d)' PROVE LogOf(call[Command(d)], Command(d))'
      <4>1. d = c
        BY <2>9, <3>1, <3>3, <3>6 DEF LogOk
      <4>2. call'[Command(d)] = q /\ LogOf(q, Command(d))
        BY <2>10, <3>2, <3>5, <4>1
      <4> QED
        BY <3>4, <4>2 DEF LogOf
    <3>7. \A d \in AppCalls : call'[Inner(Command(d))].pc # "before" /\ ~call'[Inner(Command(d))].opened
      <4>1. \A d \in AppCalls : call'[Inner(Command(d))] \in {i, call[Inner(Command(d))]}
        BY <2>1, <2>3, WrappedFacts
      <4> QED
        BY <2>4, <2>9, <4>1 DEF LogOk
    <3> QED
      BY <2>9, <3>3, <3>4, <3>6, <3>7 DEF LogOk
  <2> QED
    BY <1>1, <1>3, <2>11
<1>5. CASE Head(r.rest) = "float"
  <2>1. r.kind = "float"
    <3>1. r.rest \in Seq(Asking \ {"float"}) => Head(r.rest) \in Asking \ {"float"}
      BY <1>0
    <3> QED
      BY <1>0, <1>5, <3>1 DEF RecordIs
  <2>2. call'[w].kind = "float"
    <3>1. call'[w] = q
      <4>1. Inner(w) # w \/ ~(\E body : CallsInner(w, q, body))
        <5>1. r.rest \in Seq({"ask", "tries"}) => Head(r.rest) \in {"ask", "tries"}
          BY <1>0
        <5> QED
          BY <1>0, <1>5, <5>1, WrappedFacts DEF PairIs
      <4>2. Inner(w) \in Wrapped
        BY WrappedFacts
      <4> QED
        BY <1>0, <1>1, <4>1, <4>2 DEF CallsInner, CallsFine, Set
    <3> QED
      BY <1>2, <2>1, <3>1
  <2> QED
    BY <2>2 DEF Smooth
<1> QED
  BY <1>1, <1>3, <1>4, <1>5

LEMMA ResolvesLogs == ASSUME LogInv, NEW w \in Wrapped, Smooth', Resolves(w) PROVE LogOk'
<1> DEFINE r == call[w]
<1>1. CallsFine /\ r \in CommandRecords
  BY PairFacts DEF LogInv
<1>2. PICK q : q = [r EXCEPT !.pc = "over", !.settled = IF @ = "no" THEN "ok" ELSE @]
  OBVIOUS
<1>3. /\ r.pc = "run" /\ Set(w, q) /\ parallel' = parallel /\ process = "up" /\ r.kind \notin {"passed", "failed"}
      /\ IF r.opened THEN Close(w) ELSE UNCHANGED logState
  BY <1>2 DEF Resolves, appModes
<1>4. q.pc = "over" /\ q.kind = r.kind /\ (q.settled # "error" => r.settled # "error") /\ q.opened = r.opened
  BY <1>1, <1>2 DEF CommandRecords
<1>5. Smooth /\ LogOk
  <2>1. Smooth
    BY <1>1, <1>3, <1>4, SmoothOne DEF SmoothCall
  <2> QED
    BY <2>1 DEF LogInv
<1>6. CASE w = Command(w[1])
  <2>1. PICK c \in AppCalls : w = Command(c) /\ c = w[1]
    BY <1>6, WrappedFacts
  <2>2. LogOf(r, w) /\ UnderWay(c) /\ r.kind = "plain"
    BY <1>1, <1>3, <1>5, <2>1, SmoothFacts DEF UnderWay
  <2>3. stepStack = WithStep(w) /\ r.opened
    BY <1>3, <2>2 DEF LogOf
  <2>4. stepStack' = Base /\ ~isLogOpened'
    BY <1>3, <2>3, EndOfStep DEF Close
  <2> QED
    BY <1>1, <1>3, <1>4, <1>5, <2>1, <2>2, <2>4, LogOfNone
<1>7. CASE w = Inner(Command(w[1]))
  <2>1. ~r.opened
    BY <1>1, <1>5, <1>7, SmoothFacts
  <2> QED
    BY <1>1, <1>3, <1>4, <1>5, <1>7, <2>1, LogSame, WrappedFacts
<1> QED
  BY <1>6, <1>7, WrappedFacts

LEMMA InnerSettledLogs == ASSUME LogInv, NEW w \in Wrapped, Smooth', InnerSettled(w) PROVE LogOk'
<1> DEFINE r == call[w]
<1>1. /\ CallsFine /\ r \in CommandRecords /\ r.pc = "inner" /\ UNCHANGED logState /\ parallel' = parallel /\ process = "up"
      /\ PairIs(call[Command(w[1])], call[Inner(Command(w[1]))])
  BY PairFacts DEF LogInv, InnerSettled, appModes
<1>2. w = Command(w[1]) /\ Inner(w) \in Wrapped /\ Inner(w) # w
  BY <1>1, WrappedFacts DEF PairIs
<1>3. call[Inner(w)].settled # "error"
  <2>1. call'[Inner(w)] = call[Inner(w)]
    BY <1>1, <1>2 DEF InnerSettled, Set, CallsFine
  <2> QED
    BY <1>2, <2>1 DEF Smooth
<1>4. call[Inner(w)] \in CommandRecords
  BY <1>1, <1>2 DEF CallsFine
<1>5. PICK q : q = [r EXCEPT !.pc = "run", !.rest = Tail(@)]
  OBVIOUS
<1>6. Set(w, q)
  BY <1>3, <1>4, <1>5 DEF InnerSettled, Settled, CommandRecords
<1>7. q.kind = r.kind /\ q.settled = r.settled /\ q.opened = r.opened /\ q.pc = "run"
  BY <1>1, <1>5 DEF CommandRecords
<1> QED
  BY <1>1, <1>6, <1>7, LogLeft

LEMMA RespondLogs == ASSUME LogInv, NEW w \in Wrapped, Smooth', Respond(w) PROVE LogOk'
<1> DEFINE r == call[w]
<1>1. /\ CallsFine /\ r \in CommandRecords /\ RecordIs(r) /\ r.pc = "asked" /\ UNCHANGED logState /\ parallel' = parallel
      /\ process' = process
  BY PairFacts DEF LogInv, Respond, appModes
<1>2. process = "up"
  BY <1>1 DEF Smooth
<1>3. PICK q \in {[r EXCEPT !.pc = "run", !.rest = Tail(@), !.asked = 0], [r EXCEPT !.asked = @ + 1], Rejected(r)} :
        Set(w, q)
  BY <1>2 DEF Respond, AskAgain, Answered
<1>4. call'[w] = q
  BY <1>1, <1>3 DEF Set, CallsFine
<1>5. CASE q \in {[r EXCEPT !.pc = "run", !.rest = Tail(@), !.asked = 0], [r EXCEPT !.asked = @ + 1]}
  <2>1. q.kind = r.kind /\ q.settled = r.settled /\ q.opened = r.opened /\ q.pc \in {"run", "asked"}
    BY <1>1, <1>5 DEF CommandRecords
  <2> QED
    BY <1>1, <1>2, <1>3, <2>1, LogLeft
<1>6. CASE q = Rejected(r)
  <2>1. IsAssertion(r)
    <3>1. q.settled # "error"
      BY <1>4 DEF Smooth
    <3> QED
      BY <1>1, <1>6, <3>1, RejectedFacts
  <2>2. q.kind = r.kind /\ q.settled = r.settled /\ q.opened = r.opened /\ q.pc = "rejected"
    BY <1>1, <1>6, <2>1, RejectedFacts
  <2> QED
    BY <1>1, <1>2, <1>3, <2>2, LogLeft
<1> QED
  BY <1>3, <1>5, <1>6

LEMMA AssertHandledLogs == ASSUME LogInv, NEW c \in AppCalls, Smooth', AssertHandled(c) PROVE LogOk'
<1> DEFINE w == Command(c)
           r == call[w]
<1>1. CallsFine /\ r \in CommandRecords /\ w \in Wrapped
  BY PairFacts, WrappedFacts DEF LogInv
<1>2. \A q : Set(w, q) => call'[w] = q
  BY <1>1 DEF Set, CallsFine
<1>3. call'[w].kind # "failed"
  BY <1>1 DEF Smooth
<1>4. /\ [r EXCEPT !.kind = "failed", !.pc = "run", !.rest = <<"shot">>].kind = "failed"
      /\ \A s : [[r EXCEPT !.pc = "over"] EXCEPT !.settled = s].kind = r.kind
      /\ \A s : [[r EXCEPT !.pc = "over"] EXCEPT !.settled = s].pc = "over"
      /\ \A s : [[r EXCEPT !.pc = "over"] EXCEPT !.settled = s].settled = s
  BY <1>1 DEF CommandRecords
<1>5. PICK q : q = [[r EXCEPT !.pc = "over"] EXCEPT !.settled = "ok"]
  OBVIOUS
<1>6. /\ r.kind = "passed" /\ r.pc = "run" /\ Set(w, q) /\ stepStack' = EndStep(w)
      /\ isLogOpened' = isLogOpened /\ parallel' = parallel /\ process = "up"
  <2>1. isLogOpened' = isLogOpened /\ parallel' = parallel /\ process = "up"
    BY DEF AssertHandled, appModes
  <2>2. ~(r.kind = "failed")
    <3>1. r.kind = "failed" => \E s : Set(w, [[r EXCEPT !.pc = "over"] EXCEPT !.settled = s])
      BY DEF AssertHandled
    <3> QED
      BY <1>2, <1>3, <1>4, <3>1
  <2>3. ~(r.kind = "passed" /\ r.pc = "rejected")
    <3>1. r.kind = "passed" /\ r.pc = "rejected" =>
            Set(w, [r EXCEPT !.kind = "failed", !.pc = "run", !.rest = <<"shot">>])
      BY DEF AssertHandled
    <3> QED
      BY <1>2, <1>3, <1>4, <3>1
  <2> QED
    BY <1>5, <2>1, <2>2, <2>3 DEF AssertHandled
<1>7. q.pc = "over" /\ q.kind = r.kind /\ q.settled = "ok"
  BY <1>4, <1>5
<1>8. r.settled # "error"
  BY <1>1, <1>6, PairFacts DEF RecordIs, QuietPlaces
<1>9. Smooth /\ LogOk
  <2>1. Smooth
    BY <1>1, <1>6, <1>7, <1>8, SmoothOne DEF SmoothCall
  <2> QED
    BY <2>1 DEF LogInv
<1>10. UnderWay(c) /\ LogOf(r, w)
  BY <1>1, <1>6, <1>9, SmoothFacts, WrappedFacts DEF UnderWay
<1>11. stepStack = WithStep(w) /\ ~isLogOpened
  BY <1>6, <1>10 DEF LogOf
<1>12. stepStack' = Base /\ ~isLogOpened'
  BY <1>1, <1>6, <1>11, EndOfStep
<1> QED
  BY <1>1, <1>6, <1>7, <1>9, <1>10, <1>12, LogOfNone

\* Once a call has failed, the test is not smooth any more.
LEMMA FailureStays ==
  ASSUME CallsFine, NEW w \in Wrapped,
         ErrorHandled(w) \/ ClosesAgain(w) \/ PageTimeout(w)
  PROVE  ~Smooth'
<1>1. call[w] \in CommandRecords /\ RecordIs(call[w])
  BY PairFacts
<1>2. \A q : Set(w, q) => call'[w] = q
  BY DEF Set, CallsFine
<1>3. CASE ErrorHandled(w) \/ ClosesAgain(w)
  <2>1. call[w].settled = "error"
    BY <1>1, <1>3 DEF ErrorHandled, ClosesAgain, RecordIs
  <2>2. \A p \in {"closing", "over"} : [call[w] EXCEPT !.pc = p].settled = "error"
    BY <1>1, <2>1 DEF CommandRecords
  <2>3. process' = "ended" \/ \E p \in {"closing", "over"} : Set(w, [call[w] EXCEPT !.pc = p])
    BY <1>3 DEF ErrorHandled, ClosesAgain
  <2> QED
    BY <1>2, <2>2, <2>3 DEF Smooth
<1>4. CASE PageTimeout(w)
  <2>1. Set(w, [call[w] EXCEPT !.settled = "error"])
    BY <1>4 DEF PageTimeout
  <2>2. [call[w] EXCEPT !.settled = "error"].settled = "error"
    BY <1>1 DEF CommandRecords
  <2> QED
    BY <1>2, <2>1, <2>2 DEF Smooth
<1> QED
  BY <1>3, <1>4

LEMMA LogStep == ASSUME LogInv, [AppNext]_appVars, Smooth' PROVE LogOk'
<1>1. ASSUME UNCHANGED <<appModes, logState, call, process>> PROVE LogOk'
  <2>1. Smooth /\ LogOk
    BY <1>1 DEF Smooth, appModes, LogInv
  <2> QED
    BY <1>1, <2>1 DEF LogOk, LogOf, UnderWay, logState
<1>2. ~InitRejects
  BY DEF InitRejects, Smooth
<1>3. CASE AppProgress
  BY <1>1, <1>2, <1>3, InitialisedLogs, OpenStepLogs, GoesLogs, ResolvesLogs, InnerSettledLogs, RespondLogs, FailureStays,
     AssertHandledLogs DEF AppProgress, LogInv, Release
<1> QED
  BY <1>1, <1>3, CallLogs, FailureStays DEF AppNext, KillController, LogInv, appVars

LEMMA AppStep == ASSUME AppInv, [AppNext]_appVars PROVE AppInv'
BY CallsStep, HeardStep, LogStep DEF AppInv, LogInv

LEMMA AppStarts == ASSUME AppInit PROVE AppInv
<1>1. \A w \in Wrapped : call[w] = NotCalled
  BY DEF AppInit
<1>2. call \in [Wrapped -> CommandRecords]
  BY BlankCall DEF AppInit
<1>3. RecordIs(NotCalled) /\ PairIs(NotCalled, NotCalled)
  <2>1. <<>> \in Seq(Asking) /\ <<>> \in Seq(Asking \ {"float"}) /\ <<>> \in Seq({"ask", "tries"})
    OBVIOUS
  <2> QED
    BY <2>1, BlankCall DEF RecordIs, PairIs, IsAssertion, QuietPlaces
<1>4. CallsFine
  BY <1>1, <1>2, <1>3, WrappedFacts DEF CallsFine, CallsAre
<1>5. AssertionsHeard
  BY <1>1, WrappedFacts, BlankCall DEF AssertionsHeard, AppInit
<1>6. LogOk
  BY <1>1, WrappedFacts, BlankCall DEF LogOk, UnderWay, AppInit, Base
<1> QED
  BY <1>4, <1>5, <1>6 DEF AppInv

LEMMA AppHolds == ASSUME AppInv PROVE StepsKept /\ NothingStray /\ AssertionsHeard
<1>0. CallsFine
  BY DEF AppInv
<1>1. NothingStray
  <2> SUFFICES ASSUME NEW c \in AppCalls, Settled(Command(c)), call[Command(c)].kind \notin {"timer", "float"}
               PROVE  \A w \in {Command(c), Inner(Command(c))} : call[w].pc \in {"idle", "shot", "closing", "over"}
    BY DEF NothingStray
  <2>1. PairIs(call[Command(c)], call[Inner(Command(c))])
    BY <1>0 DEF CallsFine, CallsAre
  <2> QED
    BY <2>1 DEF PairIs, RecordIs, QuietPlaces, Settled
<1>2. StepsKept
  <2> SUFFICES ASSUME Smooth
               PROVE  /\ stepStack # <<>> /\ stepStack[1] = <<"test">>
                      /\ (\A w \in Wrapped : call[w].pc \in {"idle", "over"})
                         => ~isLogOpened /\ stepStack = Base
    BY DEF StepsKept, Smooth, Base
  <2>1. LogOk
    BY DEF AppInv
  <2>2. stepStack = Base \/ \E w \in Wrapped : stepStack = WithStep(w)
    BY <2>1, WrappedFacts DEF LogOk, LogOf
  <2>3. stepStack # <<>> /\ stepStack[1] = <<"test">>
    BY <2>2 DEF Base, WithStep
  <2>4. (\A w \in Wrapped : call[w].pc \in {"idle", "over"}) => \A c \in AppCalls : ~UnderWay(c)
    BY WrappedFacts DEF UnderWay
  <2> QED
    BY <2>1, <2>3, <2>4 DEF LogOk
<1> QED
  BY <1>1, <1>2 DEF AppInv

-----------------------------------------------------------------------------
Queue == INSTANCE FilePermissionResolverProofs
  WITH Clients <- {}, Requests <- {}, Client <- <<>>, refusals <- disturbed, cleaning <- disturbed, fpr <- todo

\* The elements of a list.
LEMMA ElementsAre == ASSUME NEW S, NEW list \in Seq(S) PROVE ToSet(list) = {list[i] : i \in 1..Len(list)}
<1>1. DOMAIN list = 1..Len(list)
  OBVIOUS
<1> QED
  BY <1>1, Zenon DEF ToSet

\* What Without() leaves of a list.
LEMMA WithoutFacts ==
  ASSUME NEW S, NEW list \in Seq(S), NEW t
  PROVE  Without(list, t) \in Seq(S) /\ ToSet(Without(list, t)) = ToSet(list) \ {t}
<1> DEFINE kept == ToSet(list) \ {t}
           r == Rest(list, kept)
<1>1. Queue!ResolverConstants
  <2>1. Queue!IsFiniteSet({})
    BY FS_EmptySet DEF IsFiniteSet, Queue!IsFiniteSet
  <2> QED
    BY <2>1 DEF Queue!ResolverConstants
<1>2. r = Queue!Rest(list, kept)
  BY DEF Rest, Queue!Rest
<1>3. /\ r \in Seq(S)
      /\ \A i \in DOMAIN r : \E k \in DOMAIN list : r[i] = list[k] /\ list[k] \in kept
      /\ \A k \in DOMAIN list : list[k] \in kept => \E i \in DOMAIN r : r[i] = list[k]
  <2> HIDE DEF r, kept
  <2> QED
    BY <1>1, <1>2, Queue!RestFacts
<1> HIDE DEF r
<1>4. DOMAIN r = 1..Len(r) /\ DOMAIN list = 1..Len(list)
  BY <1>3
<1>5. ToSet(r) = {r[i] : i \in DOMAIN r} /\ ToSet(list) = {list[i] : i \in DOMAIN list}
  BY <1>4 DEF ToSet
<1>6. ToSet(r) = kept
  BY <1>3, <1>5
<1> QED
  BY <1>3, <1>6 DEF Without, r

-----------------------------------------------------------------------------
\* Lists and what is put before one.
IsList(q) == \E S : q \in Seq(S)
LEMMA ConsFacts ==
  ASSUME NEW x, NEW q, IsList(q)
  PROVE  /\ IsList(Cons(x, q)) /\ Cons(x, q) # <<>>
         /\ Head(Cons(x, q)) = x /\ Tail(Cons(x, q)) = q
<1>1. PICK S : q \in Seq(S)
  BY DEF IsList
<1> DEFINE T == S \cup {x}
           c == <<x>> \o q
<1>2. q \in Seq(T) /\ x \in T
  BY <1>1, SeqMonotonic
<1>3. <<x>> \in Seq(T) /\ Len(<<x>>) = 1 /\ <<x>>[1] = x
  BY <1>2
<1> HIDE DEF T
<1>4. /\ c \in Seq(T) /\ Len(c) = 1 + Len(q)
      /\ \A i \in 1..(1 + Len(q)) : c[i] = IF i <= 1 THEN <<x>>[i] ELSE q[i - 1]
  BY <1>2, <1>3, ConcatProperties
<1> HIDE DEF c
<1>5. PICK n \in Nat : n = Len(q)
  BY <1>2
<1>6. c # <<>> /\ Head(c) = x
  BY <1>3, <1>4, <1>5
<1>7. Tail(c) \in Seq(T) /\ Len(Tail(c)) = n /\ \A i \in 1..n : Tail(c)[i] = c[i + 1]
  BY <1>4, <1>5, <1>6
<1>8. \A i \in 1..n : Tail(c)[i] = q[i]
  BY <1>4, <1>5, <1>7
<1>9. Tail(c) = q
  BY <1>2, <1>5, <1>7, <1>8, SeqEqual
<1> QED
  BY <1>4, <1>6, <1>9 DEF Cons, IsList, c

LEMMA EmptyList == IsList(<<>>)
BY DEF IsList

\* Lists put together.
LEMMA ConsConcat ==
  ASSUME NEW x, NEW p, NEW q, IsList(p), IsList(q)
  PROVE  Cons(x, p) \o q = Cons(x, p \o q) /\ IsList(p \o q)
<1>1. PICK S, T : p \in Seq(S) /\ q \in Seq(T)
  BY DEF IsList
<1> DEFINE U == S \cup T \cup {x}
<1>2. p \in Seq(U) /\ q \in Seq(U) /\ x \in U
  BY <1>1, SeqMonotonic
<1>3. <<x>> \in Seq(U)
  BY <1>2
<1> HIDE DEF U
<1> QED
  BY <1>2, <1>3, ConcatAssociative, ConcatProperties DEF Cons, IsList

LEMMA NilConcat == ASSUME NEW q, IsList(q) PROVE <<>> \o q = q /\ q \o <<>> = q
BY ConcatEmptySeq DEF IsList

LEMMA Tuples ==
  /\ \A a : <<a>> = Cons(a, <<>>)
  /\ \A a, b : <<a, b>> = Cons(a, <<b>>)
  /\ \A a, b, c : <<a, b, c>> = Cons(a, <<b, c>>)
<1>1. ASSUME NEW a PROVE <<a>> = Cons(a, <<>>)
  <2>1. <<a>> \in Seq({a})
    OBVIOUS
  <2> QED
    BY <2>1, ConcatEmptySeq DEF Cons
<1>2. ASSUME NEW a, NEW b PROVE <<a, b>> = Cons(a, <<b>>)
  <2> DEFINE S == {a, b}
             c == <<a>> \o <<b>>
  <2>1. <<a>> \in Seq(S) /\ <<b>> \in Seq(S) /\ Len(<<a>>) = 1 /\ Len(<<b>>) = 1 /\ <<a, b>> \in Seq(S) /\ Len(<<a, b>>) = 2
    OBVIOUS
  <2>2. c \in Seq(S) /\ Len(c) = Len(<<a>>) + Len(<<b>>)
        /\ \A i \in 1..(Len(<<a>>) + Len(<<b>>)) : c[i] = IF i <= Len(<<a>>) THEN <<a>>[i] ELSE <<b>>[i - Len(<<a>>)]
    <3> HIDE DEF S
    <3> QED
      BY <2>1, ConcatProperties
  <2>3. Len(c) = 2 /\ c[1] = a /\ c[2] = b
    BY <2>1, <2>2
  <2>4. \A i \in 1..Len(c) : c[i] = <<a, b>>[i]
    BY <2>3
  <2> QED
    BY <2>1, <2>2, <2>3, <2>4, SeqEqual DEF Cons
<1>3. ASSUME NEW a, NEW b, NEW d PROVE <<a, b, d>> = Cons(a, <<b, d>>)
  <2> DEFINE S == {a, b, d}
             c == <<a>> \o <<b, d>>
  <2>1. /\ <<a>> \in Seq(S) /\ <<b, d>> \in Seq(S) /\ Len(<<a>>) = 1 /\ Len(<<b, d>>) = 2 /\ <<a, b, d>> \in Seq(S)
        /\ Len(<<a, b, d>>) = 3
    OBVIOUS
  <2>2. c \in Seq(S) /\ Len(c) = Len(<<a>>) + Len(<<b, d>>)
        /\ \A i \in 1..(Len(<<a>>) + Len(<<b, d>>)) : c[i] = IF i <= Len(<<a>>) THEN <<a>>[i] ELSE <<b, d>>[i - Len(<<a>>)]
    <3> HIDE DEF S
    <3> QED
      BY <2>1, ConcatProperties
  <2>3. Len(c) = 3 /\ c[1] = a /\ c[2] = b /\ c[3] = d
    BY <2>1, <2>2
  <2>4. \A i \in 1..Len(c) : c[i] = <<a, b, d>>[i]
    BY <2>3
  <2> QED
    BY <2>1, <2>2, <2>3, <2>4, SeqEqual DEF Cons
<1> QED
  BY <1>1, <1>2, <1>3

-----------------------------------------------------------------------------
Op == lastOp[1]
OpenTabs == ToSet(tabs)
Old == OpenTabs \ since
MainThen(q) == Cons(<<"init">>, Cons(<<"ids">>, Cons(<<"toMain">>, q)))
CurThen(q) == Cons(<<"cur">>, Cons(<<"init">>, Cons(<<"closeCurrent">>, q)))
Main == MainThen(<<>>)

Common ==
  /\ opened \in Nat /\ tabs \in Seq(Nat) /\ OpenTabs \subseteq 1..opened
  /\ current = None \/ current \in OpenTabs
  /\ mainTabID \in 0..opened /\ cur \in 0..opened
  /\ ids \in Seq(Nat) /\ ToSet(ids) \subseteq 1..opened
  /\ since \subseteq 1..opened
MainOk == mainTabID = None \/ mainTabID \in OpenTabs
MainOld == mainTabID \in Old
Cleared == MainOld /\ Old = {mainTabID}
\* ids is a prefix of tabs
FreshIds == /\ Len(ids) \in 1..Len(tabs) /\ \A i \in 1..Len(ids) : ids[i] = tabs[i]

AtRest ==
  /\ todo = <<>> /\ MainOk
  /\ lastOp[2] = "ok" =>
       /\ Op \in {"closeCurrent", "closeOthers", "closeSibling", "toMain"} => current # None
       /\ Op = "closeOthers" => Cleared /\ current = mainTabID
AtWindow ==
  /\ MainOk
  /\ \E t \in 1..opened, q \in {<<>>, Main, CurThen(Main)} :
       /\ todo \in {Cons(<<"init">>, Cons(<<"switch", t>>, q)), Cons(<<"switch", t>>, q)}
       /\ Op = "closeOthers" => Cleared /\ t = mainTabID /\ q = <<>>
       /\ q = CurThen(Main) => Op = "closeSibling"
AtMain ==
  /\ MainOk
  /\ \E q \in {<<>>, Main} :
       /\ Op = "closeOthers" => Cleared /\ q = <<>>
       /\ \/ todo \in {MainThen(q), Cons(<<"ids">>, Cons(<<"toMain">>, q))}
          \/ /\ todo = Cons(<<"toMain">>, q) /\ ids # <<>>
             /\ Op = "closeOthers" => mainTabID \in ToSet(ids)
AtClose ==
  /\ MainOk /\ Op = "close"
  /\ \E t \in 0..opened :
       \/ todo = Cons(<<"init">>, Cons(<<"ids">>, Cons(<<"close", t>>, <<>>)))
       \/ todo = Cons(<<"ids">>, Cons(<<"close", t>>, <<>>)) /\ mainTabID # None
       \/ todo = Cons(<<"close", t>>, <<>>) /\ mainTabID # None /\ FreshIds
InCurrent(q) == Op = IF q = <<>> THEN "closeCurrent" ELSE "closeSibling"
AtCurrent ==
  /\ MainOk
  /\ \E q \in {<<>>, Main} :
       /\ InCurrent(q)
       /\ \/ todo = CurThen(q)
          \/ todo = Cons(<<"init">>, Cons(<<"closeCurrent">>, q)) /\ cur # None
          \/ todo = Cons(<<"closeCurrent">>, q) /\ cur # None /\ mainTabID # None
AtClosing ==
  /\ MainOk /\ mainTabID # None
  /\ \E q \in {<<>>, Main}, c \in 1..opened, b \in BOOLEAN :
       /\ InCurrent(q) /\ (b <=> c = mainTabID)
       /\ LET close == Cons(<<"close", c>>, Cons(<<"closed", b>>, q))
          IN todo \in {Cons(<<"init">>, Cons(<<"ids">>, close)), Cons(<<"ids">>, close)} \/ (todo = close /\ FreshIds)
AtClosed ==
  \E q \in {<<>>, Main} :
    /\ InCurrent(q)
    /\ \/ todo = Cons(<<"closed", FALSE>>, q) /\ MainOk
       \/ todo \in {Cons(<<"closed", TRUE>>, q), Cons(<<"ids">>, Cons(<<"adopt">>, q))}
       \/ todo = Cons(<<"adopt">>, q) /\ ids # <<>> /\ ToSet(ids) \subseteq OpenTabs
       \/ \E t \in OpenTabs :
            \/ todo \in {Cons(<<"init">>, Cons(<<"switch", t>>, Cons(<<"setMain", t>>, q))),
                         Cons(<<"switch", t>>, Cons(<<"setMain", t>>, q))}
            \/ todo = Cons(<<"setMain", t>>, q) /\ current = t
AtSibling ==
  /\ MainOk
  /\ \E q \in {<<>>, CurThen(Main)} :
       /\ Op = IF q = <<>> THEN "toSibling" ELSE "closeSibling"
       /\ todo \in {Cons(<<"init">>, Cons(<<"ids">>, Cons(<<"toSibling">>, q))), Cons(<<"ids">>, Cons(<<"toSibling">>, q)),
                    Cons(<<"toSibling">>, q)}
AtOthers ==
  /\ MainOk /\ mainTabID \notin since /\ Op = "closeOthers"
  /\ \/ todo = Cons(<<"ids">>, Cons(<<"init">>, Cons(<<"closeOthers">>, <<>>))) /\ current \notin since
     \/ /\ todo = Cons(<<"init">>, Cons(<<"closeOthers">>, <<>>)) /\ current \notin since /\ tabs # <<>> /\ Old \subseteq ToSet(ids)
     \/ /\ todo = Cons(<<"closeOthers">>, <<>>) /\ mainTabID # None /\ Old \subseteq ToSet(ids)
AtEach ==
  /\ MainOld /\ Op = "closeOthers"
  /\ \E list \in Seq(Nat) :
       /\ ToSet(list) \subseteq 1..opened /\ mainTabID \notin ToSet(list)
       /\ LET each == Cons(<<"closeEach", list>>, Main)
          IN \/ todo = each /\ Old \subseteq {mainTabID} \cup ToSet(list)
             \/ \E t \in 1..opened \ {mainTabID} :
                  /\ Old \subseteq {mainTabID, t} \cup ToSet(list)
                  /\ LET close == Cons(<<"init">>, Cons(<<"ids">>, Cons(<<"close", t>>, each)))
                     IN \/ todo \in {Cons(<<"init">>, Cons(<<"switch", t>>, close)), Cons(<<"switch", t>>, close), close,
                                     Cons(<<"ids">>, Cons(<<"close", t>>, each))}
                        \/ todo = Cons(<<"close", t>>, each) /\ FreshIds /\ mainTabID \in ToSet(ids)
AtOther ==
  /\ MainOk
  /\ \/ todo = Cons(<<"new">>, <<>>) /\ Op = "newWindow"
     \/ todo = Cons(<<"end">>, <<>>) /\ Op = "end"
Going ==
  \/ AtRest \/ AtWindow \/ AtMain \/ AtClose \/ AtCurrent \/ AtClosing \/ AtClosed \/ AtSibling \/ AtOthers \/ AtEach \/ AtOther
TabsInv == ~disturbed => Common /\ Going

LEMMA TwoThen ==
  ASSUME NEW q, IsList(q), NEW x, NEW y
  PROVE  <<x, y>> \o q = Cons(x, Cons(y, q))
<1>1. <<x, y>> = Cons(x, <<y>>) /\ <<y>> = Cons(y, <<>>)
  BY Tuples
<1>2. IsList(Cons(y, <<>>))
  BY ConsFacts, EmptyList
<1>3. IsList(<<y>>) /\ <<y>> \o q = Cons(y, q)
  BY <1>1, <1>2, Zenon DEF Cons
<1>4. \A p : IsList(p) => Cons(x, p) \o q = Cons(x, p \o q)
  BY ConsConcat
<1> QED
  BY <1>1, <1>3, <1>4, Zenon

LEMMA Programs ==
  ASSUME NEW q, IsList(q)
  PROVE  /\ \A t : Window(t) \o q = Cons(<<"init">>, Cons(<<"switch", t>>, q))
         /\ \A t : CloseBrowserWindow(t) \o q = Cons(<<"init">>, Cons(<<"ids">>, Cons(<<"close", t>>, q)))
         /\ CloseCurrentTab \o q = CurThen(q)
         /\ CloseAllOtherTabs \o q = Cons(<<"ids">>, Cons(<<"init">>, Cons(<<"closeOthers">>, q)))
         /\ SwitchToFirstSiblingTab \o q = Cons(<<"init">>, Cons(<<"ids">>, Cons(<<"toSibling">>, q)))
         /\ SwitchToMainSiblingTab \o q = MainThen(q)
         /\ IsList(MainThen(q)) /\ IsList(CurThen(q))
         /\ \A a : <<a>> \o q = Cons(a, q) /\ IsList(Cons(a, q))
         /\ \A a, b : <<a, b>> \o q = Cons(a, Cons(b, q)) /\ IsList(<<a, b>>)
<1>1. \A a : IsList(Cons(a, q)) /\ \A b : IsList(Cons(a, Cons(b, q)))
  BY ConsFacts
<1>2. ASSUME NEW a PROVE <<a>> \o q = Cons(a, q) /\ IsList(<<a>>)
  <2>1. <<a>> = Cons(a, <<>>)
    BY Tuples
  <2>2. IsList(Cons(a, <<>>))
    BY ConsFacts, EmptyList
  <2> QED
    BY <2>1, <2>2 DEF Cons
<1>3. ASSUME NEW a, NEW b PROVE <<a, b>> \o q = Cons(a, Cons(b, q)) /\ IsList(<<a, b>>)
  <2>1. <<a, b>> = Cons(a, <<b>>)
    BY Tuples
  <2>2. IsList(<<b>>) /\ <<b>> \o q = Cons(b, q)
    BY <1>2
  <2>3. \A p : IsList(p) => Cons(a, p) \o q = Cons(a, p \o q) /\ IsList(Cons(a, p))
    BY ConsConcat, ConsFacts
  <2> QED
    BY <2>1, <2>2, <2>3, Zenon
<1>4. ASSUME NEW a, NEW b, NEW c PROVE <<a, b, c>> \o q = Cons(a, Cons(b, Cons(c, q)))
  <2>1. <<a, b, c>> = Cons(a, <<b, c>>)
    BY Tuples
  <2>2. IsList(<<b, c>>) /\ <<b, c>> \o q = Cons(b, Cons(c, q))
    BY <1>3
  <2>3. \A p : IsList(p) => Cons(a, p) \o q = Cons(a, p \o q)
    BY ConsConcat
  <2> QED
    BY <2>1, <2>2, <2>3, Zenon
<1>5. IsList(MainThen(q)) /\ IsList(CurThen(q))
  BY ConsFacts DEF MainThen, CurThen
<1>6. \A t : Window(t) \o q = Cons(<<"init">>, Cons(<<"switch", t>>, q))
  BY <1>3, Zenon DEF Window
<1>7. \A t : CloseBrowserWindow(t) \o q = Cons(<<"init">>, Cons(<<"ids">>, Cons(<<"close", t>>, q)))
  BY <1>4, Zenon DEF CloseBrowserWindow
<1>8. CloseCurrentTab \o q = CurThen(q) /\ SwitchToMainSiblingTab \o q = MainThen(q)
  BY <1>4, Zenon DEF CloseCurrentTab, SwitchToMainSiblingTab, MainThen, CurThen
<1>9. /\ CloseAllOtherTabs \o q = Cons(<<"ids">>, Cons(<<"init">>, Cons(<<"closeOthers">>, q)))
      /\ SwitchToFirstSiblingTab \o q = Cons(<<"init">>, Cons(<<"ids">>, Cons(<<"toSibling">>, q)))
  BY <1>4, Zenon DEF CloseAllOtherTabs, SwitchToFirstSiblingTab
<1> QED
  BY <1>1, <1>2, <1>3, <1>5, <1>6, <1>7, <1>8, <1>9, Zenon

LEMMA ProgramThen ==
  ASSUME NEW q, IsList(q), NEW a
  PROVE  /\ \A t : CloseBrowserWindow(t) \o <<a>> \o q = Cons(<<"init">>, Cons(<<"ids">>, Cons(<<"close", t>>, Cons(a, q))))
         /\ \A t : (Window(t) \o <<a>>) \o q = Cons(<<"init">>, Cons(<<"switch", t>>, Cons(a, q)))
<1>0. IsList(<<a>>) /\ <<a>> \o q = Cons(a, q)
  BY Tuples, ConsFacts, EmptyList DEF Cons
<1>1. ASSUME NEW x, NEW y, NEW z, NEW p, IsList(p)
      PROVE  /\ Cons(x, Cons(y, p)) \o q = Cons(x, Cons(y, p \o q))
             /\ Cons(x, Cons(y, Cons(z, p))) \o q = Cons(x, Cons(y, Cons(z, p \o q)))
  <2>1. \A v : IsList(Cons(v, p)) /\ Cons(v, p) \o q = Cons(v, p \o q)
    BY <1>1, ConsFacts, ConsConcat
  <2>2. \A u, v : IsList(Cons(u, Cons(v, p))) /\ Cons(u, Cons(v, p)) \o q = Cons(u, Cons(v, p \o q))
    <3> SUFFICES ASSUME NEW u, NEW v PROVE IsList(Cons(u, Cons(v, p))) /\ Cons(u, Cons(v, p)) \o q = Cons(u, Cons(v, p) \o q)
      BY <2>1, Zenon
    <3> QED
      BY <2>1, ConsFacts, ConsConcat
  <2>3. Cons(x, Cons(y, Cons(z, p))) \o q = Cons(x, Cons(y, Cons(z, p)) \o q)
    BY <2>2, ConsConcat
  <2> QED
    BY <2>2, <2>3, Zenon
<1>2. ASSUME NEW t
      PROVE CloseBrowserWindow(t) \o <<a>> \o q = Cons(<<"init">>, Cons(<<"ids">>, Cons(<<"close", t>>, Cons(a, q))))
  <2>1. CloseBrowserWindow(t) \o <<a>> = Cons(<<"init">>, Cons(<<"ids">>, Cons(<<"close", t>>, <<a>>)))
    BY <1>0, Programs
  <2>2. Cons(<<"init">>, Cons(<<"ids">>, Cons(<<"close", t>>, <<a>>))) \o q
          = Cons(<<"init">>, Cons(<<"ids">>, Cons(<<"close", t>>, <<a>> \o q)))
    <3>1. PICK x, y, z, p : x = <<"init">> /\ y = <<"ids">> /\ z = <<"close", t>> /\ p = <<a>>
      OBVIOUS
    <3>3. IsList(p)
      BY <1>0, <3>1, Zenon
    <3>2. Cons(x, Cons(y, Cons(z, p))) \o q = Cons(x, Cons(y, Cons(z, p \o q)))
      BY <1>1, <3>3
    <3> QED
      BY <3>1, <3>2, Zenon
  <2> QED
    BY <1>0, <2>1, <2>2, Zenon
<1>3. ASSUME NEW t
      PROVE (Window(t) \o <<a>>) \o q = Cons(<<"init">>, Cons(<<"switch", t>>, Cons(a, q)))
  <2>1. Window(t) \o <<a>> = Cons(<<"init">>, Cons(<<"switch", t>>, <<a>>))
    BY <1>0, Programs
  <2>2. Cons(<<"init">>, Cons(<<"switch", t>>, <<a>>)) \o q = Cons(<<"init">>, Cons(<<"switch", t>>, <<a>> \o q))
    <3>1. PICK x, y, p : x = <<"init">> /\ y = <<"switch", t>> /\ p = <<a>>
      OBVIOUS
    <3>3. IsList(p)
      BY <1>0, <3>1, Zenon
    <3>2. /\ Cons(x, Cons(y, p)) \o q = Cons(x, Cons(y, p \o q))
          /\ Cons(x, Cons(y, Cons(x, p))) \o q = Cons(x, Cons(y, Cons(x, p \o q)))
      BY <1>1, <3>3
    <3> QED
      BY <3>1, <3>2, Zenon
  <2> QED
    BY <1>0, <2>1, <2>2, Zenon
<1> QED
  BY <1>2, <1>3

LEMMA ListsTogether ==
  ASSUME NEW p, NEW q, NEW r, IsList(p), IsList(q), IsList(r)
  PROVE  (p \o q) \o r = p \o (q \o r) /\ IsList(p \o q)
<1>1. PICK S, T, U : p \in Seq(S) /\ q \in Seq(T) /\ r \in Seq(U)
  BY DEF IsList
<1> DEFINE V == S \cup T \cup U
<1>2. p \in Seq(V) /\ q \in Seq(V) /\ r \in Seq(V)
  BY <1>1, SeqMonotonic
<1> HIDE DEF V
<1> QED
  BY <1>2, ConcatAssociative, ConcatProperties DEF IsList

LEMMA WholePrograms ==
  /\ \A a : <<a>> = Cons(a, <<>>) /\ IsList(<<a>>)
  /\ \A a, b : <<a, b>> = Cons(a, Cons(b, <<>>)) /\ IsList(<<a, b>>)
  /\ \A a, b, c : <<a, b, c>> = Cons(a, Cons(b, Cons(c, <<>>))) /\ IsList(<<a, b, c>>)
<1>1. \A a : <<a>> = Cons(a, <<>>) /\ IsList(<<a>>)
  BY Tuples, ConsFacts, EmptyList
<1>2. ASSUME NEW a, NEW b PROVE <<a, b>> = Cons(a, Cons(b, <<>>)) /\ IsList(<<a, b>>)
  <2>1. <<a, b>> = Cons(a, <<b>>) /\ <<b>> = Cons(b, <<>>) /\ IsList(<<b>>)
    BY <1>1, Tuples
  <2>2. IsList(Cons(a, <<b>>))
    BY <2>1, ConsFacts
  <2> QED
    BY <2>1, <2>2, Zenon
<1>3. ASSUME NEW a, NEW b, NEW c PROVE <<a, b, c>> = Cons(a, Cons(b, Cons(c, <<>>))) /\ IsList(<<a, b, c>>)
  <2>1. <<a, b, c>> = Cons(a, <<b, c>>) /\ <<b, c>> = Cons(b, Cons(c, <<>>)) /\ IsList(<<b, c>>)
    BY <1>2, Tuples
  <2>2. IsList(Cons(a, <<b, c>>))
    BY <2>1, ConsFacts
  <2> QED
    BY <2>1, <2>2, Zenon
<1> QED
  BY <1>1, <1>2, <1>3

\* The steps of switchToMainSiblingTab are those that have mainTabID read again first.
LEMMA MainProgram == SwitchToMainSiblingTab = Main
<1>1. ASSUME NEW x, NEW y, NEW z PROVE <<x, y, z>> = Cons(x, Cons(y, Cons(z, <<>>)))
  BY WholePrograms
<1>2. PICK x : x = <<"init">>
  OBVIOUS
<1>3. PICK y : y = <<"ids">>
  OBVIOUS
<1>4. PICK z : z = <<"toMain">>
  OBVIOUS
<1>5. <<x, y, z>> = Cons(x, Cons(y, Cons(z, <<>>)))
  BY <1>1
<1>6. SwitchToMainSiblingTab = <<x, y, z>>
  BY <1>2, <1>3, <1>4, Zenon DEF SwitchToMainSiblingTab
<1>7. Main = Cons(x, Cons(y, Cons(z, <<>>)))
  BY <1>2, <1>3, <1>4, Zenon DEF Main, MainThen
<1> QED
  BY <1>5, <1>6, <1>7, Zenon

LEMMA ClosesOne ==
  ASSUME NEW q, IsList(q), NEW a, NEW t
  PROVE  (Window(t) \o CloseBrowserWindow(t) \o <<a>>) \o q =
           Cons(<<"init">>, Cons(<<"switch", t>>, Cons(<<"init">>, Cons(<<"ids">>, Cons(<<"close", t>>, Cons(a, q))))))
<1> DEFINE W == Window(t)
           C == CloseBrowserWindow(t)
           A == <<a>>
<1>1. IsList(W) /\ IsList(C) /\ IsList(A)
  <2>1. IsList(W)
    BY WholePrograms, Zenon DEF Window
  <2>2. IsList(C)
    <3>1. PICK x, y, z : x = <<"init">> /\ y = <<"ids">> /\ z = <<"close", t>>
      OBVIOUS
    <3>2. IsList(<<x, y, z>>)
      BY WholePrograms, Zenon
    <3> QED
      BY <3>1, <3>2, Zenon DEF CloseBrowserWindow
  <2>3. IsList(A)
    BY WholePrograms, Zenon
  <2> QED
    BY <2>1, <2>2, <2>3, Zenon
<1>2. A \o q = Cons(a, q) /\ IsList(A \o q)
  <2>1. \A b : <<b>> \o q = Cons(b, q) /\ IsList(Cons(b, q))
    BY Programs
  <2> QED
    BY <2>1, Zenon
<1>3. C \o (A \o q) = Cons(<<"init">>, Cons(<<"ids">>, Cons(<<"close", t>>, Cons(a, q)))) /\ IsList(C \o (A \o q))
  <2>1. \A v : CloseBrowserWindow(v) \o (A \o q) = Cons(<<"init">>, Cons(<<"ids">>, Cons(<<"close", v>>, A \o q)))
    <3>1. PICK p : p = A \o q
      OBVIOUS
    <3>2. IsList(p)
      BY <1>2, <3>1, Zenon
    <3>3. \A v : CloseBrowserWindow(v) \o p = Cons(<<"init">>, Cons(<<"ids">>, Cons(<<"close", v>>, p)))
      BY <3>2, Programs
    <3> QED
      BY <3>1, <3>3, Zenon
  <2>2. IsList(C \o (A \o q))
    <3> HIDE DEF C, A
    <3> QED
      BY <1>1, <1>2, ListsTogether
  <2> QED
    BY <1>2, <2>1, <2>2, Zenon
<1>4. W \o (C \o (A \o q)) = Cons(<<"init">>, Cons(<<"switch", t>>, C \o (A \o q)))
  BY <1>3, Programs
<1> HIDE DEF W, C, A
<1>5. ((W \o C) \o A) \o q = W \o (C \o (A \o q))
  <2>1. IsList(W \o C)
    BY <1>1, ListsTogether
  <2>2. ((W \o C) \o A) \o q = (W \o C) \o (A \o q)
    BY <1>1, <2>1, ListsTogether
  <2>3. (W \o C) \o (A \o q) = W \o (C \o (A \o q))
    BY <1>1, <1>2, ListsTogether
  <2> QED
    BY <2>2, <2>3
<1> QED
  BY <1>3, <1>4, <1>5, Zenon DEF W, C, A

LEMMA HeadOfList ==
  ASSUME NEW list \in Seq(Nat), list # <<>>
  PROVE  /\ Tail(list) \in Seq(Nat) /\ list[1] \in ToSet(list) /\ ToSet(list) = {list[1]} \cup ToSet(Tail(list))
<1>1. /\ Tail(list) \in Seq(Nat) /\ Len(list) \in Nat /\ Len(list) >= 1 /\ Len(Tail(list)) = Len(list) - 1
      /\ \A i \in 1..(Len(list) - 1) : Tail(list)[i] = list[i + 1]
  OBVIOUS
<1>2. \A i \in 1..Len(list) : i = 1 \/ (i - 1 \in 1..Len(Tail(list)) /\ Tail(list)[i - 1] = list[i])
  BY <1>1
<1>3. \A i \in 1..Len(Tail(list)) : i + 1 \in 1..Len(list) /\ Tail(list)[i] = list[i + 1]
  BY <1>1
<1>4. 1 \in 1..Len(list)
  BY <1>1
<1>5. ToSet(list) = {list[i] : i \in 1..Len(list)} /\ ToSet(Tail(list)) = {Tail(list)[i] : i \in 1..Len(Tail(list))}
  <2>1. PICK rest \in Seq(Nat) : rest = Tail(list)
    BY <1>1
  <2>2. ToSet(rest) = {rest[i] : i \in 1..Len(rest)}
    BY ElementsAre
  <2>3. ToSet(list) = {list[i] : i \in 1..Len(list)}
    BY ElementsAre
  <2> QED
    BY <2>1, <2>2, <2>3, Zenon
<1>6. list[1] \in ToSet(list)
  BY <1>4, <1>5
<1>7. ASSUME NEW x \in ToSet(list) PROVE x \in {list[1]} \cup ToSet(Tail(list))
  <2>1. PICK i \in 1..Len(list) : x = list[i]
    BY <1>5
  <2>2. CASE i = 1
    BY <2>1, <2>2
  <2>3. CASE i # 1
    <3>1. i - 1 \in 1..Len(Tail(list)) /\ Tail(list)[i - 1] = x
      BY <1>2, <2>1, <2>3
    <3> QED
      BY <1>5, <3>1
  <2> QED
    BY <2>2, <2>3
<1>8. ASSUME NEW x \in ToSet(Tail(list)) PROVE x \in ToSet(list)
  <2>1. PICK i \in 1..Len(Tail(list)) : x = Tail(list)[i]
    BY <1>5
  <2>2. i + 1 \in 1..Len(list) /\ list[i + 1] = x
    BY <1>3, <2>1
  <2> QED
    BY <1>5, <2>2
<1> QED
  BY <1>1, <1>6, <1>7, <1>8

LEMMA Tails == IsList(<<>>) /\ IsList(Main) /\ IsList(CurThen(Main)) /\ Main # <<>> /\ CurThen(Main) # <<>>
                 /\ CurThen(Main) # Main
<1>1. IsList(<<>>) /\ IsList(Main) /\ IsList(CurThen(Main))
  BY EmptyList, Programs DEF Main
<1>2. Head(Main) = <<"init">> /\ Main # <<>>
  BY ConsFacts, EmptyList DEF Main, MainThen
<1>3. Head(CurThen(Main)) = <<"cur">> /\ CurThen(Main) # <<>>
  BY <1>1, ConsFacts DEF CurThen
<1>4. <<"init">>[1] # <<"cur">>[1]
  OBVIOUS
<1> QED
  BY <1>1, <1>2, <1>3, <1>4

\* How a command goes on or fails.
Going_On(q) == todo' = q /\ lastOp'[1] = lastOp[1] /\ (q = <<>> => lastOp'[2] = "ok")
CommandFails == todo' = <<>> /\ lastOp'[1] = lastOp[1] /\ lastOp'[2] = "error"
Opens ==
  IF tabs = <<>> THEN opened' = opened + 1 /\ tabs' = <<opened'>> /\ OpenTabs' = {opened'} /\ current' = opened'
  ELSE UNCHANGED <<tabs, opened, current>> /\ OpenTabs' = OpenTabs

LEMMA GoOnFacts ==
  /\ \A q : GoOn(q) => Going_On(q)
  /\ Fails => CommandFails
BY DEF GoOn, Going_On, Fails, CommandFails

LEMMA TabStepFacts ==
  ASSUME NEW x, NEW q, IsList(q), todo = Cons(x, q)
  PROVE  Now = x /\ Tail(todo) = q /\ ~Idle
BY ConsFacts DEF Now, Idle

LEMMA ByName ==
  ASSUME TabsProgress
  PROVE  /\ Now[1] = "init" => InitMainTabId
         /\ Now[1] = "ids" => GetTabIds
         /\ Now[1] = "cur" => GetCurrentTabId
         /\ Now[1] = "switch" => Switch
         /\ Now[1] = "close" => DriverClose
         /\ Now[1] \in {"closeCurrent", "closed", "adopt", "setMain"} =>
              ClosesCurrent /\ UNCHANGED <<browser, ids, cur, calls, since, disturbed>>
         /\ Now[1] \in {"closeOthers", "closeEach", "toSibling", "toMain"} =>
              ChoosesTab /\ UNCHANGED <<browser, ids, cur, calls, since, disturbed>>
         /\ Now[1] \in {"new", "end"} => NewOrEnd /\ UNCHANGED <<ids, cur, calls, since, disturbed>>
BY DEF TabsProgress, InitMainTabId, GetTabIds, GetCurrentTabId, Switch, DriverClose, ClosesCurrent, ChoosesTab, NewOrEnd, AtStep

LEMMA SessionOpens ==
  ASSUME Common, Session, tabs' = Tabs, current' = Current
  PROVE  /\ Opens /\ tabs' # <<>> /\ opened' \in Nat /\ opened <= opened' /\ tabs' \in Seq(Nat)
         /\ OpenTabs \subseteq OpenTabs' /\ OpenTabs' \subseteq 1..opened'
         /\ current' = None \/ current' \in OpenTabs'
<1>1. CASE tabs = <<>>
  <2>1. tabs' = <<opened + 1>> /\ opened' = opened + 1 /\ current' = opened + 1
    BY <1>1 DEF Session, Tabs, Current, NoSession
  <2>2. ToSet(<<opened + 1>>) = {opened + 1} /\ ToSet(<<>>) = {}
    BY DEF ToSet
  <2> QED
    BY <1>1, <2>1, <2>2 DEF Opens, OpenTabs, Common
<1>2. CASE tabs # <<>>
  BY <1>2 DEF Session, Tabs, Current, NoSession, Opens, OpenTabs, Common
<1> QED
  BY <1>1, <1>2

LEMMA CommonAfter ==
  ASSUME Common, opened' \in Nat, opened <= opened', tabs' \in Seq(Nat), OpenTabs' \subseteq 1..opened',
         current' = None \/ current' \in OpenTabs', mainTabID' \in {mainTabID, None} \cup OpenTabs',
         cur' \in {cur, None} \cup OpenTabs', ids' \in {ids, tabs'}, since' = since
  PROVE  Common'
<1>1. 1..opened \subseteq 1..opened' /\ 0..opened \subseteq 0..opened' /\ 1..opened' \subseteq 0..opened' /\ 0 \in 0..opened'
  BY DEF Common
<1>2. ids' \in Seq(Nat) /\ ToSet(ids') \subseteq 1..opened'
  BY <1>1 DEF Common, OpenTabs
<1>3. mainTabID' \in 0..opened' /\ cur' \in 0..opened' /\ since' \subseteq 1..opened'
  BY <1>1 DEF Common, None
<1> QED
  BY <1>2, <1>3 DEF Common

LEMMA InitEffect ==
  ASSUME Common, TabsProgress, NEW q, IsList(q), todo = Cons(<<"init">>, q)
  PROVE  /\ Common' /\ UNCHANGED <<ids, cur, since, disturbed>> /\ OpenTabs \subseteq OpenTabs' /\ opened <= opened'
         /\ \/ mainTabID # None /\ UNCHANGED <<browser, mainTabID>> /\ OpenTabs' = OpenTabs /\ Going_On(q)
            \/ mainTabID = None /\ mainTabID' = None /\ CommandFails
            \/ /\ mainTabID = None /\ mainTabID' \in OpenTabs' /\ mainTabID' # None /\ current' = mainTabID'
               /\ Opens /\ Going_On(q)
<1>1. InitMainTabId /\ Tail(todo) = q
  BY TabStepFacts, ByName
<1>2. CASE mainTabID # None
  <2>1. Next1 /\ UNCHANGED <<browser, mainTabID, ids, cur, since, disturbed>>
    BY <1>1, <1>2 DEF InitMainTabId
  <2>2. Going_On(q) /\ OpenTabs' = OpenTabs /\ Common' /\ opened <= opened'
    <3>1. Going_On(q) /\ OpenTabs' = OpenTabs
      BY <1>1, <2>1, GoOnFacts DEF Next1, OpenTabs, browser
    <3>2. Common' /\ opened <= opened'
      BY <2>1, <3>1 DEF Common, browser
    <3> QED
      BY <3>1, <3>2
  <2> QED
    BY <1>2, <2>1, <2>2
<1>3. CASE mainTabID = None
  <2>1. Session /\ tabs' = Tabs /\ current' = Current /\ mainTabID' = Current /\ UNCHANGED <<ids, cur, since, disturbed>>
        /\ IF Current = None THEN Fails ELSE Next1
    BY <1>1, <1>3 DEF InitMainTabId
  <2>2. ids' = ids /\ cur' = cur /\ since' = since
    BY <2>1
  <2>3. Common'
    BY <2>1, <2>2, SessionOpens, CommonAfter
  <2> QED
    BY <1>1, <1>3, <2>1, <2>3, SessionOpens, GoOnFacts DEF Next1
<1> QED
  BY <1>2, <1>3

LEMMA IdsEffect ==
  ASSUME Common, TabsProgress, NEW q, IsList(q), todo = Cons(<<"ids">>, q)
  PROVE  /\ Common' /\ UNCHANGED <<mainTabID, cur, since, disturbed>> /\ OpenTabs \subseteq OpenTabs' /\ opened <= opened'
         /\ Opens /\ Going_On(q) /\ ids' # <<>> /\ tabs' # <<>> /\ ToSet(ids') = OpenTabs' /\ FreshIds'
<1>1. /\ Tail(todo) = q /\ Session /\ tabs' = Tabs /\ current' = Current /\ ids' = tabs'
      /\ UNCHANGED <<mainTabID, cur, since, disturbed>> /\ Next1
  <2>1. GetTabIds /\ Tail(todo) = q
    BY TabStepFacts, ByName
  <2> QED
    BY <2>1 DEF GetTabIds
<1>2. Common'
  BY <1>1, SessionOpens DEF Common, OpenTabs
<1>3. FreshIds'
  <2>1. tabs' # <<>> /\ tabs' \in Seq(Nat)
    BY <1>1, SessionOpens
  <2>2. Len(tabs') \in 1..Len(tabs')
    BY <2>1
  <2> QED
    BY <1>1, <2>2 DEF FreshIds
<1> QED
  BY <1>1, <1>2, <1>3, SessionOpens, GoOnFacts DEF Next1, OpenTabs

LEMMA CurEffect ==
  ASSUME Common, TabsProgress, NEW q, IsList(q), todo = Cons(<<"cur">>, q)
  PROVE  /\ Common' /\ UNCHANGED <<mainTabID, ids, since, disturbed>> /\ OpenTabs \subseteq OpenTabs' /\ opened <= opened'
         /\ CommandFails \/ (cur' # None /\ Going_On(q))
<1>1. /\ Tail(todo) = q /\ Session /\ tabs' = Tabs /\ current' = Current /\ cur' = Current
      /\ UNCHANGED <<mainTabID, ids, since, disturbed>> /\ IF Current = None THEN Fails ELSE Next1
  <2>1. GetCurrentTabId /\ Tail(todo) = q
    BY TabStepFacts, ByName
  <2> QED
    BY <2>1 DEF GetCurrentTabId
<1>2. Common'
  BY <1>1, SessionOpens, CommonAfter
<1> QED
  BY <1>1, <1>2, SessionOpens, GoOnFacts DEF Next1

LEMMA SwitchEffect ==
  ASSUME Common, TabsProgress, NEW q, IsList(q), NEW t \in 1..opened, todo = Cons(<<"switch", t>>, q)
  PROVE  /\ Common' /\ UNCHANGED <<mainTabID, ids, cur, since, disturbed>> /\ OpenTabs \subseteq OpenTabs' /\ opened <= opened'
         /\ \/ t \notin OpenTabs /\ CommandFails
            \/ t \in OpenTabs /\ UNCHANGED <<tabs, opened>> /\ OpenTabs' = OpenTabs /\ current' = t /\ Going_On(q)
<1>1. /\ Tail(todo) = q /\ Session /\ tabs' = Tabs
      /\ IF t \in ToSet(Tabs) THEN current' = t /\ Next1 ELSE current' = Current /\ Fails
      /\ UNCHANGED <<mainTabID, ids, cur, since, disturbed>>
  <2>1. Switch /\ Tail(todo) = q /\ Now[2] = t
    BY TabStepFacts, ByName
  <2> QED
    BY <2>1 DEF Switch
<1>2. CASE t \in ToSet(Tabs)
  <2>1. tabs # <<>>
    <3>1. ToSet(<<opened + 1>>) = {opened + 1} /\ t # opened + 1
      BY DEF ToSet, Common
    <3> QED
      BY <1>2, <3>1 DEF Tabs, NoSession
  <2>2. tabs' = tabs /\ opened' = opened /\ OpenTabs' = OpenTabs /\ t \in OpenTabs
    BY <1>1, <1>2, <2>1 DEF Tabs, NoSession, Session, OpenTabs
  <2>3. Common' /\ opened <= opened'
    BY <1>1, <1>2, <2>2 DEF Common
  <2> QED
    BY <1>1, <1>2, <2>2, <2>3, GoOnFacts DEF Next1
<1>3. CASE t \notin ToSet(Tabs)
  <2>1. t \notin OpenTabs
    <3>1. ToSet(<<>>) = {}
      BY DEF ToSet
    <3> QED
      BY <1>3, <3>1 DEF OpenTabs, Tabs, NoSession
  <2>2. Common'
    BY <1>1, <1>3, SessionOpens DEF Common
  <2> QED
    BY <1>1, <1>3, <2>1, <2>2, SessionOpens, GoOnFacts
<1> QED
  BY <1>2, <1>3

LEMMA CloseEffect ==
  ASSUME Common, MainOk, TabsProgress, NEW q, IsList(q), NEW u \in 0..opened, todo = Cons(<<"close", u>>, q),
         mainTabID # None, FreshIds, NEW t, t = IF u = None THEN mainTabID ELSE u
  PROVE  /\ Common' /\ UNCHANGED <<ids, cur, since>> /\ mainTabID' \in {mainTabID, None}
         /\ disturbed' = (disturbed \/ (Op = "close" /\ t = mainTabID /\ tabs # <<t>>))
         /\ mainTabID \in ToSet(ids) /\ t # mainTabID => mainTabID' = mainTabID
         /\ \/ t \notin OpenTabs /\ CommandFails /\ OpenTabs' = OpenTabs
            \/ t \in OpenTabs /\ OpenTabs' = OpenTabs \ {t} /\ Going_On(q) /\ (tabs = <<t>> => mainTabID' = None)
<1>1. DriverClose /\ Tail(todo) = q /\ Now[2] = u
  BY TabStepFacts, ByName
<1>2. tabs # <<>> /\ Tabs = tabs /\ Current = current
  <2>1. tabs # <<>>
    BY DEF FreshIds, Common
  <2> QED
    BY <2>1 DEF Tabs, Current, NoSession
<1>3. /\ mainTabID' = (IF ids = <<t>> THEN None ELSE mainTabID)
      /\ \/ tabs = <<t>> /\ tabs' = <<>> /\ current' = None /\ Session /\ Next1
         \/ tabs # <<t>> /\ t \in OpenTabs /\ tabs' = Without(tabs, t) /\ current' = None /\ Next1 /\ opened' = opened
         \/ t \notin OpenTabs /\ Session /\ tabs' = tabs /\ current' = current /\ Fails
      /\ disturbed' = (disturbed \/ (lastOp[1] = "close" /\ t = mainTabID /\ tabs # <<t>>))
      /\ UNCHANGED <<ids, cur, since>>
  BY <1>1, <1>2 DEF DriverClose, ResetMainTabId, OpenTabs
<1>4. Session => opened' = opened
  BY <1>2 DEF Session, NoSession
<1>5. ToSet(<<t>>) = {t} /\ ToSet(<<>>) = {} /\ <<>> \in Seq(Nat)
  BY DEF ToSet
<1>6. Without(tabs, t) \in Seq(Nat) /\ ToSet(Without(tabs, t)) = OpenTabs \ {t}
  BY WithoutFacts DEF Common, OpenTabs
<1>7. tabs = <<t>> => ids = <<t>>
  <2> SUFFICES ASSUME tabs = <<t>> PROVE ids = <<t>>
    OBVIOUS
  <2>1. Len(tabs) = 1 /\ tabs[1] = t /\ <<t>> \in Seq(Nat)
    BY DEF Common
  <2>2. Len(ids) = 1 /\ ids[1] = t /\ ids \in Seq(Nat)
    BY <2>1 DEF FreshIds, Common
  <2>3. \A i \in 1..Len(ids) : ids[i] = <<t>>[i]
    BY <2>2
  <2> QED
    BY <2>1, <2>2, <2>3, SeqEqual
<1>8. /\ opened' = opened /\ tabs' \in Seq(Nat) /\ OpenTabs' \subseteq OpenTabs
      /\ \/ t \notin OpenTabs /\ CommandFails /\ OpenTabs' = OpenTabs /\ current' = current
         \/ t \in OpenTabs /\ OpenTabs' = OpenTabs \ {t} /\ Going_On(q) /\ current' = None
  <2>1. CASE tabs = <<t>>
    <3>1. OpenTabs = {t} /\ tabs' = <<>> /\ current' = None /\ Session /\ Next1
      BY <1>3, <1>5, <2>1 DEF OpenTabs
    <3>2. OpenTabs' = {}
      BY <1>5, <3>1 DEF OpenTabs
    <3> QED
      BY <1>1, <1>4, <1>5, <3>1, <3>2, GoOnFacts DEF Next1
  <2>2. CASE tabs # <<t>> /\ t \in OpenTabs
    <3>1. tabs' = Without(tabs, t) /\ current' = None /\ Next1 /\ opened' = opened
      BY <1>3, <2>2
    <3>2. OpenTabs' = OpenTabs \ {t}
      BY <1>6, <3>1 DEF OpenTabs
    <3> QED
      BY <1>1, <1>6, <2>2, <3>1, <3>2, GoOnFacts DEF Next1
  <2>3. CASE tabs # <<t>> /\ t \notin OpenTabs
    <3>1. Session /\ tabs' = tabs /\ current' = current /\ Fails
      BY <1>3, <2>3
    <3> QED
      BY <1>4, <2>3, <3>1, GoOnFacts DEF OpenTabs, Common
  <2> QED
    BY <2>1, <2>2, <2>3
<1>9. Common'
  <2>1. mainTabID' \in {mainTabID, None} /\ ids' = ids /\ cur' = cur /\ since' = since
    BY <1>3
  <2> QED
    BY <1>8, <2>1, CommonAfter DEF Common
<1>10. mainTabID \in ToSet(ids) /\ t # mainTabID => ids # <<t>>
  BY <1>5
<1> QED
  BY <1>3, <1>7, <1>8, <1>9, <1>10 DEF Op

LEMMA EndsFailed == ASSUME CommandFails, MainOk' PROVE AtRest'
BY DEF AtRest, CommandFails

LEMMA WindowGoes == ASSUME Common, AtWindow, TabsProgress PROVE Common' /\ Going'
<1>1. PICK t \in 1..opened, q \in {<<>>, Main, CurThen(Main)} :
       /\ todo \in {Cons(<<"init">>, Cons(<<"switch", t>>, q)), Cons(<<"switch", t>>, q)}
       /\ Op = "closeOthers" => Cleared /\ t = mainTabID /\ q = <<>>
       /\ q = CurThen(Main) => Op = "closeSibling"
  BY DEF AtWindow
<1>2. IsList(q) /\ IsList(Cons(<<"switch", t>>, q)) /\ Cons(<<"switch", t>>, q) # <<>>
  BY Tails, ConsFacts
<1>3. CASE todo = Cons(<<"init">>, Cons(<<"switch", t>>, q))
  <2>1. /\ Common' /\ UNCHANGED <<since, disturbed>> /\ OpenTabs \subseteq OpenTabs' /\ opened <= opened'
        /\ \/ mainTabID # None /\ UNCHANGED <<browser, mainTabID>> /\ OpenTabs' = OpenTabs /\ Going_On(Cons(<<"switch", t>>, q))
           \/ mainTabID = None /\ mainTabID' = None /\ CommandFails
           \/ mainTabID = None /\ mainTabID' \in OpenTabs' /\ Going_On(Cons(<<"switch", t>>, q))
    BY <1>2, <1>3, InitEffect
  <2>2. t \in 1..opened' /\ MainOk'
    BY <2>1 DEF Common, MainOk, AtWindow, browser
  <2>3. Op' = Op /\ (Cleared /\ t = mainTabID => mainTabID # None)
    BY <2>1 DEF Op, Going_On, CommandFails, Cleared, MainOld, Old, Common, None
  <2>4. Going_On(Cons(<<"switch", t>>, q)) => AtWindow'
    <3>1. Going_On(Cons(<<"switch", t>>, q)) => todo' = Cons(<<"switch", t>>, q)
      BY DEF Going_On
    <3>2. Op = "closeOthers" => Cleared' /\ mainTabID' = mainTabID
      BY <1>1, <2>1, <2>3 DEF Cleared, MainOld, Old
    <3> QED
      BY <1>1, <2>2, <2>3, <3>1, <3>2 DEF AtWindow
  <2> QED
    BY <2>1, <2>2, <2>4, EndsFailed DEF Going
<1>4. CASE todo = Cons(<<"switch", t>>, q)
  <2>1. /\ Common' /\ UNCHANGED <<mainTabID, ids, cur, since, disturbed>> /\ OpenTabs \subseteq OpenTabs'
        /\ \/ t \notin OpenTabs /\ CommandFails
           \/ t \in OpenTabs /\ UNCHANGED <<tabs, opened>> /\ OpenTabs' = OpenTabs /\ current' = t /\ Going_On(q)
    BY <1>2, <1>4, SwitchEffect
  <2>2. MainOk' /\ t # None
    BY <2>1 DEF MainOk, AtWindow, None, Common
  <2>3. CASE CommandFails
    BY <2>1, <2>2, <2>3, EndsFailed DEF Going
  <2>4. CASE Going_On(q) /\ OpenTabs' = OpenTabs /\ current' = t
    <3>1. todo' = q /\ Op' = Op /\ (q = <<>> => lastOp'[2] = "ok")
      BY <2>4 DEF Going_On, Op
    <3>2. Op = "closeOthers" => Cleared' /\ current' = mainTabID'
      BY <1>1, <2>1, <2>4 DEF Cleared, MainOld, Old
    <3>3. CASE q = <<>>
      <4>1. AtRest'
        BY <2>2, <2>4, <3>1, <3>2, <3>3 DEF AtRest
      <4> QED
        BY <2>1, <4>1 DEF Going
    <3>4. CASE q = Main
      <4>1. AtMain'
        <5>1. todo' = MainThen(<<>>) /\ Op' # "closeOthers"
          BY <1>1, <3>1, <3>4, Tails DEF Main
        <5> QED
          BY <2>2, <5>1 DEF AtMain
      <4> QED
        BY <2>1, <4>1 DEF Going
    <3>5. CASE q = CurThen(Main)
      <4>1. AtCurrent'
        BY <1>1, <2>2, <3>1, <3>5, Tails DEF AtCurrent, InCurrent, Op
      <4> QED
        BY <2>1, <4>1 DEF Going
    <3> QED
      BY <1>1, <3>3, <3>4, <3>5
  <2> QED
    BY <2>1, <2>3, <2>4
<1> QED
  BY <1>1, <1>3, <1>4

LEMMA MainGoes == ASSUME Common, AtMain, TabsProgress PROVE Common' /\ Going'
<1>1. PICK q \in {<<>>, Main} :
       /\ Op = "closeOthers" => Cleared /\ q = <<>>
       /\ \/ todo \in {MainThen(q), Cons(<<"ids">>, Cons(<<"toMain">>, q))}
          \/ /\ todo = Cons(<<"toMain">>, q) /\ ids # <<>>
             /\ Op = "closeOthers" => mainTabID \in ToSet(ids)
  BY DEF AtMain
<1> DEFINE q2 == Cons(<<"toMain">>, q)
           q1 == Cons(<<"ids">>, q2)
<1>2. IsList(q) /\ IsList(q1) /\ IsList(q2) /\ q1 # <<>> /\ q2 # <<>>
  BY Tails, ConsFacts
<1>3. CASE todo = MainThen(q)
  <2>1. todo = Cons(<<"init">>, q1)
    BY <1>3 DEF MainThen
  <2>2. /\ Common' /\ UNCHANGED <<since, disturbed>> /\ OpenTabs \subseteq OpenTabs'
        /\ \/ mainTabID # None /\ UNCHANGED <<browser, mainTabID>> /\ OpenTabs' = OpenTabs /\ Going_On(q1)
           \/ mainTabID = None /\ mainTabID' = None /\ CommandFails
           \/ mainTabID = None /\ mainTabID' \in OpenTabs' /\ Going_On(q1)
    BY <1>2, <2>1, InitEffect
  <2>3. MainOk'
    BY <2>2 DEF Common, MainOk, AtMain
  <2>4. Op' = Op /\ (Cleared => mainTabID # None)
    BY <2>2 DEF Op, Going_On, CommandFails, Cleared, MainOld, Old, Common, None
  <2>5. ASSUME Going_On(q1) PROVE AtMain'
    <3>1. todo' = q1
      BY <2>5 DEF Going_On
    <3>2. Op = "closeOthers" => Cleared'
      BY <1>1, <2>2, <2>4 DEF Cleared, MainOld, Old
    <3> QED
      BY <1>1, <2>3, <2>4, <3>1, <3>2 DEF AtMain
  <2> QED
    BY <2>2, <2>3, <2>5, EndsFailed DEF Going
<1>4. CASE todo = q1
  <2>1. /\ Common' /\ UNCHANGED <<mainTabID, cur, since, disturbed>> /\ OpenTabs \subseteq OpenTabs'
        /\ Opens /\ Going_On(q2) /\ ids' # <<>> /\ ToSet(ids') = OpenTabs'
    BY <1>2, <1>4, IdsEffect
  <2>2. todo' = q2 /\ Op' = Op /\ MainOk'
    BY <2>1 DEF Going_On, Op, MainOk, AtMain
  <2>3. Cleared => Cleared' /\ mainTabID' \in ToSet(ids')
    <3>1. Cleared => tabs # <<>>
      <4>1. ToSet(<<>>) = {}
        BY DEF ToSet
      <4> QED
        BY <4>1 DEF Cleared, MainOld, Old, OpenTabs
    <3> QED
      BY <2>1, <3>1 DEF Opens, Cleared, MainOld, Old
  <2>4. AtMain'
    BY <1>1, <2>1, <2>2, <2>3 DEF AtMain
  <2> QED
    BY <2>1, <2>4 DEF Going
<1>5. CASE todo = q2 /\ ids # <<>> /\ (Op = "closeOthers" => mainTabID \in ToSet(ids))
  <2>1. PICK t : t = IF mainTabID \in ToSet(ids) THEN mainTabID ELSE ids[1]
    OBVIOUS
  <2>2. /\ GoOn(Window(t) \o q) /\ UNCHANGED <<mainTabID, browser, ids, cur, since, disturbed>>
    <3>1. Now = <<"toMain">> /\ Tail(todo) = q /\ ~Idle
      BY <1>2, <1>5, TabStepFacts
    <3>2. ChoosesTab /\ UNCHANGED <<mainTabID, browser, ids, cur, since, disturbed>>
      BY <3>1, ByName DEF ChoosesTab
    <3> QED
      BY <2>1, <3>1, <3>2 DEF ChoosesTab, AtStep
  <2>3. t \in 1..opened
    <3>1. ids[1] \in ToSet(ids)
      BY <1>5 DEF ToSet, Common
    <3> QED
      BY <2>1, <3>1 DEF Common
  <2>4. todo' = Cons(<<"init">>, Cons(<<"switch", t>>, q)) /\ Op' = Op
    BY <1>2, <2>2, Programs, GoOnFacts DEF Going_On, Op
  <2>5. Common' /\ MainOk' /\ t \in 1..opened' /\ (Cleared => Cleared')
    BY <2>2, <2>3 DEF Common, MainOk, AtMain, browser, OpenTabs, Old, MainOld, Cleared
  <2>6. q \in {<<>>, Main, CurThen(Main)} /\ q # CurThen(Main)
    BY Tails
  <2>7. AtWindow'
    BY <1>1, <1>5, <2>1, <2>2, <2>4, <2>5, <2>6 DEF AtWindow
  <2> QED
    BY <2>5, <2>7 DEF Going
<1> QED
  BY <1>1, <1>3, <1>4, <1>5

LEMMA CloseGoes == ASSUME Common, AtClose, TabsProgress, ~disturbed' PROVE Common' /\ Going'
<1>1. PICK t \in 0..opened :
       \/ todo = Cons(<<"init">>, Cons(<<"ids">>, Cons(<<"close", t>>, <<>>)))
       \/ todo = Cons(<<"ids">>, Cons(<<"close", t>>, <<>>)) /\ mainTabID # None
       \/ todo = Cons(<<"close", t>>, <<>>) /\ mainTabID # None /\ FreshIds
  BY DEF AtClose
<1> DEFINE q2 == Cons(<<"close", t>>, <<>>)
           q1 == Cons(<<"ids">>, q2)
<1>2. IsList(<<>>) /\ IsList(q1) /\ IsList(q2) /\ q1 # <<>> /\ q2 # <<>>
  BY Tails, ConsFacts
<1>3. CASE todo = Cons(<<"init">>, q1)
  <2>1. /\ Common' /\ OpenTabs \subseteq OpenTabs' /\ opened <= opened'
        /\ \/ mainTabID # None /\ UNCHANGED <<browser, mainTabID>> /\ OpenTabs' = OpenTabs /\ Going_On(q1)
           \/ mainTabID = None /\ mainTabID' = None /\ CommandFails
           \/ mainTabID = None /\ mainTabID' \in OpenTabs' /\ mainTabID' # None /\ Going_On(q1)
    BY <1>2, <1>3, InitEffect
  <2>2. MainOk' /\ t \in 0..opened'
    BY <2>1 DEF Common, MainOk, AtClose
  <2>3. Op' = Op
    BY <2>1 DEF Op, Going_On, CommandFails
  <2>4. ASSUME Going_On(q1) PROVE AtClose'
    <3>1. todo' = q1 /\ mainTabID' # None
      BY <1>2, <2>1, <2>4 DEF Going_On, CommandFails
    <3> QED
      BY <2>2, <2>3, <3>1 DEF AtClose
  <2> QED
    BY <2>1, <2>2, <2>4, EndsFailed DEF Going
<1>4. CASE todo = q1 /\ mainTabID # None
  <2>1. /\ Common' /\ UNCHANGED mainTabID /\ OpenTabs \subseteq OpenTabs' /\ opened <= opened' /\ Going_On(q2) /\ FreshIds'
    BY <1>2, <1>4, IdsEffect
  <2>2. todo' = q2 /\ Op' = Op /\ MainOk' /\ t \in 0..opened'
    BY <2>1 DEF Going_On, Op, MainOk, AtClose, Common
  <2>3. AtClose'
    BY <1>4, <2>1, <2>2 DEF AtClose
  <2> QED
    BY <2>1, <2>3 DEF Going
<1>5. CASE todo = q2 /\ mainTabID # None /\ FreshIds
  <2>1. PICK u : u = IF t = None THEN mainTabID ELSE t
    OBVIOUS
  <2>2. /\ Common' /\ mainTabID' \in {mainTabID, None}
        /\ disturbed' = (disturbed \/ (Op = "close" /\ u = mainTabID /\ tabs # <<u>>))
        /\ \/ u \notin OpenTabs /\ CommandFails /\ OpenTabs' = OpenTabs
           \/ u \in OpenTabs /\ OpenTabs' = OpenTabs \ {u} /\ Going_On(<<>>) /\ (tabs = <<u>> => mainTabID' = None)
    BY <1>2, <1>5, <2>1, CloseEffect DEF AtClose
  <2>3. Op = "close" /\ MainOk
    BY DEF AtClose
  <2>4. MainOk'
    BY <2>2, <2>3 DEF MainOk
  <2>5. AtRest'
    BY <2>2, <2>3, <2>4, EndsFailed DEF AtRest, Going_On, Op
  <2> QED
    BY <2>2, <2>5 DEF Going
<1> QED
  BY <1>1, <1>3, <1>4, <1>5

LEMMA CurrentGoes == ASSUME Common, AtCurrent, TabsProgress PROVE Common' /\ Going'
<1>1. PICK q \in {<<>>, Main} :
       /\ InCurrent(q)
       /\ \/ todo = CurThen(q)
          \/ todo = Cons(<<"init">>, Cons(<<"closeCurrent">>, q)) /\ cur # None
          \/ todo = Cons(<<"closeCurrent">>, q) /\ cur # None /\ mainTabID # None
  BY DEF AtCurrent
<1> DEFINE q2 == Cons(<<"closeCurrent">>, q)
           q1 == Cons(<<"init">>, q2)
<1>2. IsList(q) /\ IsList(q1) /\ IsList(q2) /\ q1 # <<>> /\ q2 # <<>>
  BY Tails, ConsFacts
<1>3. CASE todo = CurThen(q)
  <2>1. todo = Cons(<<"cur">>, q1)
    BY <1>3 DEF CurThen
  <2>2. /\ Common' /\ UNCHANGED mainTabID /\ OpenTabs \subseteq OpenTabs'
        /\ CommandFails \/ (cur' # None /\ Going_On(q1))
    BY <1>2, <2>1, CurEffect
  <2>3. MainOk' /\ Op' = Op
    BY <2>2 DEF Common, MainOk, AtCurrent, Op, CommandFails, Going_On
  <2>4. ASSUME cur' # None /\ Going_On(q1) PROVE AtCurrent'
    <3>1. todo' = q1
      BY <2>4 DEF Going_On
    <3> QED
      BY <1>1, <2>3, <2>4, <3>1 DEF AtCurrent, InCurrent
  <2> QED
    BY <2>2, <2>3, <2>4, EndsFailed DEF Going
<1>4. CASE todo = q1 /\ cur # None
  <2>1. /\ Common' /\ cur' = cur /\ OpenTabs \subseteq OpenTabs'
        /\ \/ mainTabID # None /\ UNCHANGED <<browser, mainTabID>> /\ OpenTabs' = OpenTabs /\ Going_On(q2)
           \/ mainTabID = None /\ mainTabID' = None /\ CommandFails
           \/ mainTabID = None /\ mainTabID' \in OpenTabs' /\ mainTabID' # None /\ Going_On(q2)
    BY <1>2, <1>4, InitEffect
  <2>2. MainOk' /\ Op' = Op
    BY <2>1 DEF MainOk, AtCurrent, Op, CommandFails, Going_On
  <2>3. ASSUME Going_On(q2) PROVE AtCurrent'
    <3>1. todo' = q2 /\ mainTabID' # None
      BY <1>2, <2>1, <2>3 DEF Going_On, CommandFails
    <3> QED
      BY <1>1, <1>4, <2>1, <2>2, <3>1 DEF AtCurrent, InCurrent
  <2> QED
    BY <2>1, <2>2, <2>3, EndsFailed DEF Going
<1>5. CASE todo = q2 /\ cur # None /\ mainTabID # None
  <2>1. PICK b \in BOOLEAN : b <=> cur = mainTabID
    OBVIOUS
  <2>2. PICK c : c = cur
    OBVIOUS
  <2>3. /\ GoOn(CloseBrowserWindow(c) \o <<<<"closed", b>>>> \o q)
        /\ UNCHANGED <<mainTabID, browser, ids, cur, since, disturbed>>
    <3>1. Now = <<"closeCurrent">> /\ Tail(todo) = q /\ ~Idle
      BY <1>2, <1>5, TabStepFacts
    <3>2. ClosesCurrent /\ UNCHANGED <<browser, ids, cur, since, disturbed>>
      BY <3>1, ByName
    <3>3. GoOn(CloseBrowserWindow(cur) \o <<<<"closed", cur = mainTabID>>>> \o q) /\ UNCHANGED mainTabID
      BY <3>1, <3>2 DEF ClosesCurrent, AtStep
    <3>4. b = (cur = mainTabID)
      BY <2>1
    <3> QED
      BY <2>2, <3>2, <3>3, <3>4
  <2> DEFINE q3 == Cons(<<"closed", b>>, q)
  <2>4. CloseBrowserWindow(c) \o <<<<"closed", b>>>> \o q = Cons(<<"init">>, Cons(<<"ids">>, Cons(<<"close", c>>, q3)))
    BY <1>2, ProgramThen
  <2>5. todo' = Cons(<<"init">>, Cons(<<"ids">>, Cons(<<"close", c>>, q3))) /\ Op' = Op
    BY <2>3, <2>4, GoOnFacts DEF Going_On, Op
  <2>6. Common' /\ MainOk' /\ c \in 1..opened' /\ mainTabID' # None /\ (b <=> c = mainTabID')
    BY <1>5, <2>1, <2>2, <2>3 DEF Common, MainOk, AtCurrent, browser, OpenTabs, None
  <2>7. AtClosing'
    BY <1>1, <2>5, <2>6 DEF AtClosing, InCurrent
  <2> QED
    BY <2>6, <2>7 DEF Going
<1> QED
  BY <1>1, <1>3, <1>4, <1>5

LEMMA ClosingGoes == ASSUME Common, AtClosing, TabsProgress PROVE Common' /\ Going'
<1>1. PICK q \in {<<>>, Main}, c \in 1..opened, b \in BOOLEAN :
       /\ InCurrent(q) /\ (b <=> c = mainTabID)
       /\ LET close == Cons(<<"close", c>>, Cons(<<"closed", b>>, q))
          IN todo \in {Cons(<<"init">>, Cons(<<"ids">>, close)), Cons(<<"ids">>, close)} \/ (todo = close /\ FreshIds)
  BY DEF AtClosing
<1>0. MainOk /\ mainTabID # None
  BY DEF AtClosing
<1> DEFINE q3 == Cons(<<"closed", b>>, q)
           q2 == Cons(<<"close", c>>, q3)
           q1 == Cons(<<"ids">>, q2)
<1>2. IsList(q) /\ IsList(q1) /\ IsList(q2) /\ IsList(q3) /\ q1 # <<>> /\ q2 # <<>> /\ q3 # <<>>
  BY Tails, ConsFacts
<1>3. CASE todo = Cons(<<"init">>, q1)
  <2>1. Common' /\ UNCHANGED <<browser, mainTabID>> /\ OpenTabs' = OpenTabs /\ Going_On(q1)
    BY <1>0, <1>2, <1>3, InitEffect
  <2>2. MainOk' /\ Op' = Op /\ todo' = q1 /\ c \in 1..opened' /\ mainTabID' = mainTabID
    BY <1>0, <2>1 DEF MainOk, Op, Going_On, browser
  <2>3. AtClosing'
    BY <1>0, <1>1, <2>2 DEF AtClosing, InCurrent
  <2> QED
    BY <2>1, <2>3 DEF Going
<1>4. CASE todo = q1
  <2>1. Common' /\ UNCHANGED mainTabID /\ OpenTabs \subseteq OpenTabs' /\ opened <= opened' /\ Going_On(q2) /\ FreshIds'
    BY <1>2, <1>4, IdsEffect
  <2>2. MainOk' /\ Op' = Op /\ todo' = q2 /\ c \in 1..opened' /\ mainTabID' = mainTabID
    BY <1>0, <2>1 DEF MainOk, Op, Going_On, Common
  <2>3. AtClosing'
    BY <1>0, <1>1, <2>1, <2>2 DEF AtClosing, InCurrent
  <2> QED
    BY <2>1, <2>3 DEF Going
<1>5. CASE todo = q2 /\ FreshIds
  <2>0. c # None /\ c \in 0..opened
    BY DEF None, Common
  <2>1. /\ Common' /\ mainTabID' \in {mainTabID, None}
        /\ \/ c \notin OpenTabs /\ CommandFails /\ OpenTabs' = OpenTabs
           \/ c \in OpenTabs /\ OpenTabs' = OpenTabs \ {c} /\ Going_On(q3) /\ (tabs = <<c>> => mainTabID' = None)
    <3>1. PICK u : u = IF c = None THEN mainTabID ELSE c
      OBVIOUS
    <3>2. u = c
      BY <2>0, <3>1
    <3> QED
      BY <1>0, <1>2, <1>5, <2>0, <3>1, <3>2, CloseEffect
  <2>2. CASE CommandFails /\ OpenTabs' = OpenTabs
    <3>1. MainOk'
      BY <1>0, <2>1, <2>2 DEF MainOk
    <3> QED
      BY <2>1, <2>2, <3>1, EndsFailed DEF Going
  <2>3. CASE Going_On(q3) /\ OpenTabs' = OpenTabs \ {c}
    <3>1. todo' = Cons(<<"closed", b>>, q) /\ Op' = Op
      BY <2>3 DEF Going_On, Op
    <3>2. ~b => MainOk'
      BY <1>0, <1>1, <2>1, <2>3 DEF MainOk
    <3>3. todo' = Cons(<<"closed", TRUE>>, q) \/ (todo' = Cons(<<"closed", FALSE>>, q) /\ MainOk')
      <4>1. CASE b
        <5>1. b = TRUE
          BY <4>1
        <5> QED
          BY <3>1, <5>1
      <4>2. CASE ~b
        <5>1. b = FALSE
          BY <4>2
        <5> QED
          BY <3>1, <3>2, <4>2, <5>1
      <4> QED
        BY <4>1, <4>2
    <3>4. AtClosed'
      BY <1>1, <3>1, <3>3 DEF AtClosed, InCurrent
    <3> QED
      BY <2>1, <3>4 DEF Going
  <2> QED
    BY <2>1, <2>2, <2>3
<1> QED
  BY <1>1, <1>3, <1>4, <1>5

LEMMA ClosedGoes == ASSUME Common, AtClosed, TabsProgress PROVE Common' /\ Going'
<1>1. PICK q \in {<<>>, Main} :
    /\ InCurrent(q)
    /\ \/ todo = Cons(<<"closed", FALSE>>, q) /\ MainOk
       \/ todo \in {Cons(<<"closed", TRUE>>, q), Cons(<<"ids">>, Cons(<<"adopt">>, q))}
       \/ todo = Cons(<<"adopt">>, q) /\ ids # <<>> /\ ToSet(ids) \subseteq OpenTabs
       \/ \E t \in OpenTabs :
            \/ todo \in {Cons(<<"init">>, Cons(<<"switch", t>>, Cons(<<"setMain", t>>, q))),
                         Cons(<<"switch", t>>, Cons(<<"setMain", t>>, q))}
            \/ todo = Cons(<<"setMain", t>>, q) /\ current = t
  BY DEF AtClosed
<1>2. IsList(q) /\ (q # Main => q = <<>>)
  BY <1>1, Tails
<1>3. /\ \A a : IsList(Cons(a, q)) /\ Cons(a, q) # <<>>
      /\ \A a, b : IsList(Cons(a, Cons(b, q))) /\ Cons(a, Cons(b, q)) # <<>>
  BY <1>2, ConsFacts
<1>4. Op \notin {"closeOthers", "toSibling", "close"} /\ (q = Main => Op = "closeSibling")
  BY <1>1, Tails DEF InCurrent
<1>5. ASSUME NEW b \in BOOLEAN, todo = Cons(<<"closed", b>>, q)
      PROVE  /\ UNCHANGED <<mainTabID, browser, ids, cur, since, disturbed>>
             /\ GoOn((IF b THEN <<<<"ids">>, <<"adopt">>>> ELSE SwitchToMainSiblingTab) \o q)
             /\ Common'
  <2>1. Now[1] = "closed" /\ Now[2] = b /\ Tail(todo) = q /\ ~Idle
    BY <1>2, <1>5, TabStepFacts
  <2>2. ClosesCurrent /\ UNCHANGED <<browser, ids, cur, since, disturbed>>
    BY <2>1, ByName
  <2>3. GoOn((IF b THEN <<<<"ids">>, <<"adopt">>>> ELSE SwitchToMainSiblingTab) \o q) /\ UNCHANGED mainTabID
    BY <2>1, <2>2 DEF ClosesCurrent, AtStep
  <2>4. Common'
    BY <2>2, <2>3 DEF Common, OpenTabs, browser
  <2> QED
    BY <2>2, <2>3, <2>4
<1>6. CASE todo = Cons(<<"closed", FALSE>>, q) /\ MainOk
  <2>1. GoOn(SwitchToMainSiblingTab \o q) /\ Common' /\ UNCHANGED <<mainTabID, browser>>
    BY <1>5, <1>6
  <2>2. todo' = MainThen(q) /\ Op' = Op
    BY <1>2, <2>1, Programs, GoOnFacts DEF Going_On, Op
  <2>3. AtMain'
    BY <1>1, <1>4, <1>6, <2>1, <2>2 DEF AtMain, MainOk, OpenTabs, browser
  <2> QED
    BY <2>1, <2>3 DEF Going
<1>7. CASE todo = Cons(<<"closed", TRUE>>, q)
  <2>1. GoOn(<<<<"ids">>, <<"adopt">>>> \o q) /\ Common'
    BY <1>5, <1>7
  <2>4. <<<<"ids">>, <<"adopt">>>> \o q = Cons(<<"ids">>, Cons(<<"adopt">>, q))
    <3>1. PICK x, y : x = <<"ids">> /\ y = <<"adopt">>
      OBVIOUS
    <3>2. <<x, y>> \o q = Cons(x, Cons(y, q))
      BY <1>2, TwoThen
    <3> QED
      BY <3>1, <3>2, Zenon
  <2>2. todo' = Cons(<<"ids">>, Cons(<<"adopt">>, q)) /\ Op' = Op
    BY <2>1, <2>4, GoOnFacts DEF Going_On, Op
  <2>3. AtClosed'
    BY <1>1, <2>2 DEF AtClosed, InCurrent
  <2> QED
    BY <2>1, <2>3 DEF Going
<1>8. CASE todo = Cons(<<"ids">>, Cons(<<"adopt">>, q))
  <2>1. Common' /\ Going_On(Cons(<<"adopt">>, q)) /\ ids' # <<>> /\ ToSet(ids') = OpenTabs'
    BY <1>3, <1>8, IdsEffect
  <2>2. todo' = Cons(<<"adopt">>, q) /\ Op' = Op
    BY <2>1 DEF Going_On, Op
  <2>3. AtClosed'
    BY <1>1, <2>1, <2>2 DEF AtClosed, InCurrent
  <2> QED
    BY <2>1, <2>3 DEF Going
<1>9. CASE todo = Cons(<<"adopt">>, q) /\ ids # <<>> /\ ToSet(ids) \subseteq OpenTabs
  <2>1. Now[1] = "adopt" /\ Tail(todo) = q /\ ~Idle
    BY <1>2, <1>9, TabStepFacts
  <2>2. ClosesCurrent /\ UNCHANGED <<browser, ids, cur, since, disturbed>>
    BY <2>1, ByName
  <2>3. PICK t : t = ids[1]
    OBVIOUS
  <2>4. GoOn((Window(t) \o <<<<"setMain", t>>>>) \o q) /\ UNCHANGED mainTabID
    BY <2>1, <2>2, <2>3 DEF ClosesCurrent, AtStep, Adopted
  <2>5. t \in OpenTabs
    <3>1. ids[1] \in ToSet(ids)
      BY <1>9 DEF ToSet, Common
    <3> QED
      BY <1>9, <2>3, <3>1
  <2>6. Common' /\ OpenTabs' = OpenTabs
    BY <2>2, <2>4 DEF Common, OpenTabs, browser
  <2>7. todo' = Cons(<<"init">>, Cons(<<"switch", t>>, Cons(<<"setMain", t>>, q))) /\ Op' = Op
    BY <1>2, <2>4, ProgramThen, GoOnFacts DEF Going_On, Op
  <2>8. AtClosed'
    BY <1>1, <2>5, <2>6, <2>7 DEF AtClosed, InCurrent
  <2> QED
    BY <2>6, <2>8 DEF Going
<1>10. ASSUME NEW t \in OpenTabs,
              \/ todo \in {Cons(<<"init">>, Cons(<<"switch", t>>, Cons(<<"setMain", t>>, q))),
                           Cons(<<"switch", t>>, Cons(<<"setMain", t>>, q))}
              \/ todo = Cons(<<"setMain", t>>, q) /\ current = t
       PROVE  Common' /\ Going'
  <2>0. t \in 1..opened /\ t # None
    BY DEF Common, None
  <2>1. CASE todo = Cons(<<"init">>, Cons(<<"switch", t>>, Cons(<<"setMain", t>>, q)))
    <3> DEFINE p == Cons(<<"switch", t>>, Cons(<<"setMain", t>>, q))
    <3>1. /\ Common' /\ OpenTabs \subseteq OpenTabs'
          /\ Going_On(p) \/ (mainTabID' = None /\ CommandFails)
      BY <1>3, <2>1, InitEffect
    <3>2. CASE Going_On(p)
      <4>1. todo' = p /\ Op' = Op /\ t \in OpenTabs'
        BY <3>1, <3>2 DEF Going_On, Op
      <4>2. AtClosed'
        BY <1>1, <4>1 DEF AtClosed, InCurrent
      <4> QED
        BY <3>1, <4>2 DEF Going
    <3>3. CASE mainTabID' = None /\ CommandFails
      BY <3>1, <3>3, EndsFailed DEF Going, MainOk
    <3> QED
      BY <3>1, <3>2, <3>3
  <2>2. CASE todo = Cons(<<"switch", t>>, Cons(<<"setMain", t>>, q))
    <3>1. Common' /\ OpenTabs' = OpenTabs /\ current' = t /\ Going_On(Cons(<<"setMain", t>>, q))
      BY <1>3, <2>0, <2>2, SwitchEffect
    <3>2. todo' = Cons(<<"setMain", t>>, q) /\ Op' = Op /\ t \in OpenTabs'
      BY <3>1 DEF Going_On, Op
    <3>3. AtClosed'
      BY <1>1, <3>1, <3>2 DEF AtClosed, InCurrent
    <3> QED
      BY <3>1, <3>3 DEF Going
  <2>3. CASE todo = Cons(<<"setMain", t>>, q) /\ current = t
    <3>1. Now[1] = "setMain" /\ Now[2] = t /\ Tail(todo) = q /\ ~Idle
      BY <1>2, <2>3, TabStepFacts
    <3>2. ClosesCurrent /\ UNCHANGED <<browser, ids, cur, since, disturbed>>
      BY <3>1, ByName
    <3>3. mainTabID' = t /\ Next1
      BY <3>1, <3>2 DEF ClosesCurrent, AtStep
    <3>4. Going_On(q)
      BY <3>1, <3>3, GoOnFacts DEF Next1
    <3>5. Common' /\ OpenTabs' = OpenTabs /\ current' = t /\ MainOk'
      BY <2>0, <2>3, <3>2, <3>3 DEF Common, OpenTabs, browser, MainOk
    <3>6. todo' = q /\ Op' = Op
      BY <3>4 DEF Going_On, Op
    <3>7. CASE q = <<>>
      <4>1. AtRest'
        BY <1>4, <2>0, <3>5, <3>6, <3>7 DEF AtRest
      <4> QED
        BY <3>5, <4>1 DEF Going
    <3>8. CASE q = Main
      <4>1. todo' = MainThen(<<>>) /\ Op' # "closeOthers"
        BY <1>4, <3>6, <3>8 DEF Main
      <4>2. AtMain'
        BY <3>5, <4>1 DEF AtMain
      <4> QED
        BY <3>5, <4>2 DEF Going
    <3> QED
      BY <1>1, <3>7, <3>8
  <2> QED
    BY <1>10, <2>1, <2>2, <2>3
<1> QED
  BY <1>1, <1>6, <1>7, <1>8, <1>9, <1>10

LEMMA SiblingGoes == ASSUME Common, AtSibling, TabsProgress PROVE Common' /\ Going'
<1>1. PICK q \in {<<>>, CurThen(Main)} :
       /\ Op = IF q = <<>> THEN "toSibling" ELSE "closeSibling"
       /\ todo \in {Cons(<<"init">>, Cons(<<"ids">>, Cons(<<"toSibling">>, q))), Cons(<<"ids">>, Cons(<<"toSibling">>, q)),
                    Cons(<<"toSibling">>, q)}
  BY DEF AtSibling
<1> DEFINE q2 == Cons(<<"toSibling">>, q)
           q1 == Cons(<<"ids">>, q2)
<1>2. IsList(q) /\ IsList(q1) /\ IsList(q2) /\ q1 # <<>> /\ q2 # <<>> /\ MainOk /\ Op # "closeOthers"
  BY <1>1, Tails, ConsFacts DEF AtSibling
<1>3. CASE todo = Cons(<<"init">>, q1)
  <2>1. /\ Common' /\ OpenTabs \subseteq OpenTabs'
        /\ \/ mainTabID' = mainTabID /\ Going_On(q1)
           \/ mainTabID' = None /\ CommandFails
           \/ mainTabID' \in OpenTabs' /\ Going_On(q1)
    BY <1>2, <1>3, InitEffect
  <2>2. MainOk' /\ Op' = Op
    BY <1>2, <2>1 DEF MainOk, Op, CommandFails, Going_On
  <2>3. Going_On(q1) => AtSibling'
    BY <1>1, <2>2 DEF AtSibling, Going_On
  <2> QED
    BY <2>1, <2>2, <2>3, EndsFailed DEF Going
<1>4. CASE todo = q1
  <2>1. Common' /\ UNCHANGED mainTabID /\ OpenTabs \subseteq OpenTabs' /\ Going_On(q2)
    BY <1>2, <1>4, IdsEffect
  <2>2. MainOk' /\ Op' = Op /\ todo' = q2
    BY <1>2, <2>1 DEF MainOk, Op, Going_On
  <2>3. AtSibling'
    BY <1>1, <2>2 DEF AtSibling
  <2> QED
    BY <2>1, <2>3 DEF Going
<1>5. CASE todo = q2
  <2>1. Now[1] = "toSibling" /\ Tail(todo) = q /\ ~Idle
    BY <1>2, <1>5, TabStepFacts
  <2>2. ChoosesTab /\ UNCHANGED <<browser, ids, cur, since, disturbed>>
    BY <2>1, ByName
  <2>3. PICK siblings : siblings = Without(ids, mainTabID)
    OBVIOUS
  <2>4. GoOn((IF siblings = <<>> THEN <<>> ELSE Window(siblings[1])) \o q) /\ UNCHANGED mainTabID
    BY <2>1, <2>2, <2>3 DEF ChoosesTab, AtStep
  <2>5. Common' /\ MainOk' /\ opened' = opened
    BY <1>2, <2>2, <2>4 DEF Common, OpenTabs, browser, MainOk
  <2>6. CASE siblings = <<>>
    <3>1. Going_On(q)
      <4>1. <<>> \o q = q
        BY <1>2, NilConcat
      <4>2. GoOn(q)
        BY <2>4, <2>6, <4>1
      <4> QED
        BY <4>2, GoOnFacts
    <3>2. todo' = q /\ Op' = Op
      BY <3>1 DEF Going_On, Op
    <3>3. AtRest' \/ AtCurrent'
      BY <1>1, <2>5, <3>2, Tails DEF AtRest, AtCurrent, InCurrent, Op
    <3> QED
      BY <2>5, <3>3 DEF Going
  <2>7. CASE siblings # <<>>
    <3>1. PICK t : t = siblings[1]
      OBVIOUS
    <3>2. t \in 1..opened
      <4>1. siblings \in Seq(Nat) /\ ToSet(siblings) = ToSet(ids) \ {mainTabID}
        BY <2>3, WithoutFacts DEF Common
      <4>2. siblings[1] \in ToSet(siblings)
        BY <2>7, <4>1 DEF ToSet
      <4> QED
        BY <3>1, <4>1, <4>2 DEF Common
    <3>3. GoOn(Window(t) \o q)
      BY <2>4, <2>7, <3>1
    <3>4. todo' = Cons(<<"init">>, Cons(<<"switch", t>>, q)) /\ Op' = Op
      BY <1>2, <3>3, Programs, GoOnFacts DEF Going_On, Op
    <3>5. AtWindow'
      BY <1>1, <1>2, <2>5, <3>2, <3>4, Tails DEF AtWindow
    <3> QED
      BY <2>5, <3>5 DEF Going
  <2> QED
    BY <2>6, <2>7
<1> QED
  BY <1>1, <1>3, <1>4, <1>5

\* No step takes a number back.
LEMMA OpenedGrows == ASSUME Common, TabsProgress PROVE 1..opened \subseteq 1..opened'
<1>1. opened' = opened \/ opened' = opened + 1 \/ opened' = opened + 1 + Len(Tabs) - Len(tabs)
  BY DEF TabsProgress, InitMainTabId, GetTabIds, GetCurrentTabId, Switch, DriverClose, ClosesCurrent, ChoosesTab, NewOrEnd,
         Session, browser
<1>2. opened + 1 + Len(Tabs) - Len(tabs) \in {opened + 1, opened + 2}
  <2>1. Len(<<opened + 1>>) = 1 /\ Len(<<>>) = 0
    OBVIOUS
  <2>2. Len(tabs) \in Nat /\ opened \in Nat
    BY DEF Common
  <2>3. CASE tabs = <<>>
    <3>1. Len(Tabs) = 1 /\ Len(tabs) = 0
      BY <2>1, <2>3 DEF Tabs, NoSession
    <3> QED
      BY <2>2, <3>1
  <2>4. CASE tabs # <<>>
    <3>1. Tabs = tabs
      BY <2>4 DEF Tabs, NoSession
    <3> QED
      BY <2>2, <3>1
  <2> QED
    BY <2>3, <2>4
<1>3. opened \in Nat
  BY DEF Common
<1> QED
  BY <1>1, <1>2, <1>3

LEMMA OthersGoes == ASSUME Common, AtOthers, TabsProgress PROVE Common' /\ Going'
<1> DEFINE q2 == Cons(<<"closeOthers">>, <<>>)
           q1 == Cons(<<"init">>, q2)
<1>1. /\ MainOk /\ mainTabID \notin since /\ Op = "closeOthers"
      /\ \/ todo = Cons(<<"ids">>, q1) /\ current \notin since
         \/ todo = q1 /\ current \notin since /\ tabs # <<>> /\ Old \subseteq ToSet(ids)
         \/ todo = q2 /\ mainTabID # None /\ Old \subseteq ToSet(ids)
  BY DEF AtOthers
<1>2. IsList(<<>>) /\ IsList(q1) /\ IsList(q2) /\ q1 # <<>> /\ q2 # <<>>
  BY Tails, ConsFacts
<1>3. CASE todo = Cons(<<"ids">>, q1) /\ current \notin since
  <2>1. /\ Common' /\ UNCHANGED <<mainTabID, since>> /\ OpenTabs \subseteq OpenTabs'
        /\ Opens /\ Going_On(q1) /\ tabs' # <<>> /\ ToSet(ids') = OpenTabs'
    BY <1>2, <1>3, IdsEffect
  <2>2. MainOk' /\ Op' = Op /\ todo' = q1 /\ mainTabID' \notin since'
    BY <1>1, <2>1 DEF MainOk, Op, Going_On
  <2>3. Old' \subseteq ToSet(ids')
    BY <2>1 DEF Old
  <2>4. current' \notin since'
    BY <1>3, <2>1 DEF Opens, Common
  <2>5. AtOthers'
    BY <1>1, <2>1, <2>2, <2>3, <2>4 DEF AtOthers
  <2> QED
    BY <2>1, <2>5 DEF Going
<1>4. CASE todo = q1 /\ current \notin since /\ tabs # <<>> /\ Old \subseteq ToSet(ids)
  <2>1. /\ Common' /\ UNCHANGED <<ids, since>>
        /\ \/ mainTabID # None /\ mainTabID' = mainTabID /\ OpenTabs' = OpenTabs /\ Going_On(q2)
           \/ mainTabID' = None /\ CommandFails
           \/ mainTabID' \in OpenTabs' /\ mainTabID' # None /\ current' = mainTabID' /\ Opens /\ Going_On(q2)
    BY <1>2, <1>4, InitEffect
  <2>2. MainOk' /\ Op' = Op
    BY <1>1, <2>1 DEF MainOk, Op, Going_On, CommandFails
  <2>3. ASSUME Going_On(q2) PROVE AtOthers'
    <3>1. todo' = q2 /\ mainTabID' # None /\ OpenTabs' = OpenTabs /\ mainTabID' \notin since
      BY <1>1, <1>2, <1>4, <2>1, <2>3 DEF Going_On, CommandFails, Opens
    <3>2. Old' \subseteq ToSet(ids')
      BY <1>4, <2>1, <3>1 DEF Old
    <3> QED
      BY <1>1, <2>1, <2>2, <3>1, <3>2 DEF AtOthers
  <2> QED
    BY <2>1, <2>2, <2>3, EndsFailed DEF Going
<1>5. CASE todo = q2 /\ mainTabID # None /\ Old \subseteq ToSet(ids)
  <2>1. Now[1] = "closeOthers" /\ Tail(todo) = <<>> /\ ~Idle
    BY <1>2, <1>5, TabStepFacts
  <2>2. ChoosesTab /\ UNCHANGED <<browser, ids, cur, since, disturbed>>
    BY <2>1, ByName
  <2>3. PICK list : list = Others
    OBVIOUS
  <2>4. GoOn(<<<<"closeEach", list>>>> \o SwitchToMainSiblingTab) /\ UNCHANGED mainTabID
    BY <2>1, <2>2, <2>3 DEF ChoosesTab, AtStep
  <2>5. SwitchToMainSiblingTab = Main
    BY MainProgram
  <2>6. todo' = Cons(<<"closeEach", list>>, Main) /\ Op' = Op
    BY <2>4, <2>5, GoOnFacts DEF Going_On, Op, Cons
  <2>7. list \in Seq(Nat) /\ ToSet(list) = ToSet(ids) \ {mainTabID}
    BY <2>3, WithoutFacts DEF Common, Others
  <2>8. Common' /\ MainOld' /\ Old' = Old /\ opened' = opened /\ mainTabID' = mainTabID
    BY <1>1, <1>5, <2>2, <2>4 DEF Common, OpenTabs, browser, MainOld, MainOk, Old
  <2>9. AtEach'
    <3>1. ToSet(list) \subseteq 1..opened' /\ mainTabID' \notin ToSet(list) /\ Old' \subseteq {mainTabID'} \cup ToSet(list)
      BY <1>5, <2>7, <2>8 DEF Common
    <3> QED
      BY <1>1, <2>6, <2>7, <2>8, <3>1 DEF AtEach
  <2> QED
    BY <2>8, <2>9 DEF Going
<1> QED
  BY <1>1, <1>3, <1>4, <1>5

LEMMA EachGoes == ASSUME Common, AtEach, TabsProgress PROVE Common' /\ Going'
<1>1. PICK list \in Seq(Nat) :
       /\ ToSet(list) \subseteq 1..opened /\ mainTabID \notin ToSet(list)
       /\ LET each == Cons(<<"closeEach", list>>, Main)
          IN \/ todo = each /\ Old \subseteq {mainTabID} \cup ToSet(list)
             \/ \E t \in 1..opened \ {mainTabID} :
                  /\ Old \subseteq {mainTabID, t} \cup ToSet(list)
                  /\ LET close == Cons(<<"init">>, Cons(<<"ids">>, Cons(<<"close", t>>, each)))
                     IN \/ todo \in {Cons(<<"init">>, Cons(<<"switch", t>>, close)), Cons(<<"switch", t>>, close), close,
                                     Cons(<<"ids">>, Cons(<<"close", t>>, each))}
                        \/ todo = Cons(<<"close", t>>, each) /\ FreshIds /\ mainTabID \in ToSet(ids)
  BY DEF AtEach
<1>2. MainOld /\ Op = "closeOthers" /\ mainTabID # None /\ mainTabID \in OpenTabs /\ tabs # <<>> /\ MainOk
  <2>1. ToSet(<<>>) = {}
    BY DEF ToSet
  <2> QED
    BY <2>1 DEF AtEach, MainOld, MainOk, Old, OpenTabs, Common, None
<1> DEFINE each == Cons(<<"closeEach", list>>, Main)
<1>3. IsList(each) /\ each # <<>>
  BY Tails, ConsFacts
<1>4. CASE todo = each /\ Old \subseteq {mainTabID} \cup ToSet(list)
  <2>1. Now[1] = "closeEach" /\ Now[2] = list /\ Tail(todo) = Main /\ ~Idle
    <3>1. PICK x : x = <<"closeEach", list>>
      OBVIOUS
    <3>2. x[1] = "closeEach" /\ x[2] = list
      BY <3>1
    <3>3. todo = Cons(x, Main) /\ IsList(Main)
      BY <1>4, <3>1, Tails
    <3>4. Now = x /\ Tail(todo) = Main /\ ~Idle
      BY <3>3, TabStepFacts
    <3> QED
      BY <3>2, <3>4
  <2>2. ChoosesTab /\ UNCHANGED <<browser, ids, cur, since, disturbed>>
    BY <2>1, ByName
  <2>3. /\ GoOn((IF list = <<>> THEN <<>> ELSE
                  Window(list[1]) \o CloseBrowserWindow(list[1]) \o <<<<"closeEach", Tail(list)>>>>) \o Main)
        /\ UNCHANGED mainTabID
    BY <2>1, <2>2 DEF ChoosesTab, AtStep
  <2>4. /\ Common' /\ MainOld' /\ Old' = Old /\ opened' = opened /\ mainTabID' = mainTabID /\ MainOk'
    BY <1>2, <2>2, <2>3 DEF Common, OpenTabs, browser, MainOld, MainOk, Old
  <2>5. CASE list = <<>>
    <3>1. GoOn(Main)
      <4>1. <<>> \o Main = Main
        BY Tails, NilConcat
      <4> QED
        BY <2>3, <2>5, <4>1
    <3>2. todo' = MainThen(<<>>) /\ Op' = Op
      BY <3>1, GoOnFacts DEF Going_On, Op, Main
    <3>3. Cleared'
      <4>1. ToSet(<<>>) = {}
        BY DEF ToSet
      <4> QED
        BY <1>2, <1>4, <2>4, <2>5, <4>1 DEF Cleared, MainOld
    <3>4. AtMain'
      BY <2>4, <3>2, <3>3 DEF AtMain
    <3> QED
      BY <2>4, <3>4 DEF Going
  <2>6. CASE list # <<>>
    <3>1. PICK t, rest : t = list[1] /\ rest = Tail(list)
      OBVIOUS
    <3>2. rest \in Seq(Nat) /\ t \in ToSet(list) /\ ToSet(list) = {t} \cup ToSet(rest)
      BY <2>6, <3>1, HeadOfList
    <3>3. GoOn((Window(t) \o CloseBrowserWindow(t) \o <<<<"closeEach", rest>>>>) \o Main)
      BY <2>3, <2>6, <3>1
    <3> DEFINE next == Cons(<<"closeEach", rest>>, Main)
               close == Cons(<<"init">>, Cons(<<"ids">>, Cons(<<"close", t>>, next)))
    <3>4. todo' = Cons(<<"init">>, Cons(<<"switch", t>>, close)) /\ Op' = Op
      <4>1. (Window(t) \o CloseBrowserWindow(t) \o <<<<"closeEach", rest>>>>) \o Main
              = Cons(<<"init">>, Cons(<<"switch", t>>, close))
        BY Tails, ClosesOne
      <4> QED
        BY <3>3, <4>1, GoOnFacts DEF Going_On, Op
    <3>5. /\ ToSet(rest) \subseteq 1..opened' /\ mainTabID' \notin ToSet(rest)
          /\ t \in 1..opened' \ {mainTabID'} /\ Old' \subseteq {mainTabID', t} \cup ToSet(rest)
      BY <1>1, <1>4, <2>4, <3>2
    <3>6. AtEach'
      BY <1>2, <2>4, <3>2, <3>4, <3>5 DEF AtEach
    <3> QED
      BY <2>4, <3>6 DEF Going
  <2> QED
    BY <2>5, <2>6
<1>5. ASSUME NEW t \in 1..opened \ {mainTabID},
             Old \subseteq {mainTabID, t} \cup ToSet(list),
             LET close == Cons(<<"init">>, Cons(<<"ids">>, Cons(<<"close", t>>, each)))
             IN \/ todo \in {Cons(<<"init">>, Cons(<<"switch", t>>, close)), Cons(<<"switch", t>>, close), close,
                             Cons(<<"ids">>, Cons(<<"close", t>>, each))}
                \/ todo = Cons(<<"close", t>>, each) /\ FreshIds /\ mainTabID \in ToSet(ids)
      PROVE  Common' /\ Going'
  <2> DEFINE q1 == Cons(<<"close", t>>, each)
             q2 == Cons(<<"ids">>, q1)
             q3 == Cons(<<"init">>, q2)
             q4 == Cons(<<"switch", t>>, q3)
             q5 == Cons(<<"init">>, q4)
  <2>1. IsList(q1) /\ IsList(q2) /\ IsList(q3) /\ IsList(q4)
    BY <1>3, ConsFacts
  <2>2. \/ todo \in {q5, q4, q3, q2}
        \/ todo = q1 /\ FreshIds /\ mainTabID \in ToSet(ids)
    BY <1>5
  <2>4. 1..opened \subseteq 1..opened'
    BY OpenedGrows
  <2>3. ASSUME Common', mainTabID' = mainTabID, since' = since, OpenTabs' = OpenTabs, Op' = Op,
               \/ todo' \in {q5, q4, q3, q2}
               \/ todo' = q1 /\ FreshIds' /\ mainTabID' \in ToSet(ids')
        PROVE  Common' /\ Going'
    <3>1. MainOld' /\ Old' = Old
      BY <1>2, <2>3 DEF MainOld, Old
    <3>2. ToSet(list) \subseteq 1..opened' /\ t \in 1..opened' \ {mainTabID'}
      BY <1>1, <1>5, <2>3, <2>4 DEF Common
    <3>3. AtEach'
      BY <1>1, <1>2, <1>5, <2>3, <3>1, <3>2 DEF AtEach
    <3> QED
      BY <2>3, <3>3 DEF Going
  <2>5. CASE todo \in {q5, q3}
    <3>1. PICK q \in {q4, q2} : todo = Cons(<<"init">>, q) /\ IsList(q)
      BY <2>1, <2>5
    <3>2. Common' /\ UNCHANGED <<since, mainTabID>> /\ OpenTabs' = OpenTabs /\ Going_On(q)
      BY <1>2, <3>1, InitEffect
    <3> QED
      BY <2>3, <3>1, <3>2 DEF Going_On, Op
  <2>6. CASE todo = q4
    <3>1. /\ Common' /\ UNCHANGED <<mainTabID, since>> /\ OpenTabs \subseteq OpenTabs'
          /\ CommandFails \/ (OpenTabs' = OpenTabs /\ Going_On(q3))
      BY <2>1, <2>6, SwitchEffect
    <3>2. MainOk'
      BY <1>2, <3>1 DEF MainOk
    <3>3. OpenTabs' = OpenTabs /\ Going_On(q3) => Going'
      BY <2>3, <3>1 DEF Going_On, Op
    <3> QED
      BY <3>1, <3>2, <3>3, EndsFailed DEF Going
  <2>7. CASE todo = q2
    <3>1. /\ Common' /\ UNCHANGED <<mainTabID, since>> /\ Opens /\ Going_On(q1) /\ FreshIds' /\ ToSet(ids') = OpenTabs'
      BY <2>1, <2>7, IdsEffect
    <3>2. OpenTabs' = OpenTabs
      BY <1>2, <3>1 DEF Opens
    <3> QED
      BY <1>2, <2>3, <3>1, <3>2 DEF Going_On, Op
  <2>8. CASE todo = q1 /\ FreshIds /\ mainTabID \in ToSet(ids)
    <3>1. /\ Common' /\ since' = since /\ mainTabID' = mainTabID
          /\ \/ CommandFails /\ OpenTabs' = OpenTabs
             \/ OpenTabs' = OpenTabs \ {t} /\ Going_On(each)
      <4>1. PICK u : u = IF t = None THEN mainTabID ELSE t
        OBVIOUS
      <4>2. u = t /\ t \in 0..opened /\ t # mainTabID
        BY <4>1 DEF None, Common
      <4> QED
        BY <1>2, <1>3, <2>8, <4>1, <4>2, CloseEffect
    <3>2. CASE CommandFails /\ OpenTabs' = OpenTabs
      <4>1. MainOk'
        BY <1>2, <3>1, <3>2 DEF MainOk
      <4> QED
        BY <3>1, <3>2, <4>1, EndsFailed DEF Going
    <3>3. CASE OpenTabs' = OpenTabs \ {t} /\ Going_On(each)
      <4>1. MainOld' /\ Old' = Old \ {t} /\ Op' = Op /\ todo' = each
        BY <1>2, <3>1, <3>3 DEF MainOld, Old, Op, Going_On
      <4>2. ToSet(list) \subseteq 1..opened' /\ Old' \subseteq {mainTabID'} \cup ToSet(list)
        BY <1>1, <1>5, <3>1, <4>1, <2>4
      <4>3. AtEach'
        BY <1>1, <1>2, <3>1, <4>1, <4>2 DEF AtEach
      <4> QED
        BY <3>1, <4>3 DEF Going
    <3> QED
      BY <3>1, <3>2, <3>3
  <2> QED
    BY <2>2, <2>5, <2>6, <2>7, <2>8
<1> QED
  BY <1>1, <1>4, <1>5


\* A tab at the end.
LEMMA OneMore ==
  ASSUME NEW list \in Seq(Nat), NEW x \in Nat
  PROVE  /\ Append(list, x) \in Seq(Nat) /\ ToSet(Append(list, x)) = ToSet(list) \cup {x}
         /\ Len(Append(list, x)) = Len(list) + 1 /\ \A i \in 1..Len(list) : Append(list, x)[i] = list[i]
<1> DEFINE m == Append(list, x)
<1>1. PICK n \in Nat : n = Len(list)
  OBVIOUS
<1>2. m \in Seq(Nat) /\ Len(m) = n + 1 /\ m[n + 1] = x /\ \A i \in 1..n : m[i] = list[i]
  BY <1>1, AppendProperties
<1> HIDE DEF m
<1>3. ToSet(list) = {list[i] : i \in 1..n} /\ ToSet(m) = {m[i] : i \in 1..(n + 1)}
  <2>1. ToSet(list) = {list[i] : i \in 1..Len(list)}
    BY ElementsAre
  <2>2. ToSet(m) = {m[i] : i \in 1..Len(m)}
    BY <1>2, ElementsAre
  <2> QED
    BY <1>1, <1>2, <2>1, <2>2, Zenon
<1>4. ASSUME NEW y \in ToSet(m) PROVE y \in ToSet(list) \cup {x}
  <2>1. PICK i \in 1..(n + 1) : y = m[i]
    BY <1>3
  <2>2. i \in 1..n \/ i = n + 1
    OBVIOUS
  <2> QED
    BY <1>2, <1>3, <2>1, <2>2
<1>5. ASSUME NEW y \in ToSet(list) PROVE y \in ToSet(m)
  <2>1. PICK i \in 1..n : y = list[i]
    BY <1>3
  <2>2. i \in 1..(n + 1) /\ m[i] = y
    BY <1>2, <2>1
  <2> QED
    BY <1>3, <2>2
<1>6. x \in ToSet(m)
  <2>1. n + 1 \in 1..(n + 1)
    OBVIOUS
  <2> QED
    BY <1>2, <1>3, <2>1
<1> QED
  BY <1>1, <1>2, <1>4, <1>5, <1>6 DEF m

LEMMA OtherGoes == ASSUME Common, AtOther, TabsProgress PROVE Common' /\ Going'
<1>1. CASE todo = Cons(<<"new">>, <<>>) /\ Op = "newWindow"
  <2>1. Now[1] = "new" /\ Tail(todo) = <<>> /\ ~Idle
    BY <1>1, Tails, TabStepFacts
  <2>2. /\ NewOrEnd /\ UNCHANGED <<ids, cur, calls, since, disturbed>>
    BY <2>1, ByName
  <2>3. /\ opened' = opened + 1 + Len(Tabs) - Len(tabs) /\ tabs' = Append(Tabs, opened') /\ current' = opened'
        /\ Next1 /\ UNCHANGED <<mainTabID, ids, cur, since>>
    BY <2>1, <2>2 DEF NewOrEnd, AtStep
  <2>4. opened \in Nat /\ tabs \in Seq(Nat) /\ OpenTabs \subseteq 1..opened
    BY DEF Common
  <2>5. /\ opened' \in Nat /\ opened <= opened' /\ Tabs \in Seq(Nat)
        /\ OpenTabs \subseteq ToSet(Tabs) /\ ToSet(Tabs) \subseteq 1..opened' /\ opened' \in 1..opened'
    <3>1. CASE tabs = <<>>
      <4>1. Tabs = <<opened + 1>> /\ Len(<<>>) = 0 /\ ToSet(<<>>) = {} /\ ToSet(<<opened + 1>>) = {opened + 1}
        BY <3>1 DEF Tabs, NoSession, ToSet
      <4>2. Len(Tabs) = 1 /\ Tabs \in Seq(Nat) /\ OpenTabs = {} /\ ToSet(Tabs) = {opened + 1}
        BY <2>4, <3>1, <4>1 DEF OpenTabs
      <4>3. opened' = opened + 2
        BY <2>3, <2>4, <3>1, <4>1, <4>2
      <4> QED
        BY <2>4, <4>2, <4>3
    <3>2. CASE tabs # <<>>
      <4>1. Tabs = tabs /\ ToSet(Tabs) = OpenTabs
        BY <3>2 DEF Tabs, NoSession, OpenTabs
      <4>2. PICK n \in Nat : n = Len(tabs)
        BY <2>4
      <4>3. opened' = opened + 1
        BY <2>3, <2>4, <4>1, <4>2
      <4> QED
        BY <2>4, <4>1, <4>3
    <3> QED
      BY <3>1, <3>2
  <2>6. tabs' \in Seq(Nat) /\ OpenTabs' = ToSet(Tabs) \cup {opened'}
    <3>1. PICK o \in Nat : o = opened'
      BY <2>5
    <3>2. tabs' = Append(Tabs, o)
      BY <2>3, <3>1
    <3>3. Append(Tabs, o) \in Seq(Nat) /\ ToSet(Append(Tabs, o)) = ToSet(Tabs) \cup {o}
      BY <2>5, OneMore
    <3> QED
      BY <3>1, <3>2, <3>3 DEF OpenTabs
  <2>7. OpenTabs \subseteq OpenTabs' /\ OpenTabs' \subseteq 1..opened' /\ current' \in OpenTabs'
    BY <2>3, <2>5, <2>6
  <2>8. Common'
    BY <2>3, <2>5, <2>6, <2>7, CommonAfter
  <2>9. MainOk' /\ Going_On(<<>>)
    BY <2>1, <2>3, <2>7, GoOnFacts DEF AtOther, MainOk, Next1
  <2>10. AtRest'
    BY <1>1, <2>9 DEF AtRest, Going_On, Op
  <2> QED
    BY <2>8, <2>10 DEF Going
<1>2. CASE todo = Cons(<<"end">>, <<>>) /\ Op = "end"
  <2>1. Now[1] = "end" /\ Tail(todo) = <<>> /\ ~Idle
    BY <1>2, Tails, TabStepFacts
  <2>2. /\ NewOrEnd /\ UNCHANGED <<ids, cur, calls, since, disturbed>>
    BY <2>1, ByName
  <2>3. tabs' = <<>> /\ current' = None /\ mainTabID' = None /\ opened' = opened /\ Next1 /\ UNCHANGED <<ids, cur, since>>
    BY <2>1, <2>2 DEF NewOrEnd, AtStep
  <2>4. OpenTabs' = {} /\ tabs' \in Seq(Nat)
    <3>1. ToSet(<<>>) = {} /\ <<>> \in Seq(Nat)
      BY DEF ToSet
    <3> QED
      BY <2>3, <3>1 DEF OpenTabs
  <2>5. Common'
    BY <2>3, <2>4 DEF Common, None
  <2>6. MainOk' /\ Going_On(<<>>)
    BY <2>1, <2>3, GoOnFacts DEF MainOk, Next1
  <2>7. AtRest'
    BY <1>2, <2>6 DEF AtRest, Going_On, Op
  <2> QED
    BY <2>5, <2>7 DEF Going
<1> QED
  BY <1>1, <1>2 DEF AtOther

\* A command under way has steps left.
LEMMA RestIfIdle == ASSUME Going, Idle PROVE AtRest
<1>1. \A x, q : IsList(q) => IsList(Cons(x, q)) /\ Cons(x, q) # <<>>
  BY ConsFacts
<1>2. todo = <<>>
  BY DEF Idle
<1>3. ~AtWindow
  BY <1>1, <1>2, Tails DEF AtWindow
<1>4. ~AtMain
  BY <1>1, <1>2, Tails DEF AtMain, MainThen
<1>5. ~AtClose
  BY <1>1, <1>2, Tails DEF AtClose
<1>6. ~AtCurrent
  BY <1>1, <1>2, Tails DEF AtCurrent, CurThen
<1>7. ~AtClosing
  BY <1>1, <1>2, Tails DEF AtClosing
<1>8. ~AtClosed
  BY <1>1, <1>2, Tails DEF AtClosed
<1>9. ~AtSibling
  BY <1>1, <1>2, Tails DEF AtSibling
<1>10. ~AtOthers
  BY <1>1, <1>2, Tails DEF AtOthers
<1>11. ~AtEach
  BY <1>1, <1>2, Tails DEF AtEach
<1>12. ~AtOther
  BY <1>1, <1>2, Tails DEF AtOther
<1> QED
  BY <1>3, <1>4, <1>5, <1>6, <1>7, <1>8, <1>9, <1>10, <1>11, <1>12 DEF Going

-----------------------------------------------------------------------------
\* The page opens a tab.
LEMMA PageOpensGoes == ASSUME Common, Going, PageOpens PROVE Common' /\ Going'
<1>1. /\ tabs # <<>> /\ opened' = opened + 1 /\ tabs' = Append(tabs, opened + 1) /\ since' = since \cup {opened + 1}
      /\ UNCHANGED <<current, mainTabID, todo, ids, cur, lastOp>>
  BY DEF PageOpens, command
<1>2. /\ opened \in Nat /\ tabs \in Seq(Nat) /\ OpenTabs \subseteq 1..opened /\ mainTabID \in 0..opened
      /\ current = None \/ current \in OpenTabs
      /\ since \subseteq 1..opened /\ ids \in Seq(Nat) /\ ToSet(ids) \subseteq 1..opened /\ cur \in 0..opened
  BY DEF Common
<1>3. /\ tabs' \in Seq(Nat) /\ OpenTabs' = OpenTabs \cup {opened + 1} /\ Len(tabs') = Len(tabs) + 1
      /\ \A i \in 1..Len(tabs) : tabs'[i] = tabs[i]
  <2>1. opened + 1 \in Nat
    BY <1>2
  <2>2. /\ Append(tabs, opened + 1) \in Seq(Nat) /\ ToSet(Append(tabs, opened + 1)) = OpenTabs \cup {opened + 1}
        /\ Len(Append(tabs, opened + 1)) = Len(tabs) + 1
        /\ \A i \in 1..Len(tabs) : Append(tabs, opened + 1)[i] = tabs[i]
    BY <1>2, <2>1, OneMore DEF OpenTabs
  <2> QED
    BY <1>1, <2>2 DEF OpenTabs
<1>4. opened + 1 \notin 0..opened /\ 1..opened \subseteq 1..opened' /\ 0..opened \subseteq 0..opened'
      /\ opened + 1 \in 1..opened' /\ None \in 0..opened /\ 1..opened \subseteq 0..opened
  BY <1>1, <1>2 DEF None
<1>5. Common'
  <2>1. opened' \in Nat /\ since' \subseteq 1..opened'
    BY <1>1, <1>2, <1>4
  <2> QED
    BY <1>1, <1>2, <1>3, <1>4, <2>1 DEF Common
<1>6. Old' = Old
  BY <1>1, <1>2, <1>3, <1>4 DEF Old
<1>7. /\ Op' = Op /\ tabs' # <<>> /\ OpenTabs \subseteq OpenTabs'
      /\ (current \notin since => current' \notin since') /\ (mainTabID \notin since => mainTabID' \notin since')
  <2>1. current \in 0..opened
    BY <1>2, <1>4
  <2>2. PICK n \in Nat : n = Len(tabs)
    BY <1>2
  <2>3. tabs' # <<>>
    BY <1>3, <2>2
  <2> QED
    BY <1>1, <1>2, <1>3, <1>4, <2>1, <2>3 DEF Op
<1>8. FreshIds => FreshIds'
  <2> SUFFICES ASSUME FreshIds PROVE FreshIds'
    OBVIOUS
  <2>1. PICK n \in Nat, m \in Nat : n = Len(tabs) /\ m = Len(ids) /\ m \in 1..n /\ \A i \in 1..m : ids[i] = tabs[i]
    BY <1>2 DEF FreshIds
  <2>2. m \in 1..(n + 1) /\ \A i \in 1..m : ids[i] = tabs'[i]
    BY <1>3, <2>1
  <2> QED
    BY <1>1, <1>3, <2>1, <2>2 DEF FreshIds
<1>9. MainOk => MainOk'
  BY <1>1, <1>7 DEF MainOk
<1>10. (MainOld => MainOld') /\ (Cleared => Cleared')
  BY <1>1, <1>6 DEF MainOld, Cleared
<1>11. AtRest => AtRest'
  BY <1>1, <1>7, <1>9, <1>10 DEF AtRest
<1>12. AtWindow => AtWindow'
  BY <1>1, <1>4, <1>7, <1>9, <1>10 DEF AtWindow
<1>13. AtMain => AtMain'
  BY <1>1, <1>7, <1>9, <1>10 DEF AtMain
<1>14. AtClose => AtClose'
  BY <1>1, <1>4, <1>7, <1>8, <1>9 DEF AtClose
<1>15. AtCurrent => AtCurrent'
  BY <1>1, <1>7, <1>9 DEF AtCurrent, InCurrent
<1>16. AtClosing => AtClosing'
  BY <1>1, <1>4, <1>7, <1>8, <1>9 DEF AtClosing, InCurrent
<1>17. AtClosed => AtClosed'
  BY <1>1, <1>7, <1>9 DEF AtClosed, InCurrent
<1>18. AtSibling => AtSibling'
  BY <1>1, <1>7, <1>9 DEF AtSibling
<1>19. AtOthers => AtOthers'
  BY <1>1, <1>6, <1>7, <1>9 DEF AtOthers
<1>20. AtEach => AtEach'
  BY <1>1, <1>4, <1>6, <1>7, <1>8, <1>10 DEF AtEach
<1>21. AtOther => AtOther'
  BY <1>1, <1>7, <1>9 DEF AtOther
<1>22. Going'
  BY <1>11, <1>12, <1>13, <1>14, <1>15, <1>16, <1>17, <1>18, <1>19, <1>20, <1>21 DEF Going
<1> QED
  BY <1>5, <1>22

-----------------------------------------------------------------------------
\* The commands as lists.
LEMMA TabCommands ==
  /\ \A t : Window(t) = Cons(<<"init">>, Cons(<<"switch", t>>, <<>>))
  /\ \A t : CloseBrowserWindow(t) = Cons(<<"init">>, Cons(<<"ids">>, Cons(<<"close", t>>, <<>>)))
  /\ CloseCurrentTab = CurThen(<<>>) /\ IsList(CloseCurrentTab)
  /\ CloseAllOtherTabs = Cons(<<"ids">>, Cons(<<"init">>, Cons(<<"closeOthers">>, <<>>)))
  /\ SwitchToFirstSiblingTab = Cons(<<"init">>, Cons(<<"ids">>, Cons(<<"toSibling">>, <<>>))) /\ IsList(SwitchToFirstSiblingTab)
  /\ SwitchToMainSiblingTab = Main /\ IsList(SwitchToMainSiblingTab)
  /\ <<<<"new">>>> = Cons(<<"new">>, <<>>) /\ <<<<"end">>>> = Cons(<<"end">>, <<>>)
<1>1. \A x, y, z : <<x, y, z>> = Cons(x, Cons(y, Cons(z, <<>>))) /\ IsList(<<x, y, z>>)
  BY WholePrograms, Zenon
<1>2. \A x, y : <<x, y>> = Cons(x, Cons(y, <<>>))
  BY WholePrograms, Zenon
<1>3. \A x : <<x>> = Cons(x, <<>>)
  BY WholePrograms, Zenon
<1>4. PICK a, b, c, d, e, f, g : a = <<"init">> /\ b = <<"ids">> /\ c = <<"cur">> /\ d = <<"closeCurrent">> /\ e = <<"closeOthers">>
                                 /\ f = <<"toSibling">> /\ g = <<"toMain">>
  OBVIOUS
<1>5. \A t : Window(t) = Cons(<<"init">>, Cons(<<"switch", t>>, <<>>))
  BY <1>2, Zenon DEF Window
<1>6. ASSUME NEW t PROVE CloseBrowserWindow(t) = Cons(<<"init">>, Cons(<<"ids">>, Cons(<<"close", t>>, <<>>)))
  <2>1. PICK z : z = <<"close", t>>
    OBVIOUS
  <2>2. CloseBrowserWindow(t) = <<a, b, z>>
    BY <1>4, <2>1, Zenon DEF CloseBrowserWindow
  <2>3. <<a, b, z>> = Cons(a, Cons(b, Cons(z, <<>>)))
    BY <1>1, Zenon
  <2> QED
    BY <1>4, <2>1, <2>2, <2>3, Zenon
<1>7. CloseCurrentTab = CurThen(<<>>) /\ IsList(CloseCurrentTab)
  <2>1. CloseCurrentTab = <<c, a, d>> /\ CurThen(<<>>) = Cons(c, Cons(a, Cons(d, <<>>)))
    BY <1>4, Zenon DEF CloseCurrentTab, CurThen
  <2> QED
    BY <1>1, <2>1, Zenon
<1>8. CloseAllOtherTabs = Cons(<<"ids">>, Cons(<<"init">>, Cons(<<"closeOthers">>, <<>>)))
  <2>1. CloseAllOtherTabs = <<b, a, e>>
    BY <1>4, Zenon DEF CloseAllOtherTabs
  <2>2. <<b, a, e>> = Cons(b, Cons(a, Cons(e, <<>>)))
    BY <1>1, Zenon
  <2> QED
    BY <1>4, <2>1, <2>2, Zenon
<1>9. SwitchToFirstSiblingTab = Cons(<<"init">>, Cons(<<"ids">>, Cons(<<"toSibling">>, <<>>))) /\ IsList(SwitchToFirstSiblingTab)
  <2>1. SwitchToFirstSiblingTab = <<a, b, f>>
    BY <1>4, Zenon DEF SwitchToFirstSiblingTab
  <2>2. <<a, b, f>> = Cons(a, Cons(b, Cons(f, <<>>))) /\ IsList(<<a, b, f>>)
    BY <1>1, Zenon
  <2> QED
    BY <1>4, <2>1, <2>2, Zenon
<1>10. SwitchToMainSiblingTab = Main /\ IsList(SwitchToMainSiblingTab)
  <2>1. SwitchToMainSiblingTab = <<a, b, g>> /\ Main = Cons(a, Cons(b, Cons(g, <<>>)))
    BY <1>4, Zenon DEF SwitchToMainSiblingTab, Main, MainThen
  <2> QED
    BY <1>1, <2>1, Zenon
<1> QED
  BY <1>3, <1>5, <1>6, <1>7, <1>8, <1>9, <1>10, Zenon

LEMMA ClosesSibling ==
  CloseFirstSiblingTab = Cons(<<"init">>, Cons(<<"ids">>, Cons(<<"toSibling">>, CurThen(Main))))
<1>1. PICK f, c, m : f = SwitchToFirstSiblingTab /\ c = CloseCurrentTab /\ m = SwitchToMainSiblingTab
  OBVIOUS
<1>2. IsList(f) /\ IsList(c) /\ IsList(m) /\ m = Main
  BY <1>1, TabCommands, Zenon
<1>3. (f \o c) \o m = f \o (c \o m)
  BY <1>2, ListsTogether
<1>4. c \o m = CurThen(m) /\ IsList(CurThen(m))
  <2>1. CloseCurrentTab \o m = CurThen(m) /\ IsList(CurThen(m))
    BY <1>2, Programs
  <2> QED
    BY <1>1, <2>1, Zenon
<1>5. PICK p : p = CurThen(m)
  OBVIOUS
<1>6. f \o p = Cons(<<"init">>, Cons(<<"ids">>, Cons(<<"toSibling">>, p)))
  <2>0. IsList(p)
    BY <1>4, <1>5, Zenon
  <2>1. SwitchToFirstSiblingTab \o p = Cons(<<"init">>, Cons(<<"ids">>, Cons(<<"toSibling">>, p)))
    BY <2>0, Programs
  <2> QED
    BY <1>1, <2>1, Zenon
<1>7. CloseFirstSiblingTab = (f \o c) \o m
  BY <1>1, Zenon DEF CloseFirstSiblingTab
<1> QED
  BY <1>2, <1>3, <1>4, <1>5, <1>6, <1>7, Zenon

\* The test begins a command.
LEMMA CommandGoes == ASSUME Common, Going, TabCommand PROVE Common' /\ Going'
<1>1. AtRest /\ UNCHANGED <<browser, mainTabID, ids, cur, disturbed>>
  BY RestIfIdle DEF TabCommand
<1>2. ASSUME NEW name, NEW steps, Begin(name, steps)
      PROVE  Common' /\ MainOk' /\ Op' = name /\ todo' = steps /\ since' = {} /\ opened' = opened /\ mainTabID' = mainTabID
             /\ lastOp'[1] = name
  BY <1>1, <1>2 DEF Begin, Common, MainOk, OpenTabs, Op, browser, AtRest
<1>3. ASSUME NEW t \in ToSet(tabs), Begin("window", Window(t)) PROVE Common' /\ Going'
  <2>1. Common' /\ MainOk' /\ Op' = "window" /\ todo' = Window(t) /\ opened' = opened
    BY <1>2, <1>3
  <2>2. todo' = Cons(<<"init">>, Cons(<<"switch", t>>, <<>>)) /\ t \in 1..opened'
    BY <2>1, TabCommands DEF Common, OpenTabs
  <2>3. AtWindow'
    BY <2>1, <2>2, Tails DEF AtWindow
  <2> QED
    BY <2>1, <2>3 DEF Going
<1>4. ASSUME NEW t \in 0..opened, Begin("close", CloseBrowserWindow(t)) PROVE Common' /\ Going'
  <2>1. Common' /\ MainOk' /\ Op' = "close" /\ todo' = CloseBrowserWindow(t) /\ opened' = opened
    BY <1>2, <1>4
  <2>2. todo' = Cons(<<"init">>, Cons(<<"ids">>, Cons(<<"close", t>>, <<>>)))
    BY <2>1, TabCommands
  <2>3. AtClose'
    BY <2>1, <2>2 DEF AtClose
  <2> QED
    BY <2>1, <2>3 DEF Going
<1>5. ASSUME Begin("closeCurrent", CloseCurrentTab) PROVE Common' /\ Going'
  <2>1. Common' /\ MainOk' /\ Op' = "closeCurrent" /\ todo' = CurThen(<<>>)
    BY <1>2, <1>5, TabCommands
  <2>2. AtCurrent'
    BY <2>1 DEF AtCurrent, InCurrent
  <2> QED
    BY <2>1, <2>2 DEF Going
<1>6. ASSUME Begin("closeOthers", CloseAllOtherTabs) PROVE Common' /\ Going'
  <2>1. Common' /\ MainOk' /\ Op' = "closeOthers" /\ since' = {}
        /\ todo' = Cons(<<"ids">>, Cons(<<"init">>, Cons(<<"closeOthers">>, <<>>)))
    BY <1>2, <1>6, TabCommands
  <2>2. AtOthers'
    BY <2>1 DEF AtOthers
  <2> QED
    BY <2>1, <2>2 DEF Going
<1>7. ASSUME Begin("closeSibling", CloseFirstSiblingTab) PROVE Common' /\ Going'
  <2>1. Common' /\ MainOk' /\ Op' = "closeSibling"
        /\ todo' = Cons(<<"init">>, Cons(<<"ids">>, Cons(<<"toSibling">>, CurThen(Main))))
    BY <1>2, <1>7, ClosesSibling
  <2>2. AtSibling'
    BY <2>1, Tails DEF AtSibling
  <2> QED
    BY <2>1, <2>2 DEF Going
<1>8. ASSUME Begin("toSibling", SwitchToFirstSiblingTab) PROVE Common' /\ Going'
  <2>1. Common' /\ MainOk' /\ Op' = "toSibling" /\ todo' = Cons(<<"init">>, Cons(<<"ids">>, Cons(<<"toSibling">>, <<>>)))
    BY <1>2, <1>8, TabCommands
  <2>2. AtSibling'
    BY <2>1 DEF AtSibling
  <2> QED
    BY <2>1, <2>2 DEF Going
<1>9. ASSUME Begin("toMain", SwitchToMainSiblingTab) PROVE Common' /\ Going'
  <2>1. Common' /\ MainOk' /\ Op' = "toMain" /\ todo' = MainThen(<<>>)
    BY <1>2, <1>9, TabCommands DEF Main
  <2>2. AtMain'
    BY <2>1 DEF AtMain
  <2> QED
    BY <2>1, <2>2 DEF Going
<1>10. ASSUME Begin("newWindow", <<<<"new">>>>) PROVE Common' /\ Going'
  <2>1. Common' /\ MainOk' /\ Op' = "newWindow" /\ todo' = Cons(<<"new">>, <<>>)
    BY <1>2, <1>10, TabCommands
  <2>2. AtOther'
    BY <2>1 DEF AtOther
  <2> QED
    BY <2>1, <2>2 DEF Going
<1>11. ASSUME Begin("end", <<<<"end">>>>) PROVE Common' /\ Going'
  <2>1. Common' /\ MainOk' /\ Op' = "end" /\ todo' = Cons(<<"end">>, <<>>)
    BY <1>2, <1>11, TabCommands
  <2>2. AtOther'
    BY <2>1 DEF AtOther
  <2> QED
    BY <2>1, <2>2 DEF Going
<1>12. None \in 0..opened /\ ToSet(tabs) \subseteq 0..opened
  BY DEF None, Common, OpenTabs
<1> QED
  BY <1>3, <1>4, <1>5, <1>6, <1>7, <1>8, <1>9, <1>10, <1>11, <1>12 DEF TabCommand

-----------------------------------------------------------------------------
LEMMA TabsStarts == ASSUME TabsInit PROVE TabsInv
<1>1. <<>> \in Seq(Nat) /\ ToSet(<<>>) = {}
  BY DEF ToSet
<1>2. Common
  BY <1>1 DEF TabsInit, Common, OpenTabs, None
<1>3. AtRest
  <2>1. todo = <<>> /\ mainTabID = None /\ lastOp = <<"none", "ok">>
    BY DEF TabsInit
  <2>2. Op = "none"
    BY <2>1 DEF Op
  <2> QED
    BY <2>1, <2>2 DEF AtRest, MainOk
<1> QED
  BY <1>2, <1>3 DEF TabsInv, Going

\* What was disturbed stays so.
LEMMA StaysDisturbed == ASSUME TabsNext, ~disturbed' PROVE ~disturbed /\ ~PageCloses
<1>1. TabsProgress => ~disturbed
  BY DEF TabsProgress, InitMainTabId, GetTabIds, GetCurrentTabId, Switch, DriverClose
<1>2. TabCommand \/ PageOpens => ~disturbed
  BY DEF TabCommand, PageOpens
<1>3. ~PageCloses
  BY DEF PageCloses
<1> QED
  BY <1>1, <1>2, <1>3 DEF TabsNext

LEMMA TabsStep == ASSUME TabsInv, [TabsNext]_tabsVars PROVE TabsInv'
<1>1. CASE TabsNext
  <2> SUFFICES ASSUME ~disturbed' PROVE Common' /\ Going'
    BY DEF TabsInv
  <2>1. Common /\ Going /\ (TabsProgress \/ TabCommand \/ PageOpens)
    BY <1>1, StaysDisturbed DEF TabsInv, TabsNext
  <2>2. CASE TabsProgress
    <3>1. ~AtRest
      <4>1. ~Idle
        BY <2>2 DEF TabsProgress, InitMainTabId, GetTabIds, GetCurrentTabId, Switch, DriverClose, ClosesCurrent, ChoosesTab,
                    NewOrEnd, AtStep
      <4> QED
        BY <4>1 DEF AtRest, Idle
    <3> QED
      BY <2>1, <2>2, <3>1, WindowGoes, MainGoes, CloseGoes, CurrentGoes, ClosingGoes, ClosedGoes, SiblingGoes, OthersGoes,
         EachGoes, OtherGoes DEF Going
  <2> QED
    BY <2>1, <2>2, CommandGoes, PageOpensGoes
<1>2. CASE UNCHANGED tabsVars
  <2>1. /\ UNCHANGED <<tabs, current, opened, mainTabID, todo, ids, cur, lastOp, since, disturbed>>
    BY <1>2 DEF tabsVars, browser, command
  <2>2. OpenTabs' = OpenTabs /\ Op' = Op /\ Common' = Common /\ MainOk' = MainOk /\ Old' = Old /\ FreshIds' = FreshIds
    BY <2>1 DEF OpenTabs, Op, Common, MainOk, Old, FreshIds
  <2>3. MainOld' = MainOld /\ Cleared' = Cleared
    BY <2>1, <2>2 DEF MainOld, Cleared
  <2>4. AtRest' = AtRest /\ AtWindow' = AtWindow /\ AtMain' = AtMain /\ AtOther' = AtOther
    BY <2>1, <2>2, <2>3 DEF AtRest, AtWindow, AtMain, AtOther
  <2>5. AtClose' = AtClose /\ AtCurrent' = AtCurrent /\ AtClosing' = AtClosing /\ AtClosed' = AtClosed
    BY <2>1, <2>2, <2>3 DEF AtClose, AtCurrent, AtClosing, AtClosed, InCurrent
  <2>6. AtSibling' = AtSibling /\ AtOthers' = AtOthers /\ AtEach' = AtEach
    BY <2>1, <2>2, <2>3 DEF AtSibling, AtOthers, AtEach
  <2> QED
    BY <2>1, <2>2, <2>4, <2>5, <2>6 DEF TabsInv, Going
<1> QED
  BY <1>1, <1>2

LEMMA TabsHolds == ASSUME TabsInv PROVE TabsLeft
<1> SUFFICES ASSUME Idle, ~disturbed
             PROVE  /\ mainTabID = None \/ mainTabID \in ToSet(tabs)
                    /\ EndedOk({"closeCurrent", "closeOthers", "closeSibling", "toMain"}) => current # None
                    /\ EndedOk({"closeOthers"}) => ToSet(tabs) \ since = {mainTabID} /\ current = mainTabID
  BY DEF TabsLeft
<1>1. AtRest
  BY RestIfIdle DEF TabsInv
<1> QED
  BY <1>1 DEF AtRest, MainOk, Cleared, Old, OpenTabs, Op, EndedOk

\* What a test may rely on in its web application, with any number of commands and of
\* tabs: the log steps of a test that awaits its commands are closed when it has none
\* under way, nothing of a settled command goes on, every assertion that failed was
\* heard (StepsKept, NothingStray, AssertionsHeard of WebApplication), and the commands
\* on tabs leave the main tab open and the browser on it or on another open one
\* (TabsLeft of BrowserTabs).
THEOREM AppIsKept == BrowserSpec => []AppKeeps
<1> DEFINE Inv == (part = "app" => AppInv) /\ (part = "tabs" => TabsInv)
<1>1. BrowserInit => Inv
  BY AppStarts, TabsStarts DEF BrowserInit
<1>2. Inv /\ [BrowserNext]_browserVars => Inv'
  <2> SUFFICES ASSUME Inv, [BrowserNext]_browserVars
               PROVE  ((part = "app")' => AppInv') /\ ((part = "tabs")' => TabsInv')
    OBVIOUS
  <2>1. ASSUME (part = "app")' PROVE AppInv'
    <3>1. part = "app" /\ [AppNext]_appVars
      BY <2>1 DEF BrowserNext, browserVars, OfProxy, OfSessions, OfApp, OfTabs, appVars
    <3> QED
      BY <3>1, AppStep
  <2>2. ASSUME (part = "tabs")' PROVE TabsInv'
    <3>1. part = "tabs" /\ [TabsNext]_tabsVars
      BY <2>2 DEF BrowserNext, browserVars, OfProxy, OfSessions, OfApp, OfTabs, tabsVars
    <3> QED
      BY <3>1, TabsStep
  <2> QED
    BY <2>1, <2>2
<1>3. Inv => AppKeeps
  BY AppHolds, TabsHolds DEF AppKeeps
<1> QED
  BY <1>1, <1>2, <1>3, PTL DEF BrowserSpec

=============================================================================
