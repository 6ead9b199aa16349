---------------------------- MODULE SeleniumSessions ----------------------------
(***************************************************************************)
(* packages/plugin-selenium-driver: SeleniumPlugin, the sessions that the  *)
(* commands of a browser proxy work on.  A command creates the session of  *)
(* its applicant when the map has none, end() closes and forgets it, and   *)
(* so do close() of the last tab, emulateDevice(), the expiry check and    *)
(* kill().  Each awaits the WebDriver server several times, and whatever   *)
(* else runs for the applicant runs in between.                            *)
(*                                                                         *)
(* The server (webdriverio, Selenium) is external: it opens a session and  *)
(* closes an open one, or with faults rejects.  A local server that fails  *)
(* to start ends the process, through a rejection that nobody handles.     *)
(* The time of the expiry check is abstracted: any session may be overdue. *)
(* With clientTimeout 0 the check pings instead, which is a call like any  *)
(* other that nobody awaits.                                               *)
(***************************************************************************)
EXTENDS Naturals, FiniteSets

CONSTANTS
  Ops,             \* the calls of the plugin's methods, each once
  SessionUsers,    \* the applicants
  MaxSessions,     \* bound on the sessions ever opened
  KillOp           \* the call of kill()

ASSUME SessionsAssumption ==
  /\ IsFiniteSet(Ops) /\ IsFiniteSet(SessionUsers) /\ SessionUsers # {}
  /\ MaxSessions \in Nat
  /\ KillOp \notin Ops

VARIABLES
  rejects,           \* chosen once: the server may reject
  localServer,       \* chosen once: config.host is undefined
  ready,             \* waitForReadyState has resolved
  browserClients,    \* applicant |-> session, 0 when it has none
  expired, killed,   \* expiredBrowserClients, killed
  session,           \* the state of every session at the server
  op,                \* where the calls are
  raced,             \* the calls that were creating a session when kill() began
  opener, crossed    \* for the properties only: who opened each session; the applicants
                     \* for whom one was opened beside another of their calls

sessionModes == <<rejects, localServer>>
ghosts == <<opener, crossed>>
sessionVars == <<sessionModes, ready, browserClients, expired, killed, session, op, raced, ghosts>>

Sessions == 1..MaxSessions
Calls == Ops \cup {KillOp}
Over == {"idle", "done", "failed"}

\* The methods by what they ask of createClient(): "once" or, as those that wait for
\* the page or look for two elements do, "again" before they end (bound: one time more).
Kinds == {"once", "again", "close", "emulate", "end"}

-----------------------------------------------------------------------------
\* then: what a call goes on with after createClient().
SessionsTypeOK ==
  /\ rejects \in BOOLEAN /\ localServer \in BOOLEAN
  /\ opener \in [Sessions -> SessionUsers] /\ crossed \subseteq SessionUsers
  /\ ready \in BOOLEAN /\ killed \in BOOLEAN /\ raced \subseteq Calls
  /\ browserClients \in [SessionUsers -> 0..MaxSessions] /\ expired \subseteq SessionUsers
  /\ session \in [Sessions -> {"none", "open", "closed"}]
  /\ op \in [Calls ->
       [pc : Over \cup {"loop", "create", "remote", "use", "drop", "redo", "end", "delete", "forget"},
        who : SessionUsers, client : 0..MaxSessions, visited : SUBSET SessionUsers,
        kind : Kinds \cup {"expire"}, then : {"use", "delete", "done"}]]

\* A call that is over keeps nothing.
Nobody == CHOOSE a \in SessionUsers : TRUE
Ended(how) == [pc |-> how, who |-> Nobody, client |-> 0,
               visited |-> {}, kind |-> "end", then |-> "done"]

SessionsInit ==
  /\ rejects \in BOOLEAN /\ localServer \in BOOLEAN /\ ~(rejects /\ localServer)
  /\ ready = ~localServer
  /\ browserClients = [a \in SessionUsers |-> 0]
  /\ expired = {} /\ killed = FALSE /\ raced = {}
  /\ session = [s \in Sessions |-> "none"]
  /\ opener = [s \in Sessions |-> Nobody] /\ crossed = {}
  /\ op = [o \in Calls |-> Ended("idle")]

-----------------------------------------------------------------------------
(* Steps of the methods: each yields the call's new record                 *)

Busy(o) == op[o].pc \notin Over
Rejecting(s) == session[s] # "open" \/ rejects

\* After its last await a method resolves; kill() takes the next applicant.
Finish(o, how) ==
  IF o = KillOp THEN [Ended("loop") EXCEPT !.visited = op[o].visited] ELSE Ended(how)

\* Mutant: kill() does not stop new sessions.
CreateClient_Killed(o, then) == [op[o] EXCEPT !.pc = "create", !.then = then]

\* The entry of createClient(); end() ignores its failure.
CreateClient(o, then) ==
  IF ~killed THEN [op[o] EXCEPT !.pc = "create", !.then = then]
  ELSE IF then = "delete" THEN [op[o] EXCEPT !.pc = "delete"]
  ELSE Finish(o, "failed")

Created(o, s) ==
  IF op[o].then = "use"
  THEN [op[o] EXCEPT !.pc = "use", !.then = "done", !.client = IF op[o].kind = "emulate" THEN s ELSE 0]
  ELSE IF op[o].then = "delete" THEN [op[o] EXCEPT !.pc = "delete", !.then = "done"]
  ELSE Finish(o, "done")
NotCreated(o) ==
  IF op[o].then = "delete" THEN [op[o] EXCEPT !.pc = "delete", !.then = "done"] ELSE Finish(o, "failed")

\* closeExpiredClients() marks the applicant when it has tried to end the session.
Marked(o, r) ==
  expired' = IF op[o].kind = "expire" /\ r.pc \in Over THEN expired \cup {op[o].who} ELSE expired
Step(o, r) == op' = [op EXCEPT ![o] = r] /\ Marked(o, r)

\* The applicant leaves the map; if it comes back, kill() visits it again.
Forgotten(o, r) ==
  /\ browserClients' = [browserClients EXCEPT ![op[o].who] = 0]
  /\ op' = [p \in Calls |-> LET q == IF p = o THEN r ELSE op[p]
                            IN [q EXCEPT !.visited = q.visited \ {op[o].who}]]

-----------------------------------------------------------------------------
(* Actions                                                                 *)

\* runLocalSelenium(), setupProcessListeners(): the server says that it is up.
ServerReady ==
  /\ ~ready
  /\ ready' = TRUE
  /\ UNCHANGED <<sessionModes, browserClients, expired, killed, session, op, raced, ghosts>>

\* A method is called for an applicant.
CallPlugin(o) ==
  /\ op[o].pc = "idle"
  /\ \E a \in SessionUsers, k \in Kinds :
       /\ LET r == [op[o] EXCEPT !.who = a, !.kind = k]
          IN Step(o, IF k = "end" THEN [r EXCEPT !.pc = "end"]
                     ELSE IF killed THEN Ended("failed")
                     ELSE [r EXCEPT !.pc = "create", !.then = "use"])
  /\ UNCHANGED <<sessionModes, ready, browserClients, killed, session, raced, ghosts>>

\* createClient() after waitForReadyState: the session of the map, an error or remote().
FindClient(o) ==
  LET s == browserClients[op[o].who]
  IN Step(o, IF s # 0 THEN Created(o, s)
             ELSE IF op[o].who \in expired THEN NotCreated(o)
             ELSE [op[o] EXCEPT !.pc = "remote"])
LookUp(o) ==
  /\ op[o].pc = "create" /\ ready
  /\ FindClient(o)
  /\ UNCHANGED <<sessionModes, ready, browserClients, killed, session, raced, ghosts>>

\* p is a call under way for a.
Occupied(p, a) == Busy(p) /\ op[p].pc # "loop" /\ op[p].who = a

\* remote() answers; whatever the map holds by now is replaced.
Opened(o) ==
  /\ op[o].pc = "remote"
  /\ \E s \in Sessions :
       /\ session[s] = "none" /\ \A t \in 1..(s - 1) : session[t] # "none"
       /\ session' = [session EXCEPT ![s] = "open"]
       /\ browserClients' = [browserClients EXCEPT ![op[o].who] = s]
       /\ Step(o, Created(o, s))
       /\ opener' = [opener EXCEPT ![s] = op[o].who]
  /\ crossed' = IF \E p \in Calls \ {o} : Occupied(p, op[o].who) THEN crossed \cup {op[o].who} ELSE crossed
  /\ UNCHANGED <<sessionModes, ready, killed, raced>>
NotOpened(o) ==
  /\ op[o].pc = "remote"
  /\ rejects \/ \A s \in Sessions : session[s] # "none"
  /\ Step(o, NotCreated(o))
  /\ UNCHANGED <<sessionModes, ready, browserClients, killed, session, raced, ghosts>>

\* A command resolves or rejects, or first looks for the client again.
UseBrowser(o) ==
  \/ op[o].kind = "once" /\ Step(o, Finish(o, "done"))
  \/ op[o].kind = "again" /\ Step(o, [CreateClient(o, "use") EXCEPT !.kind = IF @ = "again" THEN "once" ELSE @])

\* close(): the last tab ends the session, another is closed.
CloseTab(o) ==
  /\ op[o].kind = "close"
  /\ \/ Step(o, [op[o] EXCEPT !.pc = "end", !.kind = "end"])
     \/ Step(o, Finish(o, "done"))

Used(o) ==
  /\ op[o].pc = "use"
  /\ \/ UseBrowser(o) \/ CloseTab(o)
     \/ op[o].kind = "emulate" /\ Step(o, [op[o] EXCEPT !.pc = "drop"])
  /\ UNCHANGED <<sessionModes, ready, browserClients, killed, session, raced, ghosts>>

\* Mutant: the session is forgotten without being deleted.
Dropped_Open(o) ==
  /\ op[o].pc = "drop"
  /\ Step(o, [op[o] EXCEPT !.pc = "redo", !.client = 0])
  /\ UNCHANGED <<sessionModes, ready, browserClients, killed, session, raced, ghosts>>

\* emulateDevice(): deletes the session, forgets it and creates another.
Dropped(o) ==
  /\ op[o].pc = "drop"
  /\ \/ /\ session[op[o].client] = "open"
        /\ session' = [session EXCEPT ![op[o].client] = "closed"]
        /\ Step(o, [op[o] EXCEPT !.pc = "redo", !.client = 0])
     \/ /\ Rejecting(op[o].client)
        /\ Step(o, Finish(o, "failed")) /\ UNCHANGED session
  /\ UNCHANGED <<sessionModes, ready, browserClients, killed, raced, ghosts>>
Emulate(o) ==
  /\ op[o].pc = "redo"
  /\ LET r == [CreateClient(o, "done") EXCEPT !.client = 0]
     IN Forgotten(o, r) /\ Marked(o, r)
  /\ UNCHANGED <<sessionModes, ready, killed, session, raced, ghosts>>

\* end(): nothing to do without a session, else alertDismiss() creates a client,
\* twice, to find the alert; all of it may fail.
Ending(o) ==
  /\ op[o].pc = "end" /\ ready
  /\ LET s == browserClients[op[o].who]
         r == [op[o] EXCEPT !.client = s]
     IN Step(o, IF s = 0 THEN Finish(o, "done")
                ELSE IF killed THEN [r EXCEPT !.pc = "delete"]
                ELSE [r EXCEPT !.pc = "create", !.then = "delete"])
  /\ UNCHANGED <<sessionModes, ready, browserClients, killed, session, raced, ghosts>>

\* The session of the map is not this end()'s any more: both are deleted, errors ignored.
DeleteBoth(o) ==
  LET both == {op[o].client, browserClients[op[o].who]} \ {0}
  IN /\ session' \in [Sessions -> {"none", "open", "closed"}]
     /\ \A s \in Sessions :
          IF s \in both /\ session[s] = "open"
          THEN session'[s] = "closed" \/ (rejects /\ session'[s] = "open")
          ELSE session'[s] = session[s]
     /\ Step(o, [op[o] EXCEPT !.pc = "forget"])

DeleteSession(o) ==
  /\ op[o].pc = "delete"
  /\ IF browserClients[op[o].who] # op[o].client THEN DeleteBoth(o)
     ELSE \/ /\ session[op[o].client] = "open"
             /\ session' = [session EXCEPT ![op[o].client] = "closed"]
             /\ Step(o, [op[o] EXCEPT !.pc = "forget"])
          \/ /\ Rejecting(op[o].client)
             /\ Step(o, Finish(o, "failed")) /\ UNCHANGED session
  /\ UNCHANGED <<sessionModes, ready, browserClients, killed, raced, ghosts>>

\* After the delay of delayAfterSessionClose.
Forget(o) ==
  /\ op[o].pc = "forget"
  /\ Forgotten(o, Finish(o, "done"))
  /\ Marked(o, Finish(o, "done"))
  /\ UNCHANGED <<sessionModes, ready, killed, session, raced, ghosts>>

\* kill(): the flag first, then the sessions one after the other.
KillPlugin ==
  /\ op[KillOp].pc = "idle"
  /\ killed' = TRUE
  /\ raced' = {o \in Calls : op[o].pc \in {"create", "remote"}}
  /\ Step(KillOp, [op[KillOp] EXCEPT !.pc = "loop"])
  /\ UNCHANGED <<sessionModes, ready, browserClients, session, ghosts>>

\* closeExpiredClients(), from the interval of checkClientsTimeout(): ends a session
\* that is overdue.
CheckTimeout(o) ==
  /\ op[o].pc = "idle"
  /\ \E a \in SessionUsers :
       /\ browserClients[a] # 0
       /\ Step(o, [op[o] EXCEPT !.pc = "end", !.who = a, !.kind = "expire"])
  /\ UNCHANGED <<sessionModes, ready, browserClients, killed, session, raced, ghosts>>

\* It goes over the live map; what it ended before is in visited.
NextApplicant(o) ==
  /\ o = KillOp /\ op[o].pc = "loop"
  /\ \E a \in SessionUsers :
       /\ browserClients[a] # 0 /\ a \notin op[o].visited
       /\ Step(o, [op[o] EXCEPT !.pc = "end", !.who = a, !.visited = @ \cup {a}])
  /\ UNCHANGED <<sessionModes, ready, browserClients, killed, session, raced, ghosts>>
LoopOver(o) ==
  /\ o = KillOp /\ op[o].pc = "loop"
  /\ \A a \in SessionUsers : browserClients[a] # 0 => a \in op[o].visited
  /\ Step(o, Ended("done"))
  /\ session' = IF localServer
                THEN [s \in Sessions |-> IF session[s] = "open" THEN "closed" ELSE session[s]]
                ELSE session
  /\ UNCHANGED <<sessionModes, ready, browserClients, killed, raced, ghosts>>

CallStep(o) ==
  \/ LookUp(o) \/ Opened(o) \/ NotOpened(o) \/ Used(o) \/ Dropped(o) \/ Emulate(o)
  \/ Ending(o) \/ DeleteSession(o) \/ Forget(o) \/ NextApplicant(o) \/ LoopOver(o)

\* The server answers.
SessionsProgress == ServerReady \/ \E o \in Calls : CallStep(o)

SessionsNext == SessionsProgress \/ KillPlugin \/ \E o \in Ops : CallPlugin(o) \/ CheckTimeout(o)

SessionsSpec == SessionsInit /\ [][SessionsNext]_sessionVars
FairSessionsSpec == SessionsSpec /\ WF_sessionVars(SessionsProgress)

-----------------------------------------------------------------------------
(* What the plugin promises                                                *)

\* No session is lost, expiry checks, end() and kill() or not, unless one was opened
\* beside another call for the same applicant: what is open at the server is in the
\* map under the applicant that it was opened for, so that end() and kill() find it.
\* (An end() that overlaps a new session of its applicant forgets it.)
SessionsKept ==
  ~rejects =>
    \A s \in Sessions :
      session[s] = "open" /\ opener[s] \notin crossed => browserClients[opener[s]] = s

\* After kill() only those sessions are open whose creation was under way when it
\* began, and those of applicants for whom one was opened beside another call.
NoSessionLeft ==
  op[KillOp].pc = "done" /\ ~rejects =>
    Cardinality({s \in Sessions : session[s] = "open" /\ opener[s] \notin crossed}) <= Cardinality(raced)

\* In the end no call is under way, kill() included (every call is made once).
SessionsQuiet == \A o \in Calls : ~Busy(o)
CallsEnd == <>[]SessionsQuiet
=============================================================================
