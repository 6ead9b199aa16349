---------------------------- MODULE DirectTransport ----------------------------
(***************************************************************************)
(* core/transport: the main process sends messages to its children by id   *)
(* and waits for the acknowledgement of each; a child handles a message    *)
(* and acknowledges it.                                                    *)
(* A child that exits is taken out of the registry and its pending sends   *)
(* are resolved, recognised by the beginning of their uid.                 *)
(*                                                                         *)
(* The processes and their pipes are external.  A message written to a     *)
(* child that has just ended fails, before or after the exit event, or is  *)
(* lost without an error.  Ids are those of registerChild(); one that has  *)
(* exited may be registered again.                                         *)
(***************************************************************************)
EXTENDS Naturals, Sequences, FiniteSets

CONSTANTS
  Procs,           \* the ids
  Prefix,          \* <<p, q>>: the id q begins with p (p itself apart)
  Sends,           \* the calls of send(), each once
  MaxStarts        \* bound on the processes started under each id

ASSUME TransportAssumption == Prefix \subseteq Procs \X Procs /\ MaxStarts \in [Procs -> Nat]

VARIABLES
  childRegistry,
  proc,              \* the process under every id
  starts,            \* processes started so far under every id
  responseHandlers,  \* the sends that wait
  msg                \* the messages

transportVars == <<childRegistry, proc, starts, responseHandlers, msg>>

\* exit: the event has not been handled yet.  at: where the message is; run: the
\* process it was written to; handled: its listeners have run.
TransportTypeOK ==
  /\ childRegistry \subseteq Procs /\ proc \in [Procs -> {"none", "alive", "exit"}]
  /\ (\A p \in Procs : starts[p] \in 0..MaxStarts[p]) /\ responseHandlers \subseteq Sends
  /\ msg \in [Sends -> [at : {"new", "pipe", "acked", "error", "gone"}, to : Procs, run : Nat,
                        handled : BOOLEAN, settled : {"no", "ok", "error"}, freed : BOOLEAN]]

TransportInit ==
  /\ childRegistry = {} /\ responseHandlers = {}
  /\ proc = [p \in Procs |-> "none"] /\ starts = [p \in Procs |-> 0]
  /\ \E to \in [Sends -> Procs] :
       msg = [m \in Sends |-> [at |-> "new", to |-> to[m], run |-> 0, handled |-> FALSE,
                               settled |-> "no", freed |-> FALSE]]

-----------------------------------------------------------------------------
\* registerChild(): an id that is registered throws, and its process is not heard.
RegisterChild(p) ==
  /\ proc[p] = "none" /\ starts[p] < MaxStarts[p] /\ p \notin childRegistry
  /\ childRegistry' = childRegistry \cup {p}
  /\ proc' = [proc EXCEPT ![p] = "alive"] /\ starts' = [starts EXCEPT ![p] = @ + 1]
  /\ UNCHANGED <<responseHandlers, msg>>

\* send(): rejects without a registered process, else writes and waits.
SendDirect(m) ==
  LET p == msg[m].to IN
  /\ msg[m].at = "new"
  /\ IF p \notin childRegistry
     THEN msg' = [msg EXCEPT ![m] = [@ EXCEPT !.at = "gone", !.settled = "error"]] /\ UNCHANGED responseHandlers
     ELSE /\ responseHandlers' = responseHandlers \cup {m}
          /\ \E place \in IF proc[p] = "alive" THEN {"pipe"} ELSE {"error", "gone"} :
               msg' = [msg EXCEPT ![m] = [@ EXCEPT !.at = place, !.run = starts[p]]]
  /\ UNCHANGED <<childRegistry, proc, starts>>

Settle(m, how) == [msg EXCEPT ![m].settled = IF @ = "no" THEN how ELSE @]

\* The callback of child.send() reports the error.
SendFailed(m) ==
  /\ msg[m].at = "error"
  /\ responseHandlers' = responseHandlers \ {m}
  /\ msg' = [Settle(m, "error") EXCEPT ![m].at = "gone"]
  /\ UNCHANGED <<childRegistry, proc, starts>>

\* handleRootProcessMessage() of the child: the listeners first, then the response.
HandleMessage(m) ==
  LET p == msg[m].to IN
  /\ msg[m].at = "pipe" /\ proc[p] = "alive" /\ msg[m].run = starts[p]
  /\ msg' = [msg EXCEPT ![m] = [@ EXCEPT !.at = "acked", !.handled = TRUE]]
  /\ UNCHANGED <<childRegistry, proc, starts, responseHandlers>>

\* handleMessageResponse(): the handler removes itself and resolves.
MessageResponse(m) ==
  /\ msg[m].at = "acked"
  /\ responseHandlers' = responseHandlers \ {m}
  /\ msg' = [IF m \in responseHandlers THEN Settle(m, "ok") ELSE msg EXCEPT ![m].at = "gone"]
  /\ UNCHANGED <<childRegistry, proc, starts>>

\* A child ends; what is in its pipe is lost, with an error or without.
ProcessEnds(p) ==
  /\ proc[p] = "alive"
  /\ proc' = [proc EXCEPT ![p] = "exit"]
  /\ \E failed \in SUBSET {m \in Sends : msg[m].at = "pipe" /\ msg[m].to = p} :
       msg' = [m \in Sends |->
                IF msg[m].at = "pipe" /\ msg[m].to = p
                THEN [msg[m] EXCEPT !.at = IF m \in failed THEN "error" ELSE "gone"] ELSE msg[m]]
  /\ UNCHANGED <<childRegistry, starts, responseHandlers>>

\* Mutant: the pending sends are left alone.
OfProcess_None(p) == {}
\* isMessageFromProcess(): the pending sends whose uid begins with the id.
OfProcess(p) == {m \in responseHandlers : msg[m].to = p \/ <<p, msg[m].to>> \in Prefix}

\* handleChildClose().
ChildClosed(p) ==
  /\ proc[p] = "exit"
  /\ proc' = [proc EXCEPT ![p] = "none"]
  /\ childRegistry' = childRegistry \ {p}
  /\ responseHandlers' = responseHandlers \ OfProcess(p)
  /\ msg' = [m \in Sends |-> IF m \in OfProcess(p)
                             THEN [msg[m] EXCEPT !.settled = IF @ = "no" THEN "ok" ELSE @,
                                                 !.freed = IF msg[m].to = p THEN @ ELSE TRUE]
                             ELSE msg[m]]
  /\ UNCHANGED <<starts>>

\* Children handle what they get, their exits and errors are reported.
TransportProgress ==
  \/ \E m \in Sends : SendFailed(m) \/ HandleMessage(m) \/ MessageResponse(m)
  \/ \E p \in Procs : ChildClosed(p)

TransportNext ==
  \/ TransportProgress
  \/ \E m \in Sends : SendDirect(m)
  \/ \E p \in Procs : RegisterChild(p) \/ ProcessEnds(p)

TransportSpec == TransportInit /\ [][TransportNext]_transportVars
FairTransportSpec == TransportSpec /\ WF_transportVars(TransportProgress)

-----------------------------------------------------------------------------
(* What the transport promises                                             *)

\* A send that waits is to a registered process, the one it was written to, and no
\* other is pending: no exit, error or answer in any order leaves a handler behind.
PendingRegistered ==
  /\ \A m \in responseHandlers : msg[m].to \in childRegistry /\ msg[m].run = starts[msg[m].to]
  /\ \A m \in Sends : msg[m].at # "new" => (m \in responseHandlers <=> msg[m].settled = "no")

\* A send has resolved when its message was handled or its process has ended, or one
\* has whose id is the beginning of its process's id.
ResolvedForAReason ==
  \A m \in Sends : msg[m].settled = "ok" =>
    msg[m].handled \/ msg[m].freed \/ proc[msg[m].to] = "none" \/ starts[msg[m].to] > msg[m].run

\* In the end every send has settled.
TransportQuiet == responseHandlers = {} /\ \A p \in Procs : proc[p] # "exit"
=============================================================================
