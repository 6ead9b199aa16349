------------------------------ MODULE ServicesProofs ------------------------------
(***************************************************************************)
(* The HTTP client and server, the web socket, the direct transport and a  *)
(* file object, for any number of requests, messages, sends and calls, any *)
(* failures and connections, and the theorems of the services:             *)
(* MessagesKept, ExecutionKeeps, CodeAndPagesFound, FilesKept.             *)
(*                                                                         *)
(* A step of MCServices is a step of one part, so each part has an         *)
(* inductive invariant of its own and the services have all of them.       *)
(*                                                                         *)
(* HttpRequests: InTurn, of requests in their delay also, rests on the     *)
(* queue of a client having its waiting requests in their order, one of    *)
(* them under way, and no entry while it does not run.                     *)
(*                                                                         *)
(* WsTransport: its two properties are inductive with the types.           *)
(*                                                                         *)
(* DirectTransport: its two properties need Written: the registry has the  *)
(* processes whose exit has not been handled.                              *)
(*                                                                         *)
(* FSStoreFile: ServerIs is what the resolver keeps, from its own proofs;  *)
(* RequestIs and FileCallIs tie what the server has for an id to what the  *)
(* client was told of it and to the place of the call that asked; the ids  *)
(* that the object keeps are known to it (KnownIds).  AccessIsMine needs   *)
(* AccessFreed: what a call releases is its own access, and nobody else    *)
(* is at work meanwhile.  OneTransaction needs OneActive: between two      *)
(* transactions the flag is down, and only the one woken may come.         *)
(*                                                                         *)
(* The execution of tests, the devtool, the sandboxes and the logger have  *)
(* their invariants in ExecutionProofs.                                    *)
(***************************************************************************)
EXTENDS MCServices, ExecutionProofs, TLAPS

-----------------------------------------------------------------------------
(* DirectTransport                                                         *)

\* The types, for any number of starts.
TransportTyped ==
  /\ childRegistry \subseteq Procs /\ responseHandlers \subseteq Sends
  /\ proc \in [Procs -> {"none", "alive", "exit"}] /\ starts \in [Procs -> Nat]
  /\ msg \in [Sends -> [at : {"new", "pipe", "acked", "error", "gone"}, to : Procs, run : Nat,
                        handled : BOOLEAN, settled : {"no", "ok", "error"}, freed : BOOLEAN]]

\* The registry holds the processes whose exit has not been handled; a message was written
\* to a process started under its id, and one that is acknowledged has been handled.
Written ==
  /\ \A p \in Procs : p \in childRegistry <=> proc[p] # "none"
  /\ \A m \in Sends :
       /\ msg[m].run <= starts[msg[m].to]
       /\ msg[m].at = "acked" => msg[m].handled
       /\ msg[m].at = "new" => msg[m].settled = "no" /\ m \notin responseHandlers

\* The inductive invariant of the transport.
TransportInv == TransportTyped /\ Written /\ PendingRegistered /\ ResolvedForAReason

\* It holds at the start.
LEMMA TransportStarts == TransportInit => TransportInv
<1> SUFFICES ASSUME TransportInit PROVE TransportInv
  OBVIOUS
<1>1. /\ childRegistry = {} /\ responseHandlers = {}
      /\ proc = [p \in Procs |-> "none"] /\ starts = [p \in Procs |-> 0]
  BY DEF TransportInit
<1>2. PICK to \in [Sends -> Procs] :
        msg = [m \in Sends |-> [at |-> "new", to |-> to[m], run |-> 0, handled |-> FALSE,
                                settled |-> "no", freed |-> FALSE]]
  BY DEF TransportInit
<1>3. TransportTyped
  BY <1>1, <1>2 DEF TransportTyped
<1> QED
  BY <1>1, <1>2, <1>3 DEF TransportInv, Written, PendingRegistered, ResolvedForAReason

\* Every step keeps it: sends, their failures and answers, registrations and exits.
LEMMA TransportSteps == TransportInv /\ [TransportNext]_transportVars => TransportInv'
<1> SUFFICES ASSUME TransportInv, [TransportNext]_transportVars PROVE TransportInv'
  OBVIOUS
<1> USE DEF TransportInv, TransportTyped, Written, PendingRegistered, ResolvedForAReason
<1>1. ASSUME NEW m \in Sends, SendDirect(m) PROVE TransportInv'
  <2> DEFINE p == msg[m].to
             M == [at : {"new", "pipe", "acked", "error", "gone"}, to : Procs, run : Nat,
                   handled : BOOLEAN, settled : {"no", "ok", "error"}, freed : BOOLEAN]
  <2>1. msg[m] \in M /\ p \in Procs /\ starts[p] \in Nat
    OBVIOUS
  <2>2. CASE p \notin childRegistry
    <3> DEFINE w == [msg[m] EXCEPT !.at = "gone", !.settled = "error"]
    <3>1. /\ w \in M /\ w.to = p /\ w.at = "gone" /\ w.settled = "error"
          /\ w.run = msg[m].run /\ w.handled = msg[m].handled
      BY <2>1
    <3>2. /\ msg' = [msg EXCEPT ![m] = w]
          /\ UNCHANGED <<childRegistry, proc, starts, responseHandlers>>
      BY <1>1, <2>2 DEF SendDirect
    <3> HIDE DEF w, M
    <3> QED
      BY <1>1, <2>1, <2>2, <3>1, <3>2 DEF SendDirect, M
  <2>3. CASE p \in childRegistry
    <3>1. PICK place \in {"pipe", "error", "gone"} :
            msg' = [msg EXCEPT ![m] = [@ EXCEPT !.at = place, !.run = starts[p]]]
      BY <1>1, <2>3 DEF SendDirect
    <3> DEFINE w == [msg[m] EXCEPT !.at = place, !.run = starts[p]]
    <3>2. /\ w \in M /\ w.to = p /\ w.at = place /\ w.settled = msg[m].settled
          /\ w.run = starts[p]
      BY <2>1
    <3>3. /\ msg' = [msg EXCEPT ![m] = w] /\ responseHandlers' = responseHandlers \cup {m}
          /\ UNCHANGED <<childRegistry, proc, starts>>
      BY <1>1, <2>3, <3>1 DEF SendDirect
    <3>4. msg[m].at = "new" /\ msg[m].settled = "no"
      BY <1>1 DEF SendDirect
    <3> HIDE DEF w, M
    <3>5. msg' \in [Sends -> M] /\ msg'[m] = w /\ \A n \in Sends \ {m} : msg'[n] = msg[n]
      BY <3>2, <3>3 DEF M
    <3>6. TransportTyped'
      BY <3>3, <3>5 DEF M
    <3>7. Written'
      BY <2>1, <3>2, <3>3, <3>4, <3>5
    <3>8. PendingRegistered'
      BY <2>1, <2>3, <3>2, <3>3, <3>4, <3>5
    <3>9. ResolvedForAReason'
      BY <2>1, <2>3, <3>2, <3>3, <3>4, <3>5
    <3> QED
      BY <3>6, <3>7, <3>8, <3>9
  <2> QED
    BY <2>2, <2>3
<1>2. ASSUME NEW m \in Sends, SendFailed(m) PROVE TransportInv'
  BY <1>2 DEF SendFailed, Settle
<1>3. ASSUME NEW m \in Sends, HandleMessage(m) PROVE TransportInv'
  <2> DEFINE w == [msg[m] EXCEPT !.at = "acked", !.handled = TRUE]
  <2>1. msg[m].at = "pipe" /\ msg' = [msg EXCEPT ![m] = w]
    BY <1>3 DEF HandleMessage
  <2>2. /\ w.to = msg[m].to /\ w.at = "acked" /\ w.settled = msg[m].settled /\ w.run = msg[m].run
        /\ w.handled = TRUE /\ w.freed = msg[m].freed
        /\ w \in [at : {"new", "pipe", "acked", "error", "gone"}, to : Procs, run : Nat,
                   handled : BOOLEAN, settled : {"no", "ok", "error"}, freed : BOOLEAN]
    OBVIOUS
  <2> HIDE DEF w
  <2> QED
    BY <1>3, <2>1, <2>2 DEF HandleMessage
<1>4. ASSUME NEW m \in Sends, MessageResponse(m) PROVE TransportInv'
  BY <1>4 DEF MessageResponse, Settle
<1>5. ASSUME NEW p \in Procs, RegisterChild(p) PROVE TransportInv'
  BY <1>5 DEF RegisterChild
<1>6. ASSUME NEW p \in Procs, ProcessEnds(p) PROVE TransportInv'
  BY <1>6 DEF ProcessEnds
<1>7. ASSUME NEW p \in Procs, ChildClosed(p) PROVE TransportInv'
  <2> DEFINE M == [at : {"new", "pipe", "acked", "error", "gone"}, to : Procs, run : Nat,
                   handled : BOOLEAN, settled : {"no", "ok", "error"}, freed : BOOLEAN]
             how(m) == IF msg[m].settled = "no" THEN "ok" ELSE msg[m].settled
             off(m) == IF msg[m].to = p THEN msg[m].freed ELSE TRUE
             w(m) == [msg[m] EXCEPT !.settled = how(m), !.freed = off(m)]
  <2>1. /\ msg' = [m \in Sends |-> IF m \in OfProcess(p) THEN w(m) ELSE msg[m]]
        /\ proc[p] = "exit" /\ proc' = [proc EXCEPT ![p] = "none"] /\ starts' = starts
        /\ childRegistry' = childRegistry \ {p} /\ responseHandlers' = responseHandlers \ OfProcess(p)
    BY <1>7 DEF ChildClosed
  <2>2. ASSUME NEW m \in Sends
        PROVE  /\ w(m) \in M /\ w(m).at = msg[m].at /\ w(m).to = msg[m].to /\ w(m).run = msg[m].run
               /\ w(m).handled = msg[m].handled
               /\ w(m).settled = how(m) /\ w(m).freed = off(m) /\ msg[m] \in M
    <3>1. msg[m] \in M
      OBVIOUS
    <3>2. how(m) \in {"no", "ok", "error"}
      BY <3>1
    <3>3. off(m) \in BOOLEAN
      BY <3>1
    <3> HIDE DEF how, off
    <3> QED
      BY <3>1, <3>2, <3>3
  <2> HIDE DEF w, M
  <2>3. msg' \in [Sends -> M]
    BY <2>1, <2>2
  <2>4. ASSUME NEW m \in Sends
        PROVE  /\ msg'[m].at = msg[m].at /\ msg'[m].to = msg[m].to
               /\ msg'[m].run = msg[m].run /\ msg'[m].handled = msg[m].handled
               /\ m \in OfProcess(p) => msg'[m].settled = how(m) /\ msg'[m].freed = off(m)
               /\ m \notin OfProcess(p) => msg'[m] = msg[m]
    BY <2>1, <2>2
  <2>5. TransportTyped'
    BY <2>1, <2>3 DEF M
  <2>6. Written'
    <3>1. \A q \in Procs : q \in childRegistry' <=> proc'[q] # "none"
      BY <2>1
    <3>2. ASSUME NEW m \in Sends
          PROVE  /\ msg'[m].run <= starts'[msg'[m].to]
                 /\ msg'[m].at = "acked" => msg'[m].handled
                 /\ msg'[m].at = "new" => msg'[m].settled = "no" /\ m \notin responseHandlers'
      BY <2>1, <2>4 DEF OfProcess
    <3> QED
      BY <3>1, <3>2
  <2>7. PendingRegistered'
    BY <2>1, <2>4 DEF OfProcess
  <2>8. ResolvedForAReason'
    <3> SUFFICES ASSUME NEW m \in Sends, msg'[m].settled = "ok"
                 PROVE  \/ msg'[m].handled \/ msg'[m].freed \/ proc'[msg'[m].to] = "none"
                        \/ starts'[msg'[m].to] > msg'[m].run
      OBVIOUS
    <3>1. CASE m \in OfProcess(p) /\ msg[m].to = p
      BY <2>1, <2>4, <3>1
    <3>2. CASE m \in OfProcess(p) /\ msg[m].to # p
      BY <2>4, <3>2
    <3>3. CASE m \notin OfProcess(p)
      BY <2>1, <2>4, <3>3
    <3> QED
      BY <3>1, <3>2, <3>3
  <2> QED
    BY <2>5, <2>6, <2>7, <2>8
<1>8. CASE UNCHANGED transportVars
  BY <1>8 DEF transportVars
<1> QED
  BY <1>1, <1>2, <1>3, <1>4, <1>5, <1>6, <1>7, <1>8 DEF TransportNext, TransportProgress

-----------------------------------------------------------------------------
(* WsTransport                                                             *)

\* What is sent now, and what stays.
LEMMA SendableFacts ==
  ASSUME messagesQueue \in Seq(WsMessages)
  PROVE  /\ Sendable \in 0..Len(messagesQueue)
         /\ Sendable < Len(messagesQueue) => messagesQueue[Sendable + 1] \in Cyclic
<1> DEFINE bad == {i \in 1..Len(messagesQueue) : messagesQueue[i] \in Cyclic}
<1>1. CASE bad = {}
  BY <1>1 DEF Sendable
<1>2. CASE bad # {}
  <2>1. bad \in SUBSET Nat
    OBVIOUS
  <2>2. \E i \in bad : \A j \in bad : i <= j
    <3> HIDE DEF bad
    <3> QED
      BY <1>2, <2>1, LeastNumber
  <2>3. PICK i \in bad : Sendable = i - 1
    BY <1>2, <2>2 DEF Sendable
  <2> QED
    BY <2>3
<1> QED
  BY <1>1, <1>2

\* Sending the first of a queue leaves the whole the same.
LEMMA SplitQueue ==
  ASSUME NEW S, NEW s \in Seq(S), NEW q \in Seq(S), NEW k \in 0..Len(q)
  PROVE  /\ SubSeq(q, 1, k) \in Seq(S) /\ SubSeq(q, k + 1, Len(q)) \in Seq(S)
         /\ s \o SubSeq(q, 1, k) \in Seq(S)
         /\ (s \o SubSeq(q, 1, k)) \o SubSeq(q, k + 1, Len(q)) = s \o q
         /\ ToSet(s \o SubSeq(q, 1, k)) = ToSet(s) \cup ToSet(SubSeq(q, 1, k))
         /\ SubSeq(q, k + 1, Len(q)) # <<>> =>
              k < Len(q) /\ Head(SubSeq(q, k + 1, Len(q))) = q[k + 1]
<1> DEFINE a == SubSeq(q, 1, k)
           b == SubSeq(q, k + 1, Len(q))
<1>1. a \in Seq(S) /\ Len(a) = k /\ \A i \in 1..k : a[i] = q[i]
  OBVIOUS
<1>2. b \in Seq(S) /\ Len(b) = Len(q) - k /\ \A i \in 1..Len(b) : b[i] = q[k + i]
  OBVIOUS
<1> HIDE DEF a, b
<1>3. s \o a \in Seq(S) /\ Len(s \o a) = Len(s) + k
  BY <1>1
<1>4. (s \o a) \o b = s \o q
  <2>1. a \o b = q
    <3>1. 1 \in 1..(Len(q) + 1) /\ k \in (1 - 1)..Len(q) /\ Len(q) \in k..Len(q)
      OBVIOUS
    <3>2. a \o b = SubSeq(q, 1, Len(q))
      BY <3>1, ConcatAdjacentSubSeq, Zenon DEF a, b
    <3>3. SubSeq(q, 1, Len(q)) = q
      BY SubSeqFull, Zenon
    <3> QED
      BY <3>2, <3>3
  <2>2. (s \o a) \o b = s \o (a \o b)
    BY <1>1, <1>2, ConcatAssociative
  <2> QED
    BY <2>1, <2>2
<1>5. ToSet(s \o a) = ToSet(s) \cup ToSet(a)
  <2>1. DOMAIN (s \o a) = 1..(Len(s) + k) /\ DOMAIN s = 1..Len(s) /\ DOMAIN a = 1..k
    BY <1>1, <1>3
  <2>2. \A i \in 1..(Len(s) + k) : (s \o a)[i] = IF i <= Len(s) THEN s[i] ELSE a[i - Len(s)]
    BY <1>1, ConcatProperties
  <2>3. \A i \in 1..Len(s) : i \in 1..(Len(s) + k) /\ (s \o a)[i] = s[i]
    BY <2>2
  <2>4. \A i \in 1..k : Len(s) + i \in 1..(Len(s) + k) /\ (s \o a)[Len(s) + i] = a[i]
    <3> SUFFICES ASSUME NEW i \in 1..k
                 PROVE  Len(s) + i \in 1..(Len(s) + k) /\ (s \o a)[Len(s) + i] = a[i]
      OBVIOUS
    <3>1. Len(s) + i \in 1..(Len(s) + k) /\ ~(Len(s) + i <= Len(s)) /\ (Len(s) + i) - Len(s) = i
      OBVIOUS
    <3> QED
      BY <2>2, <3>1
  <2>5. \A i \in 1..(Len(s) + k) : i \in 1..Len(s) \/ (i - Len(s) \in 1..k /\ i > Len(s))
    OBVIOUS
  <2>6. \A e \in ToSet(s \o a) : e \in ToSet(s) \cup ToSet(a)
    BY <2>1, <2>2, <2>5 DEF ToSet
  <2>7. \A e \in ToSet(s) \cup ToSet(a) : e \in ToSet(s \o a)
    BY <2>1, <2>3, <2>4 DEF ToSet
  <2> QED
    BY <2>6, <2>7
<1>6. b # <<>> => k < Len(q) /\ Head(b) = q[k + 1]
  BY <1>2
<1> QED
  BY <1>1, <1>2, <1>3, <1>4, <1>5, <1>6 DEF a, b

\* What the queue's proof needs of the types.
WsTyped ==
  /\ connection \in 0..MaxConnections
  /\ socket \in [Sockets -> {"none", "connecting", "open", "failing", "closing", "closed"}]
  /\ messagesQueue \in Seq(WsMessages) /\ sent \in Seq(WsMessages) /\ wanted \in Seq(WsMessages)

\* The inductive invariant of the web socket.
WsInv == WsTyped /\ WsInOrder /\ OneSocket

\* The elements of a sequence to which one is appended.
LEMMA PushSet ==
  ASSUME NEW S, NEW s \in Seq(S), NEW e \in S
  PROVE  ToSet(Append(s, e)) = ToSet(s) \cup {e}
<1>1. /\ DOMAIN s = 1..Len(s) /\ Len(s) \in Nat /\ DOMAIN Append(s, e) = 1..(Len(s) + 1)
      /\ \A i \in DOMAIN s : Append(s, e)[i] = s[i]
      /\ Append(s, e)[Len(s) + 1] = e
  BY PushFacts
<1>2. \A i \in 1..(Len(s) + 1) : i \in 1..Len(s) \/ i = Len(s) + 1
  BY <1>1
<1>3. Len(s) + 1 \in 1..(Len(s) + 1) /\ \A i \in 1..Len(s) : i \in 1..(Len(s) + 1)
  BY <1>1
<1> QED
  BY <1>1, <1>2, <1>3 DEF ToSet

\* Appending to a queue is appending to all that has been sent and waits.
LEMMA PushBehind ==
  ASSUME NEW S, NEW s \in Seq(S), NEW q \in Seq(S), NEW e \in S
  PROVE  s \o Append(q, e) = Append(s \o q, e)
<1> DEFINE one == <<e>>
<1>1. one \in Seq(S) /\ s \o q \in Seq(S)
  OBVIOUS
<1>2. Append(q, e) = q \o one /\ Append(s \o q, e) = (s \o q) \o one
  BY <1>1, AppendIsConcat
<1> HIDE DEF one
<1>3. (s \o q) \o one = s \o (q \o one)
  BY <1>1, ConcatAssociative
<1> QED
  BY <1>2, <1>3

\* It holds at the start.
LEMMA WsStarts == WsInit => WsInv
<1> SUFFICES ASSUME WsInit PROVE WsInv
  OBVIOUS
<1>1. <<>> \in Seq(WsMessages) /\ <<>> \o <<>> = <<>> /\ ToSet(<<>>) = {}
  BY DEF ToSet
<1>2. WsTyped /\ OneSocket
  BY <1>1, WsAssumption DEF WsInit, WsTyped, OneSocket, Sockets
<1>3. WsInOrder
  BY <1>1 DEF WsInit, WsInOrder
<1> QED
  BY <1>2, <1>3 DEF WsInv

\* close() of the socket in use leaves none open or connecting.
LEMMA DisconnectedFacts ==
  ASSUME WsTyped, NEW states \in [Sockets -> {"none", "connecting", "open", "failing", "closing", "closed"}],
         \A s \in Sockets : states[s] \in {"connecting", "open"} => s = connection
  PROVE  /\ Disconnected(states) \in
              [Sockets -> {"none", "connecting", "open", "failing", "closing", "closed"}]
         /\ \A s \in Sockets : Disconnected(states)[s] \notin {"connecting", "open"}
BY DEF Disconnected, WsTyped, Sockets

\* Another socket becomes the one in use.
LEMMA ConnectsFacts ==
  ASSUME WsTyped, NEW states \in [Sockets -> {"none", "connecting", "open", "failing", "closing", "closed"}],
         \A s \in Sockets : states[s] \in {"connecting", "open"} => s = connection,
         Connects(states)
  PROVE  /\ connection' \in 0..MaxConnections /\ ~getConnectionStatus'
         /\ socket' \in [Sockets -> {"none", "connecting", "open", "failing", "closing", "closed"}]
         /\ OneSocket'
<1>1. PICK s \in Sockets : /\ socket' = [Disconnected(states) EXCEPT ![s] = "connecting"]
                           /\ connection' = s
  BY DEF Connects
<1> QED
  BY <1>1, DisconnectedFacts, WsAssumption DEF OneSocket, getConnectionStatus, Sockets

\* Every step keeps it: connects and disconnects, the socket's events, sends.
LEMMA WsSteps == WsInv /\ [WsNext]_wsVars => WsInv'
<1> SUFFICES ASSUME WsInv, [WsNext]_wsVars PROVE WsInv'
  OBVIOUS
<1>1. ASSUME UNCHANGED <<messagesQueue, sent, wanted, resolved>>,
             connection' \in 0..MaxConnections,
             socket' \in [Sockets -> {"none", "connecting", "open", "failing", "closing", "closed"}],
             OneSocket', getConnectionStatus' => getConnectionStatus
      PROVE  WsInv'
  BY <1>1 DEF WsInv, WsTyped, WsInOrder
<1>2. ASSUME Connect PROVE WsInv'
  BY <1>1, <1>2, ConnectsFacts DEF Connect, WsInv, WsTyped, OneSocket
<1>3. ASSUME Disconnect PROVE WsInv'
  <2>1. /\ UNCHANGED <<messagesQueue, sent, wanted, resolved, connection>>
        /\ socket' = Disconnected(socket) /\ connection \in Sockets
    BY <1>3 DEF Disconnect, WsInv, WsTyped, Sockets
  <2>2. /\ Disconnected(socket) \in
              [Sockets -> {"none", "connecting", "open", "failing", "closing", "closed"}]
        /\ \A s \in Sockets : Disconnected(socket)[s] \notin {"connecting", "open"}
    BY DisconnectedFacts DEF WsInv, WsTyped, OneSocket
  <2>3. OneSocket' /\ ~getConnectionStatus'
    BY <2>1, <2>2 DEF OneSocket, getConnectionStatus
  <2> QED
    BY <1>1, <2>1, <2>2, <2>3 DEF WsInv, WsTyped
<1>4. ASSUME HandshakeResponse PROVE WsInv'
  BY <1>1, <1>4 DEF HandshakeResponse, WsInv, WsTyped, OneSocket, getConnectionStatus
<1>5. ASSUME NEW s \in Sockets, SocketFails(s) PROVE WsInv'
  <2> DEFINE failed == [socket EXCEPT ![s] = "closed"]
  <2>1. /\ failed \in [Sockets -> {"none", "connecting", "open", "failing", "closing", "closed"}]
        /\ \A t \in Sockets : failed[t] \in {"connecting", "open"} => t = connection
    BY DEF WsInv, WsTyped, OneSocket
  <2>2. /\ UNCHANGED <<messagesQueue, sent, wanted, resolved>>
        /\ Connects(failed) \/ (socket' = failed /\ UNCHANGED connection)
    BY <1>5 DEF SocketFails
  <2>3. CASE Connects(failed)
    <3> HIDE DEF failed
    <3> QED
      BY <1>1, <2>1, <2>2, <2>3, ConnectsFacts DEF WsInv
  <2>4. CASE socket' = failed /\ UNCHANGED connection
    <3>1. getConnectionStatus' => getConnectionStatus
      BY <2>4 DEF getConnectionStatus, WsInv, WsTyped, Sockets
    <3> QED
      BY <1>1, <2>1, <2>2, <2>4, <3>1 DEF WsInv, WsTyped, OneSocket
  <2> QED
    BY <2>2, <2>3, <2>4
<1>6. ASSUME NEW s \in Sockets, SocketCloses(s) PROVE WsInv'
  BY <1>1, <1>6 DEF SocketCloses, WsInv, WsTyped, OneSocket, getConnectionStatus, Sockets
<1>7. ASSUME NEW m \in WsMessages, Send(m) PROVE WsInv'
  <2>1. /\ wanted' = Append(wanted, m) /\ UNCHANGED <<connection, socket>>
        /\ \/ /\ Overtakes(m) /\ sent' = Append(sent, m) /\ resolved' = resolved \cup {m}
              /\ UNCHANGED messagesQueue
           \/ /\ ~Overtakes(m) /\ messagesQueue' = Append(messagesQueue, m)
              /\ UNCHANGED <<sent, resolved>>
    BY <1>7 DEF Send
  <2>2. OneSocket' /\ getConnectionStatus' = getConnectionStatus
    BY <2>1 DEF OneSocket, getConnectionStatus, WsInv
  <2>3. CASE Overtakes(m) /\ sent' = Append(sent, m) /\ resolved' = resolved \cup {m}
             /\ UNCHANGED messagesQueue
    <3>1. messagesQueue = <<>>
      BY <2>3 DEF Overtakes
    <3>2. wanted = sent /\ wanted' = sent' /\ sent' \in Seq(WsMessages)
      BY <2>1, <2>3, <3>1 DEF WsInv, WsInOrder, WsTyped
    <3>3. ToSet(sent') = ToSet(sent) \cup {m}
      BY <2>3, PushSet DEF WsInv, WsTyped
    <3>4. sent' \o messagesQueue' = sent'
      BY <2>3, <3>1, <3>2, ConcatEmptySeq
    <3> QED
      BY <2>1, <2>2, <2>3, <3>1, <3>2, <3>3, <3>4 DEF WsInv, WsTyped, WsInOrder
  <2>4. CASE ~Overtakes(m) /\ messagesQueue' = Append(messagesQueue, m) /\ UNCHANGED <<sent, resolved>>
    <3>1. sent' \o messagesQueue' = wanted'
      <4>1. sent \in Seq(WsMessages) /\ messagesQueue \in Seq(WsMessages) /\ m \in WsMessages
        BY <1>7 DEF WsInv, WsTyped
      <4>2. sent \o Append(messagesQueue, m) = Append(sent \o messagesQueue, m)
        BY <4>1, PushBehind
      <4>3. sent \o messagesQueue = wanted
        BY DEF WsInv, WsInOrder
      <4> QED
        BY <2>1, <2>4, <4>2, <4>3
    <3>2. messagesQueue' \in Seq(WsMessages) /\ wanted' \in Seq(WsMessages)
      BY <2>1, <2>4 DEF WsInv, WsTyped
    <3>3. getConnectionStatus => Head(messagesQueue') \in Cyclic
      <4>1. CASE messagesQueue = <<>>
        BY <2>4, <4>1 DEF Overtakes, WsSend
      <4>2. CASE messagesQueue # <<>>
        BY <2>4, <4>2 DEF WsInv, WsInOrder, WsTyped
      <4> QED
        BY <4>1, <4>2
    <3> QED
      BY <2>1, <2>2, <2>4, <3>1, <3>2, <3>3 DEF WsInv, WsTyped, WsInOrder
  <2> QED
    BY <2>1, <2>3, <2>4
<1>8. ASSUME NEW s \in Sockets, SocketOpens(s) PROVE WsInv'
  <2> DEFINE k == Sendable
             n == Len(messagesQueue)
             now == SubSeq(messagesQueue, 1, k)
             later == SubSeq(messagesQueue, k + 1, n)
  <2>1. /\ socket' = [socket EXCEPT ![s] = "open"] /\ UNCHANGED <<connection, wanted>>
        /\ sent' = sent \o now /\ resolved' = resolved \cup ToSet(now) /\ messagesQueue' = later
        /\ socket[s] = "connecting"
    BY <1>8 DEF SocketOpens
  <2>2. k \in 0..n /\ (k < n => messagesQueue[k + 1] \in Cyclic)
    BY SendableFacts DEF WsInv, WsTyped
  <2>3. /\ now \in Seq(WsMessages) /\ later \in Seq(WsMessages) /\ sent \o now \in Seq(WsMessages)
        /\ (sent \o now) \o later = sent \o messagesQueue
        /\ ToSet(sent \o now) = ToSet(sent) \cup ToSet(now)
        /\ later # <<>> => k < n /\ Head(later) = messagesQueue[k + 1]
    <3> HIDE DEF k
    <3>1. messagesQueue \in Seq(WsMessages) /\ sent \in Seq(WsMessages) /\ k \in 0..Len(messagesQueue)
      BY <2>2 DEF WsInv, WsTyped
    <3> DEFINE q == messagesQueue
               s0 == sent
    <3> HIDE DEF q, s0
    <3>2. q \in Seq(WsMessages) /\ s0 \in Seq(WsMessages) /\ k \in 0..Len(q)
      BY <3>1 DEF q, s0
    <3>3. /\ SubSeq(q, 1, k) \in Seq(WsMessages) /\ SubSeq(q, k + 1, Len(q)) \in Seq(WsMessages)
          /\ s0 \o SubSeq(q, 1, k) \in Seq(WsMessages)
          /\ (s0 \o SubSeq(q, 1, k)) \o SubSeq(q, k + 1, Len(q)) = s0 \o q
          /\ ToSet(s0 \o SubSeq(q, 1, k)) = ToSet(s0) \cup ToSet(SubSeq(q, 1, k))
          /\ SubSeq(q, k + 1, Len(q)) # <<>> =>
               k < Len(q) /\ Head(SubSeq(q, k + 1, Len(q))) = q[k + 1]
      BY <3>2, SplitQueue
    <3> QED
      BY <3>3 DEF q, s0
  <2> HIDE DEF now, later, k, n
  <2> QED
    BY <2>1, <2>2, <2>3 DEF WsInv, WsTyped, WsInOrder, OneSocket
<1>9. CASE UNCHANGED wsVars
  BY <1>1, <1>9 DEF wsVars, WsInv, WsTyped, OneSocket, getConnectionStatus
<1> QED
  BY <1>2, <1>3, <1>4, <1>5, <1>6, <1>7, <1>8, <1>9 DEF WsNext

-----------------------------------------------------------------------------
(* HttpRequests                                                            *)

\* The places of a request that its client has started.
Underway == {"sent", "hooked", "made", "refused", "dropped", "response", "reject", "delay"}

\* The records of requests.
RequestSet ==
  [at : {"new", "queued", "sent", "hooked", "made", "refused", "dropped",
         "response", "reject", "delay", "over"},
   cookies : SUBSET Requests, settled : {"no", "ok", "error"}]

HttpTyped ==
  /\ requestQueue \in [HttpClients -> Seq(Requests)] /\ queueRunning \in [HttpClients -> BOOLEAN]
  /\ req \in [Requests -> RequestSet] /\ pushed \in Seq(Requests) /\ jar \subseteq Requests

\* The requests made are those pushed, each once.
PushedOnce ==
  /\ \A i, j \in 1..Len(pushed) : pushed[i] = pushed[j] => i = j
  /\ \A r \in Requests : req[r].at # "new" <=> \E i \in 1..Len(pushed) : pushed[i] = r

\* A client's queue holds its requests that wait, in the order in which they were made.
InQueue ==
  /\ \A c \in HttpClients : \A i \in 1..Len(requestQueue[c]) :
       /\ ClientOf[requestQueue[c][i]] = c /\ req[requestQueue[c][i]].at = "queued"
       /\ \A j \in 1..Len(requestQueue[c]) : i < j => Before(requestQueue[c][i], requestQueue[c][j])
  /\ \A r \in Requests : req[r].at = "queued" =>
       \E i \in 1..Len(requestQueue[ClientOf[r]]) : requestQueue[ClientOf[r]][i] = r

\* One request of a client is under way, and only while its queue runs; a queue that does
\* not run is empty.
OneUnderway ==
  /\ \A r, s \in Requests :
       req[r].at \in Underway /\ req[s].at \in Underway /\ ClientOf[r] = ClientOf[s] => r = s
  /\ \A r \in Requests : req[r].at \in Underway => queueRunning[ClientOf[r]]
  /\ \A c \in HttpClients : ~queueRunning[c] => requestQueue[c] = <<>>

\* The cookies of an answer are in the jar when the request has settled.
CookiesKept ==
  \A r \in Requests : /\ req[r].settled = "ok" => r \in jar
                      /\ req[r].at \notin {"delay", "over"} => req[r].settled = "no"

\* OneRequestAtATime, of a request in its delay also.
InTurn ==
  \A r, s \in Requests :
    ClientOf[r] = ClientOf[s] /\ Before(r, s) /\ req[s].at \notin {"new", "queued"} =>
      /\ req[r].at = "over"
      /\ req[r].settled = "ok" /\ req[s].settled # "error" => r \in req[s].cookies

\* The inductive invariant of the HTTP client and server.
HttpInv == HttpTyped /\ PushedOnce /\ InQueue /\ OneUnderway /\ CookiesKept /\ InTurn

\* A request has a client.
LEMMA ClientFacts == \A r \in Requests : ClientOf[r] \in HttpClients
BY HttpAssumption DEF HttpClients, Range

\* InTurn is stronger than what the client promises.
LEMMA InTurnIsOneAtATime == HttpInv => OneRequestAtATime
BY DEF HttpInv, InTurn, OneRequestAtATime

\* It holds at the start.
LEMMA HttpStarts == HttpInit => HttpInv
<1> SUFFICES ASSUME HttpInit PROVE HttpInv
  OBVIOUS
<1>1. /\ requestQueue = [c \in HttpClients |-> <<>>] /\ queueRunning = [c \in HttpClients |-> FALSE]
      /\ req = [r \in Requests |-> [at |-> "new", cookies |-> {}, settled |-> "no"]]
      /\ jar = {} /\ pushed = <<>>
  BY DEF HttpInit
<1>2. HttpTyped
  BY <1>1 DEF HttpTyped, RequestSet
<1>3. \A i \in 1..Len(pushed) : FALSE
  BY <1>1
<1>4. \A c \in HttpClients : \A i \in 1..Len(requestQueue[c]) : FALSE
  BY <1>1
<1>5. \A r \in Requests : req[r].at = "new" /\ req[r].settled = "no"
  BY <1>1
<1>6. \A r, s \in Requests : ~Before(r, s)
  BY <1>3 DEF Before
<1> QED
  BY <1>1, <1>2, <1>3, <1>4, <1>5, <1>6
     DEF HttpInv, PushedOnce, InQueue, OneUnderway, CookiesKept, InTurn, Underway

\* A request that is before another is not after it, and is another one.
LEMMA BeforeFacts ==
  ASSUME HttpTyped, PushedOnce, NEW r \in Requests, NEW s \in Requests, Before(r, s)
  PROVE  r # s /\ ~Before(s, r) /\ req[r].at # "new" /\ req[s].at # "new"
BY DEF HttpTyped, PushedOnce, Before

\* The step of a request that is under way and stays so.
LEMMA RequestMoves ==
  ASSUME HttpInv, NEW r \in Requests, NEW w \in RequestSet,
         req[r].at \in Underway, w.at \in Underway, w.cookies = req[r].cookies,
         req' = [req EXCEPT ![r] = w], jar \subseteq jar', jar' \subseteq Requests,
         w.settled # "error" => req[r].settled # "error",
         w.settled = "ok" => r \in jar', w.at # "delay" => w.settled = "no",
         UNCHANGED <<requestQueue, queueRunning, pushed>>
  PROVE  HttpInv'
<1> USE DEF HttpInv
<1>1. /\ req'[r] = w /\ \A s \in Requests \ {r} : req'[s] = req[s]
      /\ \A s \in Requests : req[s] \in RequestSet
      /\ w.at \notin {"new", "queued", "over"} /\ req[r].at \notin {"new", "queued", "over"}
  BY DEF HttpTyped, Underway
<1>2. \A s, t \in Requests : Before(s, t)' <=> Before(s, t)
  BY DEF Before
<1>3. HttpTyped'
  BY DEF HttpTyped
<1>4. PushedOnce'
  BY <1>1 DEF PushedOnce
<1>5. InQueue'
  <2>1. \A s \in Requests : req'[s].at = "queued" <=> req[s].at = "queued"
    BY <1>1
  <2>2. \A c \in HttpClients : \A i \in 1..Len(requestQueue[c]) : requestQueue[c][i] \in Requests
    BY DEF HttpTyped
  <2> QED
    BY <1>2, <2>1, <2>2 DEF InQueue
<1>6. OneUnderway'
  BY <1>1 DEF OneUnderway
<1>7. CookiesKept'
  BY <1>1 DEF CookiesKept
<1>8. InTurn'
  <2> SUFFICES ASSUME NEW a \in Requests, NEW s \in Requests, ClientOf[a] = ClientOf[s],
                      Before(a, s), req'[s].at \notin {"new", "queued"}
               PROVE  /\ req'[a].at = "over"
                      /\ req'[a].settled = "ok" /\ req'[s].settled # "error" => a \in req'[s].cookies
    BY <1>2 DEF InTurn
  <2>1. /\ req[a].at = "over"
        /\ req[a].settled = "ok" /\ req[s].settled # "error" => a \in req[s].cookies
    BY <1>1 DEF InTurn
  <2> QED
    BY <1>1, <2>1
<1> QED
  BY <1>3, <1>4, <1>5, <1>6, <1>7, <1>8

\* A request that is made is behind those made before.
LEMMA BeforePush ==
  ASSUME HttpTyped, PushedOnce, NEW r \in Requests, req[r].at = "new", pushed' = Append(pushed, r)
  PROVE  /\ pushed' \in Seq(Requests)
         /\ \A s, t \in Requests :
              Before(s, t)' <=> Before(s, t) \/ (t = r /\ req[s].at # "new")
         /\ \A i, j \in 1..Len(pushed') : pushed'[i] = pushed'[j] => i = j
         /\ \A s \in Requests : (\E i \in 1..Len(pushed') : pushed'[i] = s) <=> req[s].at # "new" \/ s = r
<1>1. /\ pushed' \in Seq(Requests) /\ Len(pushed') = Len(pushed) + 1 /\ Len(pushed) \in Nat
      /\ \A i \in 1..Len(pushed) : pushed'[i] = pushed[i] /\ pushed[i] # r
      /\ pushed'[Len(pushed) + 1] = r
  BY PushFacts DEF HttpTyped, PushedOnce
<1>2. \A i \in 1..Len(pushed') : i \in 1..Len(pushed) \/ i = Len(pushed) + 1
  BY <1>1
<1>3. \A i \in 1..Len(pushed) : i \in 1..Len(pushed') /\ i < Len(pushed) + 1
  BY <1>1
<1>4. Len(pushed) + 1 \in 1..Len(pushed')
  BY <1>1
<1>5. \A i, j \in 1..Len(pushed') : pushed'[i] = pushed'[j] => i = j
  BY <1>1, <1>2 DEF PushedOnce
<1>6. \A s \in Requests : (\E i \in 1..Len(pushed') : pushed'[i] = s) <=> req[s].at # "new" \/ s = r
  BY <1>1, <1>2, <1>3, <1>4 DEF PushedOnce
<1>7. ASSUME NEW s \in Requests, NEW t \in Requests
      PROVE  Before(s, t)' <=> Before(s, t) \/ (t = r /\ req[s].at # "new")
  <2>1. ASSUME Before(s, t)' PROVE Before(s, t) \/ (t = r /\ req[s].at # "new")
    <3>1. PICK i, j \in 1..Len(pushed') : i < j /\ pushed'[i] = s /\ pushed'[j] = t
      BY <2>1 DEF Before
    <3>2. i \in 1..Len(pushed) /\ pushed[i] = s
      BY <1>1, <1>2, <3>1
    <3>3. req[s].at # "new"
      BY <3>2 DEF PushedOnce
    <3> QED
      BY <1>1, <1>2, <3>1, <3>2, <3>3 DEF Before
  <2>2. ASSUME Before(s, t) PROVE Before(s, t)'
    BY <1>1, <1>3, <2>2 DEF Before
  <2>3. ASSUME t = r, req[s].at # "new" PROVE Before(s, t)'
    <3>1. PICK i \in 1..Len(pushed) : pushed[i] = s
      BY <2>3 DEF PushedOnce
    <3> QED
      BY <1>1, <1>3, <1>4, <2>3, <3>1 DEF Before
  <2> QED
    BY <2>1, <2>2, <2>3
<1> QED
  BY <1>1, <1>5, <1>6, <1>7

\* What a request becomes that reaches the server, or has no url.
StartedAs(w) ==
  \/ w.at = "sent" /\ w.cookies = jar /\ w.settled = "no"
  \/ w.at = "delay" /\ w.settled = "error"

\* A request whose client is at rest is started at once.
LEMMA PushRuns ==
  ASSUME HttpInv, NEW r \in Requests, NEW w \in RequestSet, req[r].at = "new", StartedAs(w),
         ~queueRunning[ClientOf[r]], pushed' = Append(pushed, r), req' = [req EXCEPT ![r] = w],
         queueRunning' = [queueRunning EXCEPT ![ClientOf[r]] = TRUE],
         UNCHANGED <<requestQueue, jar>>
  PROVE  HttpInv'
<1> DEFINE c == ClientOf[r]
<1> USE DEF HttpInv
<1>1. /\ req'[r] = w /\ \A s \in Requests \ {r} : req'[s] = req[s]
      /\ w.at \in Underway /\ w.at \notin {"new", "queued", "over"}
      /\ \A s \in Requests : req[s] \in RequestSet
  BY DEF HttpTyped, StartedAs, Underway
<1>2. \A s \in Requests : ClientOf[s] \in HttpClients
  BY ClientFacts
<1>3. requestQueue[c] = <<>> /\ \A s \in Requests : ClientOf[s] = c => req[s].at \in {"new", "over"}
  <2>1. requestQueue[c] = <<>>
    BY <1>2 DEF OneUnderway
  <2>2. \A s \in Requests : ClientOf[s] = c => req[s].at \notin Underway
    BY DEF OneUnderway
  <2>3. \A s \in Requests : ClientOf[s] = c => req[s].at # "queued"
    BY <2>1 DEF InQueue
  <2> QED
    BY <1>1, <2>1, <2>2, <2>3 DEF RequestSet, Underway
<1>4. HttpTyped'
  BY BeforePush DEF HttpTyped
<1>5. PushedOnce'
  BY <1>1, BeforePush DEF PushedOnce
<1>6. InQueue'
  <2>1. \A s \in Requests : req'[s].at = "queued" <=> req[s].at = "queued"
    BY <1>1
  <2>2. \A d \in HttpClients : \A i \in 1..Len(requestQueue[d]) : requestQueue[d][i] \in Requests
    BY DEF HttpTyped
  <2>3. \A s, t \in Requests : Before(s, t) => Before(s, t)'
    BY BeforePush
  <2> QED
    BY <2>1, <2>2, <2>3 DEF InQueue
<1>7. OneUnderway'
  <2>1. \A s \in Requests : req'[s].at \in Underway /\ ClientOf[s] = c => s = r
    BY <1>1, <1>3 DEF Underway
  <2>2. queueRunning'[c] /\ \A d \in HttpClients \ {c} : queueRunning'[d] = queueRunning[d]
    BY <1>2 DEF HttpTyped
  <2>3. \A s, t \in Requests :
          req'[s].at \in Underway /\ req'[t].at \in Underway /\ ClientOf[s] = ClientOf[t] => s = t
    BY <1>1, <2>1 DEF OneUnderway
  <2>4. \A s \in Requests : req'[s].at \in Underway => queueRunning'[ClientOf[s]]
    <3> SUFFICES ASSUME NEW s \in Requests, req'[s].at \in Underway
                 PROVE  queueRunning'[ClientOf[s]]
      OBVIOUS
    <3>1. CASE ClientOf[s] = c
      BY <2>2, <3>1
    <3>2. CASE ClientOf[s] # c
      <4>1. req'[s] = req[s]
        BY <1>1, <3>2
      <4>2. queueRunning[ClientOf[s]]
        BY <4>1 DEF OneUnderway
      <4> QED
        BY <1>2, <2>2, <3>2, <4>2, Zenon
    <3> QED
      BY <3>1, <3>2
  <2>5. \A d \in HttpClients : ~queueRunning'[d] => requestQueue'[d] = <<>>
    BY <2>2 DEF OneUnderway
  <2> QED
    BY <2>3, <2>4, <2>5 DEF OneUnderway
<1>8. CookiesKept'
  BY <1>1 DEF CookiesKept, StartedAs
<1>9. InTurn'
  <2> SUFFICES ASSUME NEW a \in Requests, NEW s \in Requests, ClientOf[a] = ClientOf[s],
                      Before(a, s)', req'[s].at \notin {"new", "queued"}
               PROVE  /\ req'[a].at = "over"
                      /\ req'[a].settled = "ok" /\ req'[s].settled # "error" => a \in req'[s].cookies
    BY DEF InTurn
  <2>1. CASE s = r
    <3>1. req[a].at # "new" /\ a # r
      <4>1. ~Before(a, r)
        BY BeforeFacts
      <4> QED
        BY <2>1, <4>1, BeforePush
    <3>2. req[a].at = "over"
      BY <1>3, <2>1, <3>1
    <3>3. req[a].settled = "ok" => a \in jar
      BY DEF CookiesKept
    <3> QED
      BY <1>1, <2>1, <3>1, <3>2, <3>3 DEF StartedAs
  <2>2. CASE s # r
    <3>1. Before(a, s) /\ a # r
      BY <2>2, BeforePush, BeforeFacts
    <3> QED
      BY <1>1, <2>2, <3>1 DEF InTurn
  <2> QED
    BY <2>1, <2>2
<1> QED
  BY <1>4, <1>5, <1>6, <1>7, <1>8, <1>9

\* One whose client has another under way is queued.
LEMMA PushWaits ==
  ASSUME HttpInv, NEW r \in Requests, req[r].at = "new", queueRunning[ClientOf[r]],
         pushed' = Append(pushed, r), req' = [req EXCEPT ![r].at = "queued"],
         requestQueue' = [requestQueue EXCEPT ![ClientOf[r]] = Append(@, r)],
         UNCHANGED <<queueRunning, jar>>
  PROVE  HttpInv'
<1> DEFINE c == ClientOf[r]
           q == requestQueue[c]
<1> USE DEF HttpInv
<1>1. /\ req'[r].at = "queued" /\ req'[r].settled = req[r].settled /\ req'[r] \in RequestSet
      /\ \A s \in Requests \ {r} : req'[s] = req[s]
      /\ \A s \in Requests : req[s] \in RequestSet
  BY DEF HttpTyped, RequestSet
<1>2. \A s \in Requests : ClientOf[s] \in HttpClients
  BY ClientFacts
<1>3. /\ requestQueue'[c] = Append(q, r) /\ \A d \in HttpClients \ {c} : requestQueue'[d] = requestQueue[d]
      /\ q \in Seq(Requests) /\ requestQueue' \in [HttpClients -> Seq(Requests)]
  BY <1>2 DEF HttpTyped
<1>4. HttpTyped'
  BY <1>1, <1>3, BeforePush DEF HttpTyped
<1>5. PushedOnce'
  BY <1>1, BeforePush DEF PushedOnce
<1>6. InQueue'
  <2>1. \A s, t \in Requests : Before(s, t) => Before(s, t)'
    BY BeforePush
  <2>2. /\ Len(Append(q, r)) = Len(q) + 1 /\ Len(q) \in Nat /\ Append(q, r)[Len(q) + 1] = r
        /\ \A i \in 1..Len(q) : Append(q, r)[i] = q[i]
    BY <1>3, PushFacts
  <2>3. \A d \in HttpClients : \A i \in 1..Len(requestQueue[d]) : requestQueue[d][i] \in Requests
    BY DEF HttpTyped
  <2>4. ASSUME NEW d \in HttpClients, NEW i \in 1..Len(requestQueue'[d])
        PROVE  (/\ ClientOf[requestQueue[d][i]] = d /\ req[requestQueue[d][i]].at = "queued"
                /\ \A j \in 1..Len(requestQueue[d]) :
                     i < j => Before(requestQueue[d][i], requestQueue[d][j]))'
    <3>1. CASE d # c
      <4>1. requestQueue'[d] = requestQueue[d] /\ \A j \in 1..Len(requestQueue[d]) : requestQueue[d][j] # r
        BY <1>3, <2>3, <3>1 DEF InQueue
      <4>2. \A j \in 1..Len(requestQueue[d]) : i < j => Before(requestQueue[d][i], requestQueue[d][j])
        BY <4>1 DEF InQueue
      <4>3. /\ requestQueue[d][i] \in Requests /\ requestQueue[d][i] # r
            /\ ClientOf[requestQueue[d][i]] = d /\ req[requestQueue[d][i]].at = "queued"
        <5>1. i \in 1..Len(requestQueue[d])
          BY <4>1
        <5>2. /\ requestQueue[d][i] \in Requests
              /\ ClientOf[requestQueue[d][i]] = d /\ req[requestQueue[d][i]].at = "queued"
          BY <2>3, <5>1 DEF InQueue
        <5> QED
          BY <5>2
      <4>4. /\ requestQueue'[d][i] = requestQueue[d][i]
            /\ \A j \in 1..Len(requestQueue'[d]) :
                 j \in 1..Len(requestQueue[d]) /\ requestQueue'[d][j] = requestQueue[d][j]
        BY <4>1
      <4> QED
        BY <1>1, <2>1, <2>3, <4>2, <4>3, <4>4
    <3>2. CASE d = c
      <4>1. \A j \in 1..Len(q) : /\ q[j] \in Requests /\ req[q[j]].at = "queued" /\ ClientOf[q[j]] = c
                                 /\ q[j] # r
        BY <1>2, <2>3 DEF InQueue
      <4>2. \A j \in 1..(Len(q) + 1) : j \in 1..Len(q) \/ j = Len(q) + 1
        BY <2>2
      <4>3. \A j \in 1..Len(q) : Before(q[j], r)'
        BY <4>1, BeforePush
      <4>4. \A j, k \in 1..Len(q) : j < k => Before(q[j], q[k])'
        BY <1>2, <2>1, <4>1 DEF InQueue
      <4> QED
        BY <1>1, <1>3, <2>2, <3>2, <4>1, <4>2, <4>3, <4>4
    <3> QED
      BY <3>1, <3>2
  <2>5. ASSUME NEW s \in Requests, req'[s].at = "queued"
        PROVE  \E i \in 1..Len(requestQueue'[ClientOf[s]]) : requestQueue'[ClientOf[s]][i] = s
    <3>1. CASE s = r
      <4>1. Len(q) + 1 \in 1..Len(requestQueue'[c])
        BY <1>3, <2>2
      <4> QED
        BY <1>3, <2>2, <3>1, <4>1
    <3>2. CASE s # r
      <4>1. PICK i \in 1..Len(requestQueue[ClientOf[s]]) : requestQueue[ClientOf[s]][i] = s
        BY <1>1, <2>5, <3>2 DEF InQueue
      <4>2. CASE ClientOf[s] = c
        BY <1>3, <2>2, <4>1, <4>2
      <4>3. CASE ClientOf[s] # c
        BY <1>2, <1>3, <4>1, <4>3
      <4> QED
        BY <4>2, <4>3
    <3> QED
      BY <3>1, <3>2
  <2> QED
    BY <2>4, <2>5 DEF InQueue
<1>7. OneUnderway'
  <2>1. \A s \in Requests : req'[s].at \in Underway => s # r /\ req'[s] = req[s]
    BY <1>1 DEF Underway
  <2>2. \A d \in HttpClients : ~queueRunning[d] => d # c /\ requestQueue'[d] = <<>>
    BY <1>3 DEF OneUnderway
  <2> QED
    BY <2>1, <2>2 DEF OneUnderway
<1>8. CookiesKept'
  BY <1>1 DEF CookiesKept
<1>9. InTurn'
  <2> SUFFICES ASSUME NEW a \in Requests, NEW s \in Requests, ClientOf[a] = ClientOf[s],
                      Before(a, s)', req'[s].at \notin {"new", "queued"}
               PROVE  /\ req'[a].at = "over"
                      /\ req'[a].settled = "ok" /\ req'[s].settled # "error" => a \in req'[s].cookies
    BY DEF InTurn
  <2>1. s # r
    BY <1>1
  <2>2. Before(a, s) /\ a # r
    BY <2>1, BeforePush, BeforeFacts
  <2> QED
    BY <1>1, <2>1, <2>2 DEF InTurn
<1> QED
  BY <1>4, <1>5, <1>6, <1>7, <1>8, <1>9

\* The delay of a request is over and none of its client waits.
LEMMA NextEnds ==
  ASSUME HttpInv, NEW r \in Requests, req[r].at = "delay", requestQueue[ClientOf[r]] = <<>>,
         req' = [req EXCEPT ![r].at = "over"],
         queueRunning' = [queueRunning EXCEPT ![ClientOf[r]] = FALSE],
         UNCHANGED <<requestQueue, jar, pushed>>
  PROVE  HttpInv'
<1> DEFINE c == ClientOf[r]
<1> USE DEF HttpInv
<1>1. /\ req'[r].at = "over" /\ req'[r].settled = req[r].settled /\ req'[r].cookies = req[r].cookies
      /\ req'[r] \in RequestSet /\ \A s \in Requests \ {r} : req'[s] = req[s]
      /\ \A s \in Requests : req[s] \in RequestSet
  BY DEF HttpTyped, RequestSet
<1>2. \A s \in Requests : ClientOf[s] \in HttpClients
  BY ClientFacts
<1>3. \A s, t \in Requests : Before(s, t)' <=> Before(s, t)
  BY DEF Before
<1>4. HttpTyped'
  BY <1>1 DEF HttpTyped
<1>5. PushedOnce'
  BY <1>1 DEF PushedOnce
<1>6. InQueue'
  <2>1. \A s \in Requests : req'[s].at = "queued" <=> req[s].at = "queued"
    BY <1>1
  <2>2. \A d \in HttpClients : \A i \in 1..Len(requestQueue[d]) : requestQueue[d][i] \in Requests
    BY DEF HttpTyped
  <2> QED
    BY <1>3, <2>1, <2>2 DEF InQueue
<1>7. OneUnderway'
  <2>1. \A s \in Requests : req'[s].at \in Underway =>
          s # r /\ req'[s] = req[s] /\ req[s].at \in Underway /\ ClientOf[s] # c
    BY <1>1 DEF Underway, OneUnderway
  <2>2. \A d \in HttpClients : d # c => queueRunning'[d] = queueRunning[d]
    BY DEF HttpTyped
  <2>3. \A s \in Requests : req'[s].at \in Underway => queueRunning'[ClientOf[s]]
    <3> SUFFICES ASSUME NEW s \in Requests, req'[s].at \in Underway
                 PROVE  queueRunning'[ClientOf[s]]
      OBVIOUS
    <3>1. queueRunning[ClientOf[s]] /\ ClientOf[s] # c
      BY <2>1 DEF OneUnderway
    <3> QED
      BY <1>2, <2>2, <3>1, Zenon
  <2>4. \A d \in HttpClients : ~queueRunning'[d] => requestQueue'[d] = <<>>
    BY <2>2 DEF OneUnderway
  <2> QED
    BY <2>1, <2>3, <2>4 DEF OneUnderway
<1>8. CookiesKept'
  BY <1>1 DEF CookiesKept
<1>9. InTurn'
  BY <1>1, <1>3 DEF InTurn
<1> QED
  BY <1>4, <1>5, <1>6, <1>7, <1>8, <1>9

\* It is over and the next of its client is sent.
LEMMA NextStarts ==
  ASSUME HttpInv, NEW r \in Requests, NEW t \in Requests, NEW w \in RequestSet,
         req[r].at = "delay", requestQueue[ClientOf[r]] # <<>>, t = Head(requestQueue[ClientOf[r]]),
         StartedAs(w), req' = [[req EXCEPT ![r].at = "over"] EXCEPT ![t] = w],
         requestQueue' = [requestQueue EXCEPT ![ClientOf[r]] = Tail(@)],
         UNCHANGED <<queueRunning, jar, pushed>>
  PROVE  HttpInv'
<1> DEFINE c == ClientOf[r]
           q == requestQueue[c]
<1> USE DEF HttpInv
<1>1. \A s \in Requests : ClientOf[s] \in HttpClients
  BY ClientFacts
<1>2. /\ q \in Seq(Requests) /\ q # <<>> /\ 1 \in 1..Len(q) /\ Len(q) \in Nat /\ t = q[1]
      /\ Tail(q) \in Seq(Requests) /\ Len(Tail(q)) = Len(q) - 1
      /\ \A i \in 1..(Len(q) - 1) : Tail(q)[i] = q[i + 1] /\ i + 1 \in 1..Len(q)
  BY <1>1 DEF HttpTyped
<1>3. ClientOf[t] = c /\ req[t].at = "queued" /\ t # r
  BY <1>1, <1>2 DEF InQueue
<1>4. /\ req'[r].at = "over" /\ req'[r].settled = req[r].settled /\ req'[r].cookies = req[r].cookies
      /\ req'[r] \in RequestSet /\ req'[t] = w
      /\ \A s \in Requests \ {r, t} : req'[s] = req[s]
      /\ \A s \in Requests : req[s] \in RequestSet
  BY <1>3 DEF HttpTyped, RequestSet
<1>5. \A s, u \in Requests : Before(s, u)' <=> Before(s, u)
  BY DEF Before
<1>6. /\ requestQueue'[c] = Tail(q) /\ \A d \in HttpClients \ {c} : requestQueue'[d] = requestQueue[d]
      /\ requestQueue' \in [HttpClients -> Seq(Requests)]
  BY <1>1, <1>2 DEF HttpTyped
<1>7. w.at \in Underway /\ w.at \notin {"new", "queued", "over"}
  BY DEF StartedAs, Underway
<1>8. \A d \in HttpClients : \A i \in 1..Len(requestQueue[d]) : requestQueue[d][i] \in Requests
  BY DEF HttpTyped
\* The head of the queue is in it once.
<1>9. \A i \in 2..Len(q) : q[i] # t /\ Before(t, q[i]) /\ req[q[i]].at = "queued" /\ q[i] # r
  <2> SUFFICES ASSUME NEW i \in 2..Len(q)
               PROVE  q[i] # t /\ Before(t, q[i]) /\ req[q[i]].at = "queued" /\ q[i] # r
    OBVIOUS
  <2>1. i \in 1..Len(q) /\ 1 < i
    BY <1>2
  <2>2. Before(q[1], q[i]) /\ q[i] \in Requests /\ req[q[i]].at = "queued"
    BY <1>1, <1>2, <1>8, <2>1 DEF InQueue
  <2> QED
    BY <1>2, <2>2, BeforeFacts
<1>10. HttpTyped'
  BY <1>4, <1>6 DEF HttpTyped
<1>11. PushedOnce'
  <2>1. \A s \in Requests : req'[s].at = "new" <=> req[s].at = "new"
    BY <1>3, <1>4, <1>7
  <2> QED
    BY <2>1 DEF PushedOnce
<1>12. InQueue'
  <2>1. ASSUME NEW d \in HttpClients, NEW i \in 1..Len(requestQueue'[d])
        PROVE  (/\ ClientOf[requestQueue[d][i]] = d /\ req[requestQueue[d][i]].at = "queued"
                /\ \A j \in 1..Len(requestQueue[d]) :
                     i < j => Before(requestQueue[d][i], requestQueue[d][j]))'
    <3>1. CASE d # c
      <4>1. requestQueue'[d] = requestQueue[d]
        BY <1>6, <3>1
      <4>2. i \in 1..Len(requestQueue[d])
        BY <4>1
      <4>3. /\ requestQueue[d][i] \in Requests /\ ClientOf[requestQueue[d][i]] = d
            /\ req[requestQueue[d][i]].at = "queued"
            /\ \A j \in 1..Len(requestQueue[d]) : i < j => Before(requestQueue[d][i], requestQueue[d][j])
        BY <1>8, <4>2 DEF InQueue
      <4>4. req'[requestQueue[d][i]] = req[requestQueue[d][i]]
        BY <1>3, <1>4, <3>1, <4>3
      <4>5. ASSUME NEW j \in 1..Len(requestQueue'[d]), i < j
            PROVE  Before(requestQueue[d][i], requestQueue[d][j])'
        <5>1. j \in 1..Len(requestQueue[d]) /\ requestQueue[d][j] \in Requests
          BY <1>8, <4>1
        <5> QED
          BY <1>5, <4>1, <4>3, <4>5, <5>1
      <4> QED
        BY <4>1, <4>3, <4>4, <4>5
    <3>2. CASE d = c
      <4>1. /\ requestQueue'[d] = Tail(q) /\ i \in 1..(Len(q) - 1) /\ i + 1 \in 2..Len(q)
            /\ requestQueue'[d][i] = q[i + 1] /\ Len(requestQueue'[d]) = Len(q) - 1
        BY <1>2, <1>6, <3>2
      <4>2. /\ q[i + 1] \in Requests /\ ClientOf[q[i + 1]] = c /\ req'[q[i + 1]] = req[q[i + 1]]
            /\ req[q[i + 1]].at = "queued"
        <5>1. i + 1 \in 1..Len(q)
          BY <1>2, <4>1
        <5>2. q[i + 1] \in Requests /\ ClientOf[q[i + 1]] = c /\ req[q[i + 1]].at = "queued"
          BY <1>1, <1>8, <5>1 DEF InQueue
        <5>3. q[i + 1] # t /\ q[i + 1] # r
          BY <1>9, <4>1
        <5> QED
          BY <1>4, <5>2, <5>3
      <4>3. ASSUME NEW j \in 1..Len(requestQueue'[d]), i < j
            PROVE  Before(requestQueue[d][i], requestQueue[d][j])'
        <5>1. /\ j \in 1..(Len(q) - 1) /\ requestQueue'[d][j] = q[j + 1]
              /\ i + 1 \in 1..Len(q) /\ j + 1 \in 1..Len(q) /\ i + 1 < j + 1
          <6>1. j \in 1..(Len(q) - 1)
            BY <4>1
          <6>2. i \in 1..(Len(q) - 1)
            BY <4>1
          <6>3. requestQueue'[d][j] = q[j + 1]
            BY <1>2, <4>1, <6>1
          <6> QED
            BY <1>2, <4>3, <6>1, <6>2, <6>3
        <5>2. Before(q[i + 1], q[j + 1]) /\ q[j + 1] \in Requests
          BY <1>1, <1>8, <5>1 DEF InQueue
        <5> QED
          BY <1>5, <4>1, <4>2, <5>1, <5>2
      <4> QED
        BY <3>2, <4>1, <4>2, <4>3
    <3> QED
      BY <3>1, <3>2
  <2>2. ASSUME NEW s \in Requests, req'[s].at = "queued"
        PROVE  \E i \in 1..Len(requestQueue'[ClientOf[s]]) : requestQueue'[ClientOf[s]][i] = s
    <3>1. s # r /\ s # t /\ req[s].at = "queued"
      BY <1>4, <1>7, <2>2
    <3>2. PICK i \in 1..Len(requestQueue[ClientOf[s]]) : requestQueue[ClientOf[s]][i] = s
      BY <3>1 DEF InQueue
    <3>3. CASE ClientOf[s] # c
      BY <1>1, <1>6, <3>2, <3>3
    <3>4. CASE ClientOf[s] = c
      <4>1. i # 1 /\ i - 1 \in 1..(Len(q) - 1) /\ (i - 1) + 1 = i
        BY <1>2, <3>1, <3>2, <3>4
      <4>2. Tail(q)[i - 1] = s
        BY <1>2, <3>2, <3>4, <4>1
      <4> QED
        BY <1>2, <1>6, <3>4, <4>1, <4>2
    <3> QED
      BY <3>3, <3>4
  <2> QED
    BY <2>1, <2>2 DEF InQueue
<1>13. OneUnderway'
  <2>1. \A s \in Requests : req'[s].at \in Underway =>
          s # r /\ (s = t \/ (req'[s] = req[s] /\ req[s].at \in Underway /\ ClientOf[s] # c))
    <3> SUFFICES ASSUME NEW s \in Requests, req'[s].at \in Underway, s # t
                 PROVE  s # r /\ req'[s] = req[s] /\ req[s].at \in Underway /\ ClientOf[s] # c
      <4>1. "over" \notin Underway
        BY DEF Underway
      <4> QED
        BY <1>3, <1>4, <4>1
    <3>1. s # r /\ req'[s] = req[s]
      BY <1>4 DEF Underway
    <3>2. req[r].at \in Underway
      BY DEF Underway
    <3> QED
      BY <3>1, <3>2 DEF OneUnderway
  <2>2. queueRunning[c]
    BY DEF OneUnderway, Underway
  <2>3. \A d \in HttpClients : ~queueRunning[d] => d # c /\ requestQueue'[d] = <<>>
    BY <1>6, <2>2 DEF OneUnderway
  <2>4. \A s \in Requests : req'[s].at \in Underway => queueRunning[ClientOf[s]]
    BY <1>3, <2>1, <2>2 DEF OneUnderway
  <2>5. \A s, u \in Requests :
          req'[s].at \in Underway /\ req'[u].at \in Underway /\ ClientOf[s] = ClientOf[u] => s = u
    BY <1>3, <2>1 DEF OneUnderway
  <2> QED
    BY <2>3, <2>4, <2>5 DEF OneUnderway
<1>14. CookiesKept'
  BY <1>4 DEF CookiesKept, StartedAs
<1>15. InTurn'
  <2> SUFFICES ASSUME NEW a \in Requests, NEW s \in Requests, ClientOf[a] = ClientOf[s],
                      Before(a, s), req'[s].at \notin {"new", "queued"}
               PROVE  /\ req'[a].at = "over"
                      /\ req'[a].settled = "ok" /\ req'[s].settled # "error" => a \in req'[s].cookies
    BY <1>5 DEF InTurn
  <2>1. CASE s = t
    <3>1. a # t /\ req[a].at # "new" /\ ~Before(t, a)
      BY <2>1, BeforeFacts
    <3>2. req[a].at # "queued"
      <4> SUFFICES ASSUME req[a].at = "queued" PROVE FALSE
        OBVIOUS
      <4>1. PICK i \in 1..Len(q) : q[i] = a
        BY <1>3, <2>1 DEF InQueue
      <4>2. i \in 2..Len(q)
        BY <1>2, <3>1, <4>1
      <4> QED
        BY <1>9, <3>1, <4>1, <4>2
    <3>3. a = r \/ req[a].at = "over"
      <4>1. req[a].at \in Underway \/ req[a].at = "over"
        BY <1>4, <3>1, <3>2 DEF RequestSet, Underway
      <4>2. req[r].at \in Underway
        BY DEF Underway
      <4> QED
        BY <1>3, <2>1, <4>1, <4>2 DEF OneUnderway
    <3>4. req'[a].at = "over" /\ req'[a].settled = req[a].settled
      BY <1>4, <3>1, <3>3
    <3>5. req[a].settled = "ok" => a \in jar
      BY DEF CookiesKept
    <3> QED
      BY <1>4, <2>1, <3>4, <3>5 DEF StartedAs
  <2>2. CASE s # t
    <3>1. req[s].at \notin {"new", "queued"} /\ req'[s].settled = req[s].settled
          /\ req'[s].cookies = req[s].cookies
      BY <1>4, <2>2
    <3>2. /\ req[a].at = "over"
          /\ req[a].settled = "ok" /\ req[s].settled # "error" => a \in req[s].cookies
      BY <3>1 DEF InTurn
    <3> QED
      BY <1>3, <1>4, <3>1, <3>2
  <2> QED
    BY <2>1, <2>2
<1> QED
  BY <1>10, <1>11, <1>12, <1>13, <1>14, <1>15

\* The record of a request that settles.
LEMMA SettledRequest ==
  ASSUME NEW v \in RequestSet, NEW how \in {"ok", "error"}
  PROVE  /\ [v EXCEPT !.at = "delay", !.settled = how] \in RequestSet
         /\ [v EXCEPT !.at = "delay", !.settled = how].at = "delay"
         /\ [v EXCEPT !.at = "delay", !.settled = how].settled = how
         /\ [v EXCEPT !.at = "delay", !.settled = how].cookies = v.cookies
BY DEF RequestSet

\* The server or the jar moves a request that has not settled.
LEMMA RequestGoes ==
  ASSUME HttpInv, NEW r \in Requests, req[r].at \in {"sent", "hooked", "made", "refused", "response"},
         NEW place \in {"hooked", "made", "dropped", "refused", "response", "reject"},
         req' = [req EXCEPT ![r].at = place], UNCHANGED <<requestQueue, queueRunning, jar, pushed>>
  PROVE  HttpInv'
<1>1. req[r] \in RequestSet
  BY DEF HttpInv, HttpTyped
<1> DEFINE w == [req[r] EXCEPT !.at = place]
<1>2. w \in RequestSet /\ w.at = place /\ w.settled = req[r].settled /\ w.cookies = req[r].cookies
  BY <1>1 DEF RequestSet
<1>3. req[r].settled = "no" /\ req[r].at \in Underway /\ place \in Underway
  BY DEF HttpInv, CookiesKept, Underway
<1>4. req' = [req EXCEPT ![r] = w] /\ jar \subseteq jar' /\ jar' \subseteq Requests
  BY DEF HttpInv, HttpTyped
<1> HIDE DEF w
<1>5. /\ w.at \in Underway /\ w.settled = "no"
      /\ w.settled # "error" => req[r].settled # "error"
      /\ w.settled = "ok" => r \in jar'
  BY <1>2, <1>3
<1> QED
  BY <1>2, <1>3, <1>4, <1>5, RequestMoves

\* Every step keeps the invariant: pushes, the ways of a request, hooks, delays and kill().
LEMMA HttpSteps == HttpInv /\ [HttpNext]_httpVars => HttpInv'
<1> SUFFICES ASSUME HttpInv, [HttpNext]_httpVars PROVE HttpInv'
  OBVIOUS
<1>0. \A r \in Requests : req[r] \in RequestSet
  BY DEF HttpInv, HttpTyped
<1>1. ASSUME NEW r \in Requests, Push(r) PROVE HttpInv'
  <2> DEFINE c == ClientOf[r]
             queued == [req EXCEPT ![r].at = "queued"]
             q == Append(requestQueue[c], r)
  <2>1. req[r].at = "new" /\ pushed' = Append(pushed, r) /\ UNCHANGED jar
    BY <1>1 DEF Push
  <2>2. CASE ~queueRunning[c]
    <3>1. /\ queueRunning' = [queueRunning EXCEPT ![c] = TRUE]
          /\ requestQueue' = [requestQueue EXCEPT ![c] = Tail(q)]
          /\ Starts(queued, Head(q))
      BY <1>1, <2>2 DEF Push, RunsQueue
    <3>2. requestQueue[c] = <<>> /\ requestQueue \in [HttpClients -> Seq(Requests)]
      BY <2>2, ClientFacts DEF HttpInv, OneUnderway, HttpTyped
    <3>3. q = <<r>> /\ Head(q) = r /\ Tail(q) = <<>>
      BY <3>2
    <3>4. requestQueue' = requestQueue
      BY <3>1, <3>2, <3>3
    <3>5. PICK w \in RequestSet : StartedAs(w) /\ req' = [req EXCEPT ![r] = w]
      <4> DEFINE sent_ == [queued[r] EXCEPT !.at = "sent", !.cookies = jar]
                 late_ == [queued[r] EXCEPT !.at = "delay", !.settled = "error"]
      <4>1. /\ queued[r] = [req[r] EXCEPT !.at = "queued"] /\ req[r].settled = "no"
            /\ jar \subseteq Requests
        BY <2>1 DEF HttpInv, CookiesKept, HttpTyped
      <4>5. queued[r] \in RequestSet /\ queued[r].settled = "no"
        BY <1>0, <4>1 DEF RequestSet
      <4> HIDE DEF queued
      <4>2. /\ sent_ \in RequestSet /\ sent_.at = "sent" /\ sent_.cookies = jar /\ sent_.settled = "no"
            /\ late_ \in RequestSet /\ late_.at = "delay" /\ late_.settled = "error"
        BY <4>1, <4>5 DEF RequestSet
      <4>3. req' = [queued EXCEPT ![r] = sent_] \/ req' = [queued EXCEPT ![r] = late_]
        BY <3>1, <3>3 DEF Starts, SendRequest, NotValid, queued
      <4> HIDE DEF sent_, late_
      <4>4. req' = [req EXCEPT ![r] = sent_] \/ req' = [req EXCEPT ![r] = late_]
        <5>1. \A v \in RequestSet : [queued EXCEPT ![r] = v] = [req EXCEPT ![r] = v]
          <6> SUFFICES ASSUME NEW v \in RequestSet
                       PROVE  [queued EXCEPT ![r] = v] = [req EXCEPT ![r] = v]
            OBVIOUS
          <6>1. req \in [Requests -> RequestSet] /\ queued[r] = [req[r] EXCEPT !.at = "queued"]
            BY DEF HttpInv, HttpTyped, queued
          <6>2. \A s \in Requests : [queued EXCEPT ![r] = v][s] = [req EXCEPT ![r] = v][s]
            BY <6>1 DEF queued
          <6> QED
            BY <6>1, <6>2 DEF queued
        <5> QED
          BY <4>2, <4>3, <5>1
      <4> QED
        BY <4>2, <4>4 DEF StartedAs
    <3> QED
      BY <2>1, <2>2, <3>1, <3>4, <3>5, PushRuns
  <2>3. CASE queueRunning[c]
    <3>1. /\ requestQueue' = [requestQueue EXCEPT ![c] = q] /\ req' = queued /\ UNCHANGED queueRunning
      BY <1>1, <2>3 DEF Push, RunsQueue
    <3> QED
      BY <2>1, <2>3, <3>1, PushWaits
  <2> QED
    BY <2>2, <2>3
<1>2. ASSUME NEW r \in Requests, Receive(r) PROVE HttpInv'
  <2>1. UNCHANGED <<requestQueue, queueRunning, pushed>>
    BY <1>2 DEF Receive
  <2>2. ASSUME NEW how \in {"ok", "error"}, req[r].at \in {"response", "reject"},
               req' = [req EXCEPT ![r] = [@ EXCEPT !.at = "delay", !.settled = how]],
               how = "ok" <=> req[r].at = "response",
               jar' = IF req[r].at = "response" THEN jar \cup {r} ELSE jar
        PROVE  HttpInv'
    <3> DEFINE w == [req[r] EXCEPT !.at = "delay", !.settled = how]
    <3>1. req[r].at \in Underway /\ req[r].settled = "no"
      BY <2>2 DEF Underway, HttpInv, CookiesKept
    <3>2. w \in RequestSet /\ w.at = "delay" /\ w.settled = how /\ w.cookies = req[r].cookies
      <4>1. req[r] \in RequestSet
        BY <1>0
      <4> QED
        BY <4>1, SettledRequest
    <3>3. jar \subseteq jar' /\ jar' \subseteq Requests
      BY <2>2 DEF HttpInv, HttpTyped
    <3>4. /\ w.at \in Underway
          /\ w.settled # "error" => req[r].settled # "error"
          /\ w.settled = "ok" => r \in jar'
          /\ w.at # "delay" => w.settled = "no"
      BY <2>2, <3>1, <3>2 DEF Underway
    <3>5. req' = [req EXCEPT ![r] = w]
      BY <2>2
    <3> HIDE DEF w
    <3> QED
      BY <2>1, <3>1, <3>2, <3>3, <3>4, <3>5, RequestMoves
  <2>3. CASE req[r].at = "response" /\ LosesAnswer(r) /\ UNCHANGED jar
    BY <1>2, <2>1, <2>3, RequestGoes DEF LosesAnswer
  <2> QED
    BY <1>2, <2>2, <2>3 DEF Receive
<1>3. ASSUME NEW r \in Requests, NextRequest(r) PROVE HttpInv'
  <2> DEFINE c == ClientOf[r]
             done == [req EXCEPT ![r].at = "over"]
  <2>1. req[r].at = "delay" /\ UNCHANGED <<jar, pushed>>
    BY <1>3 DEF NextRequest
  <2>2. CASE requestQueue[c] = <<>>
    BY <1>3, <2>1, <2>2, NextEnds DEF NextRequest
  <2>3. CASE requestQueue[c] # <<>>
    <3> DEFINE t == Head(requestQueue[c])
    <3>1. /\ requestQueue' = [requestQueue EXCEPT ![c] = Tail(@)] /\ UNCHANGED queueRunning
          /\ Starts(done, t)
      BY <1>3, <2>3 DEF NextRequest
    <3>2. t \in Requests /\ t = requestQueue[c][1] /\ 1 \in 1..Len(requestQueue[c]) /\ c \in HttpClients
      BY <2>3, ClientFacts DEF HttpInv, HttpTyped
    <3>3. req[t].at = "queued" /\ req[t].settled = "no" /\ t # r
      BY <2>1, <3>2 DEF HttpInv, InQueue, CookiesKept
    <3>4. PICK w \in RequestSet : StartedAs(w) /\ req' = [done EXCEPT ![t] = w]
      <4> DEFINE sent_ == [req[t] EXCEPT !.at = "sent", !.cookies = jar]
                 late_ == [req[t] EXCEPT !.at = "delay", !.settled = "error"]
      <4>1. done[t] = req[t] /\ jar \subseteq Requests
        BY <3>2, <3>3 DEF HttpInv, HttpTyped
      <4>2. /\ sent_ \in RequestSet /\ sent_.at = "sent" /\ sent_.cookies = jar /\ sent_.settled = "no"
            /\ late_ \in RequestSet /\ late_.at = "delay" /\ late_.settled = "error"
        BY <1>0, <3>2, <3>3, <4>1 DEF RequestSet
      <4>3. req' = [done EXCEPT ![t] = sent_] \/ req' = [done EXCEPT ![t] = late_]
        BY <3>1, <4>1 DEF Starts, SendRequest, NotValid
      <4> HIDE DEF sent_, late_, done
      <4> QED
        BY <4>2, <4>3 DEF StartedAs
    <3> HIDE DEF t
    <3> QED
      BY <2>1, <2>3, <3>1, <3>2, <3>4, NextStarts DEF t
  <2> QED
    BY <2>2, <2>3
<1>4. ASSUME NEW r \in Requests, Serve(r) PROVE HttpInv'
  <2>1. /\ req[r].at \in {"sent", "hooked", "made", "refused"}
        /\ UNCHANGED <<requestQueue, queueRunning, jar, pushed>>
    BY <1>4 DEF Serve, MakeRequest
  <2>2. PICK place \in {"hooked", "made", "dropped", "refused", "response", "reject"} :
          req' = [req EXCEPT ![r].at = place]
    <3>1. CASE MakeRequest(r)
      BY <3>1 DEF MakeRequest, SendResponse, LosesAnswer, HttpGoes
    <3>2. CASE Rejects(r)
      BY <3>2 DEF Rejects, SendResponse, LosesAnswer, HttpGoes
    <3> QED
      BY <1>4, <3>1, <3>2 DEF Serve
  <2> QED
    BY <2>1, <2>2, RequestGoes
<1>5. ASSUME UNCHANGED <<requestQueue, queueRunning, req, jar, pushed>> PROVE HttpInv'
  BY <1>5 DEF HttpInv, HttpTyped, PushedOnce, InQueue, OneUnderway, CookiesKept, InTurn, Before
<1> QED
  BY <1>1, <1>2, <1>3, <1>4, <1>5 DEF HttpNext, HttpProgress, KillServer, httpVars

-----------------------------------------------------------------------------
(* FSStoreFile                                                             *)

\* The theorems about the resolver, for the resolver of this file: locks are not refused by
\* a client that goes, and nobody is cleaned up.
RP == INSTANCE FilePermissionResolverProofs WITH
  Clients <- {"here", "there"}, Requests <- FileIds, fpr <- fpr, refusals <- FALSE, cleaning <- FALSE,
  Client <- [i \in FileIds |-> Process(i)]

\* The values of the variables.
CallKind == [kind : Kinds \cup {"none"}, inside : BOOLEAN, frees : SUBSET FileIds,
       at : {"new", "queued", "woken", "ask", "asked", "io", "toLock", "locking", "body", "locked",
             "freeing", "ending", "toUnlock", "unlocking", "over", "failed"}]
RequestKind == [at : {"none", "there", "told", "freed", "gone"}, cb : FileCalls \cup {"init", "none"}]
FileStates == [enterTransaction : BOOLEAN, inTransaction : BOOLEAN, valid : BOOLEAN, accessId : FileIds \cup {NoId}]
\* The id of a lock, and that of an access of the object itself.
IsLock(i) == i \in FileIds /\ i[2] = "lock"
OwnAccess(i) == \E c \in OwnCalls : i = IdOf(c, "access")
\* The types, for any number of calls; the queue has the ids of locks.
FileTyped ==
  /\ fileState \in FileStates
  /\ lockQueue \in Seq(FileIds) /\ transactionQueue \in Seq(OwnCalls)
  /\ fileCall \in [FileCalls -> CallKind] /\ request \in [FileIds -> RequestKind]
  /\ barged \in BOOLEAN
  /\ \A k \in 1..Len(lockQueue) : IsLock(lockQueue[k])

\* What the resolver knows of a request, by what the client knows of it.
RequestIs(i, at, held) ==
  /\ at = "none" => held = "new"
  /\ at = "there" => held \in {"queued", "refused", i[2]}
  /\ at = "told" => held \in {"refused", i[2]}
  /\ at \in {"freed", "gone"} => held \notin {"new", "queued"}
  /\ i[2] = "lock" => held # "queued"
RequestsAre == \A i \in FileIds : RequestIs(i, request[i].at, fpr.held[i])
\* The id of a deletion, which the other process does not ask for.
OwnUnlink(i) == \E c \in OwnCalls : i = IdOf(c, "unlink")
\* Who waits in the queues of the resolver f.
QueuesAre(f) ==
  /\ \A i \in FileIds : RP!In(i, f.access) => i[2] = "access"
  /\ \A i \in FileIds : RP!In(i, f.del) => OwnUnlink(i)
  /\ \A i \in FileIds : f.held[i] = "unlink" => OwnUnlink(i)
\* The file is deleted, or a request refused, only if somebody got the permission to delete.
DeletedOnce(f) == \E c \in OwnCalls : f.held[IdOf(c, "unlink")] \in {"unlink", "over"}
DeletedFor(f) ==
  RP!IsDeleted(f) \/ (\E i \in FileIds : f.held[i] = "refused") => DeletedOnce(f)
\* What the resolver keeps (Sound of FilePermissionResolverProofs), for the ids of this file.
ServerIs(f) == RP!Sound(f) /\ QueuesAre(f) /\ DeletedFor(f)

\* The places of a call before it asks for the access, and for a lock.
NoAccessYet == {"new", "queued", "woken", "ask"}
NoLockYet == NoAccessYet \cup {"asked", "toLock"}
\* What a call has asked for and releases, by its place.
FileCallIs(c) ==
  /\ fileCall[c].at \in {"new", "queued", "woken"} => ~fileCall[c].inside
  /\ fileCall[c].at = "new" => request[IdOf(c, "unlink")].at = "none"
  /\ fileCall[c].at \in NoAccessYet => request[IdOf(c, "access")].at = "none"
  /\ fileCall[c].at \in NoLockYet => request[IdOf(c, "lock")].at = "none"
  /\ fileCall[c].at = "io" /\ c \in OtherCalls => request[IdOf(c, "access")].at = "told"
  /\ c \in OtherCalls => fileCall[c].at \in {"new", "asked", "io", "freeing", "over", "failed"} /\ fileCall[c].kind \in {"none", "write"}
  /\ c \in OtherCalls => fileCall[c].frees \subseteq {IdOf(c, "access")}
  /\ fileCall[c].kind = "lock" => fileCall[c].at \in {"toLock", "locking", "locked", "unlocking", "over"}
  /\ fileCall[c].at = "unlocking" => \A i \in fileCall[c].frees : IsLock(i)
  /\ fileCall[c].at \in {"freeing", "ending"} => \A i \in fileCall[c].frees : i[2] = "access"
  /\ fileCall[c].at \notin {"unlocking", "freeing", "ending"} => fileCall[c].frees = {}
FileCallsAre == \A c \in FileCalls : FileCallIs(c)
\* An id that the client has learned: those that it keeps are such ids.
WasAnswered(i) == i \in FileIds /\ request[i].at \in {"told", "freed", "gone"}
KnownIds ==
  /\ fileState.accessId # NoId => WasAnswered(fileState.accessId) /\ OwnAccess(fileState.accessId)
  /\ \A k \in 1..Len(lockQueue) : WasAnswered(lockQueue[k])
  /\ initPromise = "asked" => request[InitId].at = "there"

\* A call that releases the access releases its own, and nobody works meanwhile.
AccessFreed ==
  ~Overlapped /\ ~Deleted =>
    /\ \A c \in OwnCalls : fileCall[c].at \in {"freeing", "ending"} =>
         \A i \in fileCall[c].frees : i = IdOf(c, "access") /\ request[i].at = "freed"
    /\ \A c, d \in OwnCalls : request[IdOf(c, "access")].at = "freed" => ~AtWork(d)
    /\ \A c \in FileCalls : AtWork(c) => request[IdOf(c, "access")].at = "told"

\* The queue has waiting transactions, each once; a call that begins has no kind yet.
TransactionsInTurn ==
  /\ \A k \in 1..Len(transactionQueue) :
       fileCall[transactionQueue[k]].kind = "transaction" /\ fileCall[transactionQueue[k]].at = "queued"
  /\ IsInjective(transactionQueue)
  /\ \A c \in FileCalls : fileCall[c].at = "new" => fileCall[c].kind = "none"
  /\ \A c \in FileCalls : fileCall[c].at \in {"queued", "woken"} => fileCall[c].kind = "transaction"
\* A transaction that has left the queue.
IsActive(c) == fileCall[c].kind = "transaction" /\ fileCall[c].at \notin {"queued", "over"}
\* It is the only one, and is being woken while none is entered, unless one barged in.
OneActive ==
  ~barged =>
    /\ \A c, d \in OwnCalls : IsActive(c) /\ IsActive(d) => c = d
    /\ ~fileState.enterTransaction => \A c \in OwnCalls : IsActive(c) => fileCall[c].at = "woken"

\* The inductive invariant.
FileInv ==
  /\ FileTyped /\ ServerIs(fpr) /\ RequestsAre /\ FileCallsAre /\ KnownIds
  /\ LocksMatch /\ AccessIsMine /\ AccessFreed /\ TransactionsInTurn /\ OneActive
-----------------------------------------------------------------------------
\* From the server's f to g nobody but S is told anything, except that he has what he
\* waits for.
Follows(f, g, S) ==
  /\ ServerIs(g) /\ (DeletedOnce(f) => DeletedOnce(g))
  /\ \A q \in FileIds : q \notin S => g.held[q] = f.held[q] \/ (f.held[q] = "queued" /\ g.held[q] = q[2])
\* And S was released.
Released(f, g, S) == Follows(f, g, S) /\ \A q \in S : g.held[q] \in {f.held[q], "over"}

\* The ids are finitely many, each has one call and one action, and the resolver can be
\* taken with them.
LEMMA FileIdFacts ==
  /\ IsFiniteSet(FileIds) /\ NoId \notin FileIds
  /\ RP!ResolverConstants
  /\ InitId \in FileIds /\ IsLock(InitId)
  /\ \A c \in FileCalls, a \in {"lock", "access", "unlink"} :
       IdOf(c, a) \in FileIds /\ IdOf(c, a)[1] = c /\ IdOf(c, a)[2] = a /\ IdOf(c, a) # InitId
  /\ \A i \in FileIds : i[2] \in {"lock", "access", "unlink"}
  /\ \A c, d : \A a, b : IdOf(c, a) = IdOf(d, b) <=> c = d /\ a = b
<1>0. "init" \notin FileCalls
  BY FileAssumption DEF FileCalls
<1>1. IsFiniteSet(FileCalls)
  BY FileAssumption, FS_Union DEF FileCalls
<1>2. IsFiniteSet({"lock", "access", "unlink"})
  <2>1. /\ {"lock"} = {} \cup {"lock"} /\ {"lock", "access"} = {"lock"} \cup {"access"}
        /\ {"lock", "access", "unlink"} = {"lock", "access"} \cup {"unlink"}
    OBVIOUS
  <2>2. IsFiniteSet({"lock"})
    BY <2>1, FS_EmptySet, FS_AddElement
  <2>3. IsFiniteSet({"lock", "access"})
    BY <2>1, <2>2, FS_AddElement
  <2> QED
    BY <2>1, <2>3, FS_AddElement
<1>3. IsFiniteSet(FileCalls \X {"lock", "access", "unlink"})
  BY <1>1, <1>2, FS_Product
<1>4. IsFiniteSet(FileIds)
  BY <1>3, FS_AddElement DEF FileIds
<1>5. RP!ResolverConstants
  <2>1. RP!IsFiniteSet(FileIds)
    BY <1>4 DEF IsFiniteSet, RP!IsFiniteSet
  <2> QED
    BY <2>1 DEF RP!ResolverConstants, Process
<1>6. \A c, d : \A a, b : IdOf(c, a) = IdOf(d, b) <=> c = d /\ a = b
  BY DEF IdOf
<1>7. InitId \in FileIds /\ IsLock(InitId)
  BY DEF IsLock, InitId, FileIds, IdOf
<1>8. \A c \in FileCalls, a \in {"lock", "access", "unlink"} :
       IdOf(c, a) \in FileIds /\ IdOf(c, a)[1] = c /\ IdOf(c, a)[2] = a /\ IdOf(c, a) # InitId
  BY <1>0 DEF InitId, FileIds, IdOf
<1>9. \A i \in FileIds : i[2] \in {"lock", "access", "unlink"}
  BY DEF FileIds, InitId, IdOf
<1>10. NoId \notin FileIds
  BY DEF NoId, FileIds, InitId, IdOf
<1> QED
  BY <1>4, <1>5, <1>6, <1>7, <1>8, <1>9, <1>10

-----------------------------------------------------------------------------
(* The methods of the resolver are those that the proofs are about.        *)

\* The resolver of FSStoreFile and that of the theorems have the same methods.
LEMMA SameFileTries ==
  ASSUME NEW f
  PROVE  /\ Resolver!IsDeleted(f) = RP!IsDeleted(f)
         /\ Resolver!TryDelete(f) = RP!TryDelete(f)
         /\ Resolver!ChkEmpty(f) = RP!ChkEmpty(f)
         /\ Resolver!TryAccess(f) = RP!TryAccess(f)
<1>1. Resolver!IsDeleted(f) = RP!IsDeleted(f)
  BY DEF Resolver!IsDeleted, RP!IsDeleted
<1>2. \A g : Resolver!IsDeleted(g) = RP!IsDeleted(g) /\ Resolver!CanBeDeleted(g) = RP!CanBeDeleted(g)
  BY DEF Resolver!CanBeDeleted, RP!CanBeDeleted, Resolver!IsDeleted, RP!IsDeleted
<1>3. \A g : Resolver!TryDelete(g) = RP!TryDelete(g)
  BY <1>2 DEF Resolver!TryDelete, RP!TryDelete
<1>4. \A g : Resolver!ChkEmpty(g) = RP!ChkEmpty(g)
  BY <1>3 DEF Resolver!ChkEmpty, RP!ChkEmpty
<1>5. Resolver!TryAccess(f) = RP!TryAccess(f)
  BY <1>1, <1>4 DEF Resolver!TryAccess, RP!TryAccess
<1> QED
  BY <1>1, <1>3, <1>4, <1>5

\* So have their public methods.
LEMMA SameFileMethods ==
  ASSUME NEW f, NEW i \in FileIds
  PROVE  /\ Resolver!Lock(f, i) = RP!Lock(f, i)
         /\ Resolver!HookAccess(f, i) = RP!HookAccess(f, i)
         /\ Resolver!HookUnlink(f, i) = RP!HookUnlink(f, i)
         /\ Resolver!LockReleased(f, i) = RP!LockReleased(f, i)
         /\ Resolver!AccessReleased(f, i) = RP!AccessReleased(f, i)
         /\ Resolver!UnlinkReleased(f, i) = RP!UnlinkReleased(f, i)
         /\ Resolver!Unlock(Resolver!Tell(f, i, "over"), Process(i))
              = RP!Unlock(RP!Tell(f, i, "over"), Process(i))
         /\ \A what : Resolver!Tell(f, i, what) = RP!Tell(f, i, what)
         /\ Resolver!New = RP!New
<1>1. \A y, what : Resolver!Tell(y, i, what) = RP!Tell(y, i, what)
  BY DEF Resolver!Tell, RP!Tell
<1>2. \A y : Resolver!Unlock(y, Process(i)) = RP!Unlock(y, Process(i))
  BY SameFileTries
     DEF Resolver!Unlock, RP!Unlock, Resolver!Locks!CanRelease, RP!Locks!CanRelease,
         Resolver!Locks!Released, RP!Locks!Released
<1>3. Resolver!Lock(f, i) = RP!Lock(f, i)
  BY <1>1, SameFileTries
     DEF Resolver!Lock, RP!Lock, Resolver!Locks!Acquired, RP!Locks!Acquired
<1>4. Resolver!HookAccess(f, i) = RP!HookAccess(f, i)
  BY <1>1, SameFileTries DEF Resolver!HookAccess, RP!HookAccess
<1>5. Resolver!HookUnlink(f, i) = RP!HookUnlink(f, i)
  BY <1>1, SameFileTries DEF Resolver!HookUnlink, RP!HookUnlink
<1>6. Resolver!LockReleased(f, i) = RP!LockReleased(f, i)
  BY <1>1, <1>2 DEF Resolver!LockReleased, RP!LockReleased
<1>7. Resolver!AccessReleased(f, i) = RP!AccessReleased(f, i)
  BY <1>1, SameFileTries DEF Resolver!AccessReleased, RP!AccessReleased
<1>8. Resolver!UnlinkReleased(f, i) = RP!UnlinkReleased(f, i)
  BY <1>1, SameFileTries DEF Resolver!UnlinkReleased, RP!UnlinkReleased
<1>9. Resolver!New = RP!New
  BY DEF Resolver!New, RP!New, Resolver!Locks!NoLocks, RP!Locks!NoLocks
<1> QED
  BY <1>1, <1>2, <1>3, <1>4, <1>5, <1>6, <1>7, <1>8, <1>9

-----------------------------------------------------------------------------
(* A step of the server                                                    *)

\* A sound resolver is typed.
LEMMA ServerTypes ==
  ASSUME NEW f, RP!Sound(f)
  PROVE  /\ f \in RP!Resolvers /\ RP!Queued(f)
         /\ f.held \in [FileIds -> RP!Held]
         /\ \A q \in FileIds : RP!In(q, f.access) \/ RP!In(q, f.del) => f.held[q] = "queued"
<1>1. RP!Queued(f) /\ f \in RP!Resolvers
  BY DEF RP!Sound, RP!Queued
<1>2. f.held \in [FileIds -> RP!Held]
  BY <1>1 DEF RP!Resolvers
<1>3. \A q \in FileIds : RP!In(q, f.access) \/ RP!In(q, f.del) => f.held[q] = "queued"
  BY <1>1 DEF RP!Queued, RP!WaitsOnce, RP!In
<1> QED
  BY <1>1, <1>2, <1>3

\* A method that changes the state of one id follows, if it deletes only for that id.
LEMMA ServerMoves ==
  ASSUME NEW f, ServerIs(f), NEW g, RP!Sound(g), NEW i \in FileIds, NEW what,
         RP!Calls(f, g, i, what), f.held[i] # "queued",
         "access" \in what => i[2] = "access", "unlink" \in what => OwnUnlink(i),
         f.held[i] \in {"unlink", "over"} => g.held[i] \in {"unlink", "over"},
         g.held[i] = "refused" => RP!IsDeleted(f) \/ f.held[i] = "refused",
         RP!IsDeleted(g) => RP!IsDeleted(f) \/ \E q \in FileIds : "unlink" \in {f.held[q], g.held[q]}
  PROVE  Follows(f, g, {i})
<1>1. \A q \in FileIds : q # i /\ g.held[q] # f.held[q] =>
         f.held[q] = "queued" /\ (\/ RP!In(q, f.access) /\ g.held[q] = "access"
                                  \/ RP!In(q, f.del) /\ g.held[q] = "unlink")
  BY ServerTypes DEF ServerIs, RP!Calls
<1>2. ASSUME NEW q \in FileIds, q # i
      PROVE  g.held[q] = f.held[q] \/ (f.held[q] = "queued" /\ g.held[q] = q[2])
  <2>1. RP!In(q, f.access) => q[2] = "access"
    BY DEF ServerIs, QueuesAre
  <2>2. RP!In(q, f.del) => q[2] = "unlink"
    BY DEF ServerIs, QueuesAre, OwnUnlink, IdOf
  <2> QED
    BY <1>1, <1>2, <2>1, <2>2
<1>3. QueuesAre(g)
  <2>1. \A q \in FileIds : RP!In(q, g.access) => q[2] = "access"
    BY DEF ServerIs, QueuesAre, RP!Calls
  <2>2. \A q \in FileIds : RP!In(q, g.del) => OwnUnlink(q)
    BY DEF ServerIs, QueuesAre, RP!Calls
  <2>3. \A q \in FileIds : g.held[q] = "unlink" => OwnUnlink(q)
    <3>1. g.held[i] = "unlink" => OwnUnlink(i)
      BY DEF RP!Calls
    <3> QED
      BY <1>1, <3>1 DEF ServerIs, QueuesAre
  <2> QED
    BY <2>1, <2>2, <2>3 DEF QueuesAre
<1>4. DeletedOnce(f) => DeletedOnce(g)
  <2>1. \A q \in FileIds : f.held[q] \in {"unlink", "over"} => g.held[q] \in {"unlink", "over"}
    BY <1>1
  <2>2. \A c \in OwnCalls : IdOf(c, "unlink") \in FileIds
    BY FileIdFacts DEF FileCalls
  <2> QED
    BY <2>1, <2>2 DEF DeletedOnce
<1>5. ASSUME NEW q \in FileIds, "unlink" \in {f.held[q], g.held[q]} PROVE DeletedOnce(g)
  <2>1. OwnUnlink(q)
    BY <1>3, <1>5 DEF ServerIs, QueuesAre
  <2>2. g.held[q] \in {"unlink", "over"}
    BY <1>1, <1>5
  <2> QED
    BY <2>1, <2>2 DEF DeletedOnce, OwnUnlink
<1>6. DeletedFor(g)
  <2>1. RP!IsDeleted(f) => DeletedOnce(g)
    BY <1>4 DEF ServerIs, DeletedFor
  <2>2. RP!IsDeleted(g) => DeletedOnce(g)
    BY <1>5, <2>1
  <2>3. ASSUME NEW q \in FileIds, g.held[q] = "refused" PROVE DeletedOnce(g)
    <3>1. f.held[q] = "refused" \/ RP!IsDeleted(f)
      BY <1>1, <2>3
    <3> QED
      BY <1>4, <2>1, <3>1 DEF ServerIs, DeletedFor
  <2> QED
    BY <2>2, <2>3 DEF DeletedFor
<1> QED
  BY <1>2, <1>3, <1>4, <1>6 DEF Follows, ServerIs

\* Who deletes the file has got the permission, and nobody is refused.
DeletesOnly(f, g) ==
  /\ RP!IsDeleted(g) => RP!IsDeleted(f) \/ \E q \in FileIds : g.held[q] = "unlink"
  /\ \A q \in FileIds : g.held[q] = "refused" => f.held[q] = "refused"

\* tryDelete() deletes the file for the first in its queue.
LEMMA TryDeleteDeletes ==
  ASSUME NEW f \in RP!Resolvers
  PROVE  DeletesOnly(f, RP!TryDelete(f))
<1>1. CASE ~(RP!CanBeDeleted(f) /\ f.del # <<>>)
  BY <1>1 DEF RP!TryDelete, DeletesOnly
<1>2. CASE RP!CanBeDeleted(f) /\ f.del # <<>>
  <2>1. RP!TryDelete(f).held = [f.held EXCEPT ![Head(f.del)] = "unlink"]
    BY <1>2 DEF RP!TryDelete, RP!Resolvers
  <2>2. f.held \in [FileIds -> RP!Held] /\ f.del \in Seq(FileIds)
    BY DEF RP!Resolvers
  <2>3. Head(f.del) \in FileIds
    BY <1>2, <2>2
  <2> QED
    BY <2>1, <2>2, <2>3 DEF DeletesOnly
<1> QED
  BY <1>1, <1>2

\* chkEmpty() deletes the file for the first in its queue.
LEMMA ChkEmptyDeletes ==
  ASSUME NEW f \in RP!Resolvers
  PROVE  DeletesOnly(f, RP!ChkEmpty(f))
<1> DEFINE e == [f EXCEPT !.state = "free"]
<1>1. e \in RP!Resolvers /\ e.held = f.held /\ e.state = "free"
  BY DEF RP!Resolvers, RP!States
<1>2. ~RP!IsDeleted(e)
  BY <1>1 DEF RP!IsDeleted
<1>3. DeletesOnly(e, RP!TryDelete(e))
  BY <1>1, TryDeleteDeletes
<1>4. CASE f.multiLock.length = 0 /\ f.access = <<>> /\ ~f.accessing
  <2>1. RP!ChkEmpty(f) = RP!TryDelete(e)
    BY <1>4 DEF RP!ChkEmpty
  <2> HIDE DEF e
  <2> QED
    BY <1>1, <1>2, <1>3, <2>1 DEF DeletesOnly
<1>5. CASE ~(f.multiLock.length = 0 /\ f.access = <<>> /\ ~f.accessing)
  <2>1. RP!ChkEmpty(f).state \in {"access", "locked", f.state} /\ RP!ChkEmpty(f).held = f.held
    BY <1>5 DEF RP!ChkEmpty, RP!Resolvers
  <2> QED
    BY <2>1 DEF DeletesOnly, RP!IsDeleted
<1> QED
  BY <1>4, <1>5

\* tryAccess() grants an access or deletes.
LEMMA TryAccessDeletes ==
  ASSUME NEW f \in RP!Resolvers
  PROVE  DeletesOnly(f, RP!TryAccess(f))
<1>1. CASE RP!IsDeleted(f) \/ f.accessing
  BY <1>1 DEF RP!TryAccess, DeletesOnly
<1>2. CASE ~(RP!IsDeleted(f) \/ f.accessing) /\ f.access # <<>>
  <2>1. /\ RP!TryAccess(f).state = f.state
        /\ RP!TryAccess(f).held = [f.held EXCEPT ![Head(f.access)] = "access"]
    BY <1>2 DEF RP!TryAccess, RP!Resolvers
  <2>2. f.held \in [FileIds -> RP!Held]
    BY DEF RP!Resolvers
  <2> QED
    BY <2>1, <2>2 DEF DeletesOnly, RP!IsDeleted
<1>3. CASE ~(RP!IsDeleted(f) \/ f.accessing) /\ f.access = <<>>
  <2>1. RP!TryAccess(f) = RP!ChkEmpty(f)
    BY <1>3 DEF RP!TryAccess
  <2> QED
    BY <2>1, ChkEmptyDeletes
<1> QED
  BY <1>1, <1>2, <1>3

\* A request that joins a queue.
LEMMA JoinedTypes ==
  ASSUME NEW f \in RP!Resolvers, NEW i \in FileIds
  PROVE  /\ [RP!Tell(f, i, "queued") EXCEPT !.access = Append(f.access, i)] \in RP!Resolvers
         /\ [RP!Tell(f, i, "queued") EXCEPT !.access = Append(f.access, i)].state = f.state
         /\ [RP!Tell(f, i, "queued") EXCEPT !.access = Append(f.access, i)].held
              = [f.held EXCEPT ![i] = "queued"]
         /\ [RP!Tell(f, i, "queued") EXCEPT !.del = Append(f.del, i)] \in RP!Resolvers
         /\ [RP!Tell(f, i, "queued") EXCEPT !.del = Append(f.del, i)].state = f.state
<1> DEFINE h == [f.held EXCEPT ![i] = "queued"]
<1>1. h \in [FileIds -> RP!Held]
  BY DEF RP!Resolvers, RP!Held
<1>2. Append(f.access, i) \in Seq(FileIds) /\ Append(f.del, i) \in Seq(FileIds)
  BY DEF RP!Resolvers
<1>3. RP!Tell(f, i, "queued") = [f EXCEPT !.held = h]
  BY DEF RP!Tell
<1> HIDE DEF h
<1> DEFINE joined == Append(f.access, i)
           waits == Append(f.del, i)
<1> HIDE DEF joined, waits
<1>4. [[f EXCEPT !.held = h] EXCEPT !.access = joined] \in RP!Resolvers
      /\ [[f EXCEPT !.held = h] EXCEPT !.access = joined].state = f.state
      /\ [[f EXCEPT !.held = h] EXCEPT !.access = joined].held = h
  BY <1>1, <1>2 DEF RP!Resolvers, joined
<1>5. [[f EXCEPT !.held = h] EXCEPT !.del = waits] \in RP!Resolvers
      /\ [[f EXCEPT !.held = h] EXCEPT !.del = waits].state = f.state
  BY <1>1, <1>2 DEF RP!Resolvers, waits
<1> QED
  BY <1>3, <1>4, <1>5 DEF h, joined, waits

\* lock() is answered at once.
LEMMA LockAsked ==
  ASSUME NEW f, ServerIs(f), NEW i \in FileIds, f.held[i] = "new"
  PROVE  Follows(f, RP!Lock(f, i), {i}) /\ RP!Lock(f, i).held[i] \in {"lock", "refused"}
<1> DEFINE g == RP!Lock(f, i)
<1>1. RP!Sound(f) /\ f \in RP!Resolvers /\ f.held \in [FileIds -> RP!Held]
  BY ServerTypes DEF ServerIs
<1>2. RP!Sound(g) /\ RP!Calls(f, g, i, {"lock", "refused"})
  BY <1>1, RP!LockKeeps, FileIdFacts
<1>3. IF RP!IsDeleted(f) THEN g.state = f.state
      ELSE g.state = "locked" /\ g.held[i] = "lock"
  BY <1>1 DEF RP!Lock, RP!Tell, RP!Resolvers
<1> HIDE DEF g
<1>4. RP!IsDeleted(g) => RP!IsDeleted(f)
  BY <1>3 DEF RP!IsDeleted
<1>5. Follows(f, g, {i})
  BY <1>2, <1>3, <1>4, ServerMoves
<1> QED
  BY <1>2, <1>5 DEF g, RP!Calls

\* hookAccess() queues, grants or refuses.
LEMMA AccessAsked ==
  ASSUME NEW f, ServerIs(f), NEW i \in FileIds, f.held[i] = "new", i[2] = "access"
  PROVE  /\ Follows(f, RP!HookAccess(f, i), {i})
         /\ RP!HookAccess(f, i).held[i] \in {"queued", "access", "refused"}
<1> DEFINE g == RP!HookAccess(f, i)
           e == [RP!Tell(f, i, "queued") EXCEPT !.access = Append(f.access, i)]
<1>1. RP!Sound(f) /\ f \in RP!Resolvers /\ f.held \in [FileIds -> RP!Held]
  BY ServerTypes DEF ServerIs
<1> DEFINE what == {"queued", "access", "refused"}
<1>2. RP!Sound(g) /\ RP!Calls(f, g, i, what)
  BY <1>1, RP!HookAccessKeeps, FileIdFacts
<1>0. /\ "access" \in what => i[2] = "access"
      /\ "unlink" \in what => OwnUnlink(i)
      /\ f.held[i] \in {"unlink", "over"} => g.held[i] \in {"unlink", "over"}
  OBVIOUS
<1>3. e \in RP!Resolvers /\ e.state = f.state /\ e.held = [f.held EXCEPT ![i] = "queued"]
  BY <1>1, JoinedTypes
<1>4. IF RP!IsDeleted(f) THEN g.state = f.state ELSE g = RP!TryAccess(e)
  BY <1>1 DEF RP!HookAccess, RP!Tell, RP!Resolvers
<1>9. g.held[i] \in what
  BY <1>2 DEF RP!Calls
<1> HIDE DEF g, e, what
<1> SUFFICES Follows(f, g, {i})
  BY <1>9 DEF g, what
<1>5. CASE RP!IsDeleted(f)
  BY <1>0, <1>2, <1>5, ServerMoves
<1>6. CASE ~RP!IsDeleted(f)
  <2>1. DeletesOnly(e, g)
    BY <1>3, <1>4, <1>6, TryAccessDeletes
  <2>2. ~RP!IsDeleted(e)
    BY <1>3, <1>6 DEF RP!IsDeleted
  <2>3. g.held[i] # "refused"
    BY <1>1, <1>3, <2>1 DEF DeletesOnly
  <2>4. RP!IsDeleted(g) => \E q \in FileIds : "unlink" \in {f.held[q], g.held[q]}
    BY <2>1, <2>2 DEF DeletesOnly
  <2>5. g.held[i] \in {"queued", "access"}
    BY <1>9, <2>3 DEF what
  <2> QED
    BY <1>0, <1>2, <2>4, <2>5, ServerMoves
<1> QED
  BY <1>5, <1>6

\* hookUnlink() queues or grants.
LEMMA UnlinkAsked ==
  ASSUME NEW f, ServerIs(f), NEW i \in FileIds, f.held[i] = "new", OwnUnlink(i)
  PROVE  /\ Follows(f, RP!HookUnlink(f, i), {i})
         /\ RP!HookUnlink(f, i).held[i] \in {"queued", "unlink"}
<1> DEFINE g == RP!HookUnlink(f, i)
           e == [RP!Tell(f, i, "queued") EXCEPT !.del = Append(f.del, i)]
<1>1. RP!Sound(f) /\ f \in RP!Resolvers /\ f.held \in [FileIds -> RP!Held]
  BY ServerTypes DEF ServerIs
<1>2. RP!Sound(g) /\ RP!Calls(f, g, i, {"queued", "unlink"})
  BY <1>1, RP!HookUnlinkKeeps, FileIdFacts
<1>3. e \in RP!Resolvers /\ e.state = f.state
  BY <1>1, JoinedTypes
<1>4. g = RP!TryDelete(e)
  BY <1>1 DEF RP!HookUnlink, RP!Tell, RP!Resolvers
<1>5. DeletesOnly(e, g)
  BY <1>3, <1>4, TryDeleteDeletes
<1> HIDE DEF g, e
<1>6. RP!IsDeleted(e) = RP!IsDeleted(f)
  BY <1>3 DEF RP!IsDeleted
<1>7. RP!IsDeleted(g) => RP!IsDeleted(f) \/ \E q \in FileIds : "unlink" \in {f.held[q], g.held[q]}
  BY <1>5, <1>6 DEF DeletesOnly
<1>8. g.held[i] \in {"queued", "unlink"}
  BY <1>2 DEF RP!Calls
<1>9. Follows(f, g, {i})
  BY <1>2, <1>7, <1>8, ServerMoves
<1> QED
  BY <1>8, <1>9 DEF g
-----------------------------------------------------------------------------
\* unlock() leaves the id released.
LEMMA UnlockedType ==
  ASSUME NEW k \in RP!Locks!MultiLocks, NEW w \in {"here", "there"}
  PROVE  (IF RP!Locks!CanRelease(k, w) THEN RP!Locks!Released(k, w) ELSE k) \in RP!Locks!MultiLocks
BY DEF RP!Locks!MultiLocks, RP!Locks!CanRelease, RP!Locks!Released

\* A release of what was granted or refused.
LEMMA ReleaseKeeps ==
  ASSUME NEW f, ServerIs(f), NEW i \in FileIds, f.held[i] \notin {"new", "queued"}
  PROVE  Follows(f, ServerReleases(f, i), {i}) /\ ServerReleases(f, i).held[i] = "over"
<1> DEFINE g == ServerReleases(f, i)
           t == RP!Tell(f, i, "over")
<1>1. RP!Sound(f) /\ f \in RP!Resolvers /\ f.held \in [FileIds -> RP!Held]
  BY ServerTypes DEF ServerIs
<1>2. t \in RP!Resolvers /\ t.state = f.state /\ t.held = [f.held EXCEPT ![i] = "over"]
  BY <1>1 DEF RP!Tell, RP!Resolvers, RP!Held
<1>3. [q \in FileIds |-> Process(q)][i] = Process(i)
  OBVIOUS
<1>4. RP!Sound(g) /\ RP!Calls(f, g, i, {"over"})
  <2>1. CASE f.held[i] = "lock"
    BY <1>1, <2>1, RP!LockReleasedKeeps, FileIdFacts, SameFileMethods DEF ServerReleases
  <2>2. CASE f.held[i] = "access"
    BY <1>1, <2>2, RP!AccessReleasedKeeps, FileIdFacts, SameFileMethods DEF ServerReleases
  <2>3. CASE f.held[i] = "unlink"
    BY <1>1, <2>3, RP!UnlinkReleasedKeeps, FileIdFacts, SameFileMethods DEF ServerReleases
  <2>4. CASE f.held[i] = "refused" /\ i[2] = "lock"
    BY <1>1, <2>4, RP!RefusalReleasedKeeps, FileIdFacts, SameFileMethods DEF ServerReleases
  <2>5. CASE f.held[i] = "over" \/ (f.held[i] = "refused" /\ i[2] # "lock")
    <3>1. g = t
      BY <2>5, SameFileMethods DEF ServerReleases
    <3>2. /\ RP!Queued(t) /\ t.multiLock = f.multiLock /\ t.access = f.access /\ t.del = f.del
          /\ t.state = f.state /\ t.held[i] = "over" /\ \A q \in FileIds \ {i} : t.held[q] = f.held[q]
      <4>1. RP!Queued(f) /\ f.held[i] \notin {"queued", "access"} /\ "over" \in RP!Held \ {"access"}
        BY <1>1, <2>5, ServerTypes DEF RP!Held
      <4>2. RP!Queued(t)
        BY <4>1, RP!TellKeeps, FileIdFacts
      <4>3. /\ t.multiLock = f.multiLock /\ t.access = f.access /\ t.del = f.del
            /\ t.state = f.state
        BY <1>1 DEF RP!Tell, RP!Resolvers
      <4>4. t.held[i] = "over" /\ \A q \in FileIds \ {i} : t.held[q] = f.held[q]
        BY <1>1, <1>2
      <4> QED
        BY <4>2, <4>3, <4>4
    <3> HIDE DEF g, t
    <3> QED
      BY <1>1, <3>1, <3>2 DEF RP!Sound, RP!FreeUnlocked, RP!Calls
  <2> QED
    BY <1>1, <2>1, <2>2, <2>3, <2>4, <2>5 DEF RP!Held
<1>5. RP!IsDeleted(g) => RP!IsDeleted(f) \/ \E q \in FileIds : "unlink" \in {f.held[q], g.held[q]}
  <2>1. CASE f.held[i] = "lock" \/ (f.held[i] = "refused" /\ i[2] = "lock")
    <3>1. g = RP!Unlock(t, Process(i))
      BY <1>3, <2>1, SameFileMethods DEF ServerReleases, RP!LockReleased
    <3>2. t.multiLock \in RP!Locks!MultiLocks
      BY <1>2 DEF RP!Resolvers
    <3> DEFINE m == IF RP!Locks!CanRelease(t.multiLock, Process(i))
                    THEN RP!Locks!Released(t.multiLock, Process(i)) ELSE t.multiLock
               e == [t EXCEPT !.multiLock = m]
    <3>3. g = RP!ChkEmpty(e)
      BY <3>1 DEF RP!Unlock
    <3>4. m \in RP!Locks!MultiLocks
      BY <3>2, UnlockedType DEF Process
    <3> HIDE DEF m, t, g
    <3>5. e \in RP!Resolvers /\ e.state = t.state
      BY <1>2, <3>4 DEF RP!Resolvers
    <3> HIDE DEF e
    <3>6. DeletesOnly(e, g)
      BY <3>3, <3>5, ChkEmptyDeletes
    <3> QED
      BY <1>2, <3>5, <3>6 DEF DeletesOnly, RP!IsDeleted
  <2>2. CASE f.held[i] = "access"
    <3>1. g = RP!TryAccess([t EXCEPT !.accessing = FALSE])
      BY <2>2, SameFileMethods DEF ServerReleases, RP!AccessReleased
    <3>2. [t EXCEPT !.accessing = FALSE] \in RP!Resolvers /\ [t EXCEPT !.accessing = FALSE].state = t.state
      BY <1>2 DEF RP!Resolvers
    <3> DEFINE e == [t EXCEPT !.accessing = FALSE]
    <3> HIDE DEF e, t, g
    <3>3. DeletesOnly(e, g)
      BY <3>1, <3>2, TryAccessDeletes DEF e
    <3> QED
      BY <1>2, <3>2, <3>3 DEF DeletesOnly, RP!IsDeleted, e
  <2>3. CASE f.held[i] = "unlink"
    BY <2>3
  <2>4. CASE f.held[i] = "over" \/ (f.held[i] = "refused" /\ i[2] # "lock")
    <3>1. g = t
      BY <2>4, SameFileMethods DEF ServerReleases
    <3> QED
      BY <1>2, <3>1 DEF RP!IsDeleted
  <2> QED
    BY <1>1, <2>1, <2>2, <2>3, <2>4 DEF RP!Held
<1> HIDE DEF g, t
<1>6. g.held[i] = "over"
  BY <1>4 DEF RP!Calls
<1>7. Follows(f, g, {i})
  BY <1>4, <1>5, <1>6, ServerMoves
<1> QED
  BY <1>6, <1>7 DEF g

\* One more release.
LEMMA ReleasedStep ==
  ASSUME NEW f, NEW g, NEW S \in SUBSET FileIds, Released(f, g, S), NEW i \in S,
         \A q \in S : f.held[q] \notin {"new", "queued"}
  PROVE  Released(f, ServerReleases(g, i), S)
<1> DEFINE h == ServerReleases(g, i)
<1>1. ServerIs(g) /\ g.held[i] \notin {"new", "queued"}
  BY DEF Released, Follows
<1>2. Follows(g, h, {i}) /\ h.held[i] = "over"
  BY <1>1, ReleaseKeeps
<1> HIDE DEF h
<1>3. ASSUME NEW q \in FileIds \ S
      PROVE  h.held[q] = f.held[q] \/ (f.held[q] = "queued" /\ h.held[q] = q[2])
  <2>1. g.held[q] = f.held[q] \/ (f.held[q] = "queued" /\ g.held[q] = q[2])
    BY DEF Released, Follows
  <2>2. h.held[q] = g.held[q] \/ (g.held[q] = "queued" /\ h.held[q] = q[2])
    BY <1>2 DEF Follows
  <2>3. q[2] # "queued"
    BY FileIdFacts
  <2> QED
    BY <2>1, <2>2, <2>3
<1>4. ASSUME NEW q \in S PROVE h.held[q] \in {f.held[q], "over"}
  <2>1. g.held[q] \in {f.held[q], "over"} /\ g.held[q] # "queued"
    BY DEF Released
  <2>2. q # i => h.held[q] = g.held[q]
    BY <1>2, <2>1 DEF Follows
  <2> QED
    BY <1>2, <2>1, <2>2
<1>5. ServerIs(h) /\ (DeletedOnce(f) => DeletedOnce(h))
  BY <1>2 DEF Follows, Released
<1> QED
  BY <1>3, <1>4, <1>5 DEF h, Released, Follows

\* The resolvers that the releases of ids can lead to.
ReleasedSet(ids) == {f \in RP!Resolvers : Released(fpr, f, ToSet(ids))}

\* g is what AfterReleases makes of the first n releases.
Releasing(g, ids, n) ==
  \A k \in 0..n : g[k] = IF k = 0 THEN fpr
                         ELSE IF request[ids[k]].at \in {"there", "told"} THEN ServerReleases(g[k - 1], ids[k])
                         ELSE g[k - 1]

\* The elements of a sequence.
LEMMA ToSetFacts ==
  ASSUME NEW S, NEW s \in Seq(S)
  PROVE  ToSet(s) \subseteq S /\ \A z : z \in ToSet(s) <=> \E k \in 1..Len(s) : s[k] = z
BY DEF ToSet

\* The releases are made for every number of ids.
LEMMA ReleasingStep ==
  ASSUME NEW ids \in Seq(FileIds), \A k \in 1..Len(ids) : fpr.held[ids[k]] \notin {"new", "queued"},
         NEW k \in 1..Len(ids), NEW f \in ReleasedSet(ids)
  PROVE  /\ f \in ReleasedSet(ids)
         /\ ServerReleases(f, ids[k]) \in ReleasedSet(ids)
<1>1. /\ ToSet(ids) \in SUBSET FileIds /\ ids[k] \in ToSet(ids)
      /\ \A q \in ToSet(ids) : fpr.held[q] \notin {"new", "queued"}
  BY ToSetFacts
<1>2. Released(fpr, ServerReleases(f, ids[k]), ToSet(ids))
  BY <1>1, ReleasedStep DEF ReleasedSet
<1>3. ServerReleases(f, ids[k]) \in RP!Resolvers
  BY <1>2, ServerTypes DEF Released, Follows, ServerIs
<1> QED
  BY <1>2, <1>3 DEF ReleasedSet

\* There is such a function for every n.
LEMMA ReleasingExists ==
  ASSUME ServerIs(fpr), NEW ids \in Seq(FileIds),
         \A k \in 1..Len(ids) : fpr.held[ids[k]] \notin {"new", "queued"}
  PROVE  \A n \in Nat : n <= Len(ids) => \E g \in [0..n -> ReleasedSet(ids)] : Releasing(g, ids, n)
<1> DEFINE T == {n \in Nat : n <= Len(ids) =>
                   \E g \in [0..n -> ReleasedSet(ids)] : Releasing(g, ids, n)}
<1>0. fpr \in ReleasedSet(ids)
  BY ServerTypes, ToSetFacts DEF ReleasedSet, Released, Follows, ServerIs
<1>1. 0 \in T
  <2> DEFINE g == [i \in 0..0 |-> fpr]
  <2>1. g \in [0..0 -> ReleasedSet(ids)] /\ Releasing(g, ids, 0)
    BY <1>0 DEF Releasing
  <2> QED
    BY <2>1
<1>2. ASSUME NEW n \in Nat, n \in T PROVE n + 1 \in T
  <2> SUFFICES ASSUME n + 1 <= Len(ids)
               PROVE  \E h \in [0..(n + 1) -> ReleasedSet(ids)] : Releasing(h, ids, n + 1)
    OBVIOUS
  <2>1. n <= Len(ids) /\ n + 1 \in 1..Len(ids)
    OBVIOUS
  <2>2. PICK g \in [0..n -> ReleasedSet(ids)] : Releasing(g, ids, n)
    BY <1>2, <2>1
  <2> DEFINE last == IF request[ids[n + 1]].at \in {"there", "told"}
                     THEN ServerReleases(g[n], ids[n + 1]) ELSE g[n]
             h == [i \in 0..(n + 1) |-> IF i = n + 1 THEN last ELSE g[i]]
  <2>3. g[n] \in ReleasedSet(ids)
    BY <2>2
  <2>4. last \in ReleasedSet(ids)
    BY <2>1, <2>3, ReleasingStep
  <2> HIDE DEF last
  <2>5. h \in [0..(n + 1) -> ReleasedSet(ids)]
    BY <2>2, <2>4
  <2>6. Releasing(h, ids, n + 1)
    <3> SUFFICES ASSUME NEW i \in 0..(n + 1)
                 PROVE  h[i] = IF i = 0 THEN fpr
                         ELSE IF request[ids[i]].at \in {"there", "told"} THEN ServerReleases(h[i - 1], ids[i])
                         ELSE h[i - 1]
      BY DEF Releasing
    <3>1. CASE i = n + 1
      <4>1. h[i] = last /\ h[i - 1] = g[n] /\ i # 0
        BY <3>1
      <4> QED
        BY <3>1, <4>1 DEF last
    <3>2. CASE i \in 0..n
      <4>1. h[i] = g[i] /\ (i # 0 => h[i - 1] = g[i - 1])
        BY <3>2
      <4> QED
        BY <2>2, <3>2, <4>1 DEF Releasing
    <3> QED
      BY <3>1, <3>2
  <2> QED
    BY <2>5, <2>6
<1> HIDE DEF T
<1>3. Nat \subseteq T
  BY <1>1, <1>2, RP!SetInduction, FileIdFacts
<1> QED
  BY <1>3 DEF T

\* A release of any ids that were answered follows.
LEMMA AfterReleasesKeeps ==
  ASSUME ServerIs(fpr), NEW ids \in Seq(FileIds),
         \A k \in 1..Len(ids) : fpr.held[ids[k]] \notin {"new", "queued"}
  PROVE  Released(fpr, AfterReleases(ids), ToSet(ids))
<1> DEFINE Eqn(f) == f = [k \in 0..Len(ids) |->
                IF k = 0 THEN fpr
                ELSE IF request[ids[k]].at \in {"there", "told"} THEN ServerReleases(f[k - 1], ids[k])
                ELSE f[k - 1]]
           after == CHOOSE f : Eqn(f)
<1>1. Len(ids) \in Nat
  OBVIOUS
<1>2. Eqn(after)
  <2>1. PICK g \in [0..Len(ids) -> ReleasedSet(ids)] : Releasing(g, ids, Len(ids))
    <3> HIDE DEF after, Eqn
    <3>1. Len(ids) <= Len(ids)
      BY <1>1
    <3> QED
      BY <1>1, <3>1, ReleasingExists, Zenon
  <2>2. Eqn(g)
    BY <2>1 DEF Releasing
  <2> HIDE DEF Eqn
  <2>3. \E f : Eqn(f)
    BY <2>2, Zenon
  <2> QED
    BY <2>3, Zenon
<1>3. AfterReleases(ids) = after[Len(ids)]
  BY Zenon DEF AfterReleases
<1> HIDE DEF after
<1> DEFINE T == {n \in Nat : n <= Len(ids) => after[n] \in ReleasedSet(ids)}
<1>4. 0 \in T
  <2>1. after[0] = fpr
    BY <1>1, <1>2
  <2>2. fpr \in ReleasedSet(ids)
    BY ServerTypes, ToSetFacts DEF ReleasedSet, Released, Follows, ServerIs
  <2> QED
    BY <2>1, <2>2
<1>5. ASSUME NEW n \in Nat, n \in T PROVE n + 1 \in T
  <2> SUFFICES ASSUME n + 1 <= Len(ids) PROVE after[n + 1] \in ReleasedSet(ids)
    OBVIOUS
  <2>1. after[n] \in ReleasedSet(ids) /\ n + 1 \in 1..Len(ids)
    BY <1>1, <1>5
  <2>2. after[n + 1] = IF request[ids[n + 1]].at \in {"there", "told"}
                       THEN ServerReleases(after[n], ids[n + 1]) ELSE after[n]
    <3>1. n + 1 \in 0..Len(ids) /\ n + 1 # 0 /\ (n + 1) - 1 = n
      BY <1>1
    <3> QED
      BY <1>2, <3>1
  <2> HIDE DEF Eqn
  <2> QED
    BY <2>1, <2>2, ReleasingStep
<1>6. Nat \subseteq T
  <2> HIDE DEF T
  <2> QED
    BY <1>4, <1>5, RP!SetInduction, FileIdFacts
<1> QED
  BY <1>1, <1>3, <1>6 DEF ReleasedSet

\* Only the requests of S are asked, answered or released.
Served(S) ==
  /\ S \in SUBSET FileIds /\ Follows(fpr, fpr', S)
  /\ request' \in [FileIds -> RequestKind]
  /\ \A i \in FileIds \ S : request'[i] = request[i]
  /\ \A i \in S : RequestIs(i, request'[i].at, fpr'.held[i])

\* A resolver follows itself.
LEMMA FollowsNobody ==
  ASSUME NEW f, ServerIs(f), NEW S
  PROVE  Follows(f, f, S)
BY DEF Follows

\* A step that leaves the server and the requests alone.
LEMMA NotServed ==
  ASSUME FileInv, UNCHANGED Server
  PROVE  Served({})
<1>1. Follows(fpr, fpr, {})
  BY FollowsNobody DEF FileInv
<1> QED
  BY <1>1 DEF Served, Server, FileInv, FileTyped

\* A request.
LEMMA AskStep ==
  ASSUME FileInv, NEW c \in FileCalls, NEW action \in {"lock", "access", "unlink"},
         request[IdOf(c, action)].at = "none", action = "unlink" => c \in OwnCalls,
         Asks(c, action)
  PROVE  Served({IdOf(c, action)}) /\ request'[IdOf(c, action)].at = "there"
<1> DEFINE i == IdOf(c, action)
<1>1. i \in FileIds /\ i[2] = action
  BY FileIdFacts
<1>2. ServerIs(fpr) /\ fpr.held[i] = "new"
  BY <1>1 DEF FileInv, RequestsAre, RequestIs
<1>3. fpr' = CASE action = "lock" -> RP!Lock(fpr, i)
               [] action = "access" -> RP!HookAccess(fpr, i)
               [] action = "unlink" -> RP!HookUnlink(fpr, i)
  BY <1>1, SameFileMethods DEF Asks
<1>4. request' = [request EXCEPT ![i] = [at |-> "there", cb |-> c]] /\ request \in [FileIds -> RequestKind]
  BY DEF Asks, FileInv, FileTyped
<1>5. action = "unlink" => OwnUnlink(i)
  BY DEF OwnUnlink
<1> HIDE DEF i
<1>6. /\ request' \in [FileIds -> RequestKind] /\ request'[i].at = "there"
      /\ \A q \in FileIds \ {i} : request'[q] = request[q]
  <2>1. [at |-> "there", cb |-> c] \in RequestKind
    BY DEF RequestKind
  <2> QED
    BY <1>1, <1>4, <2>1
<1>7. /\ Follows(fpr, fpr', {i})
      /\ fpr'.held[i] \in {"queued", "refused", action}
      /\ action = "lock" => fpr'.held[i] # "queued"
  <2>1. CASE action = "lock"
    BY <1>1, <1>2, <1>3, <2>1, LockAsked
  <2>2. CASE action = "access"
    BY <1>1, <1>2, <1>3, <2>2, AccessAsked
  <2>3. CASE action = "unlink"
    BY <1>1, <1>2, <1>3, <1>5, <2>3, UnlinkAsked
  <2> QED
    BY <2>1, <2>2, <2>3
<1>8. RequestIs(i, request'[i].at, fpr'.held[i])
  BY <1>1, <1>6, <1>7 DEF RequestIs
<1> QED
  BY <1>1, <1>6, <1>7, <1>8 DEF Served, i

\* An answer to a request.
LEMMA TellStep ==
  ASSUME FileInv, NEW i \in FileIds, request[i].at = "there", fpr.held[i] \in {"refused", i[2]},
         request' = AccessTold(i), UNCHANGED fpr
  PROVE  Served({i}) /\ request'[i].at = "told"
<1>1. request \in [FileIds -> RequestKind]
  BY DEF FileInv, FileTyped
<1>2. /\ request' \in [FileIds -> RequestKind] /\ request'[i].at = "told"
      /\ \A q \in FileIds \ {i} : request'[q] = request[q]
  BY <1>1 DEF AccessTold, RequestKind
<1>3. Follows(fpr, fpr', {i})
  BY FollowsNobody DEF FileInv
<1>4. RequestIs(i, request'[i].at, fpr'.held[i])
  BY <1>2, FileIdFacts DEF RequestIs
<1> QED
  BY <1>2, <1>3, <1>4 DEF Served

\* A release.
LEMMA ReleaseStep ==
  ASSUME FileInv, NEW ids \in Seq(FileIds), NEW c \in FileCalls \cup {"init", "none"},
         \A k \in 1..Len(ids) : fpr.held[ids[k]] \notin {"new", "queued"},
         Releases(ids, c)
  PROVE  /\ Served(ToSet(ids))
         /\ \A i \in ToSet(ids) : request'[i].at = (IF request[i].at = "gone" THEN "gone" ELSE "freed")
<1> DEFINE S == ToSet(ids)
<1>1. /\ S \in SUBSET FileIds /\ \A i \in S : fpr.held[i] \notin {"new", "queued"}
  BY ToSetFacts
<1>2. Released(fpr, fpr', S)
  BY AfterReleasesKeeps DEF FileInv, Releases
<1>3. request' = [i \in FileIds |->
       IF i \notin S \/ request[i].at = "gone" THEN request[i] ELSE [at |-> "freed", cb |-> c]]
  BY DEF Releases
<1>4. request \in [FileIds -> RequestKind] /\ [at |-> "freed", cb |-> c] \in RequestKind
  BY DEF FileInv, FileTyped, RequestKind
<1> HIDE DEF S
<1>5. /\ request' \in [FileIds -> RequestKind]
      /\ \A i \in FileIds \ S : request'[i] = request[i]
      /\ \A i \in S : request'[i].at = (IF request[i].at = "gone" THEN "gone" ELSE "freed")
  BY <1>1, <1>3, <1>4
<1>6. ASSUME NEW i \in S PROVE RequestIs(i, request'[i].at, fpr'.held[i])
  <2>1. fpr'.held[i] \notin {"new", "queued"}
    BY <1>1, <1>2 DEF Released
  <2> QED
    BY <1>5, <2>1 DEF RequestIs
<1> QED
  BY <1>1, <1>2, <1>5, <1>6 DEF Served, Released, S

\* The answers to releases.
LEMMA GoneStep ==
  ASSUME FileInv, NEW ids \in SUBSET FileIds, \A i \in ids : request[i].at = "freed",
         request' = [i \in FileIds |-> IF i \in ids THEN [at |-> "gone", cb |-> "none"] ELSE request[i]],
         UNCHANGED fpr
  PROVE  Served(ids) /\ \A i \in ids : request'[i].at = "gone"
<1>1. request \in [FileIds -> RequestKind] /\ [at |-> "gone", cb |-> "none"] \in RequestKind
  BY DEF FileInv, FileTyped, RequestKind
<1>2. /\ request' \in [FileIds -> RequestKind] /\ \A i \in ids : request'[i].at = "gone"
      /\ \A q \in FileIds \ ids : request'[q] = request[q]
  BY <1>1
<1>3. Follows(fpr, fpr', ids)
  BY FollowsNobody DEF FileInv
<1>4. ASSUME NEW i \in ids PROVE RequestIs(i, request'[i].at, fpr'.held[i])
  BY <1>2 DEF FileInv, RequestsAre, RequestIs
<1> QED
  BY <1>2, <1>3, <1>4 DEF Served

\* What every such step keeps of the server.
LEMMA ServedFacts ==
  ASSUME FileInv, NEW S, Served(S)
  PROVE  /\ ServerIs(fpr)' /\ RequestsAre' /\ (Deleted => Deleted')
         /\ \A q \in FileIds \ S : fpr.held[q] # "queued" => fpr'.held[q] = fpr.held[q]
         /\ ~Deleted' => \A q \in FileIds : fpr'.held[q] # "refused"
<1>1. ServerIs(fpr')
  BY DEF Served, Follows
<1>2. Deleted <=> DeletedOnce(fpr)
  BY DEF Deleted, DeletedOnce
<1>3. Deleted' <=> DeletedOnce(fpr')
  BY DEF Deleted, DeletedOnce
<1>4. ASSUME NEW q \in FileIds PROVE RequestIs(q, request'[q].at, fpr'.held[q])
  <2>1. CASE q \in S
    BY <2>1 DEF Served
  <2>2. CASE q \notin S
    <3>1. RequestIs(q, request[q].at, fpr.held[q]) /\ request'[q] = request[q]
      BY <2>2 DEF FileInv, RequestsAre, Served
    <3>2. fpr'.held[q] = fpr.held[q] \/ (fpr.held[q] = "queued" /\ fpr'.held[q] = q[2])
      BY <2>2 DEF Served, Follows
    <3> QED
      BY <3>1, <3>2, FileIdFacts DEF RequestIs
  <2> QED
    BY <2>1, <2>2
<1>5. RequestsAre'
  BY <1>4 DEF RequestsAre
<1>6. \A q \in FileIds \ S : fpr.held[q] # "queued" => fpr'.held[q] = fpr.held[q]
  BY DEF Served, Follows
<1>7. Deleted => Deleted'
  BY <1>2, <1>3 DEF Served, Follows
<1>8. ~Deleted' => \A q \in FileIds : fpr'.held[q] # "refused"
  BY <1>1, <1>3 DEF ServerIs, DeletedFor
<1> QED
  BY <1>1, <1>5, <1>6, <1>7, <1>8

\* A step of the call c alone.
CallStep(c, kind, inside, frees, at) ==
  /\ fileCall' \in [FileCalls -> CallKind]
  /\ fileCall'[c].kind = kind /\ fileCall'[c].inside = inside
  /\ fileCall'[c].frees = frees /\ fileCall'[c].at = at
  /\ \A d \in FileCalls \ {c} : fileCall'[d] = fileCall[d]

\* The places of a call.
FilePlaces == {"new", "queued", "woken", "ask", "asked", "io", "toLock", "locking", "body", "locked",
            "freeing", "ending", "toUnlock", "unlocking", "over", "failed"}

\* The call c becomes r.
LEMMA CallBecomes ==
  ASSUME fileCall \in [FileCalls -> CallKind], NEW c \in FileCalls, NEW r \in CallKind,
         fileCall' = [fileCall EXCEPT ![c] = r]
  PROVE  CallStep(c, r.kind, r.inside, r.frees, r.at)
<1>1. /\ fileCall' \in [FileCalls -> CallKind] /\ fileCall'[c] = r
      /\ \A d \in FileCalls \ {c} : fileCall'[d] = fileCall[d]
  OBVIOUS
<1> QED
  BY <1>1 DEF CallStep

\* The steps that the methods take.
LEMMA CallSteps ==
  ASSUME FileTyped, NEW c \in FileCalls,
         NEW kind \in Kinds, NEW inside \in BOOLEAN, NEW frees \in SUBSET FileIds, NEW at \in FilePlaces
  PROVE  /\ fileCall' = Go(c, at) =>
              CallStep(c, fileCall[c].kind, fileCall[c].inside, fileCall[c].frees, at)
         /\ fileCall' = [fileCall EXCEPT ![c] = [@ EXCEPT !.at = at, !.inside = inside]] =>
              CallStep(c, fileCall[c].kind, inside, fileCall[c].frees, at)
         /\ fileCall' = [fileCall EXCEPT ![c] = [@ EXCEPT !.at = at, !.frees = frees]] =>
              CallStep(c, fileCall[c].kind, fileCall[c].inside, frees, at)
         /\ fileCall' = [Kind(c, kind) EXCEPT ![c].at = at] =>
              CallStep(c, kind, fileCall[c].inside, fileCall[c].frees, at)
         /\ fileCall' = [Kind(c, kind) EXCEPT ![c] = [@ EXCEPT !.at = at, !.inside = inside]] =>
              CallStep(c, kind, inside, fileCall[c].frees, at)
         /\ fileCall' = [fileCall EXCEPT ![c] = [@ EXCEPT !.kind = kind, !.at = at, !.frees = frees]] =>
              CallStep(c, kind, fileCall[c].inside, frees, at)
<1>1. fileCall \in [FileCalls -> CallKind] /\ fileCall[c] \in CallKind
  BY DEF FileTyped
<1>2. Kind(c, kind) = [fileCall EXCEPT ![c] = [fileCall[c] EXCEPT !.kind = kind]]
  BY DEF Kind
<1>3. fileCall' = Go(c, at) =>
         CallStep(c, fileCall[c].kind, fileCall[c].inside, fileCall[c].frees, at)
  <2> SUFFICES ASSUME fileCall' = Go(c, at)
               PROVE  CallStep(c, fileCall[c].kind, fileCall[c].inside, fileCall[c].frees, at)
    OBVIOUS
  <2> DEFINE r == [fileCall[c] EXCEPT !.at = at]
  <2>1. r \in CallKind /\ r.kind = fileCall[c].kind /\ r.inside = fileCall[c].inside /\ r.frees = fileCall[c].frees /\ r.at = at
    BY <1>1 DEF CallKind, FilePlaces
  <2>2. fileCall' = [fileCall EXCEPT ![c] = r]
    BY DEF Go
  <2> HIDE DEF r
  <2> QED
    BY <1>1, <2>1, <2>2, CallBecomes
<1>4. fileCall' = [fileCall EXCEPT ![c] = [@ EXCEPT !.at = at, !.inside = inside]] =>
         CallStep(c, fileCall[c].kind, inside, fileCall[c].frees, at)
  <2> SUFFICES ASSUME fileCall' = [fileCall EXCEPT ![c] = [@ EXCEPT !.at = at, !.inside = inside]]
               PROVE  CallStep(c, fileCall[c].kind, inside, fileCall[c].frees, at)
    OBVIOUS
  <2> DEFINE r == [fileCall[c] EXCEPT !.at = at, !.inside = inside]
  <2>1. r \in CallKind /\ r.kind = fileCall[c].kind /\ r.inside = inside /\ r.frees = fileCall[c].frees /\ r.at = at
    BY <1>1 DEF CallKind, FilePlaces
  <2>2. fileCall' = [fileCall EXCEPT ![c] = r]
    OBVIOUS
  <2> HIDE DEF r
  <2> QED
    BY <1>1, <2>1, <2>2, CallBecomes
<1>5. fileCall' = [fileCall EXCEPT ![c] = [@ EXCEPT !.at = at, !.frees = frees]] =>
         CallStep(c, fileCall[c].kind, fileCall[c].inside, frees, at)
  <2> SUFFICES ASSUME fileCall' = [fileCall EXCEPT ![c] = [@ EXCEPT !.at = at, !.frees = frees]]
               PROVE  CallStep(c, fileCall[c].kind, fileCall[c].inside, frees, at)
    OBVIOUS
  <2> DEFINE r == [fileCall[c] EXCEPT !.at = at, !.frees = frees]
  <2>1. r \in CallKind /\ r.kind = fileCall[c].kind /\ r.inside = fileCall[c].inside /\ r.frees = frees /\ r.at = at
    BY <1>1 DEF CallKind, FilePlaces
  <2>2. fileCall' = [fileCall EXCEPT ![c] = r]
    OBVIOUS
  <2> HIDE DEF r
  <2> QED
    BY <1>1, <2>1, <2>2, CallBecomes
<1>6. fileCall' = [Kind(c, kind) EXCEPT ![c].at = at] =>
         CallStep(c, kind, fileCall[c].inside, fileCall[c].frees, at)
  <2> SUFFICES ASSUME fileCall' = [Kind(c, kind) EXCEPT ![c].at = at]
               PROVE  CallStep(c, kind, fileCall[c].inside, fileCall[c].frees, at)
    OBVIOUS
  <2> DEFINE r == [fileCall[c] EXCEPT !.kind = kind, !.at = at]
  <2>1. r \in CallKind /\ r.kind = kind /\ r.inside = fileCall[c].inside /\ r.frees = fileCall[c].frees /\ r.at = at
    BY <1>1 DEF CallKind, FilePlaces
  <2>2. fileCall' = [fileCall EXCEPT ![c] = r]
    BY <1>1, <1>2
  <2> HIDE DEF r
  <2> QED
    BY <1>1, <2>1, <2>2, CallBecomes
<1>7. fileCall' = [Kind(c, kind) EXCEPT ![c] = [@ EXCEPT !.at = at, !.inside = inside]] =>
         CallStep(c, kind, inside, fileCall[c].frees, at)
  <2> SUFFICES ASSUME fileCall' = [Kind(c, kind) EXCEPT ![c] = [@ EXCEPT !.at = at, !.inside = inside]]
               PROVE  CallStep(c, kind, inside, fileCall[c].frees, at)
    OBVIOUS
  <2> DEFINE r == [fileCall[c] EXCEPT !.kind = kind, !.at = at, !.inside = inside]
  <2>1. r \in CallKind /\ r.kind = kind /\ r.inside = inside /\ r.frees = fileCall[c].frees /\ r.at = at
    BY <1>1 DEF CallKind, FilePlaces
  <2>2. fileCall' = [fileCall EXCEPT ![c] = r]
    BY <1>1, <1>2
  <2> HIDE DEF r
  <2> QED
    BY <1>1, <2>1, <2>2, CallBecomes
<1>8. fileCall' = [fileCall EXCEPT ![c] = [@ EXCEPT !.kind = kind, !.at = at, !.frees = frees]] =>
         CallStep(c, kind, fileCall[c].inside, frees, at)
  <2> SUFFICES ASSUME fileCall' = [fileCall EXCEPT ![c] = [@ EXCEPT !.kind = kind, !.at = at, !.frees = frees]]
               PROVE  CallStep(c, kind, fileCall[c].inside, frees, at)
    OBVIOUS
  <2> DEFINE r == [fileCall[c] EXCEPT !.kind = kind, !.at = at, !.frees = frees]
  <2>1. r \in CallKind /\ r.kind = kind /\ r.inside = fileCall[c].inside /\ r.frees = frees /\ r.at = at
    BY <1>1 DEF CallKind, FilePlaces
  <2>2. fileCall' = [fileCall EXCEPT ![c] = r]
    OBVIOUS
  <2> HIDE DEF r
  <2> QED
    BY <1>1, <2>1, <2>2, CallBecomes
<1> QED
  BY <1>3, <1>4, <1>5, <1>6, <1>7, <1>8

-----------------------------------------------------------------------------
(* What each part of the invariant depends on.                             *)

\* A call that another one may have woken.
SameOrWoken(d) ==
  \/ fileCall'[d] = fileCall[d]
  \/ /\ fileCall[d].at = "queued" /\ fileCall'[d].at = "woken" /\ fileCall'[d].kind = fileCall[d].kind
     /\ fileCall'[d].inside = fileCall[d].inside /\ fileCall'[d].frees = fileCall[d].frees

\* The requests of another call stay as they were, as far as it looks.
LEMMA CallKept ==
  ASSUME FileInv, NEW S, Served(S), NEW d \in FileCalls, SameOrWoken(d),
         \A i \in S : request[i].at = "none" => i[1] # d,
         d \in OtherCalls /\ fileCall[d].at = "io" => IdOf(d, "access") \notin S
  PROVE  FileCallIs(d)'
<1>1. FileCallIs(d)
  BY DEF FileInv, FileCallsAre
<1>2. \A a \in {"lock", "access", "unlink"} :
        /\ IdOf(d, a) \in FileIds /\ IdOf(d, a)[1] = d
        /\ request[IdOf(d, a)].at = "none" => request'[IdOf(d, a)].at = "none"
  <2>1. \A a \in {"lock", "access", "unlink"} : IdOf(d, a) \in FileIds /\ IdOf(d, a)[1] = d
    BY FileIdFacts
  <2> QED
    BY <2>1 DEF Served
<1>3. d \in OtherCalls /\ fileCall[d].at = "io" => request'[IdOf(d, "access")] = request[IdOf(d, "access")]
  BY <1>2 DEF Served
<1>4. CASE fileCall'[d] = fileCall[d]
  BY <1>1, <1>2, <1>3, <1>4 DEF FileCallIs, NoAccessYet, NoLockYet
<1>5. CASE fileCall'[d] # fileCall[d]
  <2>1. /\ fileCall[d].at = "queued" /\ fileCall'[d].at = "woken" /\ fileCall'[d].kind = fileCall[d].kind
        /\ fileCall'[d].inside = fileCall[d].inside /\ fileCall'[d].frees = fileCall[d].frees
    BY <1>5 DEF SameOrWoken
  <2> QED
    BY <1>1, <1>2, <2>1 DEF FileCallIs, NoAccessYet, NoLockYet
<1> QED
  BY <1>4, <1>5

\* The calls, when c has moved.
LEMMA CallsKept ==
  ASSUME FileInv, NEW c \in FileCalls, NEW S, Served(S),
         \A d \in FileCalls \ {c} : SameOrWoken(d),
         \A i \in S : request[i].at = "none" => i[1] = c,
         \A d \in OtherCalls \ {c} : IdOf(d, "access") \notin S,
         FileCallIs(c)'
  PROVE  FileCallsAre'
<1>1. ASSUME NEW d \in FileCalls \ {c} PROVE FileCallIs(d)'
  BY CallKept
<1> QED
  BY <1>1 DEF FileCallsAre

\* Once answered, always answered.
Answers(S) == \A i \in S : WasAnswered(i) => WasAnswered(i)'

\* What was answered stays answered.
LEMMA AnsweredStay ==
  ASSUME NEW S, Served(S), Answers(S)
  PROVE  \A i : WasAnswered(i) => WasAnswered(i)'
<1> SUFFICES ASSUME NEW i, WasAnswered(i) PROVE WasAnswered(i)'
  OBVIOUS
<1>1. CASE i \in S
  BY <1>1 DEF Answers
<1>2. CASE i \notin S
  BY <1>2 DEF WasAnswered, Served
<1> QED
  BY <1>1, <1>2

\* The ids that the object keeps stay known.
LEMMA KnownKept ==
  ASSUME FileInv, NEW S, Served(S), Answers(S), lockQueue' = lockQueue,
         initPromise' = "asked" => initPromise = "asked" /\ InitId \notin S,
         fileState'.accessId \in {fileState.accessId, NoId}
  PROVE  KnownIds'
<1>1. \A i : WasAnswered(i) => i \in FileIds /\ request'[i].at \in {"told", "freed", "gone"}
  BY AnsweredStay DEF WasAnswered
<1>2. KnownIds
  BY DEF FileInv
<1>3. fileState'.accessId # NoId =>
        /\ fileState'.accessId \in FileIds /\ request'[fileState'.accessId].at \in {"told", "freed", "gone"}
        /\ OwnAccess(fileState'.accessId)
  BY <1>1, <1>2 DEF KnownIds
<1>4. \A k \in 1..Len(lockQueue) : lockQueue[k] \in FileIds /\ request'[lockQueue[k]].at \in {"told", "freed", "gone"}
  BY <1>1, <1>2 DEF KnownIds
<1>5. initPromise' = "asked" => request'[InitId].at = "there"
  BY <1>2, FileIdFacts DEF KnownIds, Served
<1> QED
  BY <1>3, <1>4, <1>5 DEF KnownIds, WasAnswered

\* Nothing happens to the locks that were answered.
LEMMA LocksKept ==
  ASSUME FileInv, NEW S, Served(S), AllUnlocked => AllUnlocked', lockQueue' = lockQueue,
         \A i \in S : i[2] = "lock" => request[i].at # "told" /\ request'[i].at # "told"
  PROVE  LocksMatch'
<1> SUFFICES ASSUME ~Deleted', ~AllUnlocked'
             PROVE  /\ IsInjective(lockQueue)
                    /\ ToSet(lockQueue) = {i \in FileIds : i[2] = "lock" /\ request'[i].at = "told"}
                    /\ \A i \in ToSet(lockQueue) : fpr'.held[i] = "lock"
  BY DEF LocksMatch, IsInjective, ToSet
<1>1. /\ IsInjective(lockQueue)
      /\ ToSet(lockQueue) = {i \in FileIds : i[2] = "lock" /\ request[i].at = "told"}
      /\ \A i \in ToSet(lockQueue) : fpr.held[i] = "lock"
  BY ServedFacts DEF FileInv, LocksMatch
<1>2. \A i \in FileIds : i[2] = "lock" => (request'[i].at = "told" <=> request[i].at = "told")
  BY DEF Served
<1>3. \A i \in ToSet(lockQueue) : i \in FileIds \ S
  BY <1>1
<1>4. \A i \in ToSet(lockQueue) : fpr'.held[i] = "lock"
  BY <1>1, <1>3, ServedFacts
<1> QED
  BY <1>1, <1>2, <1>4

\* Nobody begins to work, and nothing happens to the accesses of those who do.
LEMMA AccessKept ==
  ASSUME FileInv, NEW S, Served(S), Overlapped => Overlapped', fileState'.accessId = fileState.accessId,
         ~Overlapped' => \A d \in FileCalls : AtWork(d)' => AtWork(d) /\ IdOf(d, "access") \notin S,
         \A d \in OwnCalls : request'[IdOf(d, "access")].at = "freed" <=> request[IdOf(d, "access")].at = "freed",
         \A d \in OwnCalls : fileCall'[d].at \in {"freeing", "ending"} =>
           fileCall'[d].at = fileCall[d].at /\ fileCall'[d].frees = fileCall[d].frees
  PROVE  AccessIsMine' /\ AccessFreed'
<1> SUFFICES ASSUME ~Overlapped', ~Deleted'
             PROVE  /\ \A d \in FileCalls : AtWork(d)' =>
                         /\ fpr'.held[IdOf(d, "access")] = "access"
                         /\ d \in OwnCalls => fileState'.accessId = IdOf(d, "access")
                    /\ \A d \in OwnCalls : fileCall'[d].at \in {"freeing", "ending"} =>
                         \A i \in fileCall'[d].frees : i = IdOf(d, "access") /\ request'[i].at = "freed"
                    /\ \A d, e \in OwnCalls : request'[IdOf(d, "access")].at = "freed" => ~AtWork(e)'
                    /\ \A d \in FileCalls : AtWork(d)' => request'[IdOf(d, "access")].at = "told"
  BY DEF AccessIsMine, AccessFreed, AtWork
<1>1. ~Overlapped /\ ~Deleted
  BY ServedFacts
<1>2. /\ \A d \in FileCalls : AtWork(d) => /\ fpr.held[IdOf(d, "access")] = "access"
                                           /\ d \in OwnCalls => fileState.accessId = IdOf(d, "access")
      /\ \A d \in OwnCalls : fileCall[d].at \in {"freeing", "ending"} =>
           \A i \in fileCall[d].frees : i = IdOf(d, "access") /\ request[i].at = "freed"
      /\ \A d, e \in OwnCalls : request[IdOf(d, "access")].at = "freed" => ~AtWork(e)
      /\ \A d \in FileCalls : AtWork(d) => request[IdOf(d, "access")].at = "told"
  BY <1>1 DEF FileInv, AccessIsMine, AccessFreed
<1>3. OwnCalls \subseteq FileCalls
  BY DEF FileCalls
<1>4. ASSUME NEW d \in FileCalls, AtWork(d)'
      PROVE  /\ fpr'.held[IdOf(d, "access")] = "access"
             /\ d \in OwnCalls => fileState'.accessId = IdOf(d, "access")
             /\ request'[IdOf(d, "access")].at = "told"
  <2>1. AtWork(d) /\ IdOf(d, "access") \in FileIds \ S
    BY <1>4, FileIdFacts
  <2>2. fpr'.held[IdOf(d, "access")] = "access"
    BY <1>2, <2>1, ServedFacts
  <2> QED
    BY <1>2, <2>1, <2>2 DEF Served
<1>5. \A d, e \in OwnCalls : request'[IdOf(d, "access")].at = "freed" => ~AtWork(e)'
  BY <1>2, <1>3
<1>6. \A d \in OwnCalls : fileCall'[d].at \in {"freeing", "ending"} =>
         \A i \in fileCall'[d].frees : i = IdOf(d, "access") /\ request'[i].at = "freed"
  BY <1>2
<1> QED
  BY <1>4, <1>5, <1>6

\* No transaction starts or ends.
LEMMA TurnsKept ==
  ASSUME FileInv, NEW c \in FileCalls, \A d \in FileCalls \ {c} : fileCall'[d] = fileCall[d],
         fileCall[c].at \notin {"queued", "woken", "over"}, fileCall'[c].at \notin {"new", "queued", "woken"},
         fileCall'[c].kind = "transaction" => fileCall[c].kind = "transaction",
         UNCHANGED <<transactionQueue, barged>>, fileState'.enterTransaction = fileState.enterTransaction
  PROVE  TransactionsInTurn' /\ OneActive'
<1>1. TransactionsInTurn /\ OneActive /\ transactionQueue \in Seq(OwnCalls)
  BY DEF FileInv, FileTyped
<1>2. OwnCalls \subseteq FileCalls
  BY DEF FileCalls
<1>3. TransactionsInTurn'
  <2>1. ASSUME NEW k \in 1..Len(transactionQueue)
        PROVE  fileCall'[transactionQueue[k]] = fileCall[transactionQueue[k]]
    <3>1. transactionQueue[k] \in FileCalls /\ fileCall[transactionQueue[k]].at = "queued"
      BY <1>1, <1>2 DEF TransactionsInTurn
    <3> QED
      BY <3>1
  <2> QED
    BY <1>1, <2>1 DEF TransactionsInTurn, IsInjective
<1>4. \A d \in OwnCalls : IsActive(d)' => IsActive(d) /\ (d = c \/ fileCall'[d] = fileCall[d])
  BY <1>2 DEF IsActive
<1>5. OneActive'
  <2> SUFFICES ASSUME ~barged
               PROVE  /\ \A d, e \in OwnCalls : IsActive(d)' /\ IsActive(e)' => d = e
                      /\ ~fileState'.enterTransaction => \A d \in OwnCalls : IsActive(d)' => fileCall'[d].at = "woken"
    BY DEF OneActive, IsActive
  <2> QED
    BY <1>1, <1>4 DEF OneActive
<1> QED
  BY <1>3, <1>5

\* A call goes on alone: it asks, or is answered, for nothing but its own.
Quiet(c, S, kind, inside, frees, at) ==
  /\ Served(S) /\ CallStep(c, kind, inside, frees, at)
  /\ fileState' \in FileStates /\ fileState'.accessId = fileState.accessId
  /\ fileState'.enterTransaction = fileState.enterTransaction
  /\ UNCHANGED <<transactionQueue, barged, lockQueue, initPromise>>
  /\ fileCall[c].at \notin {"queued", "woken", "over"} /\ at \notin {"new", "queued", "woken"}
  /\ kind = "transaction" => fileCall[c].kind = "transaction"
  /\ fileCall[c].kind # "none" => kind = fileCall[c].kind
  /\ fileCall[c].inside => inside
  /\ \A i \in S : /\ i[1] = c
                  /\ i[2] = "lock" => request[i].at # "told" /\ request'[i].at # "told"
                  /\ i[2] = "access" /\ c \in OwnCalls =>
                       request[i].at # "freed" /\ request'[i].at # "freed"
  /\ Answers(S)
  /\ c \in OwnCalls => at \notin {"freeing", "ending"}
  /\ kind # "lock" /\ at \in {"io", "toLock", "locking", "body"} =>
       (inside /\ c \in OwnCalls) \/ (AtWork(c) /\ IdOf(c, "access") \notin S)

\* Such a step keeps the invariant.
LEMMA QuietStep ==
  ASSUME FileInv, NEW c \in FileCalls, NEW S, NEW kind, NEW inside, NEW frees, NEW at,
         Quiet(c, S, kind, inside, frees, at), FileCallIs(c)'
  PROVE  FileInv'
<1>1. /\ Served(S) /\ Answers(S) /\ UNCHANGED <<transactionQueue, barged, lockQueue, initPromise>>
      /\ \A d \in FileCalls \ {c} : fileCall'[d] = fileCall[d]
      /\ fileCall' \in [FileCalls -> CallKind]
      /\ fileCall'[c].kind = kind /\ fileCall'[c].inside = inside
      /\ fileCall'[c].frees = frees /\ fileCall'[c].at = at
  BY DEF Quiet, CallStep
<1>2. FileTyped /\ OwnCalls \subseteq FileCalls
  BY DEF FileInv, FileCalls
<1>3. FileTyped'
  <2>1. request' \in [FileIds -> RequestKind] /\ fileState' \in FileStates
    BY DEF Quiet, Served
  <2> QED
    BY <1>1, <1>2, <2>1 DEF FileTyped
<1>4. ServerIs(fpr)' /\ RequestsAre'
  BY <1>1, ServedFacts
<1>5. \A i \in S : i[1] = c
  BY DEF Quiet
<1>6. FileCallsAre'
  <2>1. \A d \in OtherCalls \ {c} : IdOf(d, "access") \notin S
    BY <1>5, FileIdFacts DEF FileCalls
  <2> QED
    BY <1>1, <1>5, <2>1, CallsKept DEF SameOrWoken
<1>7. KnownIds'
  <2>1. InitId \notin S
    BY <1>5, FileAssumption DEF InitId, IdOf, FileCalls
  <2>2. fileState'.accessId \in {fileState.accessId, NoId}
    BY DEF Quiet
  <2> QED
    BY <1>1, <2>1, <2>2, KnownKept
<1>8. LocksMatch'
  <2>1. AllUnlocked => AllUnlocked'
    <3>1. \A d \in OwnCalls : fileCall[d].kind = "unlockAll" => fileCall'[d].kind = "unlockAll"
      BY <1>1, <1>2 DEF Quiet
    <3> QED
      BY <3>1 DEF AllUnlocked
  <2>2. \A i \in S : i[2] = "lock" => request[i].at # "told" /\ request'[i].at # "told"
    BY DEF Quiet
  <2> QED
    BY <1>1, <2>1, <2>2, LocksKept
<1>9. AccessIsMine' /\ AccessFreed'
  <2>1. Overlapped => Overlapped'
    <3>1. \A d \in OwnCalls : fileCall[d].inside => fileCall'[d].inside
      BY <1>1, <1>2 DEF Quiet
    <3> QED
      BY <1>1, <3>1 DEF Overlapped
  <2>2. c \in OwnCalls /\ inside => Overlapped'
    BY <1>1 DEF Overlapped
  <2>4. ASSUME ~Overlapped', NEW d \in FileCalls, AtWork(d)'
        PROVE  AtWork(d) /\ IdOf(d, "access") \notin S
    <3>1. CASE d = c
      <4>1. kind # "lock" /\ at \in {"io", "toLock", "locking", "body"}
        BY <1>1, <2>4, <3>1 DEF AtWork
      <4> QED
        BY <2>2, <2>4, <3>1, <4>1 DEF Quiet
    <3>2. CASE d # c
      <4>1. IdOf(d, "access")[1] = d
        BY FileIdFacts
      <4> QED
        BY <1>1, <1>5, <2>4, <3>2, <4>1 DEF AtWork
    <3> QED
      BY <3>1, <3>2
  <2>5. ASSUME NEW d \in OwnCalls
        PROVE  request'[IdOf(d, "access")].at = "freed" <=> request[IdOf(d, "access")].at = "freed"
    <3>1. IdOf(d, "access") \in FileIds /\ IdOf(d, "access")[1] = d /\ IdOf(d, "access")[2] = "access"
      BY <1>2, FileIdFacts
    <3> QED
      BY <1>5, <3>1 DEF Quiet, Served
  <2>6. \A d \in OwnCalls : fileCall'[d].at \in {"freeing", "ending"} =>
           fileCall'[d].at = fileCall[d].at /\ fileCall'[d].frees = fileCall[d].frees
    BY <1>1, <1>2 DEF Quiet
  <2>7. fileState'.accessId = fileState.accessId
    BY DEF Quiet
  <2> QED
    BY <1>1, <2>1, <2>4, <2>5, <2>6, <2>7, AccessKept
<1>10. TransactionsInTurn' /\ OneActive'
  BY <1>1, TurnsKept DEF Quiet
<1> QED
  BY <1>3, <1>4, <1>6, <1>7, <1>8, <1>9, <1>10 DEF FileInv

\* What a call is when it begins.
LEMMA NewCall ==
  ASSUME FileInv, NEW c \in FileCalls, fileCall[c].at = "new"
  PROVE  /\ fileCall[c].kind = "none" /\ ~fileCall[c].inside /\ fileCall[c].frees = {}
         /\ \A a \in {"lock", "access", "unlink"} : request[IdOf(c, a)].at = "none"
         /\ fileCall[c].inside = FALSE
<1>1. FileCallIs(c) /\ TransactionsInTurn
  BY DEF FileInv, FileCallsAre
<1>2. fileCall[c].inside \in BOOLEAN
  BY DEF FileInv, FileTyped, CallKind
<1> QED
  BY <1>1, <1>2 DEF FileCallIs, NoAccessYet, NoLockYet, TransactionsInTurn

\* The types, call by call.
LEMMA FileTypes ==
  ASSUME FileInv
  PROVE  /\ FileTyped /\ fileState \in FileStates /\ OwnCalls \subseteq FileCalls
         /\ \A c \in FileCalls : /\ FileCallIs(c)
                                 /\ fileCall[c].kind \in Kinds \cup {"none"} /\ fileCall[c].inside \in BOOLEAN
                                 /\ fileCall[c].frees \in SUBSET FileIds /\ fileCall[c].at \in FilePlaces
BY DEF FileInv, FileTyped, FileCallsAre, FileCalls, CallKind, FilePlaces

\* write(), read(), append() and stat().
LEMMA WriteKeeps ==
  ASSUME FileInv, NEW c \in FileCalls, Write(c)
  PROVE  FileInv'
<1>1. /\ fileCall[c].at = "new" /\ fileCall[c].kind = "none" /\ fileCall[c].inside = FALSE
      /\ fileCall[c].frees = {}
      /\ \A a \in {"lock", "access", "unlink"} : request[IdOf(c, a)].at = "none"
  BY NewCall DEF Write
<1>2. /\ UNCHANGED <<transactionQueue, barged, lockQueue, initPromise>> /\ fileState' = fileState
      /\ fileState \in FileStates
  BY FileTypes DEF Write, Others
<1>3. CASE InTransaction /\ c \in OwnCalls
  <2>1. UNCHANGED Server
    BY <1>3 DEF Write
  <2>2. Served({}) /\ Answers({})
    BY <2>1, NotServed DEF Answers
  <2>3. CallStep(c, "write", TRUE, {}, "io")
    BY <1>1, <1>3, CallSteps, FileTypes DEF Write, Kinds, FilePlaces
  <2>4. Quiet(c, {}, "write", TRUE, {}, "io")
    BY <1>1, <1>2, <1>3, <2>2, <2>3 DEF Quiet
  <2>5. FileCallIs(c)'
    BY <1>3, <2>3, FileAssumption DEF FileCallIs, CallStep, NoAccessYet, NoLockYet
  <2> QED
    BY <2>4, <2>5, QuietStep
<1>4. CASE ~(InTransaction /\ c \in OwnCalls)
  <2> DEFINE i == IdOf(c, "access")
  <2>1. Asks(c, "access") /\ fileCall' = [Kind(c, "write") EXCEPT ![c].at = "asked"]
    BY <1>4 DEF Write
  <2>2. Served({i}) /\ request'[i].at = "there"
    BY <1>1, <2>1, AskStep
  <2>3. CallStep(c, "write", FALSE, {}, "asked")
    BY <1>1, <2>1, CallSteps, FileTypes DEF Kinds, FilePlaces
  <2>4. /\ i \in FileIds /\ i[1] = c /\ i[2] = "access" /\ request[i].at = "none"
        /\ IdOf(c, "lock") \in FileIds /\ IdOf(c, "lock") # i
    BY <1>1, FileIdFacts
  <2> HIDE DEF i
  <2>5. Answers({i})
    BY <2>4 DEF Answers, WasAnswered
  <2>6. Quiet(c, {i}, "write", FALSE, {}, "asked")
    BY <1>1, <1>2, <2>2, <2>3, <2>4, <2>5 DEF Quiet
  <2>7. request'[IdOf(c, "lock")] = request[IdOf(c, "lock")]
    BY <2>2, <2>4 DEF Served
  <2>8. FileCallIs(c)'
    BY <1>1, <2>3, <2>7, FileAssumption DEF FileCallIs, CallStep, NoAccessYet, NoLockYet
  <2> QED
    BY <2>6, <2>8, QuietStep
<1> QED
  BY <1>3, <1>4

\* lock() is called.
LEMMA CallLockKeeps ==
  ASSUME FileInv, NEW c \in OwnCalls, CallLock(c)
  PROVE  FileInv'
<1>1. /\ fileCall[c].at = "new" /\ fileCall[c].kind = "none" /\ fileCall[c].inside = FALSE
      /\ fileCall[c].frees = {} /\ c \in FileCalls
      /\ \A a \in {"lock", "access", "unlink"} : request[IdOf(c, a)].at = "none"
  BY NewCall, FileTypes DEF CallLock
<1>2. /\ UNCHANGED <<transactionQueue, barged, lockQueue, initPromise>> /\ fileState' = fileState
      /\ fileState \in FileStates /\ UNCHANGED Server
  BY FileTypes DEF CallLock, Others
<1>3. Served({}) /\ Answers({})
  BY <1>2, NotServed DEF Answers
<1>4. CallStep(c, "lock", FALSE, {}, "toLock")
  BY <1>1, CallSteps, FileTypes DEF CallLock, Kinds, FilePlaces
<1>5. Quiet(c, {}, "lock", FALSE, {}, "toLock")
  BY <1>1, <1>2, <1>3, <1>4 DEF Quiet
<1>6. FileCallIs(c)'
  BY <1>1, <1>2, <1>4, FileAssumption DEF FileCallIs, CallStep, NoAccessYet, NoLockYet, Server
<1> QED
  BY <1>1, <1>5, <1>6, QuietStep

\* lock() asks, or is in a transaction.
LEMMA GetLockKeeps ==
  ASSUME FileInv, NEW c \in OwnCalls, GetLock(c)
  PROVE  FileInv'
<1> DEFINE k == fileCall[c].kind
           i == IdOf(c, "lock")
<1>1. /\ fileCall[c].at = "toLock" /\ c \in FileCalls /\ FileCallIs(c) /\ FileTyped
      /\ k \in Kinds \cup {"none"}
      /\ fileCall[c].inside \in BOOLEAN /\ fileCall[c].frees \in SUBSET FileIds
      /\ fileCall[c].frees = {} /\ c \notin OtherCalls
  BY FileTypes, FileAssumption DEF GetLock, FileCallIs
<1>2. /\ UNCHANGED <<transactionQueue, barged, lockQueue, initPromise>> /\ fileState' = fileState
      /\ fileState \in FileStates
  BY FileTypes DEF GetLock, Others
<1>3. CASE InTransaction
  <2>1. UNCHANGED Server /\ fileCall' = [fileCall EXCEPT ![c] = [@ EXCEPT !.at = Locked(c), !.inside = TRUE]]
    BY <1>3 DEF GetLock
  <2>2. Served({}) /\ Answers({})
    BY <2>1, NotServed DEF Answers
  <2>3. Locked(c) \in FilePlaces /\ Locked(c) = IF k = "transaction" THEN "body" ELSE "locked"
    BY DEF Locked, FilePlaces
  <2>4. CallStep(c, k, TRUE, {}, Locked(c))
    BY <1>1, <2>1, <2>3, CallSteps DEF Kinds
  <2> HIDE DEF k
  <2>5. Quiet(c, {}, k, TRUE, {}, Locked(c))
    BY <1>1, <1>2, <2>2, <2>3, <2>4 DEF Quiet, k
  <2>6. FileCallIs(c)'
    BY <1>1, <2>3, <2>4 DEF FileCallIs, CallStep, NoAccessYet, NoLockYet, k
  <2> QED
    BY <1>1, <2>5, <2>6, QuietStep
<1>4. CASE ~InTransaction
  <2>1. fileCall' = Go(c, "locking") /\ Asks(c, "lock")
    BY <1>4 DEF GetLock
  <2>2. /\ i \in FileIds /\ i[1] = c /\ i[2] = "lock" /\ request[i].at = "none"
        /\ IdOf(c, "access") \in FileIds /\ IdOf(c, "access") # i
    BY <1>1, FileIdFacts DEF FileCallIs, NoLockYet
  <2>3. Served({i}) /\ request'[i].at = "there"
    BY <1>1, <2>1, <2>2, AskStep
  <2>4. CallStep(c, k, fileCall[c].inside, {}, "locking")
    BY <1>1, <2>1, CallSteps DEF Kinds, FilePlaces
  <2> HIDE DEF i
  <2>5. Answers({i})
    BY <2>2 DEF Answers, WasAnswered
  <2>6. k # "lock" => AtWork(c)
    BY <1>1 DEF AtWork
  <2> HIDE DEF k
  <2>7. Quiet(c, {i}, k, fileCall[c].inside, {}, "locking")
    BY <1>1, <1>2, <2>2, <2>3, <2>4, <2>5, <2>6 DEF Quiet, k
  <2>8. FileCallIs(c)'
    BY <1>1, <2>4 DEF FileCallIs, CallStep, NoAccessYet, NoLockYet, k
  <2> QED
    BY <1>1, <2>7, <2>8, QuietStep
<1> QED
  BY <1>3, <1>4

\* A transaction asks for the access.
LEMMA AskAccessKeeps ==
  ASSUME FileInv, NEW c \in OwnCalls, AskAccess(c)
  PROVE  FileInv'
<1> DEFINE k == fileCall[c].kind
           i == IdOf(c, "access")
<1>1. /\ fileCall[c].at = "ask" /\ c \in FileCalls /\ FileCallIs(c) /\ FileTyped
      /\ k \in Kinds \cup {"none"}
      /\ fileCall[c].inside \in BOOLEAN /\ fileCall[c].frees \in SUBSET FileIds
      /\ fileCall[c].frees = {} /\ c \notin OtherCalls /\ k # "lock"
  BY FileTypes, FileAssumption DEF AskAccess, FileCallIs
<1>2. /\ UNCHANGED <<transactionQueue, barged, lockQueue, initPromise>> /\ fileState' = fileState
      /\ fileState \in FileStates
  BY FileTypes DEF AskAccess, Others
<1>3. fileCall' = Go(c, "asked") /\ Asks(c, "access")
  BY DEF AskAccess
<1>4. /\ i \in FileIds /\ i[1] = c /\ i[2] = "access" /\ request[i].at = "none"
      /\ IdOf(c, "lock") \in FileIds /\ IdOf(c, "lock") # i /\ request[IdOf(c, "lock")].at = "none"
  BY <1>1, FileIdFacts DEF FileCallIs, NoLockYet, NoAccessYet
<1>5. Served({i}) /\ request'[i].at = "there"
  BY <1>1, <1>3, <1>4, AskStep
<1>6. CallStep(c, k, fileCall[c].inside, {}, "asked")
  BY <1>1, <1>3, CallSteps DEF Kinds, FilePlaces
<1> HIDE DEF i
<1>7. Answers({i})
  BY <1>4 DEF Answers, WasAnswered
<1> HIDE DEF k
<1>8. Quiet(c, {i}, k, fileCall[c].inside, {}, "asked")
  BY <1>1, <1>2, <1>4, <1>5, <1>6, <1>7 DEF Quiet, k
<1>9. request'[IdOf(c, "lock")] = request[IdOf(c, "lock")]
  BY <1>4, <1>5 DEF Served
<1>10. FileCallIs(c)'
  BY <1>1, <1>4, <1>6, <1>9 DEF FileCallIs, CallStep, NoAccessYet, NoLockYet, k
<1> QED
  BY <1>1, <1>8, <1>10, QuietStep

\* unlink() and waitForUnlock() ask.
LEMMA UnlinkKeeps ==
  ASSUME FileInv, NEW c \in OwnCalls, Unlink(c)
  PROVE  FileInv'
<1> DEFINE i == IdOf(c, "unlink")
<1>1. /\ fileCall[c].at = "new" /\ fileCall[c].kind = "none" /\ fileCall[c].inside = FALSE
      /\ fileCall[c].frees = {} /\ c \in FileCalls /\ c \notin OtherCalls
      /\ \A a \in {"lock", "access", "unlink"} : request[IdOf(c, a)].at = "none"
  BY NewCall, FileTypes, FileAssumption DEF Unlink
<1>2. /\ UNCHANGED <<transactionQueue, barged, lockQueue, initPromise>> /\ fileState' = fileState
      /\ fileState \in FileStates
  BY FileTypes DEF Unlink, Others
<1>3. PICK kind \in {"unlink", "waitForUnlock"} :
        IF kind = "unlink" /\ fileState.enterTransaction
        THEN fileCall' = [Kind(c, kind) EXCEPT ![c].at = "over"] /\ UNCHANGED Server
        ELSE fileCall' = [Kind(c, kind) EXCEPT ![c].at = "asked"] /\ Asks(c, "unlink")
  BY DEF Unlink
<1>4. kind \in Kinds /\ kind \notin {"none", "lock", "write", "transaction", "unlockAll"}
  BY DEF Kinds
<1>5. CASE kind = "unlink" /\ fileState.enterTransaction
  <2>1. Served({}) /\ Answers({})
    BY <1>3, <1>5, NotServed DEF Answers
  <2>5. fileCall' = [Kind(c, kind) EXCEPT ![c].at = "over"]
    BY <1>3, <1>5
  <2>2. CallStep(c, kind, FALSE, {}, "over")
    BY <1>1, <1>4, <2>5, CallSteps, FileTypes DEF FilePlaces
  <2>3. Quiet(c, {}, kind, FALSE, {}, "over")
    BY <1>1, <1>2, <1>4, <2>1, <2>2 DEF Quiet
  <2>4. FileCallIs(c)'
    BY <1>1, <1>4, <2>2 DEF FileCallIs, CallStep, NoAccessYet, NoLockYet
  <2> QED
    BY <1>1, <2>3, <2>4, QuietStep
<1>6. CASE ~(kind = "unlink" /\ fileState.enterTransaction)
  <2>1. Asks(c, "unlink") /\ fileCall' = [Kind(c, kind) EXCEPT ![c].at = "asked"]
    BY <1>3, <1>6
  <2>2. Served({i}) /\ request'[i].at = "there"
    BY <1>1, <2>1, AskStep
  <2>3. CallStep(c, kind, FALSE, {}, "asked")
    BY <1>1, <1>4, <2>1, CallSteps, FileTypes DEF FilePlaces
  <2>4. /\ i \in FileIds /\ i[1] = c /\ i[2] = "unlink" /\ request[i].at = "none"
        /\ IdOf(c, "lock") \in FileIds /\ IdOf(c, "lock") # i
    BY <1>1, FileIdFacts
  <2> HIDE DEF i
  <2>5. Answers({i})
    BY <2>4 DEF Answers, WasAnswered
  <2>6. Quiet(c, {i}, kind, FALSE, {}, "asked")
    BY <1>1, <1>2, <1>4, <2>2, <2>3, <2>4, <2>5 DEF Quiet
  <2>7. request'[IdOf(c, "lock")] = request[IdOf(c, "lock")]
    BY <2>2, <2>4 DEF Served
  <2>8. FileCallIs(c)'
    BY <1>1, <1>4, <2>3, <2>7 DEF FileCallIs, CallStep, NoAccessYet, NoLockYet
  <2> QED
    BY <1>1, <2>6, <2>8, QuietStep
<1> QED
  BY <1>5, <1>6

\* The sequence of one id.
LEMMA OneIdFacts ==
  ASSUME NEW i \in FileIds
  PROVE  <<i>> \in Seq(FileIds) /\ Len(<<i>>) = 1 /\ <<i>>[1] = i /\ ToSet(<<i>>) = {i}
<1>1. ToSet(<<i>>) = {i}
  BY DEF ToSet
<1> QED
  BY <1>1

\* The permission to delete arrives.
LEMMA UnlinkGrantedKeeps ==
  ASSUME FileInv, NEW c \in OwnCalls, UnlinkGranted(c)
  PROVE  FileInv'
<1> DEFINE k == fileCall[c].kind
           i == IdOf(c, "unlink")
<1>1. /\ fileCall[c].at = "asked" /\ c \in FileCalls /\ FileCallIs(c) /\ FileTyped
      /\ k \in Kinds \cup {"none"}
      /\ fileCall[c].inside \in BOOLEAN /\ fileCall[c].frees \in SUBSET FileIds
      /\ fileCall[c].frees = {} /\ c \notin OtherCalls /\ k # "lock"
  BY FileTypes, FileAssumption DEF UnlinkGranted, FileCallIs
<1>2. /\ UNCHANGED <<transactionQueue, barged, lockQueue, initPromise>>
      /\ fileState' \in FileStates /\ fileState'.accessId = fileState.accessId
      /\ fileState'.enterTransaction = fileState.enterTransaction
  BY FileTypes DEF UnlinkGranted, Others, FileStates
<1>3. /\ i \in FileIds /\ i[1] = c /\ i[2] = "unlink" /\ request[i].at = "there" /\ fpr.held[i] = "unlink"
      /\ IdOf(c, "lock") \in FileIds /\ IdOf(c, "lock") # i /\ request[IdOf(c, "lock")].at = "none"
  BY <1>1, FileIdFacts DEF UnlinkGranted, FileCallIs, NoLockYet
<1>4. \/ fileCall' = Go(c, "over") /\ Releases(<<i>>, "none")
      \/ fileCall' = Go(c, "failed") /\ request' = AccessTold(i) /\ UNCHANGED fpr
  BY DEF UnlinkGranted
<1>5. PICK at \in {"over", "failed"} : fileCall' = Go(c, at)
  BY <1>4
<1>6. CallStep(c, k, fileCall[c].inside, {}, at)
  BY <1>1, <1>5, CallSteps DEF Kinds, FilePlaces
<1>7. Served({i}) /\ request'[i].at \in {"told", "freed"}
  <2>1. CASE Releases(<<i>>, "none")
    <3>1. \A n \in 1..Len(<<i>>) : fpr.held[<<i>>[n]] \notin {"new", "queued"}
      BY <1>3, OneIdFacts
    <3>2. Served(ToSet(<<i>>)) /\ \A q \in ToSet(<<i>>) :
            request'[q].at = (IF request[q].at = "gone" THEN "gone" ELSE "freed")
      BY <1>3, <2>1, <3>1, OneIdFacts, ReleaseStep
    <3> QED
      BY <1>3, <3>2, OneIdFacts
  <2>2. CASE request' = AccessTold(i) /\ UNCHANGED fpr
    BY <1>3, <2>2, TellStep
  <2> QED
    BY <1>4, <2>1, <2>2
<1> HIDE DEF i
<1>8. Answers({i})
  BY <1>3, <1>7 DEF Answers, WasAnswered
<1> HIDE DEF k
<1>9. Quiet(c, {i}, k, fileCall[c].inside, {}, at)
  BY <1>1, <1>2, <1>3, <1>6, <1>7, <1>8 DEF Quiet, k
<1>10. request'[IdOf(c, "lock")] = request[IdOf(c, "lock")]
  BY <1>3, <1>7 DEF Served
<1>11. FileCallIs(c)'
  BY <1>1, <1>3, <1>6, <1>10 DEF FileCallIs, CallStep, NoAccessYet, NoLockYet, k
<1> QED
  BY <1>1, <1>9, <1>11, QuietStep

\* The answer to getAccess().
LEMMA AccessAnsweredKeeps ==
  ASSUME FileInv, NEW c \in FileCalls, AccessAnswered(c)
  PROVE  FileInv'
<1> DEFINE k == fileCall[c].kind
           i == IdOf(c, "access")
           at == IF k = "transaction" THEN "toLock" ELSE "io"
<1>1. /\ fileCall[c].at = "asked" /\ FileCallIs(c) /\ FileTyped
      /\ k \in Kinds \cup {"none"} /\ at \in {"toLock", "io"} /\ at \in FilePlaces
      /\ fileCall[c].inside \in BOOLEAN /\ fileCall[c].frees \in SUBSET FileIds
      /\ fileCall[c].frees = {} /\ k # "lock" /\ (c \in OtherCalls => c \notin OwnCalls /\ at = "io")
      /\ request[IdOf(c, "lock")].at = "none"
  BY FileTypes, FileAssumption DEF AccessAnswered, FileCallIs, FilePlaces, NoLockYet
<1>2. /\ UNCHANGED <<transactionQueue, barged, lockQueue, initPromise>>
      /\ fileState' \in FileStates
      /\ fileState'.accessId = IF c \in OtherCalls THEN fileState.accessId ELSE i
      /\ fileState'.enterTransaction = fileState.enterTransaction
  BY FileTypes, FileIdFacts DEF AccessAnswered, Others, FileStates
<1>3. /\ i \in FileIds /\ i[1] = c /\ i[2] = "access" /\ request[i].at = "there"
      /\ fpr.held[i] \in {"access", "refused"}
      /\ IdOf(c, "lock") \in FileIds /\ IdOf(c, "lock") # i /\ i # InitId
  BY FileIdFacts DEF AccessAnswered
<1>4. request' = AccessTold(i) /\ UNCHANGED fpr /\ fileCall' = Go(c, at)
  BY DEF AccessAnswered
<1>5. CallStep(c, k, fileCall[c].inside, {}, at)
  BY <1>1, <1>4, CallSteps DEF Kinds
<1>6. Served({i}) /\ request'[i].at = "told"
  BY <1>3, <1>4, TellStep
<1>7. /\ \A d \in FileCalls \ {c} : fileCall'[d] = fileCall[d]
      /\ fileCall' \in [FileCalls -> CallKind]
      /\ fileCall'[c].kind = k /\ fileCall'[c].inside = fileCall[c].inside
      /\ fileCall'[c].frees = {} /\ fileCall'[c].at = at
  BY <1>5 DEF CallStep
<1>8. \A d \in FileCalls \ {c} : IdOf(d, "access") \in FileIds \ {i}
  BY FileIdFacts
<1>9. c \in OwnCalls => \A d \in OwnCalls : request[IdOf(d, "access")].at # "freed"
  <2>1. \A d \in OwnCalls : Process(IdOf(d, "access")) = "here" /\ IdOf(d, "access")[2] = "access"
                            /\ IdOf(d, "access") \in FileIds
    BY FileIdFacts, FileAssumption DEF Process, FileCalls
  <2> QED
    BY <2>1 DEF AccessAnswered, InOrder
<1> HIDE DEF i, k, at
<1>10. Answers({i}) /\ FileTyped /\ OwnCalls \subseteq FileCalls
  BY <1>3, FileTypes DEF Answers, WasAnswered
<1>11. FileTyped'
  <2>1. request' \in [FileIds -> RequestKind]
    BY <1>6 DEF Served
  <2> QED
    BY <1>2, <1>7, <1>10, <2>1 DEF FileTyped
<1>12. ServerIs(fpr)' /\ RequestsAre'
  BY <1>6, ServedFacts
<1>13. FileCallsAre'
  <2>1. FileCallIs(c)'
    <3>1. request'[IdOf(c, "lock")] = request[IdOf(c, "lock")]
      BY <1>3, <1>6 DEF Served
    <3> QED
      BY <1>1, <1>6, <1>7, <3>1 DEF FileCallIs, NoAccessYet, NoLockYet, at, k, i
  <2>2. \A d \in OtherCalls \ {c} : IdOf(d, "access") \notin {i}
    BY <1>8 DEF FileCalls
  <2> QED
    BY <1>3, <1>6, <1>7, <2>1, <2>2, CallsKept DEF SameOrWoken
<1>14. KnownIds'
  <2>1. CASE c \in OtherCalls
    BY <1>2, <1>3, <1>6, <1>10, <2>1, KnownKept
  <2>2. CASE c \notin OtherCalls
    <3>1. \A q : WasAnswered(q) => q \in FileIds /\ request'[q].at \in {"told", "freed", "gone"}
      BY <1>6, <1>10, AnsweredStay DEF WasAnswered
    <3>2. fileState'.accessId = i /\ request'[i].at = "told" /\ OwnAccess(i)
      BY <1>2, <1>6, <2>2 DEF OwnAccess, i, FileCalls
    <3>3. \A n \in 1..Len(lockQueue) : lockQueue[n] \in FileIds /\ request'[lockQueue[n]].at \in {"told", "freed", "gone"}
      BY <3>1 DEF FileInv, KnownIds
    <3>4. initPromise = "asked" => request'[InitId].at = "there"
      BY <1>3, <1>6, FileIdFacts DEF FileInv, KnownIds, Served
    <3> QED
      BY <1>2, <1>3, <3>2, <3>3, <3>4 DEF KnownIds, WasAnswered
  <2> QED
    BY <2>1, <2>2
<1>15. LocksMatch'
  <2>1. AllUnlocked => AllUnlocked'
    <3>1. \A d \in OwnCalls : fileCall'[d].kind = fileCall[d].kind
      BY <1>7, <1>10 DEF k
    <3> QED
      BY <3>1 DEF AllUnlocked
  <2> QED
    BY <1>2, <1>3, <1>6, <2>1, LocksKept
<1>16. AccessIsMine' /\ AccessFreed'
  <2>1. Overlapped => Overlapped'
    <3>1. \A d \in OwnCalls : fileCall'[d].inside = fileCall[d].inside
      BY <1>7, <1>10
    <3> QED
      BY <1>2, <3>1 DEF Overlapped
  <2> SUFFICES ASSUME ~Overlapped', ~Deleted'
               PROVE  /\ \A d \in FileCalls : AtWork(d)' =>
                         /\ fpr.held[IdOf(d, "access")] = "access"
                         /\ d \in OwnCalls => fileState'.accessId = IdOf(d, "access")
                      /\ \A d \in OwnCalls : fileCall'[d].at \in {"freeing", "ending"} =>
                         \A q \in fileCall'[d].frees : q = IdOf(d, "access") /\ request'[q].at = "freed"
                      /\ \A d, e \in OwnCalls : request'[IdOf(d, "access")].at = "freed" => ~AtWork(e)'
                      /\ \A d \in FileCalls : AtWork(d)' => request'[IdOf(d, "access")].at = "told"
    BY <1>4 DEF AccessIsMine, AccessFreed, AtWork
  <2>2. ~Overlapped /\ ~Deleted /\ fpr.held[i] = "access"
    BY <1>3, <1>4, <1>6, <2>1, ServedFacts
  <2>3. /\ \A d \in FileCalls : AtWork(d) => /\ fpr.held[IdOf(d, "access")] = "access"
                                             /\ d \in OwnCalls => fileState.accessId = IdOf(d, "access")
        /\ \A d \in OwnCalls : fileCall[d].at \in {"freeing", "ending"} =>
           \A q \in fileCall[d].frees : q = IdOf(d, "access") /\ request[q].at = "freed"
        /\ \A d, e \in OwnCalls : request[IdOf(d, "access")].at = "freed" => ~AtWork(e)
        /\ \A d \in FileCalls : AtWork(d) => request[IdOf(d, "access")].at = "told"
    BY <2>2 DEF FileInv, AccessIsMine, AccessFreed
  <2>4. \A d \in FileCalls \ {c} : AtWork(d)' <=> AtWork(d)
    BY <1>7 DEF AtWork
  <2>5. \A q, r \in FileIds : fpr.held[q] = "access" /\ fpr.held[r] = "access" => q = r
    BY DEF FileInv, ServerIs, RP!Sound, RP!Queued, RP!OneAccess
  <2>6. \A d \in FileCalls \ {c} : ~AtWork(d)
    BY <1>3, <1>8, <2>2, <2>3, <2>5
  <2>7. \A d \in FileCalls : AtWork(d)' => d = c
    BY <2>4, <2>6
  <2>8. \A d \in OwnCalls : request'[IdOf(d, "access")].at # "freed" \/ c \notin OwnCalls
    BY <1>6, <1>8, <1>9, <1>10 DEF Served, i
  <2>9. \A d \in OwnCalls : fileCall'[d].at \in {"freeing", "ending"} =>
                         \A q \in fileCall'[d].frees : q = IdOf(d, "access") /\ request'[q].at = "freed"
    <3> SUFFICES ASSUME NEW d \in OwnCalls, fileCall'[d].at \in {"freeing", "ending"}, NEW q \in fileCall'[d].frees
                 PROVE  q = IdOf(d, "access") /\ request'[q].at = "freed"
      OBVIOUS
    <3>1. d # c /\ d \in FileCalls \ {c}
      BY <1>1, <1>7, <1>10
    <3>2. q = IdOf(d, "access") /\ request[q].at = "freed"
      BY <1>7, <2>3, <3>1
    <3> QED
      BY <1>6, <1>8, <3>1, <3>2 DEF Served
  <2>10. \A d \in OwnCalls : d \notin OtherCalls
    BY FileAssumption
  <2>11. \A d \in FileCalls : AtWork(d)' =>
            /\ fpr.held[IdOf(d, "access")] = "access"
            /\ d \in OwnCalls => fileState'.accessId = IdOf(d, "access")
            /\ request'[IdOf(d, "access")].at = "told"
    BY <1>2, <1>6, <2>2, <2>7, <2>10 DEF i
  <2>12. \A d, e \in OwnCalls : request'[IdOf(d, "access")].at = "freed" => ~AtWork(e)'
    BY <1>10, <2>7, <2>8
  <2> QED
    BY <2>9, <2>11, <2>12
<1>17. TransactionsInTurn' /\ OneActive'
  BY <1>1, <1>2, <1>7, TurnsKept DEF k
<1> QED
  BY <1>11, <1>12, <1>13, <1>14, <1>15, <1>16, <1>17 DEF FileInv

\* The access that is released, and nothing else.
LEMMA FreesKeeps ==
  ASSUME FileInv, NEW c \in OwnCalls, NEW ids \in {<<>>, <<fileState.accessId>>},
         ids # <<>> => fileState.accessId # NoId, NEW at \in {"freeing", "ending"},
         fileCall[c].at \in {"io", "body"}, Frees(c, at, ids),
         UNCHANGED <<transactionQueue, barged, lockQueue, initPromise>>,
         fileState' \in FileStates, fileState'.accessId = fileState.accessId,
         fileState'.enterTransaction = fileState.enterTransaction
  PROVE  FileInv'
<1> DEFINE k == fileCall[c].kind
           S == ToSet(ids)
           a == fileState.accessId
<1>1. /\ c \in FileCalls /\ FileCallIs(c) /\ FileTyped /\ OwnCalls \subseteq FileCalls
      /\ k \in Kinds \cup {"none"} /\ at \in FilePlaces /\ k # "lock" /\ c \notin OtherCalls
      /\ fileCall[c].inside \in BOOLEAN
  BY FileTypes, FileAssumption DEF FileCallIs, FilePlaces
<1>2. ids # <<>> => WasAnswered(a) /\ OwnAccess(a) /\ a \in FileIds
  BY DEF FileInv, KnownIds, WasAnswered
<1>3. ids \in Seq(FileIds) /\ S = IF ids = <<>> THEN {} ELSE {a}
  <2>1. CASE ids = <<>>
    BY <2>1 DEF ToSet
  <2>2. CASE ids # <<>>
    BY <1>2, <2>2, OneIdFacts
  <2> QED
    BY <2>1, <2>2
<1>4. \A i \in S : /\ WasAnswered(i) /\ i \in FileIds /\ i[2] = "access" /\ i # InitId
                   /\ \E d \in OwnCalls : i = IdOf(d, "access")
  BY <1>1, <1>2, <1>3, FileIdFacts DEF OwnAccess
<1>5. \A n \in 1..Len(ids) : fpr.held[ids[n]] \notin {"new", "queued"}
  <2>1. \A n \in 1..Len(ids) : ids[n] \in S
    BY <1>3, ToSetFacts
  <2>2. \A i \in S : request[i].at \in {"told", "freed", "gone"} /\ i[2] # "new" /\ i[2] # "queued"
    BY <1>4 DEF WasAnswered
  <2>3. \A i \in S : RequestIs(i, request[i].at, fpr.held[i])
    BY <1>4 DEF FileInv, RequestsAre
  <2>4. \A i \in S : fpr.held[i] \notin {"new", "queued"}
    BY <2>2, <2>3 DEF RequestIs
  <2> QED
    BY <2>1, <2>4
<1>6. /\ Releases(ids, c)
      /\ fileCall' = [fileCall EXCEPT ![c] = [@ EXCEPT !.at = at, !.frees = S]]
  BY DEF Frees
<1>7. /\ Served(S)
      /\ \A i \in S : request'[i].at = (IF request[i].at = "gone" THEN "gone" ELSE "freed")
  BY <1>1, <1>3, <1>5, <1>6, ReleaseStep
<1> HIDE DEF S, a
<1>8. CallStep(c, k, fileCall[c].inside, S, at)
  <2>1. S \in SUBSET FileIds
    BY <1>4
  <2> QED
    BY <1>1, <1>6, <2>1, CallSteps DEF Kinds
<1>9. /\ \A d \in FileCalls \ {c} : fileCall'[d] = fileCall[d]
      /\ fileCall' \in [FileCalls -> CallKind]
      /\ fileCall'[c].kind = k /\ fileCall'[c].inside = fileCall[c].inside
      /\ fileCall'[c].frees = S /\ fileCall'[c].at = at
  BY <1>8 DEF CallStep
<1> HIDE DEF k
<1>10. Answers(S)
  BY <1>4, <1>7 DEF Answers, WasAnswered
<1>11. FileTyped'
  <2>1. request' \in [FileIds -> RequestKind]
    BY <1>7 DEF Served
  <2> QED
    BY <1>1, <1>9, <2>1 DEF FileTyped
<1>12. ServerIs(fpr)' /\ RequestsAre'
  BY <1>7, ServedFacts
<1>13. FileCallsAre'
  <2>1. FileCallIs(c)'
    BY <1>1, <1>4, <1>9 DEF FileCallIs, NoAccessYet, NoLockYet, k
  <2>2. \A d \in OtherCalls \ {c} : IdOf(d, "access") \notin S
    BY <1>4, FileIdFacts, FileAssumption
  <2>3. \A i \in S : request[i].at # "none"
    BY <1>4 DEF WasAnswered
  <2> QED
    BY <1>1, <1>7, <1>9, <2>1, <2>2, <2>3, CallsKept DEF SameOrWoken
<1>14. KnownIds'
  <2>1. InitId \notin S
    BY <1>4
  <2> QED
    BY <1>7, <1>10, <2>1, KnownKept DEF a
<1>15. LocksMatch'
  <2>1. AllUnlocked => AllUnlocked'
    <3>1. \A d \in OwnCalls : fileCall'[d].kind = fileCall[d].kind
      BY <1>1, <1>9 DEF k
    <3> QED
      BY <3>1 DEF AllUnlocked
  <2>2. \A i \in S : i[2] # "lock"
    BY <1>4
  <2> QED
    BY <1>7, <2>1, <2>2, LocksKept
<1>16. AccessIsMine' /\ AccessFreed'
  <2>1. Overlapped => Overlapped'
    <3>1. \A d \in OwnCalls : fileCall'[d].inside = fileCall[d].inside
      BY <1>1, <1>9
    <3> QED
      BY <3>1 DEF Overlapped
  <2> SUFFICES ASSUME ~Overlapped', ~Deleted'
               PROVE  /\ \A d \in FileCalls : ~AtWork(d)'
                      /\ \A d \in OwnCalls : fileCall'[d].at \in {"freeing", "ending"} =>
                         \A q \in fileCall'[d].frees : q = IdOf(d, "access") /\ request'[q].at = "freed"
    BY <1>1 DEF AccessIsMine, AccessFreed, AtWork
  <2>2. ~Overlapped /\ ~Deleted
    BY <1>7, <2>1, ServedFacts
  <2>3. /\ \A d \in FileCalls : AtWork(d) => /\ fpr.held[IdOf(d, "access")] = "access"
                                             /\ d \in OwnCalls => fileState.accessId = IdOf(d, "access")
        /\ \A d \in OwnCalls : fileCall[d].at \in {"freeing", "ending"} =>
           \A q \in fileCall[d].frees : q = IdOf(d, "access") /\ request[q].at = "freed"
        /\ \A d, e \in OwnCalls : request[IdOf(d, "access")].at = "freed" => ~AtWork(e)
        /\ \A d \in FileCalls : AtWork(d) => request[IdOf(d, "access")].at = "told"
    BY <2>2 DEF FileInv, AccessIsMine, AccessFreed
  <2>4. \A d \in FileCalls \ {c} : AtWork(d)' <=> AtWork(d)
    BY <1>9 DEF AtWork
  <2>5. \A q, r \in FileIds : fpr.held[q] = "access" /\ fpr.held[r] = "access" => q = r
    BY DEF FileInv, ServerIs, RP!Sound, RP!Queued, RP!OneAccess
  <2>6. AtWork(c) /\ ~AtWork(c)'
    BY <1>1, <1>9 DEF AtWork, k
  <2>7. \A d \in FileCalls : IdOf(d, "access") \in FileIds
    BY FileIdFacts
  <2>8. \A d \in FileCalls \ {c} : ~AtWork(d)
    <3>1. \A d \in FileCalls : AtWork(d) => IdOf(d, "access") = IdOf(c, "access")
      BY <1>1, <2>3, <2>5, <2>6, <2>7
    <3> QED
      BY <3>1, FileIdFacts
  <2>9. \A d \in FileCalls : ~AtWork(d)'
    BY <2>4, <2>6, <2>8
  <2>10. \A d \in OwnCalls : request[IdOf(d, "access")].at # "freed"
    BY <2>3, <2>6
  <2>11. ASSUME NEW d \in OwnCalls, fileCall'[d].at \in {"freeing", "ending"}, NEW q \in fileCall'[d].frees
         PROVE  q = IdOf(d, "access") /\ request'[q].at = "freed"
    <3>1. CASE d = c
      <4>1. q = a /\ q \in S /\ a = IdOf(c, "access") /\ request[q].at = "told"
        BY <1>1, <1>3, <1>9, <2>3, <2>6, <2>11, <3>1 DEF a
      <4> QED
        BY <1>7, <3>1, <4>1
    <3>2. CASE d # c
      BY <1>1, <1>9, <2>3, <2>10, <2>11, <3>2
    <3> QED
      BY <3>1, <3>2
  <2> QED
    BY <2>9, <2>11
<1>17. TransactionsInTurn' /\ OneActive'
  BY <1>1, <1>9, TurnsKept DEF k
<1> QED
  BY <1>11, <1>12, <1>13, <1>14, <1>15, <1>16, <1>17 DEF FileInv

\* The file system is done, or fails.
LEMMA IoEndsKeeps ==
  ASSUME FileInv, NEW c \in FileCalls, IoEnds(c)
  PROVE  FileInv'
<1> DEFINE k == fileCall[c].kind
           i == IdOf(c, "access")
<1>1. /\ fileCall[c].at = "io" /\ FileCallIs(c) /\ FileTyped
      /\ k \in Kinds \cup {"none"} /\ fileCall[c].inside \in BOOLEAN
      /\ fileCall[c].frees = {} /\ k # "lock"
  BY FileTypes DEF IoEnds, FileCallIs
<1>2. /\ UNCHANGED <<transactionQueue, barged, lockQueue, initPromise>> /\ fileState' = fileState
      /\ fileState \in FileStates
  BY FileTypes DEF IoEnds, Others
<1>3. CASE fileCall' = Go(c, "failed") /\ UNCHANGED Server
  <2>1. Served({}) /\ Answers({})
    BY <1>3, NotServed DEF Answers
  <2>2. CallStep(c, k, fileCall[c].inside, {}, "failed")
    BY <1>1, <1>3, CallSteps DEF Kinds, FilePlaces
  <2> HIDE DEF k
  <2>3. Quiet(c, {}, k, fileCall[c].inside, {}, "failed")
    BY <1>1, <1>2, <2>1, <2>2 DEF Quiet, k
  <2>4. FileCallIs(c)'
    BY <1>1, <2>2 DEF FileCallIs, CallStep, NoAccessYet, NoLockYet, k
  <2> QED
    BY <2>3, <2>4, QuietStep
<1>4. CASE Frees(c, "freeing", AccessToFree(c)) /\ c \in OwnCalls
  <2>1. c \notin OtherCalls
    BY <1>4, FileAssumption
  <2>2. /\ AccessToFree(c) \in {<<>>, <<fileState.accessId>>}
        /\ AccessToFree(c) # <<>> => fileState.accessId # NoId
    BY <2>1 DEF AccessToFree
  <2> QED
    BY <1>1, <1>2, <1>4, <2>2, FreesKeeps
<1>5. CASE Frees(c, "freeing", AccessToFree(c)) /\ c \in OtherCalls
  <2>1. AccessToFree(c) = <<i>> /\ c \notin OwnCalls
    BY <1>5, FileAssumption DEF AccessToFree
  <2>2. /\ i \in FileIds /\ i[1] = c /\ i[2] = "access" /\ request[i].at = "told"
    BY <1>1, <1>5, FileIdFacts DEF FileCallIs
  <2>3. <<i>> \in Seq(FileIds) /\ ToSet(<<i>>) = {i} /\ Len(<<i>>) = 1 /\ <<i>>[1] = i
    BY <2>2, OneIdFacts
  <2>4. \A n \in 1..Len(<<i>>) : fpr.held[<<i>>[n]] \notin {"new", "queued"}
    <3>1. RequestIs(i, request[i].at, fpr.held[i])
      BY <2>2 DEF FileInv, RequestsAre
    <3>2. fpr.held[i] \notin {"new", "queued"}
      BY <2>2, <3>1 DEF RequestIs
    <3> QED
      BY <2>3, <3>2
  <2>5. /\ Releases(<<i>>, c)
        /\ fileCall' = [fileCall EXCEPT ![c] = [@ EXCEPT !.at = "freeing", !.frees = {i}]]
    BY <1>5, <2>1, <2>3 DEF Frees
  <2>6. Served({i}) /\ request'[i].at = "freed"
    <3>1. Served(ToSet(<<i>>)) /\ \A q \in ToSet(<<i>>) :
            request'[q].at = (IF request[q].at = "gone" THEN "gone" ELSE "freed")
      BY <2>3, <2>4, <2>5, ReleaseStep
    <3> QED
      BY <2>2, <2>3, <3>1
  <2>7. CallStep(c, k, fileCall[c].inside, {i}, "freeing")
    BY <1>1, <2>2, <2>5, CallSteps DEF FilePlaces, Kinds
  <2> HIDE DEF i
  <2>8. Answers({i})
    BY <2>2, <2>6 DEF Answers, WasAnswered
  <2> HIDE DEF k
  <2>9. Quiet(c, {i}, k, fileCall[c].inside, {i}, "freeing")
    BY <1>1, <1>2, <2>1, <2>2, <2>6, <2>7, <2>8 DEF Quiet, k
  <2>10. FileCallIs(c)'
    BY <1>1, <2>2, <2>7 DEF FileCallIs, CallStep, NoAccessYet, NoLockYet, k, i
  <2> QED
    BY <2>9, <2>10, QuietStep
<1> QED
  BY <1>3, <1>4, <1>5 DEF IoEnds, FileCalls

\* The callback of a transaction is over.
LEMMA EndTransactionKeeps ==
  ASSUME FileInv, NEW c \in OwnCalls, EndTransaction(c)
  PROVE  FileInv'
<1>1. /\ fileCall[c].at = "body" /\ fileState \in FileStates
      /\ fileState' = [fileState EXCEPT !.inTransaction = FALSE]
      /\ UNCHANGED <<transactionQueue, barged, lockQueue, initPromise>>
      /\ Frees(c, "ending", IF fileState.accessId = NoId THEN <<>> ELSE <<fileState.accessId>>)
  BY FileTypes DEF EndTransaction, Others
<1>2. /\ fileState' \in FileStates /\ fileState'.accessId = fileState.accessId
      /\ fileState'.enterTransaction = fileState.enterTransaction
  BY <1>1 DEF FileStates
<1> DEFINE ids == IF fileState.accessId = NoId THEN <<>> ELSE <<fileState.accessId>>
<1>3. ids \in {<<>>, <<fileState.accessId>>} /\ (ids # <<>> => fileState.accessId # NoId)
  OBVIOUS
<1> QED
  BY <1>1, <1>2, <1>3, FreesKeeps

\* A sequence that grows, and what it says of its elements.
LEMMA PushedFacts ==
  ASSUME NEW S, NEW s \in Seq(S), NEW e \in S
  PROVE  /\ Append(s, e) \in Seq(S) /\ ToSet(Append(s, e)) = ToSet(s) \cup {e}
         /\ \A k \in 1..Len(Append(s, e)) : Append(s, e)[k] = e \/ \E l \in 1..Len(s) : Append(s, e)[k] = s[l]
         /\ IsInjective(s) /\ e \notin ToSet(s) => IsInjective(Append(s, e))
<1> DEFINE t == Append(s, e)
<1>1. /\ t \in Seq(S) /\ Len(s) \in Nat /\ Len(t) = Len(s) + 1
      /\ DOMAIN s = 1..Len(s) /\ DOMAIN t = 1..(Len(s) + 1)
      /\ \A k \in 1..Len(s) : t[k] = s[k]
      /\ t[Len(s) + 1] = e
  OBVIOUS
<1> HIDE DEF t
<1>2. PICK n \in Nat : n = Len(s)
  BY <1>1
<1>3. \A k \in 1..(n + 1) : k = n + 1 \/ k \in 1..n
  BY <1>2
<1>4. \A z : z \in ToSet(t) <=> \E k \in 1..(n + 1) : t[k] = z
  BY <1>1, <1>2, ToSetFacts
<1>5. \A z : z \in ToSet(s) <=> \E k \in 1..n : s[k] = z
  BY <1>2, ToSetFacts
<1>6. ToSet(t) = ToSet(s) \cup {e}
  <2>1. \A z : z \in ToSet(t) <=> z \in ToSet(s) \/ z = e
    BY <1>1, <1>2, <1>3, <1>4, <1>5
  <2> QED
    BY <2>1
<1>7. ASSUME IsInjective(s), e \notin ToSet(s) PROVE IsInjective(t)
  <2>1. \A k, l \in 1..n : s[k] = s[l] => k = l
    BY <1>1, <1>2, <1>7 DEF IsInjective
  <2>2. \A k \in 1..n : s[k] # e
    BY <1>5, <1>7
  <2>3. \A k, l \in 1..(n + 1) : t[k] = t[l] => k = l
    BY <1>1, <1>2, <1>3, <2>1, <2>2
  <2> QED
    BY <1>1, <1>2, <2>3 DEF IsInjective
<1> QED
  BY <1>1, <1>2, <1>3, <1>6, <1>7 DEF t

\* A lock that was answered goes to the queue.
LEMMA LockTold ==
  ASSUME FileInv, NEW i \in FileIds, i[2] = "lock", request[i].at = "there",
         request' = AccessTold(i), UNCHANGED fpr, lockQueue' = Append(lockQueue, i),
         AllUnlocked => AllUnlocked', initPromise' = "asked" => initPromise = "asked" /\ i # InitId,
         fileState'.accessId = fileState.accessId
  PROVE  /\ Served({i}) /\ request'[i].at = "told" /\ KnownIds' /\ LocksMatch'
         /\ lockQueue' \in Seq(FileIds) /\ \A k \in 1..Len(lockQueue') : IsLock(lockQueue'[k])
<1>1. fpr.held[i] \in {"refused", "lock"}
  BY DEF FileInv, RequestsAre, RequestIs
<1>2. Served({i}) /\ request'[i].at = "told"
  BY <1>1, TellStep
<1>3. /\ lockQueue \in Seq(FileIds) /\ KnownIds /\ \A k \in 1..Len(lockQueue) : IsLock(lockQueue[k])
  BY DEF FileInv, FileTyped
<1>4. /\ lockQueue' \in Seq(FileIds) /\ ToSet(lockQueue') = ToSet(lockQueue) \cup {i}
      /\ \A k \in 1..Len(lockQueue') : lockQueue'[k] = i \/ \E l \in 1..Len(lockQueue) : lockQueue'[k] = lockQueue[l]
      /\ IsInjective(lockQueue) /\ i \notin ToSet(lockQueue) => IsInjective(lockQueue')
  BY <1>3, PushedFacts
<1>5. Answers({i})
  BY <1>2 DEF Answers, WasAnswered
<1>6. \A q : WasAnswered(q) => q \in FileIds /\ request'[q].at \in {"told", "freed", "gone"}
  BY <1>2, <1>5, AnsweredStay DEF WasAnswered
<1>7. \A k \in 1..Len(lockQueue') : IsLock(lockQueue'[k])
  BY <1>3, <1>4 DEF IsLock
<1>8. KnownIds'
  <2>1. \A k \in 1..Len(lockQueue') : lockQueue'[k] \in FileIds /\ request'[lockQueue'[k]].at \in {"told", "freed", "gone"}
    BY <1>2, <1>3, <1>4, <1>6 DEF KnownIds
  <2>2. fileState.accessId # NoId => /\ fileState.accessId \in FileIds
                                     /\ request'[fileState.accessId].at \in {"told", "freed", "gone"}
                                     /\ OwnAccess(fileState.accessId)
    BY <1>3, <1>6 DEF KnownIds
  <2>3. initPromise' = "asked" => request'[InitId].at = "there"
    BY <1>2, <1>3, FileIdFacts DEF KnownIds, Served
  <2> QED
    BY <2>1, <2>2, <2>3 DEF KnownIds, WasAnswered
<1>9. LocksMatch'
  <2> SUFFICES ASSUME ~Deleted', ~AllUnlocked'
               PROVE  /\ IsInjective(lockQueue')
                      /\ ToSet(lockQueue') = {q \in FileIds : q[2] = "lock" /\ request'[q].at = "told"}
                      /\ \A q \in ToSet(lockQueue') : fpr.held[q] = "lock"
    BY DEF LocksMatch
  <2>1. /\ IsInjective(lockQueue)
        /\ ToSet(lockQueue) = {q \in FileIds : q[2] = "lock" /\ request[q].at = "told"}
        /\ \A q \in ToSet(lockQueue) : fpr.held[q] = "lock"
    BY <1>2, ServedFacts DEF FileInv, LocksMatch
  <2>2. i \notin ToSet(lockQueue)
    BY <2>1
  <2>3. fpr.held[i] = "lock"
    BY <1>1, <1>2, ServedFacts
  <2>4. \A q \in FileIds \ {i} : request'[q] = request[q]
    BY <1>2 DEF Served
  <2> QED
    BY <1>2, <1>4, <2>1, <2>2, <2>3, <2>4
<1> QED
  BY <1>2, <1>4, <1>7, <1>8, <1>9

\* The lock of a call is answered.
LEMMA LockAnsweredKeeps ==
  ASSUME FileInv, NEW c \in OwnCalls, LockAnswered(c)
  PROVE  FileInv'
<1> DEFINE k == fileCall[c].kind
           i == IdOf(c, "lock")
           at == Locked(c)
<1>1. /\ fileCall[c].at = "locking" /\ FileCallIs(c) /\ FileTyped /\ c \in FileCalls
      /\ k \in Kinds \cup {"none"} /\ at = (IF k = "transaction" THEN "body" ELSE "locked") /\ at \in FilePlaces
      /\ fileCall[c].inside \in BOOLEAN /\ fileCall[c].frees \in SUBSET FileIds
      /\ fileCall[c].frees = {} /\ c \notin OtherCalls /\ OwnCalls \subseteq FileCalls
  BY FileTypes, FileAssumption DEF LockAnswered, FileCallIs, FilePlaces, Locked
<1>2. /\ UNCHANGED <<transactionQueue, barged, initPromise, fpr>> /\ request' = AccessTold(i)
      /\ lockQueue' = Append(lockQueue, i) /\ fileCall' = Go(c, at) /\ request[i].at = "there"
  BY DEF LockAnswered, Others
<1>3. /\ fileState' \in FileStates
      /\ fileState'.accessId = fileState.accessId
      /\ fileState'.enterTransaction = fileState.enterTransaction
  <2>1. fileState' = [fileState EXCEPT !.inTransaction = @ \/ fileCall[c].kind = "transaction"]
        /\ fileState \in FileStates
    BY FileTypes DEF LockAnswered
  <2> QED
    BY <2>1 DEF FileStates
<1>4. i \in FileIds /\ i[2] = "lock" /\ i # InitId /\ i[1] = c
  BY <1>1, FileIdFacts
<1>5. CallStep(c, k, fileCall[c].inside, {}, at)
  BY <1>1, <1>2, CallSteps DEF Kinds
<1>6. /\ \A d \in FileCalls \ {c} : fileCall'[d] = fileCall[d]
      /\ fileCall' \in [FileCalls -> CallKind]
      /\ fileCall'[c].kind = k /\ fileCall'[c].inside = fileCall[c].inside
      /\ fileCall'[c].frees = {} /\ fileCall'[c].at = at
  BY <1>5 DEF CallStep
<1>7. AllUnlocked => AllUnlocked'
  <2>1. \A d \in OwnCalls : fileCall'[d].kind = fileCall[d].kind
    BY <1>1, <1>6
  <2> QED
    BY <2>1 DEF AllUnlocked
<1> HIDE DEF i, k, at
<1>8. /\ Served({i}) /\ request'[i].at = "told" /\ KnownIds' /\ LocksMatch'
      /\ lockQueue' \in Seq(FileIds) /\ \A n \in 1..Len(lockQueue') : IsLock(lockQueue'[n])
  BY <1>2, <1>3, <1>4, <1>7, LockTold
<1>9. FileTyped'
  <2>1. request' \in [FileIds -> RequestKind]
    BY <1>8 DEF Served
  <2> QED
    BY <1>1, <1>2, <1>3, <1>6, <1>8, <2>1 DEF FileTyped
<1>10. ServerIs(fpr)' /\ RequestsAre'
  BY <1>8, ServedFacts
<1>11. FileCallsAre'
  <2>1. FileCallIs(c)'
    BY <1>1, <1>6 DEF FileCallIs, NoAccessYet, NoLockYet, k
  <2>2. \A d \in OtherCalls \ {c} : IdOf(d, "access") \notin {i}
    BY <1>4, FileIdFacts DEF FileCalls
  <2> QED
    BY <1>1, <1>2, <1>6, <1>8, <2>1, <2>2, CallsKept DEF SameOrWoken
<1>12. AccessIsMine' /\ AccessFreed'
  <2>1. \A d \in OwnCalls : fileCall'[d].inside = fileCall[d].inside
    BY <1>1, <1>6
  <2>2. Overlapped => Overlapped'
    BY <1>2, <2>1 DEF Overlapped
  <2>3. \A d \in FileCalls : AtWork(d)' => AtWork(d)
    BY <1>1, <1>6 DEF AtWork, k
  <2>4. \A d \in FileCalls : IdOf(d, "access") \in FileIds \ {i}
    BY <1>4, FileIdFacts
  <2>5. \A d \in OwnCalls : request'[IdOf(d, "access")] = request[IdOf(d, "access")]
    BY <1>1, <1>8, <2>4 DEF Served
  <2>6. \A d \in OwnCalls : fileCall'[d].at \in {"freeing", "ending"} =>
           fileCall'[d].at = fileCall[d].at /\ fileCall'[d].frees = fileCall[d].frees
    BY <1>1, <1>6
  <2> QED
    BY <1>3, <1>8, <2>2, <2>3, <2>4, <2>5, <2>6, AccessKept
<1>13. TransactionsInTurn' /\ OneActive'
  BY <1>1, <1>2, <1>3, <1>6, TurnsKept DEF k
<1> QED
  BY <1>8, <1>9, <1>10, <1>11, <1>12, <1>13 DEF FileInv

\* The lock of the constructor: no call goes on.
LEMMA InitServed ==
  ASSUME FileInv, Served({InitId}), UNCHANGED <<fileState, transactionQueue, fileCall, barged>>,
         request'[InitId].at # "none", lockQueue' \in Seq(FileIds),
         \A n \in 1..Len(lockQueue') : IsLock(lockQueue'[n]), KnownIds', LocksMatch'
  PROVE  FileInv'
<1>1. FileTyped /\ OwnCalls \subseteq FileCalls
  BY FileTypes
<1>2. \A d \in FileCalls : IdOf(d, "access") \in FileIds \ {InitId}
  BY FileIdFacts
<1>3. FileTyped'
  <2>1. request' \in [FileIds -> RequestKind]
    BY DEF Served
  <2> QED
    BY <1>1, <2>1 DEF FileTyped
<1>4. ServerIs(fpr)' /\ RequestsAre'
  BY ServedFacts
<1>5. FileCallsAre'
  <2>1. ASSUME NEW d \in FileCalls PROVE FileCallIs(d)'
    <3>1. InitId[1] # d
      BY FileAssumption DEF InitId, IdOf, FileCalls
    <3> QED
      BY <1>2, <3>1, CallKept DEF SameOrWoken
  <2> QED
    BY <2>1 DEF FileCallsAre
<1>6. AccessIsMine' /\ AccessFreed'
  <2>1. Overlapped => Overlapped'
    BY DEF Overlapped
  <2>2. \A d \in FileCalls : AtWork(d)' => AtWork(d)
    BY DEF AtWork
  <2>3. \A d \in OwnCalls : request'[IdOf(d, "access")] = request[IdOf(d, "access")]
    BY <1>1, <1>2 DEF Served
  <2> QED
    BY <1>2, <2>1, <2>2, <2>3, AccessKept
<1>7. TransactionsInTurn' /\ OneActive'
  BY DEF FileInv, TransactionsInTurn, OneActive, IsActive, IsInjective
<1> QED
  BY <1>3, <1>4, <1>5, <1>6, <1>7 DEF FileInv

\* The lock of the constructor is answered, kept or released.
LEMMA InitAnsweredKeeps ==
  ASSUME FileInv, InitAnswered
  PROVE  FileInv'
<1>1. UNCHANGED <<fileState, transactionQueue, fileCall, barged>>
  BY DEF InitAnswered
<1>2. InitId \in FileIds /\ InitId[2] = "lock"
  BY FileIdFacts DEF IsLock
<1>3. FileTyped /\ lockQueue \in Seq(FileIds) /\ \A n \in 1..Len(lockQueue) : IsLock(lockQueue[n])
  BY DEF FileInv, FileTyped
<1>4. AllUnlocked => AllUnlocked'
  BY <1>1 DEF AllUnlocked
<1>5. CASE /\ request[InitId].at = "there" /\ request' = AccessTold(InitId)
           /\ lockQueue' = Append(lockQueue, InitId) /\ initPromise' = "done" /\ UNCHANGED fpr
  <2>1. /\ Served({InitId}) /\ request'[InitId].at = "told" /\ KnownIds' /\ LocksMatch'
        /\ lockQueue' \in Seq(FileIds) /\ \A n \in 1..Len(lockQueue') : IsLock(lockQueue'[n])
    BY <1>1, <1>2, <1>4, <1>5, LockTold
  <2> QED
    BY <1>1, <2>1, InitServed
<1>6. ASSUME Served({InitId}), lockQueue' = lockQueue, initPromise' # "asked",
             request[InitId].at \in {"there", "freed"}, request'[InitId].at \in {"freed", "gone"}
      PROVE  FileInv'
  <2>1. Answers({InitId})
    BY <1>2, <1>6 DEF Answers, WasAnswered
  <2>2. KnownIds'
    BY <1>1, <1>6, <2>1, KnownKept
  <2>3. LocksMatch'
    BY <1>4, <1>6, LocksKept
  <2> QED
    BY <1>1, <1>3, <1>6, <2>2, <2>3, InitServed
<1>7. CASE /\ request[InitId].at = "there" /\ Releases(<<InitId>>, "init") /\ initPromise' = "releasing"
           /\ UNCHANGED lockQueue
  <2>1. RequestIs(InitId, request[InitId].at, fpr.held[InitId])
    BY <1>2 DEF FileInv, RequestsAre
  <2>2. fpr.held[InitId] \notin {"new", "queued"}
    BY <1>2, <1>7, <2>1 DEF RequestIs
  <2>3. /\ Served(ToSet(<<InitId>>))
        /\ \A q \in ToSet(<<InitId>>) : request'[q].at = (IF request[q].at = "gone" THEN "gone" ELSE "freed")
    <3>1. <<InitId>> \in Seq(FileIds) /\ \A n \in 1..Len(<<InitId>>) : fpr.held[<<InitId>>[n]] \notin {"new", "queued"}
      BY <1>2, <2>2, OneIdFacts
    <3>2. Releases(<<InitId>>, "init")
      BY <1>7
    <3> QED
      BY <3>1, <3>2, ReleaseStep
  <2>4. Served({InitId}) /\ request'[InitId].at = "freed"
    BY <1>2, <1>7, <2>3, OneIdFacts
  <2> QED
    BY <1>6, <1>7, <2>4
<1>8. CASE /\ request[InitId].at = "freed" /\ request' = [request EXCEPT ![InitId].at = "gone"]
           /\ initPromise' = "done" /\ UNCHANGED <<lockQueue, fpr>>
  <2>1. request \in [FileIds -> RequestKind]
    BY <1>3 DEF FileTyped
  <2>2. /\ request' \in [FileIds -> RequestKind] /\ request'[InitId].at = "gone"
        /\ \A q \in FileIds \ {InitId} : request'[q] = request[q]
    BY <1>2, <1>8, <2>1 DEF RequestKind
  <2>3. Follows(fpr, fpr', {InitId})
    BY <1>8, FollowsNobody DEF FileInv
  <2>4. RequestIs(InitId, request'[InitId].at, fpr'.held[InitId])
    BY <1>2, <1>8, <2>2 DEF FileInv, RequestsAre, RequestIs
  <2>5. Served({InitId})
    BY <1>2, <2>2, <2>3, <2>4 DEF Served
  <2> QED
    BY <1>6, <1>8, <2>2, <2>5
<1> QED
  BY <1>5, <1>7, <1>8 DEF InitAnswered

\* unlockAll(): from now on the queue and the locks may differ.
LEMMA UnlockAllKeeps ==
  ASSUME FileInv, NEW c \in OwnCalls, UnlockAll(c)
  PROVE  FileInv'
<1> DEFINE ids == IF InTransaction THEN <<>> ELSE lockQueue
           S == ToSet(ids)
<1>1. /\ fileCall[c].at = "new" /\ fileCall[c].kind = "none" /\ fileCall[c].inside = FALSE
      /\ fileCall[c].frees = {} /\ c \in FileCalls /\ c \notin OtherCalls
      /\ FileTyped /\ OwnCalls \subseteq FileCalls
  BY NewCall, FileTypes, FileAssumption DEF UnlockAll
<1>2. /\ UNCHANGED <<transactionQueue, barged, lockQueue, initPromise>> /\ fileState' = fileState
      /\ fileState \in FileStates
      /\ fileCall' = [fileCall EXCEPT ![c] = [@ EXCEPT !.kind = "unlockAll", !.at = "unlocking", !.frees = S]]
      /\ Releases(ids, c)
  BY FileTypes DEF UnlockAll, Others
<1>3. /\ lockQueue \in Seq(FileIds)
      /\ \A n \in 1..Len(lockQueue) : IsLock(lockQueue[n]) /\ WasAnswered(lockQueue[n])
  BY <1>1 DEF FileInv, FileTyped, KnownIds
<1>4. /\ ids \in Seq(FileIds) /\ S \subseteq FileIds
      /\ \A n \in 1..Len(ids) : IsLock(ids[n]) /\ WasAnswered(ids[n])
  <2>1. /\ ids \in Seq(FileIds)
        /\ \A n \in 1..Len(ids) : IsLock(ids[n]) /\ WasAnswered(ids[n])
    <3>1. CASE InTransaction
      BY <3>1
    <3>2. CASE ~InTransaction
      BY <1>3, <3>2
    <3> QED
      BY <3>1, <3>2
  <2> HIDE DEF ids
  <2> QED
    BY <2>1, ToSetFacts
<1>5. \A i \in S : IsLock(i) /\ WasAnswered(i)
  BY <1>4, ToSetFacts
<1>6. \A n \in 1..Len(ids) : fpr.held[ids[n]] \notin {"new", "queued"}
  <2>1. \A i \in FileIds : RequestIs(i, request[i].at, fpr.held[i])
    BY DEF FileInv, RequestsAre
  <2>2. \A i \in FileIds : IsLock(i) /\ WasAnswered(i) => fpr.held[i] \notin {"new", "queued"}
    BY <2>1 DEF RequestIs, IsLock, WasAnswered
  <2> QED
    BY <1>4, <2>2 DEF IsLock
<1> HIDE DEF ids
<1>7. /\ Served(S)
      /\ \A i \in S : request'[i].at = (IF request[i].at = "gone" THEN "gone" ELSE "freed")
  BY <1>1, <1>2, <1>4, <1>6, ReleaseStep
<1> HIDE DEF S
<1>8. CallStep(c, "unlockAll", FALSE, S, "unlocking")
  BY <1>1, <1>2, <1>4, CallSteps DEF Kinds, FilePlaces
<1>9. /\ \A d \in FileCalls \ {c} : fileCall'[d] = fileCall[d]
      /\ fileCall' \in [FileCalls -> CallKind]
      /\ fileCall'[c].kind = "unlockAll" /\ fileCall'[c].inside = FALSE
      /\ fileCall'[c].frees = S /\ fileCall'[c].at = "unlocking"
  BY <1>8 DEF CallStep
<1>10. Answers(S)
  BY <1>5, <1>7 DEF Answers, WasAnswered
<1>11. FileTyped'
  <2>1. request' \in [FileIds -> RequestKind]
    BY <1>7 DEF Served
  <2> QED
    BY <1>1, <1>2, <1>9, <2>1 DEF FileTyped
<1>12. ServerIs(fpr)' /\ RequestsAre'
  BY <1>7, ServedFacts
<1>13. \A d \in FileCalls : IdOf(d, "access") \in FileIds \ S
  BY <1>5, FileIdFacts DEF IsLock
<1>14. FileCallsAre'
  <2>1. FileCallIs(c)'
    BY <1>1, <1>5, <1>9 DEF FileCallIs, NoAccessYet, NoLockYet
  <2>2. \A i \in S : request[i].at # "none"
    BY <1>5 DEF WasAnswered
  <2>3. \A d \in OtherCalls \ {c} : IdOf(d, "access") \notin S
    BY <1>13 DEF FileCalls
  <2> QED
    BY <1>1, <1>7, <1>9, <2>1, <2>2, <2>3, CallsKept DEF SameOrWoken
<1>15. KnownIds'
  <2>1. initPromise' = "asked" => initPromise = "asked" /\ InitId \notin S
    <3>1. initPromise = "asked" => ~WasAnswered(InitId)
      BY DEF FileInv, KnownIds, WasAnswered
    <3> QED
      BY <1>2, <1>5, <3>1
  <2> QED
    BY <1>2, <1>7, <1>10, <2>1, KnownKept
<1>16. LocksMatch'
  BY <1>9 DEF LocksMatch, AllUnlocked
<1>17. AccessIsMine' /\ AccessFreed'
  <2>1. \A d \in OwnCalls : fileCall'[d].inside = fileCall[d].inside
    BY <1>1, <1>9
  <2>2. Overlapped => Overlapped'
    BY <1>2, <2>1 DEF Overlapped
  <2>3. \A d \in FileCalls : AtWork(d)' => AtWork(d)
    BY <1>9 DEF AtWork
  <2>4. \A d \in OwnCalls : request'[IdOf(d, "access")] = request[IdOf(d, "access")]
    BY <1>1, <1>7, <1>13 DEF Served
  <2>5. \A d \in OwnCalls : fileCall'[d].at \in {"freeing", "ending"} =>
           fileCall'[d].at = fileCall[d].at /\ fileCall'[d].frees = fileCall[d].frees
    BY <1>1, <1>9
  <2> QED
    BY <1>2, <1>7, <1>13, <2>2, <2>3, <2>4, <2>5, AccessKept
<1>18. TransactionsInTurn' /\ OneActive'
  BY <1>1, <1>2, <1>9, TurnsKept
<1> QED
  BY <1>11, <1>12, <1>14, <1>15, <1>16, <1>17, <1>18 DEF FileInv

\* A transaction that waits or enters: it has no request yet.
LEMMA StartKeeps ==
  ASSUME FileInv, NEW c \in OwnCalls, NEW inside, NEW at, CallStep(c, "transaction", inside, {}, at),
         fileCall[c].at \in {"new", "woken"}, at \in {"queued", "ask", "toLock"},
         at = "queued" => ~inside, at = "toLock" => inside,
         UNCHANGED <<initPromise, lockQueue, request, fpr>>,
         fileState' \in FileStates, fileState'.accessId = fileState.accessId,
         transactionQueue' \in Seq(OwnCalls), barged' \in BOOLEAN, barged => barged',
         TransactionsInTurn', OneActive'
  PROVE  FileInv'
<1>1. /\ FileCallIs(c) /\ FileTyped /\ c \in FileCalls /\ OwnCalls \subseteq FileCalls /\ c \notin OtherCalls
      /\ TransactionsInTurn /\ fileCall[c].kind \in {"none", "transaction"}
      /\ ~fileCall[c].inside /\ fileCall[c].frees = {}
  BY FileTypes, FileAssumption DEF FileInv, TransactionsInTurn, FileCallIs
<1>2. /\ \A d \in FileCalls \ {c} : fileCall'[d] = fileCall[d]
      /\ fileCall' \in [FileCalls -> CallKind]
      /\ fileCall'[c].kind = "transaction" /\ fileCall'[c].inside = inside
      /\ fileCall'[c].frees = {} /\ fileCall'[c].at = at
  BY DEF CallStep
<1>3. Served({}) /\ Answers({})
  BY NotServed DEF Answers, Server
<1>4. FileTyped'
  BY <1>1, <1>2 DEF FileTyped
<1>5. ServerIs(fpr)' /\ RequestsAre'
  BY <1>3, ServedFacts
<1>6. FileCallsAre'
  <2>1. FileCallIs(c)'
    BY <1>1, <1>2 DEF FileCallIs, NoAccessYet, NoLockYet
  <2> QED
    BY <1>1, <1>2, <1>3, <2>1, CallsKept DEF SameOrWoken
<1>7. KnownIds'
  BY <1>3, KnownKept
<1>8. LocksMatch'
  <2>1. AllUnlocked => AllUnlocked'
    <3>1. \A d \in OwnCalls : fileCall[d].kind = "unlockAll" => fileCall'[d].kind = "unlockAll"
      BY <1>1, <1>2
    <3> QED
      BY <3>1 DEF AllUnlocked
  <2> QED
    BY <1>3, <2>1, LocksKept
<1>9. AccessIsMine' /\ AccessFreed'
  <2>1. Overlapped => Overlapped'
    <3>1. \A d \in OwnCalls : fileCall[d].inside => fileCall'[d].inside
      BY <1>1, <1>2
    <3> QED
      BY <3>1 DEF Overlapped
  <2>2. ~Overlapped' => \A d \in FileCalls : AtWork(d)' => AtWork(d)
    <3>1. inside => Overlapped'
      BY <1>2 DEF Overlapped
    <3> QED
      BY <1>2, <3>1 DEF AtWork
  <2>3. \A d \in OwnCalls : fileCall'[d].at \in {"freeing", "ending"} =>
           fileCall'[d].at = fileCall[d].at /\ fileCall'[d].frees = fileCall[d].frees
    BY <1>1, <1>2
  <2> QED
    BY <1>3, <2>1, <2>2, <2>3, AccessKept
<1> QED
  BY <1>4, <1>5, <1>6, <1>7, <1>8, <1>9 DEF FileInv

\* A transaction that enters takes no place in the queue.
LEMMA EntersInTurn ==
  ASSUME FileInv, NEW c \in OwnCalls, NEW inside, NEW at, CallStep(c, "transaction", inside, {}, at),
         fileCall[c].at \in {"new", "woken"}, at \in {"ask", "toLock"},
         transactionQueue' = transactionQueue
  PROVE  TransactionsInTurn'
<1>1. /\ \A d \in FileCalls \ {c} : fileCall'[d] = fileCall[d]
      /\ fileCall'[c].kind = "transaction" /\ fileCall'[c].at = at
  BY DEF CallStep
<1>2. TransactionsInTurn /\ transactionQueue \in Seq(OwnCalls) /\ OwnCalls \subseteq FileCalls
  BY DEF FileInv, FileTyped, FileCalls
<1>3. \A n \in 1..Len(transactionQueue) : transactionQueue[n] \in FileCalls \ {c}
  BY <1>2 DEF TransactionsInTurn
<1> QED
  BY <1>1, <1>2, <1>3 DEF TransactionsInTurn, IsInjective

\* A transaction starts to wait, enters, or is woken.
LEMMA StartTransactionKeeps ==
  ASSUME FileInv, NEW c \in OwnCalls, StartTransaction(c)
  PROVE  FileInv'
<1>1. /\ UNCHANGED <<initPromise, lockQueue, request, fpr>> /\ fileCall[c].at \in {"new", "woken"}
  BY DEF StartTransaction
<1>2. /\ FileCallIs(c) /\ FileTyped /\ c \in FileCalls /\ OwnCalls \subseteq FileCalls
      /\ TransactionsInTurn /\ OneActive /\ fileState \in FileStates
      /\ transactionQueue \in Seq(OwnCalls) /\ barged \in BOOLEAN /\ fileState.enterTransaction \in BOOLEAN
      /\ fileState.inTransaction \in BOOLEAN
  BY FileTypes DEF FileInv, FileTyped, FileStates
<1>3. /\ fileCall[c].frees = {} /\ fileCall[c].inside = FALSE
      /\ fileCall[c].kind = IF fileCall[c].at = "new" THEN "none" ELSE "transaction"
  <2>1. fileCall[c].inside \in BOOLEAN
    BY <1>2, FileTypes
  <2> QED
    BY <1>1, <1>2, <2>1 DEF FileCallIs, TransactionsInTurn
<1>4. CASE /\ fileCall[c].at = "new" /\ MustQueue
           /\ fileCall' = [Kind(c, "transaction") EXCEPT ![c].at = "queued"]
           /\ transactionQueue' = Append(transactionQueue, c) /\ UNCHANGED <<fileState, barged>>
  <2>1. CallStep(c, "transaction", FALSE, {}, "queued")
    BY <1>2, <1>3, <1>4, CallSteps DEF Kinds, FilePlaces
  <2>2. /\ \A d \in FileCalls \ {c} : fileCall'[d] = fileCall[d]
        /\ fileCall'[c].kind = "transaction" /\ fileCall'[c].at = "queued"
    BY <2>1 DEF CallStep
  <2>3. \A n \in 1..Len(transactionQueue) : transactionQueue[n] \in FileCalls \ {c}
    BY <1>2, <1>4 DEF TransactionsInTurn
  <2>4. /\ transactionQueue' \in Seq(OwnCalls)
        /\ \A n \in 1..Len(transactionQueue') : transactionQueue'[n] = c \/ \E l \in 1..Len(transactionQueue) : transactionQueue'[n] = transactionQueue[l]
        /\ IsInjective(transactionQueue) /\ c \notin ToSet(transactionQueue) => IsInjective(transactionQueue')
    BY <1>2, <1>4, PushedFacts
  <2>5. c \notin ToSet(transactionQueue)
    BY <1>2, <2>3, ToSetFacts
  <2>6. TransactionsInTurn'
    <3>1. \A n \in 1..Len(transactionQueue') :
            fileCall'[transactionQueue'[n]].kind = "transaction" /\ fileCall'[transactionQueue'[n]].at = "queued"
      BY <1>2, <2>2, <2>3, <2>4 DEF TransactionsInTurn
    <3>2. IsInjective(transactionQueue')
      BY <1>2, <2>4, <2>5 DEF TransactionsInTurn
    <3>3. /\ \A d \in FileCalls : fileCall'[d].at = "new" => fileCall'[d].kind = "none"
          /\ \A d \in FileCalls : fileCall'[d].at \in {"queued", "woken"} => fileCall'[d].kind = "transaction"
      BY <1>2, <2>2 DEF TransactionsInTurn
    <3> QED
      BY <3>1, <3>2, <3>3 DEF TransactionsInTurn
  <2>7. OneActive'
    <3>1. \A d \in OwnCalls : IsActive(d)' => IsActive(d) /\ fileCall'[d] = fileCall[d]
      BY <1>2, <2>2 DEF IsActive
    <3> SUFFICES ASSUME ~barged
                 PROVE  /\ \A d, e \in OwnCalls : IsActive(d)' /\ IsActive(e)' => d = e
                        /\ ~fileState.enterTransaction => \A d \in OwnCalls : IsActive(d)' => fileCall'[d].at = "woken"
      BY <1>4 DEF OneActive, IsActive
    <3> QED
      BY <1>2, <3>1 DEF OneActive
  <2> QED
    BY <1>1, <1>2, <1>4, <2>1, <2>4, <2>6, <2>7, StartKeeps
<1> DEFINE at == IF InTransaction THEN "toLock" ELSE "ask"
<1>5. /\ at \in FilePlaces /\ at \in {"ask", "toLock"} /\ InTransaction \in BOOLEAN
      /\ (at = "toLock" <=> InTransaction)
  BY <1>2 DEF FilePlaces, InTransaction
<1>6. CASE /\ fileCall[c].at = "new" /\ ~MustQueue /\ Enter(c, Kind(c, "transaction"))
           /\ barged' = (barged \/ \E d \in OwnCalls : fileCall[d].at = "woken") /\ UNCHANGED transactionQueue
  <2>1. /\ fileCall' = [Kind(c, "transaction") EXCEPT ![c] = [@ EXCEPT !.at = at, !.inside = InTransaction]]
        /\ fileState' = [fileState EXCEPT !.enterTransaction = TRUE]
    BY <1>6 DEF Enter
  <2>2. /\ fileState' \in FileStates /\ fileState'.accessId = fileState.accessId /\ fileState'.enterTransaction
    BY <1>2, <2>1 DEF FileStates
  <2> HIDE DEF at
  <2>3. CallStep(c, "transaction", InTransaction, {}, at)
    BY <1>2, <1>3, <1>5, <2>1, CallSteps DEF Kinds
  <2>4. TransactionsInTurn'
    BY <1>5, <1>6, <2>3, EntersInTurn
  <2>5. \A d \in OwnCalls \ {c} : IsActive(d)' <=> IsActive(d)
    BY <1>2, <2>3 DEF CallStep, IsActive
  <2>6. OneActive'
    <3> SUFFICES ASSUME ~barged' PROVE \A d, e \in OwnCalls : IsActive(d)' /\ IsActive(e)' => d = e
      BY <2>2 DEF OneActive, IsActive
    <3>1. ~barged /\ \A d \in OwnCalls : fileCall[d].at # "woken"
      BY <1>6
    <3>2. \A d \in OwnCalls : ~IsActive(d)
      BY <1>2, <1>6, <3>1 DEF OneActive, MustQueue
    <3> QED
      BY <2>5, <3>2
  <2> QED
    BY <1>1, <1>2, <1>5, <1>6, <2>2, <2>3, <2>4, <2>6, StartKeeps
<1>7. CASE fileCall[c].at = "woken" /\ Enter(c, fileCall) /\ UNCHANGED <<transactionQueue, barged>>
  <2>1. /\ fileCall' = [fileCall EXCEPT ![c] = [@ EXCEPT !.at = at, !.inside = InTransaction]]
        /\ fileState' = [fileState EXCEPT !.enterTransaction = TRUE]
    BY <1>7 DEF Enter
  <2>2. /\ fileState' \in FileStates /\ fileState'.accessId = fileState.accessId /\ fileState'.enterTransaction
    BY <1>2, <2>1 DEF FileStates
  <2> HIDE DEF at
  <2>3. CallStep(c, "transaction", InTransaction, {}, at)
    BY <1>2, <1>3, <1>5, <1>7, <2>1, CallSteps DEF Kinds
  <2>4. TransactionsInTurn'
    BY <1>5, <1>7, <2>3, EntersInTurn
  <2>5. \A d \in OwnCalls : IsActive(d)' => IsActive(d)
    BY <1>2, <1>3, <1>7, <2>3 DEF CallStep, IsActive
  <2>6. OneActive'
    <3> SUFFICES ASSUME ~barged PROVE \A d, e \in OwnCalls : IsActive(d)' /\ IsActive(e)' => d = e
      BY <1>7, <2>2 DEF OneActive, IsActive
    <3> QED
      BY <1>2, <2>5 DEF OneActive
  <2> QED
    BY <1>1, <1>2, <1>5, <1>7, <2>2, <2>3, <2>4, <2>6, StartKeeps
<1> QED
  BY <1>4, <1>6, <1>7 DEF StartTransaction

\* A sequence without its first, and without its last element.
LEMMA PoppedFacts ==
  ASSUME NEW S, NEW s \in Seq(S), s # <<>>
  PROVE  /\ Head(s) \in S /\ Tail(s) \in Seq(S) /\ Last(s) \in S /\ Front(s) \in Seq(S)
         /\ \E n \in Nat : /\ Len(s) = n + 1 /\ Len(Tail(s)) = n /\ Len(Front(s)) = n
                           /\ Head(s) = s[1] /\ Last(s) = s[n + 1]
                           /\ \A k \in 1..n : Tail(s)[k] = s[k + 1] /\ Front(s)[k] = s[k]
<1>1. Len(s) \in Nat /\ Len(s) # 0
  OBVIOUS
<1>2. PICK n \in Nat : Len(s) = n + 1
  <2>1. PICK m \in Nat : m = Len(s)
    BY <1>1
  <2>2. m - 1 \in Nat /\ m = (m - 1) + 1
    BY <1>1, <2>1
  <2> QED
    BY <2>1, <2>2
<1>3. Front(s) = SubSeq(s, 1, n) /\ Last(s) = s[n + 1]
  <2>1. n + 1 - 1 = n
    BY <1>2
  <2> QED
    BY <1>2, <2>1 DEF Front, Last
<1>4. Front(s) \in Seq(S) /\ Len(Front(s)) = n /\ \A k \in 1..n : Front(s)[k] = s[k]
  BY <1>2, <1>3
<1>5. Tail(s) \in Seq(S) /\ Len(Tail(s)) = n /\ \A k \in 1..n : Tail(s)[k] = s[k + 1]
  BY <1>2
<1>6. Head(s) = s[1] /\ s[1] \in S /\ s[n + 1] \in S
  BY <1>2
<1> QED
  BY <1>2, <1>3, <1>4, <1>5, <1>6

\* It has each element once, and not the one that left.
LEMMA PoppedInjective ==
  ASSUME NEW S, NEW s \in Seq(S), s # <<>>, IsInjective(s)
  PROVE  /\ IsInjective(Tail(s)) /\ IsInjective(Front(s))
         /\ \A k \in 1..Len(Tail(s)) : Tail(s)[k] # Head(s)
         /\ ToSet(Front(s)) = ToSet(s) \ {Last(s)}
<1>1. PICK n \in Nat : /\ Len(s) = n + 1 /\ Len(Tail(s)) = n /\ Len(Front(s)) = n
                       /\ Head(s) = s[1] /\ Last(s) = s[n + 1]
                       /\ \A k \in 1..n : Tail(s)[k] = s[k + 1] /\ Front(s)[k] = s[k]
  BY PoppedFacts
<1>2. Tail(s) \in Seq(S) /\ Front(s) \in Seq(S)
  BY PoppedFacts
<1>3. /\ DOMAIN s = 1..(n + 1) /\ DOMAIN Tail(s) = 1..n /\ DOMAIN Front(s) = 1..n
  BY <1>1, <1>2
<1>4. \A k, l \in 1..(n + 1) : s[k] = s[l] => k = l
  BY <1>3 DEF IsInjective
<1> DEFINE t == Tail(s)  f == Front(s)
<1>5. /\ \A k \in 1..n : t[k] = s[k + 1] /\ f[k] = s[k] /\ k + 1 \in 1..(n + 1) /\ k \in 1..(n + 1) /\ k + 1 # 1
      /\ DOMAIN t = 1..n /\ DOMAIN f = 1..n /\ Head(s) = s[1] /\ Last(s) = s[n + 1]
      /\ 1 \in 1..(n + 1)
  BY <1>1, <1>3
<1>6. \A z : z \in ToSet(f) <=> \E k \in 1..n : f[k] = z
  BY <1>1, <1>2, ToSetFacts
<1>7. \A z : z \in ToSet(s) <=> \E k \in 1..(n + 1) : s[k] = z
  BY <1>1, ToSetFacts
<1> HIDE DEF t, f
<1>8. \A k, l \in 1..n : k + 1 = l + 1 => k = l
  OBVIOUS
<1>9. IsInjective(t) /\ IsInjective(f)
  <2>1. \A k, l \in 1..n : t[k] = t[l] => k = l
    BY <1>4, <1>5, <1>8
  <2>2. \A k, l \in 1..n : f[k] = f[l] => k = l
    BY <1>4, <1>5
  <2> QED
    BY <1>5, <2>1, <2>2 DEF IsInjective
<1>10. \A k \in 1..n : t[k] # Head(s)
  BY <1>4, <1>5
<1>11. \A z : z \in ToSet(f) <=> z \in ToSet(s) /\ z # Last(s)
  <2>1. \A k \in 1..(n + 1) : k \in 1..n \/ k = n + 1
    OBVIOUS
  <2>2. \A k \in 1..n : k # n + 1
    OBVIOUS
  <2>3. n + 1 \in 1..(n + 1)
    OBVIOUS
  <2>4. ASSUME NEW z \in ToSet(f) PROVE z \in ToSet(s) /\ z # Last(s)
    <3>1. PICK k \in 1..n : f[k] = z
      BY <1>6
    <3> QED
      BY <1>4, <1>5, <1>7, <2>2, <2>3, <3>1
  <2>5. ASSUME NEW z \in ToSet(s), z # Last(s) PROVE z \in ToSet(f)
    <3>1. PICK k \in 1..(n + 1) : s[k] = z
      BY <1>7
    <3> QED
      BY <1>5, <1>6, <2>1, <2>5, <3>1
  <2> QED
    BY <2>4, <2>5
<1> QED
  BY <1>1, <1>9, <1>10, <1>11 DEF t, f

\* A call whose releases have been answered, or that had none.
FreesAnswered(c, S) ==
  /\ S = fileCall[c].frees /\ Served(S) /\ \A i \in S : request[i].at = "freed" /\ request'[i].at = "gone"
  /\ fileCall' \in [FileCalls -> CallKind] /\ \A d \in FileCalls \ {c} : SameOrWoken(d)
  /\ fileCall'[c].kind = fileCall[c].kind /\ fileCall'[c].inside = fileCall[c].inside
  /\ fileCall'[c].frees = {}
  /\ fileCall'[c].at = "over" \/ (fileCall[c].at = "ending" /\ fileCall'[c].at = "toUnlock")
  /\ UNCHANGED <<lockQueue, initPromise, barged>>
  /\ fileState' \in FileStates
  /\ \/ fileState'.accessId = fileState.accessId
     \/ fileState'.accessId = NoId /\ c \in OwnCalls /\ S # {} /\ fileCall[c].at \in {"freeing", "ending"}

\* Whoever works keeps its access, and nothing is freed for another call.
LEMMA FreesAnsweredAccess ==
  ASSUME FileInv, NEW c \in FileCalls, NEW S, FreesAnswered(c, S)
  PROVE  AccessIsMine' /\ AccessFreed'
<1>1. /\ S = fileCall[c].frees /\ Served(S) /\ \A i \in S : request[i].at = "freed" /\ request'[i].at = "gone"
      /\ \A d \in FileCalls \ {c} : SameOrWoken(d)
      /\ fileCall'[c].inside = fileCall[c].inside /\ fileCall'[c].at \in {"over", "toUnlock"} /\ barged' = barged
      /\ \/ fileState'.accessId = fileState.accessId
         \/ fileState'.accessId = NoId /\ c \in OwnCalls /\ S # {} /\ fileCall[c].at \in {"freeing", "ending"}
  BY DEF FreesAnswered
<1>2. FileCallIs(c) /\ OwnCalls \subseteq FileCalls /\ S \in SUBSET FileIds
  BY <1>1, FileTypes DEF Served
<1>3. Overlapped => Overlapped'
  <2>1. \A d \in OwnCalls : fileCall'[d].inside = fileCall[d].inside
    BY <1>1, <1>2 DEF SameOrWoken
  <2> QED
    BY <1>1, <2>1 DEF Overlapped
<1> SUFFICES ASSUME ~Overlapped', ~Deleted'
             PROVE  /\ \A d \in FileCalls : AtWork(d)' =>
                         /\ fpr'.held[IdOf(d, "access")] = "access"
                         /\ d \in OwnCalls => fileState'.accessId = IdOf(d, "access")
                    /\ \A d \in OwnCalls : fileCall'[d].at \in {"freeing", "ending"} =>
                         \A i \in fileCall'[d].frees : i = IdOf(d, "access") /\ request'[i].at = "freed"
                    /\ \A d, e \in OwnCalls : request'[IdOf(d, "access")].at = "freed" => ~AtWork(e)'
                    /\ \A d \in FileCalls : AtWork(d)' => request'[IdOf(d, "access")].at = "told"
  BY DEF AccessIsMine, AccessFreed, AtWork
<1>4. ~Overlapped /\ ~Deleted
  BY <1>1, <1>3, ServedFacts
<1>5. /\ \A d \in FileCalls : AtWork(d) => /\ fpr.held[IdOf(d, "access")] = "access"
                                           /\ d \in OwnCalls => fileState.accessId = IdOf(d, "access")
      /\ \A d \in OwnCalls : fileCall[d].at \in {"freeing", "ending"} =>
           \A i \in fileCall[d].frees : i = IdOf(d, "access") /\ request[i].at = "freed"
      /\ \A d, e \in OwnCalls : request[IdOf(d, "access")].at = "freed" => ~AtWork(e)
      /\ \A d \in FileCalls : AtWork(d) => request[IdOf(d, "access")].at = "told"
  BY <1>4 DEF FileInv, AccessIsMine, AccessFreed
<1>6. \A d \in FileCalls : AtWork(d)' => d # c /\ AtWork(d)
  BY <1>1 DEF AtWork, SameOrWoken
<1>7. \A d \in FileCalls : IdOf(d, "access") \in FileIds
  BY FileIdFacts
<1>8. ASSUME NEW d \in FileCalls, AtWork(d)'
      PROVE  /\ fpr'.held[IdOf(d, "access")] = "access"
             /\ d \in OwnCalls => fileState'.accessId = IdOf(d, "access")
             /\ request'[IdOf(d, "access")].at = "told"
  <2>1. AtWork(d) /\ IdOf(d, "access") \in FileIds \ S
    BY <1>1, <1>5, <1>6, <1>7, <1>8
  <2>2. fpr'.held[IdOf(d, "access")] = "access" /\ request'[IdOf(d, "access")].at = "told"
    BY <1>1, <1>5, <2>1, ServedFacts DEF Served
  <2>3. ASSUME d \in OwnCalls PROVE fileState'.accessId = fileState.accessId
    <3>1. SUFFICES ASSUME c \in OwnCalls, S # {}, fileCall[c].at \in {"freeing", "ending"} PROVE FALSE
      BY <1>1
    <3>2. request[IdOf(c, "access")].at = "freed"
      BY <1>1, <1>5, <3>1
    <3> QED
      BY <1>5, <2>1, <2>3, <3>1, <3>2
  <2> QED
    BY <1>5, <2>1, <2>2, <2>3
<1>9. \A i \in S : i[2] = "lock" \/ i = IdOf(c, "access")
  BY <1>1, <1>2, <1>5 DEF FileCallIs, IsLock, FileCalls
<1>10. ASSUME NEW d \in OwnCalls, fileCall'[d].at \in {"freeing", "ending"}, NEW i \in fileCall'[d].frees
       PROVE  i = IdOf(d, "access") /\ request'[i].at = "freed"
  <2>1. d \in FileCalls \ {c} /\ fileCall'[d] = fileCall[d]
    BY <1>1, <1>2, <1>10 DEF SameOrWoken
  <2>2. i = IdOf(d, "access") /\ request[i].at = "freed"
    BY <1>5, <1>10, <2>1
  <2>3. i \in FileIds \ S
    BY <1>9, <2>1, <2>2, FileIdFacts
  <2> QED
    BY <1>1, <2>2, <2>3 DEF Served
<1>11. \A d, e \in OwnCalls : request'[IdOf(d, "access")].at = "freed" => ~AtWork(e)'
  <2>1. \A d \in OwnCalls : request'[IdOf(d, "access")].at = "freed" => request[IdOf(d, "access")].at = "freed"
    BY <1>1, <1>2, <1>7 DEF Served
  <2> QED
    BY <1>2, <1>5, <1>6, <2>1
<1> QED
  BY <1>8, <1>10, <1>11

\* Such a step keeps the invariant, if the transactions stay in turn.
LEMMA FreesAnsweredKeeps ==
  ASSUME FileInv, NEW c \in FileCalls, NEW S, FreesAnswered(c, S), transactionQueue' \in Seq(OwnCalls),
         TransactionsInTurn', OneActive'
  PROVE  FileInv'
<1>1. /\ S = fileCall[c].frees /\ Served(S) /\ \A i \in S : request[i].at = "freed" /\ request'[i].at = "gone"
      /\ \A d \in FileCalls \ {c} : SameOrWoken(d) /\ fileCall' \in [FileCalls -> CallKind]
      /\ fileCall'[c].kind = fileCall[c].kind /\ fileCall'[c].inside = fileCall[c].inside
      /\ fileCall'[c].frees = {}
      /\ fileCall'[c].at = "over" \/ (fileCall[c].at = "ending" /\ fileCall'[c].at = "toUnlock")
      /\ UNCHANGED <<lockQueue, initPromise, barged>> /\ fileState' \in FileStates
      /\ fileState'.accessId \in {fileState.accessId, NoId}
  BY DEF FreesAnswered
<1>2. FileCallIs(c) /\ OwnCalls \subseteq FileCalls /\ FileTyped /\ S \in SUBSET FileIds
  BY <1>1, FileTypes DEF Served
<1>3. Answers(S)
  BY <1>1 DEF Answers, WasAnswered
<1>4. FileTyped'
  <2>1. request' \in [FileIds -> RequestKind] /\ fileCall' \in [FileCalls -> CallKind]
    BY DEF Served, FreesAnswered
  <2> QED
    BY <1>1, <1>2, <2>1 DEF FileTyped
<1>5. ServerIs(fpr)' /\ RequestsAre'
  BY <1>1, ServedFacts
<1>6. FileCallsAre'
  <2>1. FileCallIs(c)'
    BY <1>1, <1>2 DEF FileCallIs, NoAccessYet, NoLockYet
  <2>2. ASSUME NEW d \in FileCalls \ {c} PROVE FileCallIs(d)'
    <3>1. d \in OtherCalls /\ fileCall[d].at = "io" => IdOf(d, "access") \notin S
      <4>1. FileCallIs(d)
        BY FileTypes
      <4> QED
        BY <1>1, <4>1 DEF FileCallIs
    <3>2. \A i \in S : request[i].at = "none" => i[1] # d
      BY <1>1
    <3> QED
      BY <1>1, <3>1, <3>2, CallKept
  <2> QED
    BY <2>1, <2>2 DEF FileCallsAre
<1>7. KnownIds'
  <2>1. initPromise' = "asked" => initPromise = "asked" /\ InitId \notin S
    BY <1>1 DEF FileInv, KnownIds
  <2> QED
    BY <1>1, <1>3, <2>1, KnownKept
<1>8. LocksMatch'
  <2>1. AllUnlocked => AllUnlocked'
    <3>1. \A d \in OwnCalls : fileCall'[d].kind = fileCall[d].kind
      BY <1>1, <1>2 DEF SameOrWoken
    <3> QED
      BY <3>1 DEF AllUnlocked
  <2> QED
    BY <1>1, <2>1, LocksKept
<1>9. AccessIsMine' /\ AccessFreed'
  BY FreesAnsweredAccess
<1> QED
  BY <1>4, <1>5, <1>6, <1>7, <1>8, <1>9 DEF FileInv

\* The end of a call, and the transaction that it wakes.
LEMMA OverCalls ==
  ASSUME FileInv, NEW c \in FileCalls, NEW asked, Over(c, asked),
         fileCall[c].at \in {"locked", "toUnlock", "freeing", "unlocking"}
  PROVE  /\ fileCall' \in [FileCalls -> CallKind]
         /\ fileCall'[c].kind = fileCall[c].kind /\ fileCall'[c].inside = fileCall[c].inside
         /\ fileCall'[c].frees = {} /\ fileCall'[c].at = "over"
         /\ \A d \in FileCalls \ {c} : SameOrWoken(d)
         /\ fileCall[c].kind # "transaction" \/ transactionQueue = <<>> =>
              /\ transactionQueue' = transactionQueue
              /\ \A d \in FileCalls \ {c} : fileCall'[d] = fileCall[d]
         /\ fileCall[c].kind = "transaction" /\ transactionQueue # <<>> =>
              /\ transactionQueue' = Tail(transactionQueue) /\ Head(transactionQueue) \in OwnCalls \ {c}
              /\ fileCall'[Head(transactionQueue)].at = "woken"
              /\ fileCall'[Head(transactionQueue)].kind = "transaction"
              /\ \A d \in FileCalls \ {c, Head(transactionQueue)} : fileCall'[d] = fileCall[d]
<1> DEFINE ends == fileCall[c].kind = "transaction"
           next == IF ends /\ transactionQueue # <<>> THEN {Head(transactionQueue)} ELSE {}
<1>1. /\ fileCall' = [d \in FileCalls |->
            IF d = c THEN [fileCall[d] EXCEPT !.at = "over", !.frees = {}]
            ELSE IF d \in next THEN [fileCall[d] EXCEPT !.at = "woken"] ELSE fileCall[d]]
      /\ transactionQueue' = IF next = {} THEN transactionQueue ELSE Tail(transactionQueue)
  BY DEF Over
<1>2. fileCall \in [FileCalls -> CallKind] /\ transactionQueue \in Seq(OwnCalls) /\ OwnCalls \subseteq FileCalls
  BY DEF FileInv, FileTyped, FileCalls
<1>3. ASSUME NEW d \in FileCalls
      PROVE  /\ [fileCall[d] EXCEPT !.at = "over", !.frees = {}] \in CallKind
             /\ [fileCall[d] EXCEPT !.at = "woken"] \in CallKind
             /\ [fileCall[d] EXCEPT !.at = "over", !.frees = {}].at = "over"
             /\ [fileCall[d] EXCEPT !.at = "over", !.frees = {}].frees = {}
             /\ [fileCall[d] EXCEPT !.at = "over", !.frees = {}].kind = fileCall[d].kind
             /\ [fileCall[d] EXCEPT !.at = "over", !.frees = {}].inside = fileCall[d].inside
             /\ [fileCall[d] EXCEPT !.at = "woken"].at = "woken"
             /\ [fileCall[d] EXCEPT !.at = "woken"].frees = fileCall[d].frees
             /\ [fileCall[d] EXCEPT !.at = "woken"].kind = fileCall[d].kind
             /\ [fileCall[d] EXCEPT !.at = "woken"].inside = fileCall[d].inside
  BY <1>2 DEF CallKind
<1>4. transactionQueue # <<>> => /\ Head(transactionQueue) \in OwnCalls \ {c}
                                 /\ fileCall[Head(transactionQueue)].at = "queued"
                                 /\ fileCall[Head(transactionQueue)].kind = "transaction"
  <2> SUFFICES ASSUME transactionQueue # <<>>
               PROVE  /\ Head(transactionQueue) \in OwnCalls \ {c}
                      /\ fileCall[Head(transactionQueue)].at = "queued"
                      /\ fileCall[Head(transactionQueue)].kind = "transaction"
    OBVIOUS
  <2>1. PICK n \in Nat : Len(transactionQueue) = n + 1 /\ Head(transactionQueue) = transactionQueue[1]
    BY <1>2, PoppedFacts
  <2>2. 1 \in 1..Len(transactionQueue) /\ Head(transactionQueue) \in OwnCalls
    BY <1>2, <2>1
  <2>3. fileCall[transactionQueue[1]].kind = "transaction" /\ fileCall[transactionQueue[1]].at = "queued"
    BY <2>2 DEF FileInv, TransactionsInTurn
  <2> QED
    BY <2>1, <2>2, <2>3
<1>5. /\ next = {} \/ (next = {Head(transactionQueue)} /\ ends /\ transactionQueue # <<>>)
      /\ next = {} <=> (~ends \/ transactionQueue = <<>>)
  <2>1. CASE ends /\ transactionQueue # <<>>
    BY <2>1
  <2>2. CASE ~(ends /\ transactionQueue # <<>>)
    BY <2>2
  <2> QED
    BY <2>1, <2>2
<1> HIDE DEF next
<1>6. /\ fileCall' \in [FileCalls -> CallKind]
      /\ fileCall'[c] = [fileCall[c] EXCEPT !.at = "over", !.frees = {}]
      /\ \A d \in FileCalls \ {c} : fileCall'[d] = IF d \in next THEN [fileCall[d] EXCEPT !.at = "woken"] ELSE fileCall[d]
  BY <1>1, <1>2, <1>3
<1>7. \A d \in FileCalls \ {c} : SameOrWoken(d)
  <2>1. ASSUME NEW d \in FileCalls \ {c} PROVE SameOrWoken(d)
    <3>1. CASE d \in next
      <4>1. fileCall[d].at = "queued"
        BY <1>4, <1>5, <3>1
      <4>2. fileCall'[d] = [fileCall[d] EXCEPT !.at = "woken"]
        BY <1>6, <3>1
      <4>3. /\ fileCall'[d].at = "woken" /\ fileCall'[d].kind = fileCall[d].kind
            /\ fileCall'[d].inside = fileCall[d].inside /\ fileCall'[d].frees = fileCall[d].frees
        BY <1>3, <4>2
      <4> QED
        BY <4>1, <4>3 DEF SameOrWoken
    <3>2. CASE d \notin next
      BY <1>6, <3>2 DEF SameOrWoken
    <3> QED
      BY <3>1, <3>2
  <2> QED
    BY <2>1
<1>8. ASSUME ends, transactionQueue # <<>>
      PROVE  /\ transactionQueue' = Tail(transactionQueue) /\ Head(transactionQueue) \in OwnCalls \ {c}
             /\ fileCall'[Head(transactionQueue)].at = "woken"
             /\ fileCall'[Head(transactionQueue)].kind = "transaction"
             /\ \A d \in FileCalls \ {c, Head(transactionQueue)} : fileCall'[d] = fileCall[d]
  <2>1. next = {Head(transactionQueue)} /\ next # {}
    BY <1>5, <1>8
  <2>2. Head(transactionQueue) \in FileCalls \ {c} /\ Head(transactionQueue) \in next
    BY <1>2, <1>4, <1>8, <2>1
  <2>3. fileCall'[Head(transactionQueue)] = [fileCall[Head(transactionQueue)] EXCEPT !.at = "woken"]
    BY <1>6, <2>2
  <2> QED
    BY <1>1, <1>3, <1>4, <1>6, <1>8, <2>1, <2>2, <2>3
<1>9. fileCall'[c].kind = fileCall[c].kind /\ fileCall'[c].inside = fileCall[c].inside
      /\ fileCall'[c].frees = {} /\ fileCall'[c].at = "over"
  BY <1>3, <1>6
<1> QED
  BY <1>1, <1>5, <1>6, <1>7, <1>8, <1>9

\* The transactions stay in turn when one ends: the head of the queue is next.
LEMMA OverTurns ==
  ASSUME FileInv, NEW c \in FileCalls, NEW asked, Over(c, asked),
         fileCall[c].at \in {"locked", "toUnlock", "freeing", "unlocking"}, UNCHANGED barged
  PROVE  transactionQueue' \in Seq(OwnCalls) /\ TransactionsInTurn' /\ OneActive'
<1> DEFINE ends == fileCall[c].kind = "transaction"
           h == Head(transactionQueue)
<1>1. /\ TransactionsInTurn /\ OneActive /\ transactionQueue \in Seq(OwnCalls) /\ OwnCalls \subseteq FileCalls
      /\ fileState \in FileStates /\ FileCallIs(c)
  BY FileTypes DEF FileInv, FileTyped
<1>2. fileCall'[c].kind = fileCall[c].kind /\ fileCall'[c].at = "over"
  BY OverCalls
<1>3. fileState'.enterTransaction = (fileState.enterTransaction /\ ~ends)
  BY <1>1 DEF Over, FileStates
<1>4. ~barged /\ ends => \A d \in OwnCalls : IsActive(d) => d = c
  <2>1. ends => c \in OwnCalls
    BY <1>1 DEF FileCallIs, FileCalls
  <2>2. ends => IsActive(c)
    BY DEF IsActive
  <2> QED
    BY <1>1, <2>1, <2>2 DEF OneActive
<1>5. ~IsActive(c)'
  BY <1>2 DEF IsActive
<1>6. CASE ~ends \/ transactionQueue = <<>>
  <2>1. /\ transactionQueue' = transactionQueue
        /\ \A d \in FileCalls \ {c} : fileCall'[d] = fileCall[d]
    BY <1>6, OverCalls
  <2>2. \A n \in 1..Len(transactionQueue) : transactionQueue[n] \in FileCalls \ {c}
    BY <1>1 DEF TransactionsInTurn
  <2>3. TransactionsInTurn'
    BY <1>1, <1>2, <2>1, <2>2 DEF TransactionsInTurn, IsInjective
  <2>4. \A d \in OwnCalls : IsActive(d)' => d # c /\ IsActive(d) /\ fileCall'[d] = fileCall[d]
    BY <1>1, <1>5, <2>1 DEF IsActive
  <2>5. OneActive'
    <3> SUFFICES ASSUME ~barged
                 PROVE  /\ \A d, e \in OwnCalls : IsActive(d)' /\ IsActive(e)' => d = e
                        /\ ~fileState'.enterTransaction => \A d \in OwnCalls : IsActive(d)' => fileCall'[d].at = "woken"
      BY DEF OneActive, IsActive
    <3> QED
      BY <1>1, <1>3, <1>4, <2>4 DEF OneActive
  <2> QED
    BY <1>1, <2>1, <2>3, <2>5
<1>7. CASE ends /\ transactionQueue # <<>>
  <2>1. /\ transactionQueue' = Tail(transactionQueue) /\ h \in OwnCalls \ {c}
        /\ fileCall'[h].at = "woken" /\ fileCall'[h].kind = "transaction"
        /\ \A d \in FileCalls \ {c, h} : fileCall'[d] = fileCall[d]
    BY <1>7, OverCalls
  <2>2. IsInjective(transactionQueue)
    BY <1>1 DEF TransactionsInTurn
  <2>3. /\ transactionQueue' \in Seq(OwnCalls) /\ IsInjective(transactionQueue')
        /\ \A n \in 1..Len(transactionQueue') : transactionQueue'[n] # h
    BY <1>1, <1>7, <2>1, <2>2, PoppedFacts, PoppedInjective
  <2>4. \A n \in 1..Len(transactionQueue') : \E l \in 1..Len(transactionQueue) : transactionQueue'[n] = transactionQueue[l]
    <3>1. PICK m \in Nat : /\ Len(transactionQueue) = m + 1 /\ Len(Tail(transactionQueue)) = m
                           /\ \A k \in 1..m : Tail(transactionQueue)[k] = transactionQueue[k + 1]
      BY <1>1, <1>7, PoppedFacts
    <3>2. \A k \in 1..m : k + 1 \in 1..(m + 1)
      OBVIOUS
    <3> QED
      BY <2>1, <3>1, <3>2
  <2>5. \A n \in 1..Len(transactionQueue') :
          /\ transactionQueue'[n] \in FileCalls \ {c, h}
          /\ fileCall[transactionQueue'[n]].kind = "transaction" /\ fileCall[transactionQueue'[n]].at = "queued"
    <3>1. ASSUME NEW n \in 1..Len(transactionQueue')
          PROVE  /\ transactionQueue'[n] \in FileCalls \ {c, h}
                 /\ fileCall[transactionQueue'[n]].kind = "transaction" /\ fileCall[transactionQueue'[n]].at = "queued"
      <4>1. PICK l \in 1..Len(transactionQueue) : transactionQueue'[n] = transactionQueue[l]
        BY <2>4
      <4>2. fileCall[transactionQueue[l]].kind = "transaction" /\ fileCall[transactionQueue[l]].at = "queued"
        BY <1>1 DEF TransactionsInTurn
      <4>3. transactionQueue'[n] \in OwnCalls /\ transactionQueue'[n] # h
        BY <2>3
      <4> QED
        BY <1>1, <4>1, <4>2, <4>3
    <3> QED
      BY <3>1
  <2>6. TransactionsInTurn'
    <3>1. \A n \in 1..Len(transactionQueue') :
            fileCall'[transactionQueue'[n]].kind = "transaction" /\ fileCall'[transactionQueue'[n]].at = "queued"
      BY <2>1, <2>5
    <3>2. \A d \in FileCalls : /\ fileCall'[d].at = "new" => fileCall'[d].kind = "none"
                               /\ fileCall'[d].at \in {"queued", "woken"} => fileCall'[d].kind = "transaction"
      BY <1>1, <1>2, <2>1 DEF TransactionsInTurn
    <3> QED
      BY <2>3, <3>1, <3>2 DEF TransactionsInTurn
  <2>7. ~barged => \A d \in OwnCalls : IsActive(d)' => d = h
    BY <1>1, <1>4, <1>5, <1>7, <2>1 DEF IsActive
  <2>8. OneActive'
    <3> SUFFICES ASSUME ~barged
                 PROVE  /\ \A d, e \in OwnCalls : IsActive(d)' /\ IsActive(e)' => d = e
                        /\ \A d \in OwnCalls : IsActive(d)' => fileCall'[d].at = "woken"
      BY DEF OneActive, IsActive
    <3> QED
      BY <2>1, <2>7
  <2> QED
    BY <2>3, <2>6, <2>8
<1> QED
  BY <1>6, <1>7

\* A call is over.
LEMMA OverKeeps ==
  ASSUME FileInv, NEW c \in FileCalls, NEW asked, Over(c, asked),
         fileCall[c].at \in {"locked", "toUnlock", "freeing", "unlocking"},
         UNCHANGED <<barged, lockQueue, initPromise>>,
         Served(fileCall[c].frees),
         \A i \in fileCall[c].frees : request[i].at = "freed" /\ request'[i].at = "gone"
  PROVE  FileInv'
<1> DEFINE S == fileCall[c].frees
<1>1. /\ fileCall' \in [FileCalls -> CallKind]
      /\ fileCall'[c].kind = fileCall[c].kind /\ fileCall'[c].inside = fileCall[c].inside
      /\ fileCall'[c].frees = {} /\ fileCall'[c].at = "over"
      /\ \A d \in FileCalls \ {c} : SameOrWoken(d)
  BY OverCalls
<1>2. /\ fileState' \in FileStates
      /\ \/ fileState'.accessId = fileState.accessId
         \/ fileState'.accessId = NoId /\ c \in OwnCalls /\ S # {} /\ fileCall[c].at \in {"freeing", "ending"}
  <2>1. fileState' = [fileState EXCEPT !.enterTransaction = @ /\ ~(fileCall[c].kind = "transaction"),
                                       !.accessId = IF fileCall[c].at = "freeing" /\ c \in OwnCalls
                                                       /\ fileCall[c].frees # {} THEN NoId ELSE @]
    BY DEF Over
  <2>2. fileState \in FileStates
    BY FileTypes
  <2> QED
    BY <2>1, <2>2 DEF FileStates
<1>3. FreesAnswered(c, S)
  BY <1>1, <1>2 DEF FreesAnswered
<1>4. transactionQueue' \in Seq(OwnCalls) /\ TransactionsInTurn' /\ OneActive'
  BY OverTurns
<1> QED
  BY <1>3, <1>4, FreesAnsweredKeeps

\* The releases of a call are answered.
LEMMA ReleaseAnsweredKeeps ==
  ASSUME FileInv, NEW c \in FileCalls, ReleaseAnswered(c)
  PROVE  FileInv'
<1> DEFINE S == fileCall[c].frees
           gone == [i \in FileIds |-> IF i \in S THEN [at |-> "gone", cb |-> "none"] ELSE request[i]]
<1>1. /\ \A i \in S : request[i].at = "freed" /\ UNCHANGED <<initPromise, lockQueue, fpr, barged>>
      /\ fileCall[c].frees \in SUBSET FileIds /\ FileTyped /\ FileCallIs(c)
      /\ UNCHANGED <<lockQueue, fpr, barged, initPromise>>
  BY FileTypes DEF ReleaseAnswered
<1>2. request' = gone
  BY DEF ReleaseAnswered, Over
<1>3. Served(S) /\ \A i \in S : request'[i].at = "gone"
  BY <1>1, <1>2, GoneStep
<1>4. CASE fileCall[c].at \in {"freeing", "unlocking"} /\ Over(c, gone)
  <2> HIDE DEF gone
  <2> QED
    BY <1>1, <1>3, <1>4, OverKeeps
<1>5. CASE /\ fileCall[c].at = "ending"
           /\ fileState' = IF S = {} THEN fileState ELSE [fileState EXCEPT !.accessId = NoId]
           /\ fileCall' = [fileCall EXCEPT ![c] = [@ EXCEPT !.at = "toUnlock", !.frees = {}]]
           /\ UNCHANGED transactionQueue
  <2>1. CallStep(c, fileCall[c].kind, fileCall[c].inside, {}, "toUnlock")
    BY <1>1, <1>5, CallSteps DEF Kinds, FilePlaces
  <2>2. c \in OwnCalls
    BY <1>1, <1>5 DEF FileCallIs, FileCalls
  <2>3. fileState \in FileStates
    BY FileTypes
  <2>4. /\ fileState' \in FileStates /\ fileState'.enterTransaction = fileState.enterTransaction
        /\ fileState'.accessId = IF S = {} THEN fileState.accessId ELSE NoId
    BY <1>5, <2>3 DEF FileStates
  <2>5. /\ fileCall' \in [FileCalls -> CallKind]
        /\ fileCall'[c].kind = fileCall[c].kind /\ fileCall'[c].inside = fileCall[c].inside
        /\ fileCall'[c].frees = {} /\ fileCall'[c].at = "toUnlock"
        /\ \A d \in FileCalls \ {c} : fileCall'[d] = fileCall[d]
    BY <2>1 DEF CallStep
  <2>6. FreesAnswered(c, S)
    BY <1>1, <1>3, <1>5, <2>2, <2>4, <2>5 DEF FreesAnswered, SameOrWoken
  <2>7. TransactionsInTurn' /\ OneActive'
    BY <1>1, <1>5, <2>4, <2>5, TurnsKept
  <2>8. transactionQueue' \in Seq(OwnCalls)
    BY <1>1, <1>5 DEF FileTyped
  <2> QED
    BY <2>6, <2>7, <2>8, FreesAnsweredKeeps
<1> QED
  BY <1>4, <1>5 DEF ReleaseAnswered

\* unlock() takes the last id of the queue.
LEMMA CallUnlockKeeps ==
  ASSUME FileInv, NEW c \in OwnCalls, CallUnlock(c)
  PROVE  FileInv'
<1> DEFINE k == fileCall[c].kind
<1>1. /\ fileCall[c].at \in {"locked", "toUnlock"} /\ c \in FileCalls /\ FileCallIs(c) /\ FileTyped
      /\ fileCall[c].frees = {} /\ OwnCalls \subseteq FileCalls /\ c \notin OtherCalls
      /\ k \in Kinds \cup {"none"} /\ fileCall[c].inside \in BOOLEAN
      /\ UNCHANGED <<initPromise, barged>>
  BY FileTypes, FileAssumption DEF CallUnlock, FileCallIs
<1>2. CASE Over(c, request) /\ UNCHANGED <<lockQueue, fpr>>
  <2>1. Served({})
    BY <1>2, NotServed DEF Over, Server
  <2> QED
    BY <1>1, <1>2, <2>1, OverKeeps
<1>3. CASE /\ lockQueue # <<>> /\ Frees(c, "unlocking", <<Last(lockQueue)>>) /\ lockQueue' = Front(lockQueue)
           /\ UNCHANGED <<fileState, transactionQueue>>
  <2>1. /\ lockQueue \in Seq(FileIds) /\ KnownIds /\ \A n \in 1..Len(lockQueue) : IsLock(lockQueue[n])
    BY <1>1 DEF FileInv, FileTyped
  <2>20. PICK i \in FileIds : i = Last(lockQueue)
    BY <1>3, <2>1, PoppedFacts
  <2>2. /\ lockQueue' \in Seq(FileIds)
        /\ \A n \in 1..Len(lockQueue') : \E l \in 1..Len(lockQueue) : lockQueue'[n] = lockQueue[l]
        /\ \E l \in 1..Len(lockQueue) : i = lockQueue[l]
    <3>1. PICK m \in Nat : /\ Len(lockQueue) = m + 1 /\ Len(Front(lockQueue)) = m
                           /\ Last(lockQueue) = lockQueue[m + 1]
                           /\ \A n \in 1..m : Front(lockQueue)[n] = lockQueue[n]
      BY <1>3, <2>1, PoppedFacts
    <3>2. m + 1 \in 1..(m + 1) /\ \A n \in 1..m : n \in 1..(m + 1)
      OBVIOUS
    <3>3. Last(lockQueue) \in FileIds /\ Front(lockQueue) \in Seq(FileIds)
      BY <1>3, <2>1, PoppedFacts
    <3> QED
      BY <1>3, <2>20, <3>1, <3>2, <3>3
  <2>3. IsLock(i) /\ WasAnswered(i)
    BY <2>1, <2>2 DEF KnownIds
  <2>4. fpr.held[i] \notin {"new", "queued"}
    <3>1. RequestIs(i, request[i].at, fpr.held[i])
      BY <2>2 DEF FileInv, RequestsAre
    <3> QED
      BY <2>3, <3>1 DEF RequestIs, IsLock, WasAnswered
  <2>5. /\ <<i>> \in Seq(FileIds) /\ ToSet(<<i>>) = {i}
        /\ \A n \in 1..Len(<<i>>) : fpr.held[<<i>>[n]] \notin {"new", "queued"}
    BY <2>2, <2>4, OneIdFacts
  <2>6. /\ Releases(<<i>>, c)
        /\ fileCall' = [fileCall EXCEPT ![c] = [@ EXCEPT !.at = "unlocking", !.frees = {i}]]
    BY <1>3, <2>5, <2>20 DEF Frees
  <2>7. Served({i}) /\ request'[i].at \in {"gone", "freed"}
    <3>1. /\ Served(ToSet(<<i>>))
          /\ \A q \in ToSet(<<i>>) : request'[q].at = (IF request[q].at = "gone" THEN "gone" ELSE "freed")
      BY <1>1, <2>5, <2>6, ReleaseStep
    <3> QED
      BY <2>5, <3>1
  <2>8. CallStep(c, k, fileCall[c].inside, {i}, "unlocking")
    BY <1>1, <2>2, <2>6, CallSteps DEF FilePlaces, Kinds
  <2>9. /\ \A d \in FileCalls \ {c} : fileCall'[d] = fileCall[d]
        /\ fileCall' \in [FileCalls -> CallKind]
        /\ fileCall'[c].kind = k /\ fileCall'[c].inside = fileCall[c].inside
        /\ fileCall'[c].frees = {i} /\ fileCall'[c].at = "unlocking"
    BY <2>8 DEF CallStep
  <2> HIDE DEF k
  <2>10. Answers({i})
    BY <2>2, <2>7 DEF Answers, WasAnswered
  <2>11. FileTyped'
    <3>1. request' \in [FileIds -> RequestKind]
      BY <2>7 DEF Served
    <3>2. \A n \in 1..Len(lockQueue') : IsLock(lockQueue'[n])
      BY <2>1, <2>2
    <3> QED
      BY <1>1, <1>3, <2>2, <2>9, <3>1, <3>2 DEF FileTyped
  <2>12. ServerIs(fpr)' /\ RequestsAre'
    BY <2>7, ServedFacts
  <2>13. \A d \in FileCalls : IdOf(d, "access") \in FileIds \ {i}
    BY <2>3, FileIdFacts DEF IsLock
  <2>14. FileCallsAre'
    <3>1. FileCallIs(c)'
      BY <1>1, <2>3, <2>9 DEF FileCallIs, NoAccessYet, NoLockYet, k
    <3>2. request[i].at # "none"
      BY <2>3 DEF WasAnswered
    <3>3. \A d \in OtherCalls \ {c} : IdOf(d, "access") \notin {i}
      BY <2>13 DEF FileCalls
    <3> QED
      BY <1>1, <2>7, <2>9, <3>1, <3>2, <3>3, CallsKept DEF SameOrWoken
  <2>15. KnownIds'
    <3>1. \A q : WasAnswered(q) => q \in FileIds /\ request'[q].at \in {"told", "freed", "gone"}
      BY <2>7, <2>10, AnsweredStay DEF WasAnswered
    <3>2. fileState.accessId # NoId => /\ fileState.accessId \in FileIds
                                       /\ request'[fileState.accessId].at \in {"told", "freed", "gone"}
                                       /\ OwnAccess(fileState.accessId)
      BY <2>1, <3>1 DEF KnownIds
    <3>3. \A n \in 1..Len(lockQueue') : lockQueue'[n] \in FileIds /\ request'[lockQueue'[n]].at \in {"told", "freed", "gone"}
      BY <2>1, <2>2, <3>1 DEF KnownIds
    <3>4. initPromise = "asked" => request'[InitId].at = "there"
      <4>1. initPromise = "asked" => request[InitId].at = "there" /\ i # InitId
        BY <2>1, <2>3 DEF KnownIds, WasAnswered
      <4> QED
        BY <2>7, <4>1, FileIdFacts DEF Served
    <3> QED
      BY <1>1, <1>3, <3>2, <3>3, <3>4 DEF KnownIds, WasAnswered
  <2>16. LocksMatch'
    <3>1. AllUnlocked => AllUnlocked'
      <4>1. \A d \in OwnCalls : fileCall'[d].kind = fileCall[d].kind
        BY <1>1, <2>9 DEF k
      <4> QED
        BY <4>1 DEF AllUnlocked
    <3> SUFFICES ASSUME ~Deleted', ~AllUnlocked'
                 PROVE  /\ IsInjective(lockQueue')
                        /\ ToSet(lockQueue') = {q \in FileIds : q[2] = "lock" /\ request'[q].at = "told"}
                        /\ \A q \in ToSet(lockQueue') : fpr'.held[q] = "lock"
      BY DEF LocksMatch
    <3>2. /\ IsInjective(lockQueue)
          /\ ToSet(lockQueue) = {q \in FileIds : q[2] = "lock" /\ request[q].at = "told"}
          /\ \A q \in ToSet(lockQueue) : fpr.held[q] = "lock"
      BY <2>7, <3>1, ServedFacts DEF FileInv, LocksMatch
    <3>3. IsInjective(lockQueue') /\ ToSet(lockQueue') = ToSet(lockQueue) \ {i}
      BY <1>3, <2>1, <3>2, PoppedInjective, <2>20
    <3>4. \A q \in FileIds \ {i} : request'[q] = request[q] /\ (fpr.held[q] # "queued" => fpr'.held[q] = fpr.held[q])
      BY <2>7, ServedFacts DEF Served
    <3>5. \A q \in ToSet(lockQueue') : fpr'.held[q] = "lock"
      BY <3>2, <3>3, <3>4
    <3> QED
      BY <2>7, <3>2, <3>3, <3>4, <3>5
  <2>17. AccessIsMine' /\ AccessFreed'
    <3>1. \A d \in OwnCalls : fileCall'[d].inside = fileCall[d].inside
      BY <1>1, <2>9
    <3>2. Overlapped => Overlapped'
      BY <1>1, <3>1 DEF Overlapped
    <3>3. \A d \in FileCalls : AtWork(d)' => AtWork(d)
      BY <2>9 DEF AtWork
    <3>4. \A d \in OwnCalls : request'[IdOf(d, "access")] = request[IdOf(d, "access")]
      BY <1>1, <2>7, <2>13 DEF Served
    <3>5. \A d \in OwnCalls : fileCall'[d].at \in {"freeing", "ending"} =>
             fileCall'[d].at = fileCall[d].at /\ fileCall'[d].frees = fileCall[d].frees
      BY <1>1, <2>9
    <3> QED
      BY <1>3, <2>7, <2>13, <3>2, <3>3, <3>4, <3>5, AccessKept
  <2>18. TransactionsInTurn' /\ OneActive'
    BY <1>1, <1>3, <2>9, TurnsKept DEF k
  <2> QED
    BY <2>11, <2>12, <2>14, <2>15, <2>16, <2>17, <2>18 DEF FileInv
<1> QED
  BY <1>2, <1>3 DEF CallUnlock, Popped

\* The constructor.
LEMMA FileStarts == FileInit => FileInv
<1> SUFFICES ASSUME FileInit PROVE FileInv
  OBVIOUS
<1>1. /\ initPromise = "asked" /\ barged = FALSE /\ lockQueue = <<>> /\ transactionQueue = <<>>
      /\ fileState = [enterTransaction |-> FALSE, inTransaction |-> FALSE, valid |-> TRUE, accessId |-> NoId]
  BY DEF FileInit
<1>2. /\ fileCall \in [FileCalls -> CallKind] /\ OwnCalls \subseteq FileCalls
      /\ \A c \in FileCalls : /\ fileCall[c].kind = "none" /\ ~fileCall[c].inside
                              /\ fileCall[c].frees = {} /\ fileCall[c].at = "new"
  BY DEF FileInit, CallKind, FileCalls
<1>3. /\ request \in [FileIds -> RequestKind] /\ request[InitId].at = "there" /\ InitId \in FileIds
      /\ \A i \in FileIds \ {InitId} : request[i].at = "none"
  BY FileIdFacts DEF FileInit, RequestKind
<1>4. RP!Sound(RP!New) /\ RP!New.held = [i \in FileIds |-> "new"] /\ RP!New.state = "free"
      /\ RP!New.access = <<>> /\ RP!New.del = <<>>
  BY RP!NewIsSound, FileIdFacts DEF RP!New
<1>5. ServerIs(RP!New)
  <2>1. QueuesAre(RP!New)
    BY <1>4 DEF QueuesAre, RP!In
  <2>2. DeletedFor(RP!New)
    BY <1>4 DEF DeletedFor, RP!IsDeleted
  <2> QED
    BY <1>4, <2>1, <2>2 DEF ServerIs
<1>6. fpr = RP!Lock(RP!New, InitId)
  BY <1>3, SameFileMethods DEF FileInit
<1>7. Follows(RP!New, fpr, {InitId}) /\ fpr.held[InitId] \in {"lock", "refused"}
  BY <1>3, <1>4, <1>5, <1>6, LockAsked
<1>8. ServerIs(fpr) /\ \A i \in FileIds \ {InitId} : fpr.held[i] = "new"
  <2>1. \A i \in FileIds : RP!New.held[i] = "new"
    BY <1>4
  <2> QED
    BY <1>7, <2>1 DEF Follows
<1>9. RequestsAre
  <2>1. InitId[2] = "lock"
    BY FileIdFacts DEF IsLock
  <2> QED
    BY <1>3, <1>7, <1>8, <2>1, FileIdFacts DEF RequestsAre, RequestIs
<1>10. FileTyped
  <2>1. fileState \in FileStates
    BY <1>1 DEF FileStates
  <2>2. lockQueue \in Seq(FileIds) /\ transactionQueue \in Seq(OwnCalls)
    BY <1>1
  <2>3. \A k \in 1..Len(lockQueue) : IsLock(lockQueue[k])
    BY <1>1
  <2> QED
    BY <1>1, <1>2, <1>3, <2>1, <2>2, <2>3 DEF FileTyped
<1>11. FileCallsAre
  <2>1. \A c \in FileCalls, a \in {"lock", "access", "unlink"} : request[IdOf(c, a)].at = "none"
    BY <1>3, FileIdFacts
  <2> QED
    BY <1>2, <2>1 DEF FileCallsAre, FileCallIs
<1>12. KnownIds
  BY <1>1, <1>3 DEF KnownIds
<1>13. LocksMatch
  <2>1. IsInjective(lockQueue) /\ ToSet(lockQueue) = {}
    BY <1>1 DEF IsInjective, ToSet
  <2>2. {i \in FileIds : i[2] = "lock" /\ request[i].at = "told"} = {}
    BY <1>3
  <2> QED
    BY <2>1, <2>2 DEF LocksMatch
<1>14. AccessIsMine /\ AccessFreed
  <2>1. \A c \in FileCalls : ~AtWork(c)
    BY <1>2 DEF AtWork
  <2>2. \A c \in OwnCalls : request[IdOf(c, "access")].at = "none"
    BY <1>2, <1>3, FileIdFacts
  <2> QED
    BY <1>2, <2>1, <2>2 DEF AccessIsMine, AccessFreed
<1>15. TransactionsInTurn /\ OneActive
  BY <1>1, <1>2 DEF TransactionsInTurn, OneActive, IsActive, IsInjective
<1> QED
  BY <1>8, <1>9, <1>10, <1>11, <1>12, <1>13, <1>14, <1>15 DEF FileInv

\* The object rests.
LEMMA FileRests == FileInv /\ UNCHANGED fileVars => FileInv'
<1> SUFFICES ASSUME FileInv, UNCHANGED fileVars PROVE FileInv'
  OBVIOUS
<1>1. UNCHANGED <<initPromise, fileState, lockQueue, transactionQueue, fileCall, request, fpr, barged>>
  BY DEF fileVars
<1>2. FileTyped' /\ RequestsAre' /\ FileCallsAre' /\ KnownIds' /\ ServerIs(fpr)'
  BY <1>1 DEF FileInv, FileTyped, RequestsAre, FileCallsAre, FileCallIs, KnownIds, WasAnswered
<1>3. LocksMatch' /\ AccessIsMine' /\ AccessFreed'
  BY <1>1 DEF FileInv, LocksMatch, AccessIsMine, AccessFreed, AtWork, Overlapped, Deleted, AllUnlocked, IsInjective, ToSet
<1>4. TransactionsInTurn' /\ OneActive'
  BY <1>1 DEF FileInv, TransactionsInTurn, OneActive, IsActive, IsInjective
<1> QED
  BY <1>2, <1>3, <1>4 DEF FileInv

\* Every step of the object, of the other process and of the server keeps it.
LEMMA FileSteps == FileInv /\ [FileNext]_fileVars => FileInv'
<1> SUFFICES ASSUME FileInv, [FileNext]_fileVars PROVE FileInv'
  OBVIOUS
<1>1. OwnCalls \subseteq FileCalls
  BY DEF FileCalls
<1>2. CASE FileProgress
  <2>1. CASE InitAnswered
    BY <2>1, InitAnsweredKeeps
  <2>2. ASSUME NEW c \in FileCalls, AccessAnswered(c) \/ IoEnds(c) \/ ReleaseAnswered(c) PROVE FileInv'
    BY <2>2, AccessAnsweredKeeps, IoEndsKeeps, ReleaseAnsweredKeeps
  <2>3. ASSUME NEW c \in OwnCalls,
               GetLock(c) \/ LockAnswered(c) \/ AskAccess(c) \/ EndTransaction(c) \/ CallUnlock(c)
                 \/ UnlinkGranted(c) \/ StartTransaction(c)
        PROVE  FileInv'
    BY <2>3, GetLockKeeps, LockAnsweredKeeps, AskAccessKeeps, EndTransactionKeeps, CallUnlockKeeps,
       UnlinkGrantedKeeps, StartTransactionKeeps
  <2> QED
    BY <1>2, <2>1, <2>2, <2>3 DEF FileProgress
<1>3. ASSUME NEW c \in FileCalls, Write(c) PROVE FileInv'
  BY <1>3, WriteKeeps
<1>4. ASSUME NEW c \in OwnCalls, CallLock(c) \/ UnlockAll(c) \/ Unlink(c) \/ StartTransaction(c) PROVE FileInv'
  BY <1>4, CallLockKeeps, UnlockAllKeeps, UnlinkKeeps, StartTransactionKeeps
<1>5. CASE UNCHANGED fileVars
  BY <1>5, FileRests
<1> QED
  BY <1>2, <1>3, <1>4, <1>5 DEF FileNext

\* It says what FilesKept says.
LEMMA FilePromises == FileInv => AccessIsMine /\ LocksMatch /\ OneTransaction
<1> SUFFICES ASSUME FileInv PROVE OneTransaction
  BY DEF FileInv
<1> SUFFICES ASSUME ~barged
             PROVE  Cardinality({c \in OwnCalls : fileCall[c].kind = "transaction"
                                   /\ fileCall[c].at \notin {"queued", "over"}}) <= 1
  BY DEF OneTransaction
<1> DEFINE A == {c \in OwnCalls : fileCall[c].kind = "transaction" /\ fileCall[c].at \notin {"queued", "over"}}
<1>1. \A c, d \in A : c = d
  BY DEF FileInv, OneActive, IsActive
<1> SUFFICES Cardinality(A) <= 1
  OBVIOUS
<1> HIDE DEF A
<1>2. CASE A = {}
  BY <1>2, FS_EmptySet
<1>3. CASE A # {}
  <2>1. PICK c : A = {c}
    BY <1>1, <1>3
  <2> QED
    BY <2>1, FS_Singleton
<1> QED
  BY <1>2, <1>3

-----------------------------------------------------------------------------
(* The services                                                            *)

\* The parts that rest keep theirs too.
ServicesInv == LoggerInv /\ HttpInv /\ WsInv /\ TransportInv

\* It holds at the start.
LEMMA ServicesStart == ServicesInit => ServicesInv
  BY LoggerStarts, HttpStarts, WsStarts, TransportStarts DEF ServicesInit, ServicesInv

\* A step of one part leaves the others where they are.
LEMMA StepOfOnePart ==
  ASSUME [ServicesNext]_servicesVars
  PROVE  /\ [LoggerNext]_loggerVars /\ [HttpNext]_httpVars
         /\ [WsNext]_wsVars /\ [TransportNext]_transportVars
         /\ [ExecutionNext]_execVars /\ [FileNext]_fileVars
         /\ [DevNext]_devVars /\ [SandboxNext]_sandboxVars
<1>1. CASE OfLogger(LoggerNext)
  BY <1>1 DEF OfLogger
<1>2. CASE OfHttp(HttpNext)
  BY <1>2 DEF OfHttp
<1>3. CASE OfWs(WsNext)
  BY <1>3 DEF OfWs
<1>4. CASE OfTransport(TransportNext)
  BY <1>4 DEF OfTransport
<1>5. CASE OfExecution(ExecutionNext)
  BY <1>5 DEF OfExecution
<1>6. CASE OfFile(FileNext)
  BY <1>6 DEF OfFile
<1>7. CASE OfDevtool(DevNext)
  BY <1>7 DEF OfDevtool
<1>8. CASE OfSandboxes(SandboxNext)
  BY <1>8 DEF OfSandboxes
<1>9. CASE UNCHANGED servicesVars
  BY <1>9 DEF servicesVars
<1> QED
  BY <1>1, <1>2, <1>3, <1>4, <1>5, <1>6, <1>7, <1>8, <1>9 DEF ServicesNext

\* Every step keeps it.
LEMMA ServicesStep == ServicesInv /\ [ServicesNext]_servicesVars => ServicesInv'
<1> SUFFICES ASSUME ServicesInv, [ServicesNext]_servicesVars PROVE ServicesInv'
  OBVIOUS
<1>1. LoggerInv'
  BY StepOfOnePart, LoggerSteps DEF ServicesInv
<1>2. HttpInv'
  BY StepOfOnePart, HttpSteps DEF ServicesInv
<1>3. WsInv'
  BY StepOfOnePart, WsSteps DEF ServicesInv
<1>4. TransportInv'
  BY StepOfOnePart, TransportSteps DEF ServicesInv
<1> QED
  BY <1>1, <1>2, <1>3, <1>4 DEF ServicesInv

\* It says what MessagesKept says.
LEMMA ServicesInvKeepsMessages == ServicesInv => MessagesKept
<1> SUFFICES ASSUME ServicesInv PROVE MessagesKept
  OBVIOUS
<1>1. LinesKept /\ StepsOnStack
  BY PlacedIsKept, StackIsKept DEF ServicesInv, LoggerInv
<1>2. FailuresTolerated
  BY DEF ServicesInv, LoggerInv, EntriesKept, FailuresTolerated, Ended
<1>3. OneRequestAtATime
  BY InTurnIsOneAtATime DEF ServicesInv
<1>4. WsInOrder /\ OneSocket /\ PendingRegistered /\ ResolvedForAReason
  BY DEF ServicesInv, WsInv, TransportInv
<1> QED
  BY <1>1, <1>2, <1>3, <1>4 DEF MessagesKept

\* For every set of log calls, steps, requests, messages and sends, and whatever their
\* bounds: MessagesKept of MCServices, what the logger, the HTTP client and server, the web
\* socket and the direct transport promise of the entries and messages they are given
\* (logger-server.ts, abstract-logger-client.ts, http-client.ts, http-server.ts,
\* ws-transport, direct-transport.ts).
THEOREM MessagesAreKept == ServicesSpec => []MessagesKept
<1>1. ServicesInit => ServicesInv
  BY ServicesStart
<1>2. ServicesInv /\ [ServicesNext]_servicesVars => ServicesInv'
  BY ServicesStep
<1>3. ServicesInv => MessagesKept
  BY ServicesInvKeepsMessages
<1> QED
  BY <1>1, <1>2, <1>3, PTL DEF ServicesSpec

\* For every number of tests, of messages of the devtool and of releases: ExecutionKeeps of
\* MCServices, what a worker process promises of the tests it executes: without the devtool
\* each completes once and with its own verdict, unless an earlier file called run() and
\* threw and that run() was still going on; the callbacks of afterRun() are called before
\* and once, and the devtool is told of every pause (worker-controller.ts, run.ts,
\* async-breakpoints.ts).
THEOREM ExecutionIsKept == ServicesSpec => []ExecutionKeeps
<1>1. ServicesInit => ExecInv
  BY ExecStarts DEF ServicesInit
<1>2. ExecInv /\ [ServicesNext]_servicesVars => ExecInv'
  BY StepOfOnePart, ExecSteps
<1>3. ExecInv => ExecutionKeeps
  BY ExecInvKeeps DEF ExecutionKeeps
<1> QED
  BY <1>1, <1>2, <1>3, PTL DEF ServicesSpec

\* For every number of workers, applications, connections and messages, and every project
\* and any number of runs, failures and late calls: CodeAndPagesFound of MCServices, that
\* the devtool finds the applications of a worker and the owner of one (devtool-backend,
\* while messages are handled one at a time), and that a test finds the files it requires,
\* one sandbox for each (dependencies-builder/src/index.ts, sandbox.ts).
THEOREM CodeAndPagesAreFound == ServicesSpec => []CodeAndPagesFound
<1>1. ServicesInit => DevInv /\ SandboxKept
  BY DevStarts, SandboxStarts DEF ServicesInit
<1>2. DevInv /\ SandboxKept /\ [ServicesNext]_servicesVars => (DevInv /\ SandboxKept)'
  BY StepOfOnePart, DevSteps, SandboxSteps
<1>3. DevInv /\ SandboxKept => CodeAndPagesFound
  BY DevPromises, SandboxPromises DEF CodeAndPagesFound
<1> QED
  BY <1>1, <1>2, <1>3, PTL DEF ServicesSpec

\* For any calls of the methods of a file object and writes of the other process, with any
\* failures of the file system: FilesKept of MCServices, that the object works with an
\* access of its own, that its lock queue has the locks that the server knows, and that its
\* transactions run one at a time, each under the circumstances it names (fs-store-file.ts,
\* fs-store-client.ts).
THEOREM FilesAreKept == ServicesSpec => []FilesKept
<1>1. ServicesInit => FileInv
  BY FileStarts DEF ServicesInit
<1>2. FileInv /\ [ServicesNext]_servicesVars => FileInv'
  BY StepOfOnePart, FileSteps
<1>3. FileInv => FilesKept
  BY FilePromises DEF FilesKept
<1> QED
  BY <1>1, <1>2, <1>3, PTL DEF ServicesSpec

=============================================================================
