------------------------------ MODULE WsTransport ------------------------------
(***************************************************************************)
(* packages/client-ws-transport: messages over a web socket that is opened *)
(* again after an error.  A message sent while the socket is not open, or  *)
(* behind one that waits, is queued; the queue is sent when a socket opens. *)
(*                                                                         *)
(* The socket is external (the WebSocket of the browser): it opens, fails  *)
(* or closes at any time.  close() of one that is still connecting makes   *)
(* it fail, which is an error event like any other and connects again.     *)
(* A message that JSON.stringify() rejects stays at the head of the queue. *)
(***************************************************************************)
EXTENDS Naturals, Sequences, FiniteSets, SequencesExt

CONSTANTS
  WsMessages,     \* each sent once
  Handshakes,     \* those that are the request of a handshake
  Cyclic,         \* those that cannot be serialized
  MaxConnections  \* bound on the sockets ever created

ASSUME WsAssumption ==
  /\ Handshakes \subseteq WsMessages /\ Cyclic \subseteq WsMessages
  /\ MaxConnections \in Nat

VARIABLES
  shouldReconnect,  \* chosen once
  connection,       \* the socket in use, 0 before the first
  socket,           \* the state of every socket
  messagesQueue,
  sent,             \* the messages handed to a socket, in order
  wanted,           \* the messages given to send(), in order
  resolved,         \* the promises of send() that have resolved
  handshake         \* of every handshake: "no", "waits", "settled"

wsVars == <<shouldReconnect, connection, socket, messagesQueue, sent, wanted, resolved, handshake>>

Sockets == 1..MaxConnections

WsTypeOK ==
  /\ shouldReconnect \in BOOLEAN /\ connection \in 0..MaxConnections
  /\ socket \in [Sockets -> {"none", "connecting", "open", "failing", "closing", "closed"}]
  /\ messagesQueue \in Seq(WsMessages) /\ sent \in Seq(WsMessages) /\ wanted \in Seq(WsMessages)
  /\ resolved \subseteq WsMessages /\ handshake \in [Handshakes -> {"no", "waits", "settled"}]

WsInit ==
  /\ shouldReconnect \in BOOLEAN /\ connection = 0
  /\ socket = [s \in Sockets |-> "none"]
  /\ messagesQueue = <<>> /\ sent = <<>> /\ wanted = <<>> /\ resolved = {}
  /\ handshake = [h \in Handshakes |-> "no"]

-----------------------------------------------------------------------------
getConnectionStatus == connection # 0 /\ socket[connection] = "open"

\* wsSend() succeeds.
WsSend(m) == getConnectionStatus /\ m \notin Cyclic

\* disconnect(): close() of the socket in use.
Disconnected(states) ==
  IF connection = 0 THEN states
  ELSE [states EXCEPT ![connection] =
          CASE @ = "connecting" -> "failing" [] @ = "open" -> "closing" [] OTHER -> @]

\* connect(): the one in use is closed, another is created.
Connects(states) ==
  \E s \in Sockets :
    /\ states[s] = "none" /\ \A t \in 1..(s - 1) : states[t] # "none"
    /\ socket' = [Disconnected(states) EXCEPT ![s] = "connecting"]
    /\ connection' = s

Connect ==
  /\ Connects(socket)
  /\ UNCHANGED <<shouldReconnect, messagesQueue, sent, wanted, resolved, handshake>>

Disconnect ==
  /\ connection # 0
  /\ socket' = Disconnected(socket)
  /\ UNCHANGED <<shouldReconnect, connection, messagesQueue, sent, wanted, resolved, handshake>>

\* Mutant: what is sent overtakes what waits.
Overtakes_Always(m) == WsSend(m)
\* send(): at once when nothing waits and wsSend() does not throw.
Overtakes(m) == messagesQueue = <<>> /\ WsSend(m)

Send(m) ==
  /\ m \notin ToSet(wanted)
  /\ wanted' = Append(wanted, m)
  /\ IF Overtakes(m)
     THEN sent' = Append(sent, m) /\ resolved' = resolved \cup {m} /\ UNCHANGED messagesQueue
     ELSE messagesQueue' = Append(messagesQueue, m) /\ UNCHANGED <<sent, resolved>>
  \* handshake() listens before it sends.
  /\ handshake' = [h \in Handshakes |-> IF h = m THEN "waits" ELSE handshake[h]]
  /\ UNCHANGED <<shouldReconnect, connection, socket>>

\* Mutant: resolveQueue() sends one message.
Sendable_One == IF messagesQueue # <<>> /\ Head(messagesQueue) \notin Cyclic THEN 1 ELSE 0
\* resolveQueue(): everything up to a message that cannot be serialized.
Sendable ==
  LET bad == {i \in 1..Len(messagesQueue) : messagesQueue[i] \in Cyclic}
  IN IF bad = {} THEN Len(messagesQueue) ELSE (CHOOSE i \in bad : \A j \in bad : i <= j) - 1

\* A socket opens: openHandler().  A socket that is not in use any more cannot, since
\* it was closed.
SocketOpens(s) ==
  /\ socket[s] = "connecting"
  /\ socket' = [socket EXCEPT ![s] = "open"]
  /\ LET now == SubSeq(messagesQueue, 1, Sendable)
     IN /\ sent' = sent \o now /\ resolved' = resolved \cup ToSet(now)
        /\ messagesQueue' = SubSeq(messagesQueue, Sendable + 1, Len(messagesQueue))
  /\ UNCHANGED <<shouldReconnect, connection, wanted, handshake>>

\* It fails, or has been closed while connecting: errorHandler() connects again.
SocketFails(s) ==
  /\ socket[s] \in {"connecting", "open", "failing"}
  /\ LET failed == [socket EXCEPT ![s] = "closed"]
     IN IF shouldReconnect THEN Connects(failed) ELSE socket' = failed /\ UNCHANGED connection
  /\ UNCHANGED <<shouldReconnect, messagesQueue, sent, wanted, resolved, handshake>>

\* It closes, for the other side or for close(): closeHandler() does nothing.
SocketCloses(s) ==
  /\ socket[s] \in {"open", "closing"}
  /\ socket' = [socket EXCEPT ![s] = "closed"]
  /\ UNCHANGED <<shouldReconnect, connection, messagesQueue, sent, wanted, resolved, handshake>>

\* A response to a handshake settles all that wait.
HandshakeResponse ==
  /\ getConnectionStatus
  /\ \E h \in Handshakes : h \in ToSet(sent) /\ handshake[h] = "waits"
  /\ handshake' = [h \in Handshakes |-> IF handshake[h] = "waits" THEN "settled" ELSE handshake[h]]
  /\ UNCHANGED <<shouldReconnect, connection, socket, messagesQueue, sent, wanted, resolved>>

\* Sockets do not stay connecting, failing or closing.
WsProgress == \E s \in Sockets : \/ SocketOpens(s)
                                 \/ socket[s] \in {"connecting", "failing"} /\ SocketFails(s)
                                 \/ socket[s] = "closing" /\ SocketCloses(s)
WsNext ==
  \/ Connect \/ Disconnect \/ HandshakeResponse
  \/ \E m \in WsMessages : Send(m)
  \/ \E s \in Sockets : SocketOpens(s) \/ SocketFails(s) \/ SocketCloses(s)

WsSpec == WsInit /\ [][WsNext]_wsVars
FairWsSpec == WsSpec /\ WF_wsVars(WsProgress)

-----------------------------------------------------------------------------
(* What the transport promises                                             *)

\* Over any number of sockets messages are handed over once and in the order of their
\* send(), and a promise of send() has resolved exactly for those; with an open socket
\* nothing waits but what is behind a message that cannot be serialized.
WsInOrder ==
  /\ sent \o messagesQueue = wanted /\ resolved = ToSet(sent)
  /\ getConnectionStatus /\ messagesQueue # <<>> => Head(messagesQueue) \in Cyclic

\* One socket at most is not closed or being closed, and it is the one in use.
OneSocket == \A s \in Sockets : socket[s] \in {"connecting", "open"} => s = connection

\* In the end no socket is between two states, unless MaxConnections is reached.
WsQuiet ==
  (\E s \in Sockets : socket[s] = "none") => \A s \in Sockets : socket[s] \in {"none", "open", "closed"}
=============================================================================
