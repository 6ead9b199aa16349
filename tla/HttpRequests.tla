------------------------------ MODULE HttpRequests ------------------------------
(***************************************************************************)
(* packages/http-api: a client runs its requests one at a time through its *)
(* own queue; the HttpServer of the main process makes them, calls its     *)
(* plugins and answers by uid.  Clients may share a cookie jar.            *)
(*                                                                         *)
(* The network and the plugins are external: they answer or fail.  A       *)
(* request is left without an answer by the kill() of the server, by a     *)
(* plugin that fails in beforeError, by a send of the answer that fails,   *)
(* which is swallowed, and by a jar that does not take its cookies, for    *)
(* then its listeners are gone; its client waits for ever and the queue    *)
(* with it.                                                                *)
(***************************************************************************)
EXTENDS Naturals, Sequences, FiniteSets, Functions, SequencesExt

CONSTANTS
  Requests,    \* each made once
  ClientOf     \* the client that makes it

ASSUME HttpAssumption == DOMAIN ClientOf = Requests

VARIABLES
  requestQueue, queueRunning,   \* of every client
  req,                          \* the requests
  jar,                          \* the requests whose cookies are in the jar
  pushed,                       \* the requests in the order in which they were made
  isKilled,                     \* the server
  unanswered                    \* the requests that lost their answer

httpVars == <<requestQueue, queueRunning, req, jar, pushed, isKilled, unanswered>>

HttpClients == Range(ClientOf)

\* at: with the client ("new", "queued"), at the server ("sent", "hooked", "made",
\* "refused"), answered ("response", "reject"), in the delay after it, or over.
\* cookies: those it was sent with.  settled: its promise.
HttpTypeOK ==
  /\ requestQueue \in [HttpClients -> Seq(Requests)] /\ queueRunning \in [HttpClients -> BOOLEAN]
  /\ req \in [Requests ->
       [at : {"new", "queued", "sent", "hooked", "made", "refused", "dropped",
              "response", "reject", "delay", "over"},
        cookies : SUBSET Requests, settled : {"no", "ok", "error"}]]
  /\ jar \subseteq Requests /\ pushed \in Seq(Requests) /\ isKilled \in BOOLEAN /\ unanswered \subseteq Requests

HttpInit ==
  /\ requestQueue = [c \in HttpClients |-> <<>>] /\ queueRunning = [c \in HttpClients |-> FALSE]
  /\ req = [r \in Requests |-> [at |-> "new", cookies |-> {}, settled |-> "no"]]
  /\ jar = {} /\ pushed = <<>> /\ isKilled = FALSE /\ unanswered = {}

-----------------------------------------------------------------------------
(* abstract-http-client.ts                                                 *)

\* Mutant: the queue is run whether or not it is running.
RunsQueue_Always(c) == TRUE
\* runQueue() returns at once when the queue is running.
RunsQueue(c) == ~queueRunning[c]

\* Mutant: the cookies are those of the moment when the request was made.
SendRequest_Early(rs, r) == [rs EXCEPT ![r].at = "sent"]
\* sendRequest(): with the cookies of the jar; a request without url throws.
SendRequest(rs, r) == [rs EXCEPT ![r] = [@ EXCEPT !.at = "sent", !.cookies = jar]]
NotValid(rs, r) == [rs EXCEPT ![r] = [@ EXCEPT !.at = "delay", !.settled = "error"]]

Starts(rs, r) == req' = SendRequest(rs, r) \/ req' = NotValid(rs, r)

\* post(), get() and the like, pushToQueue().
Push(r) ==
  LET c == ClientOf[r]
      queued == [req EXCEPT ![r].at = "queued"]
      queue == Append(requestQueue[c], r)
  IN /\ req[r].at = "new"
     /\ pushed' = Append(pushed, r)
     /\ IF RunsQueue(c)
        THEN /\ queueRunning' = [queueRunning EXCEPT ![c] = TRUE]
             /\ requestQueue' = [requestQueue EXCEPT ![c] = Tail(queue)]
             /\ Starts(queued, Head(queue))
        ELSE /\ requestQueue' = [requestQueue EXCEPT ![c] = queue] /\ req' = queued
             /\ UNCHANGED queueRunning
     /\ UNCHANGED <<jar, isKilled, unanswered>>

\* No answer will come any more.
LosesAnswer(r) == req' = [req EXCEPT ![r].at = "dropped"] /\ unanswered' = unanswered \cup {r}

\* The listener with the uid: the cookies go to the jar, or the jar throws when both
\* listeners have been removed; the promise settles, and the delay begins.
Receive(r) ==
  /\ \/ /\ req[r].at \in {"response", "reject"}
        /\ jar' = IF req[r].at = "response" THEN jar \cup {r} ELSE jar
        /\ req' = [req EXCEPT ![r] = [@ EXCEPT !.at = "delay",
                                               !.settled = IF req[r].at = "response" THEN "ok" ELSE "error"]]
        /\ UNCHANGED unanswered
     \/ req[r].at = "response" /\ LosesAnswer(r) /\ UNCHANGED jar
  /\ UNCHANGED <<requestQueue, queueRunning, pushed, isKilled>>

\* throttleDelay() is over: runQueue() goes on with the next.
NextRequest(r) ==
  LET c == ClientOf[r]
      done == [req EXCEPT ![r].at = "over"]
  IN /\ req[r].at = "delay"
     /\ IF requestQueue[c] = <<>>
        THEN queueRunning' = [queueRunning EXCEPT ![c] = FALSE] /\ req' = done /\ UNCHANGED requestQueue
        ELSE /\ requestQueue' = [requestQueue EXCEPT ![c] = Tail(@)]
             /\ Starts(done, Head(requestQueue[c])) /\ UNCHANGED queueRunning
     /\ UNCHANGED <<jar, pushed, isKilled, unanswered>>

-----------------------------------------------------------------------------
(* http-server.ts                                                          *)

HttpGoes(r, place) == req' = [req EXCEPT ![r].at = place] /\ UNCHANGED unanswered

\* sendResponse(): a send that fails is logged.
SendResponse(r, answer) == HttpGoes(r, answer) \/ LosesAnswer(r)

\* makeRequest(): beforeRequest, request and beforeResponse resolve, one of them rejects
\* (an answer of 400 or more throws), or the killed server drops the answer.
MakeRequest(r) ==
  \/ req[r].at = "sent" /\ IF isKilled THEN LosesAnswer(r) ELSE HttpGoes(r, "hooked")
  \/ req[r].at = "hooked" /\ IF isKilled THEN LosesAnswer(r) ELSE HttpGoes(r, "made")
  \/ req[r].at = "made" /\ SendResponse(r, "response")
  \/ req[r].at \in {"sent", "hooked", "made"} /\ IF isKilled THEN LosesAnswer(r) ELSE HttpGoes(r, "refused")

\* Mutant: an error is logged and nothing is sent.
Rejects_Silent(r) == HttpGoes(r, "dropped")
\* The end of the catch: beforeError resolves and the error is sent, or rejects.
Rejects(r) == SendResponse(r, "reject")

Serve(r) ==
  /\ MakeRequest(r) \/ (req[r].at = "refused" /\ Rejects(r))
  /\ UNCHANGED <<requestQueue, queueRunning, jar, pushed, isKilled>>

\* kill().
KillServer ==
  /\ ~isKilled /\ isKilled' = TRUE
  /\ UNCHANGED <<requestQueue, queueRunning, req, jar, pushed, unanswered>>

\* The network, the plugins and the timers end.
HttpProgress == \E r \in Requests : Receive(r) \/ NextRequest(r) \/ Serve(r)
HttpNext == HttpProgress \/ KillServer \/ \E r \in Requests : Push(r)
HttpSpec == HttpInit /\ [][HttpNext]_httpVars
FairHttpSpec == HttpSpec /\ WF_httpVars(HttpProgress)

-----------------------------------------------------------------------------
(* What the client promises                                                *)

Before(r, s) == \E i, j \in 1..Len(pushed) : i < j /\ pushed[i] = r /\ pushed[j] = s

\* The requests of one client reach the server one at a time and in the order in which
\* they were made, and each carries the cookies of all those before it.
OneRequestAtATime ==
  \A r, s \in Requests :
    ClientOf[r] = ClientOf[s] /\ Before(r, s) /\ req[s].at \notin {"new", "queued"} =>
      /\ req[r].at = "over"
      /\ req[r].settled = "ok" /\ req[s].at # "delay" /\ req[s].settled # "error" => r \in req[s].cookies

\* In the end every request has settled, unless it or one before it of its client has
\* lost its answer.
HttpQuiet ==
  \A r \in Requests :
    req[r].at \in {"new", "over"} \/ \E s \in unanswered : ClientOf[s] = ClientOf[r]
=============================================================================
