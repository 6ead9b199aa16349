--------------------------------- MODULE Devtool ---------------------------------
(***************************************************************************)
(* packages/devtool-backend: the devtool process keeps a redux store for    *)
(* each test worker, and web applications and the pages of the devtool find  *)
(* it by the id of an application.  The main process starts it and passes   *)
(* messages on between it and the workers.                                  *)
(*                                                                         *)
(* Messages that arrive together are handled at the same time, between the   *)
(* awaits of each (unless serial).  A store tells its subscribers, one for   *)
(* each handshake, after every dispatch; a connection that is gone throws   *)
(* out of the dispatch.  The servers' ports, the pages and the code editor   *)
(* are external.                                                            *)
(***************************************************************************)
EXTENDS Naturals, Sequences, FiniteSets, SequencesExt

CONSTANTS
  DevWorkers,    \* the test workers
  DevApps,       \* their web applications
  AppOwner,      \* the worker of each
  MaxDevCalls,   \* bound on the messages of the workers
  Connections,   \* of the pages
  MaxHandshakes  \* bound on the handshakes

ASSUME DevtoolAssumption ==
  /\ AppOwner \in [DevApps -> DevWorkers] /\ "none" \notin DevWorkers \cup DevApps
  /\ MaxDevCalls \in Nat /\ MaxHandshakes \in Nat

VARIABLES
  serial,               \* chosen once: messages do not arrive together
  server,               \* the main process: how far init() has got, and whether its promise settled
  stores,               \* the stores ever created
  storesByWorkerId, storesByWebAppId, workerIdByWebAppId,
  devCall,              \* the messages
  appState,             \* the application's side
  webAppIdByConnectionId, handlersByConnectionId,
  connected,            \* the state of the connections
  handshakes            \* so far, by connection

devVars == <<serial, server, stores, storesByWorkerId, storesByWebAppId, workerIdByWebAppId,
             devCall, appState, webAppIdByConnectionId, handlersByConnectionId, connected, handshakes>>

DevCalls == 1..MaxDevCalls   \* in the order in which they arrive
StoreIds == DevCalls
NoStore == 0

\* A store: the last message about its worker, its applications, its subscribers in order.
Stores == [workerState : DevCalls \cup {0}, ids : Seq(DevApps), listeners : Seq(Connections)]

DevTypeOK ==
  /\ serial \in BOOLEAN
  /\ server \in {"new", "forked", "started", "running", "failed", "killed"}
  /\ stores \in Seq(Stores)
  /\ storesByWorkerId \in [DevWorkers -> StoreIds \cup {NoStore}]
  /\ storesByWebAppId \in [DevApps -> StoreIds \cup {NoStore}]
  /\ workerIdByWebAppId \in [DevApps -> DevWorkers \cup {"none"}]
  /\ devCall \in [DevCalls ->
       [kind : {"none", "update", "unregister", "register app", "unregister app"},
        worker : DevWorkers \cup {"none"}, app : DevApps \cup {"none"}, store : StoreIds \cup {NoStore},
        at : {"new", "found", "created", "attach", "dispatch", "over"}, error : BOOLEAN]]
  /\ appState \in [DevApps -> {"new", "asked", "registered", "refused", "leaving", "left"}]
  /\ webAppIdByConnectionId \in [Connections -> DevApps \cup {"none"}]
  /\ handlersByConnectionId \in [Connections -> StoreIds \cup {NoStore}]
  /\ connected \in [Connections -> {"no", "open", "closed"}]
  /\ handshakes \in [Connections -> 0..MaxHandshakes]

DevInit ==
  /\ serial \in BOOLEAN /\ server = "new" /\ stores = <<>>
  /\ storesByWorkerId = [w \in DevWorkers |-> NoStore]
  /\ storesByWebAppId = [a \in DevApps |-> NoStore]
  /\ workerIdByWebAppId = [a \in DevApps |-> "none"]
  /\ devCall = [m \in DevCalls |-> [kind |-> "none", worker |-> "none", app |-> "none", store |-> NoStore,
                                    at |-> "new", error |-> FALSE]]
  /\ appState = [a \in DevApps |-> "new"]
  /\ webAppIdByConnectionId = [c \in Connections |-> "none"]
  /\ handlersByConnectionId = [c \in Connections |-> NoStore]
  /\ connected = [c \in Connections |-> "no"] /\ handshakes = [c \in Connections |-> 0]

-----------------------------------------------------------------------------
(* devtool-server-controller.ts                                            *)

NotServer == <<serial, stores, storesByWorkerId, storesByWebAppId, workerIdByWebAppId, devCall, appState,
               webAppIdByConnectionId, handlersByConnectionId, connected, handshakes>>

\* init(): startServer() forks and registers the process and sends it the config.
StartServer ==
  /\ server = "new" /\ server' = "forked"
  /\ UNCHANGED NotServer

\* init() of the process: its http and web socket servers listen, or one of them fails.
ServersStart ==
  /\ server = "forked" /\ server' \in {"started", "failed"}
  /\ UNCHANGED NotServer

\* The completion arrives: from now on messages are passed on.
MessagesProxied ==
  /\ server = "started" /\ server' = "running"
  /\ UNCHANGED NotServer

\* kill(), when the run is over.
KillDevtool ==
  /\ server = "running" /\ \A m \in DevCalls : devCall[m].at \in {"new", "over"}
  /\ server' = "killed"
  /\ UNCHANGED NotServer

\* addToServerProxyHandler(): before that nobody listens and a message is lost.
Proxied == server = "running"

-----------------------------------------------------------------------------
(* devtool-worker-controller.ts: the messages of the workers               *)

Set(m, fields) == [devCall EXCEPT ![m] = fields]
Ends(m, error) == [devCall EXCEPT ![m] = [@ EXCEPT !.at = "over", !.error = error]]

\* The next message; unless serial it may arrive while others are being handled.
MayArrive(m) ==
  /\ devCall[m].at = "new" /\ \A n \in 1..(m - 1) : devCall[n].at # "new"
  /\ serial => \A n \in 1..(m - 1) : devCall[n].at = "over"

UnchangedByCalls == <<serial, server, webAppIdByConnectionId, handlersByConnectionId, connected, handshakes>>

\* A message arrives and is looked at as far as its first await: getStoreByWorkerId().
Arrives(m, kind, w, app) ==
  /\ MayArrive(m)
  /\ devCall' = Set(m, [kind |-> kind, worker |-> w, app |-> app, store |-> storesByWorkerId[w],
                        at |-> "found", error |-> FALSE])

\* register and updateExecutionState of a worker.
UpdateMessage(m, w) ==
  /\ Proxied /\ Arrives(m, "update", w, "none")
  /\ UNCHANGED <<UnchangedByCalls, stores, storesByWorkerId, storesByWebAppId, workerIdByWebAppId, appState>>

\* Mutant: the applications stay registered.
AppsOf_None(w) == {}
\* The applications whose store is that of the worker.
AppsOf(w) == {a \in DevApps : storesByWorkerId[w] # NoStore /\ storesByWebAppId[a] = storesByWorkerId[w]}

\* unregisterWorker() awaits nothing.
UnregisterWorker(m, w) ==
  /\ Proxied /\ MayArrive(m)
  /\ devCall' = Set(m, [devCall[m] EXCEPT !.kind = "unregister", !.worker = w, !.at = "over"])
  /\ storesByWebAppId' = [a \in DevApps |-> IF a \in AppsOf(w) THEN NoStore ELSE storesByWebAppId[a]]
  /\ workerIdByWebAppId' = [a \in DevApps |-> IF workerIdByWebAppId[a] = w THEN "none" ELSE workerIdByWebAppId[a]]
  /\ storesByWorkerId' = [storesByWorkerId EXCEPT ![w] = NoStore]
  /\ UNCHANGED <<UnchangedByCalls, stores, appState>>

\* registerAppInDevtool() and unregisterAppInDevtool() of a web application: without
\* the devtool the message is lost and the application waits for ever.
AppMessage(m, a) ==
  LET leaves == appState[a] = "registered" IN
  /\ appState[a] \in {"new", "registered"} /\ MayArrive(m)
  /\ appState' = [appState EXCEPT ![a] = IF leaves THEN "leaving" ELSE "asked"]
  /\ IF Proxied
     THEN Arrives(m, IF leaves THEN "unregister app" ELSE "register app", AppOwner[a], a)
     ELSE devCall' = devCall
  /\ UNCHANGED <<UnchangedByCalls, stores, storesByWorkerId, storesByWebAppId, workerIdByWebAppId>>

\* getOrRegisterStoreByWorkerId(): without a store createStore() makes one, after another
\* await, whether or not there is one by now.
CreateStore(m) ==
  LET r == devCall[m]
      new == Len(stores) + 1
  IN /\ r.at = "found" /\ r.store = NoStore /\ r.kind # "unregister app"
     /\ stores' = Append(stores, [workerState |-> 0, ids |-> <<>>, listeners |-> <<>>])
     /\ storesByWorkerId' = [storesByWorkerId EXCEPT ![r.worker] = new]
     /\ devCall' = Set(m, [r EXCEPT !.store = new, !.at = "created"])
     /\ UNCHANGED <<UnchangedByCalls, storesByWebAppId, workerIdByWebAppId, appState>>

\* The store is there: one that was created is put into the map once more.
HasStore(m) ==
  LET r == devCall[m] IN
  /\ \/ r.at = "created" /\ storesByWorkerId' = [storesByWorkerId EXCEPT ![r.worker] = r.store]
     \/ r.at = "found" /\ r.store # NoStore /\ UNCHANGED storesByWorkerId
  /\ devCall' = Set(m, [r EXCEPT !.at = IF r.app = "none" THEN "dispatch" ELSE "attach"])
  /\ UNCHANGED <<UnchangedByCalls, stores, storesByWebAppId, workerIdByWebAppId, appState>>

\* registerWebAppId(): with the store that the worker has now.
RegisterWebAppId(m) ==
  LET r == devCall[m]
      store == storesByWorkerId[r.worker]
  IN /\ r.kind = "register app" /\ r.at = "attach"
     /\ IF store # NoStore /\ storesByWebAppId[r.app] = NoStore
        THEN /\ workerIdByWebAppId' = [workerIdByWebAppId EXCEPT ![r.app] = r.worker]
             /\ storesByWebAppId' = [storesByWebAppId EXCEPT ![r.app] = store]
             /\ devCall' = Set(m, [r EXCEPT !.at = "dispatch"]) /\ UNCHANGED appState
        ELSE /\ devCall' = Ends(m, TRUE) /\ appState' = [appState EXCEPT ![r.app] = "refused"]
             /\ UNCHANGED <<workerIdByWebAppId, storesByWebAppId>>
     /\ UNCHANGED <<UnchangedByCalls, stores, storesByWorkerId>>

\* unregisterWebAppId(), when the worker had a store.
UnregisterWebAppId(m) ==
  LET r == devCall[m]
      known == r.store # NoStore /\ storesByWebAppId[r.app] # NoStore
  IN /\ r.kind = "unregister app"
     /\ r.at = "attach" \/ (r.at = "found" /\ r.store = NoStore)
     /\ IF known
        THEN /\ workerIdByWebAppId' = [workerIdByWebAppId EXCEPT ![r.app] = "none"]
             /\ storesByWebAppId' = [storesByWebAppId EXCEPT ![r.app] = NoStore]
             /\ devCall' = Set(m, [r EXCEPT !.at = "dispatch"]) /\ UNCHANGED appState
        ELSE /\ devCall' = Ends(m, TRUE) /\ appState' = [appState EXCEPT ![r.app] = "left"]
             /\ UNCHANGED <<workerIdByWebAppId, storesByWebAppId>>
     /\ UNCHANGED <<UnchangedByCalls, stores, storesByWorkerId>>

\* The reducers.  UNREGISTER keeps the id that leaves and drops the others.
Reduced(s, m) ==
  LET r == devCall[m] IN
  CASE r.kind = "update" -> [s EXCEPT !.workerState = m]
    [] r.kind = "register app" -> [s EXCEPT !.ids = Append(@, r.app)]
    [] r.kind = "unregister app" -> [s EXCEPT !.ids = SelectSeq(@, LAMBDA a : a = r.app)]

\* send() of the web socket server throws for a connection that is gone.
Throws(s) == \E i \in 1..Len(s.listeners) : connected[s.listeners[i]] = "closed"

\* dispatch(), and the answer to an application.
Dispatch(m) ==
  LET r == devCall[m]
      error == Throws(stores[r.store])
  IN /\ r.at = "dispatch"
     /\ stores' = [stores EXCEPT ![r.store] = Reduced(@, m)]
     /\ devCall' = Ends(m, error)
     /\ appState' = CASE r.kind = "update" -> appState
                      [] r.kind = "register app" ->
                           [appState EXCEPT ![r.app] = IF error THEN "refused" ELSE "registered"]
                      [] OTHER -> [appState EXCEPT ![r.app] = "left"]
     /\ UNCHANGED <<UnchangedByCalls, storesByWorkerId, storesByWebAppId, workerIdByWebAppId>>

-----------------------------------------------------------------------------
(* The connections of the pages                                            *)

NotConnections == <<serial, server, storesByWorkerId, storesByWebAppId, workerIdByWebAppId, devCall, appState>>

\* A page connects.  Bound: only when messages do not arrive together.
RegisterConnection(c) ==
  /\ Proxied /\ serial /\ connected[c] = "no"
  /\ connected' = [connected EXCEPT ![c] = "open"]
  /\ UNCHANGED <<NotConnections, stores, webAppIdByConnectionId, handlersByConnectionId, handshakes>>

\* HANDSHAKE_REQUEST: the page is answered whether or not the application is known; a
\* second handshake takes the place of the first one's unsubscribe.
Handshake(c, a) ==
  LET store == storesByWebAppId[a] IN
  /\ connected[c] = "open" /\ handshakes[c] < MaxHandshakes
  /\ handshakes' = [handshakes EXCEPT ![c] = @ + 1]
  /\ webAppIdByConnectionId' = [webAppIdByConnectionId EXCEPT ![c] = a]
  /\ IF store = NoStore THEN UNCHANGED <<stores, handlersByConnectionId>>
     ELSE /\ stores' = [stores EXCEPT ![store].listeners = Append(@, c)]
          /\ handlersByConnectionId' = [handlersByConnectionId EXCEPT ![c] = store]
  /\ UNCHANGED <<NotConnections, connected>>

\* Mutant: the subscription is not cancelled.
Unsubscribed_Not(c) == stores
\* unsubscribe() of the last handshake that subscribed.
Unsubscribed(c) ==
  LET store == handlersByConnectionId[c] IN
  IF store = NoStore THEN stores
  ELSE [stores EXCEPT ![store].listeners =
          RemoveAt(@, CHOOSE i \in 1..Len(@) : @[i] = c /\ \A j \in 1..Len(@) : @[j] = c => j <= i)]

\* WSSDisconnectHandler(), and the connection is deleted.
Disconnects(c) ==
  /\ connected[c] = "open"
  /\ connected' = [connected EXCEPT ![c] = "closed"]
  /\ stores' = Unsubscribed(c)
  /\ handlersByConnectionId' = [handlersByConnectionId EXCEPT ![c] = NoStore]
  /\ webAppIdByConnectionId' = [webAppIdByConnectionId EXCEPT ![c] = "none"]
  /\ UNCHANGED <<NotConnections, handshakes>>

\* WORKER_ACTION is sent to the worker of the page's application, if there is one.
ActionTarget(c) ==
  IF webAppIdByConnectionId[c] = "none" THEN "none" ELSE workerIdByWebAppId[webAppIdByConnectionId[c]]

\* GET_STORE is answered with the store of the page's application.
StoreShown(c) ==
  IF webAppIdByConnectionId[c] = "none" THEN NoStore ELSE storesByWebAppId[webAppIdByConnectionId[c]]

-----------------------------------------------------------------------------
Handles(m) ==
  CreateStore(m) \/ HasStore(m) \/ RegisterWebAppId(m) \/ UnregisterWebAppId(m) \/ Dispatch(m)

DevProgress == ServersStart \/ MessagesProxied \/ \E m \in DevCalls : Handles(m)

DevNext ==
  \/ DevProgress \/ StartServer \/ KillDevtool
  \/ \E m \in DevCalls : \/ \E w \in DevWorkers : UpdateMessage(m, w) \/ UnregisterWorker(m, w)
                         \/ \E a \in DevApps : AppMessage(m, a)
  \/ \E c \in Connections : RegisterConnection(c) \/ Disconnects(c) \/ \E a \in DevApps : Handshake(c, a)

DevSpec == DevInit /\ [][DevNext]_devVars
FairDevSpec == DevSpec /\ WF_devVars(DevProgress)

-----------------------------------------------------------------------------
(* What the devtool promises                                               *)

\* When messages do not arrive together, an application has the store of its worker, so
\* a page sees what the worker reports and its actions go to that worker; when the worker
\* has gone nothing of its applications is left.
AppsFollowWorker ==
  serial => \A a \in DevApps :
    /\ storesByWebAppId[a] # NoStore => storesByWebAppId[a] = storesByWorkerId[AppOwner[a]]
    /\ workerIdByWebAppId[a] = (IF storesByWebAppId[a] = NoStore THEN "none" ELSE AppOwner[a])

\* An action never goes to another worker than that of the application, and where one is
\* sent a store is shown.
ActionsToOwner ==
  \A c \in Connections : ActionTarget(c) # "none" =>
    ActionTarget(c) = AppOwner[webAppIdByConnectionId[c]] /\ StoreShown(c) # NoStore

\* A closed connection that shook hands once is not told any more, so no dispatch fails
\* because of it and an application is refused only if it or its worker is not known.
NoStaleListener ==
  /\ \A n \in 1..Len(stores) : \A i \in 1..Len(stores[n].listeners) :
       LET c == stores[n].listeners[i] IN handshakes[c] <= 1 => connected[c] = "open"
  /\ serial /\ (\A c \in Connections : handshakes[c] <= 1) =>
       \A m \in DevCalls : devCall[m].kind \in {"update", "register app"} => ~devCall[m].error

\* In the end every message has been handled, and an application that was heard has its
\* answer.
DevQuiet ==
  /\ server \in {"new", "running", "failed", "killed"}
  /\ \A m \in DevCalls : devCall[m].at \in {"new", "over"}
=============================================================================
