------------------------------- MODULE MCBrowser -------------------------------
(***************************************************************************)
(* The components between a test and its browser, one at a time: the       *)
(* commands of the web application, its tabs, the browser proxy and the    *)
(* sessions of the driver share no state, so a behaviour is one of one     *)
(* part and the others stay where they began.                              *)
(***************************************************************************)
EXTENDS BrowserProxy, SeleniumSessions, WebApplication, BrowserTabs, TLC

CONSTANTS k1, k2, k3, o1, o2, user1, user2, c1, c2

MCCommands == {k1, k2, k3}
MCApplicant == k1 :> "a" @@ k2 :> "b" @@ k3 :> "a"
MCEnds == {k3}
MCOps == {o1, o2}
MCSessionUsers == {user1, user2}
MCAppCalls == {c1, c2}

VARIABLE part

browserVars == <<part, proxyVars, sessionVars, appVars, tabsVars>>

ModesOf(p) ==
  /\ p # "proxy" => ~debug /\ ~faults /\ ~local
  /\ p # "sessions" => ~rejects /\ ~localServer
  /\ p # "app" => ~parallel /\ ~screenshots /\ ~initFails /\ breakpoint = "none"

BrowserInit ==
  /\ part \in {"proxy", "sessions", "app", "tabs"}
  /\ ProxyInit /\ SessionsInit /\ AppInit /\ TabsInit
  /\ ModesOf(part)

OfProxy(A) == part = "proxy" /\ A /\ UNCHANGED <<part, sessionVars, appVars, tabsVars>>
OfSessions(A) == part = "sessions" /\ A /\ UNCHANGED <<part, proxyVars, appVars, tabsVars>>
OfApp(A) == part = "app" /\ A /\ UNCHANGED <<part, proxyVars, sessionVars, tabsVars>>
OfTabs(A) == part = "tabs" /\ A /\ UNCHANGED <<part, proxyVars, sessionVars, appVars>>

BrowserNext == OfProxy(ProxyNext) \/ OfSessions(SessionsNext) \/ OfApp(AppNext) \/ OfTabs(TabsNext)

BrowserProgress == OfProxy(ProxyProgress) \/ OfSessions(SessionsProgress) \/ OfApp(AppProgress)

BrowserSpec == BrowserInit /\ [][BrowserNext]_browserVars /\ WF_browserVars(BrowserProgress)

\* The types of all parts.
BrowserTypeOK ==
  /\ part = "proxy" => ProxyTypeOK
  /\ part = "sessions" => SessionsTypeOK
  /\ part = "app" => AppTypeOK
  /\ part = "tabs" => TabsTypeOK

\* No pending command of a proxy is lost and no child outlives kill(): PendingAtChild
\* and NoChildLeft of BrowserProxy.
ProxyKeeps == part = "proxy" => PendingAtChild /\ NoChildLeft

\* The driver loses no session and kill() leaves none behind: SessionsKept and
\* NoSessionLeft of SeleniumSessions.
DriverKeeps == part = "sessions" => SessionsKept /\ NoSessionLeft

\* What a test may rely on in its web application: StepsKept, NothingStray and
\* AssertionsHeard of WebApplication, TabsLeft of BrowserTabs.
AppKeeps ==
  /\ part = "app" => StepsKept /\ NothingStray /\ AssertionsHeard
  /\ part = "tabs" => TabsLeft

\* In the end all commands of a proxy, all calls of the driver and of the web application
\* have been answered, and the proxy's kill() has ended: ProxyAnswers, CallsEnd and
\* AppCallsSettle as one property.
BrowserAnswers == <>[](ProxyQuiet /\ SessionsQuiet /\ AppQuiet)
=============================================================================
