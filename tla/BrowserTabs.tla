------------------------------ MODULE BrowserTabs ------------------------------
(***************************************************************************)
(* The tab commands of packages/web-application over the browser's tabs.   *)
(* A command is a sequence of requests (web-application.ts:1310-1490), and *)
(* the page may open a tab or close one between any two of them.  What the *)
(* driver does with a request is that of packages/plugin-selenium-driver:  *)
(* any request opens a session when there is none, closing the last tab    *)
(* ends it, and after a close the browser is on no tab until it switches.  *)
(***************************************************************************)
EXTENDS Queues, SequencesExt, FiniteSets

CONSTANTS
  MaxTabs,      \* bound on the tabs ever opened
  MaxTabCalls   \* bound on the commands of the test

ASSUME TabsAssumption == MaxTabs \in Nat /\ MaxTabCalls \in Nat

VARIABLES
  tabs,         \* the window handles in the browser's order; none without a session
  current,      \* the tab the browser is on, None after it was closed
  opened,       \* the tabs ever opened are 1..opened
  mainTabID,    \* of the web application
  todo,         \* the steps the command under way has left
  ids,          \* what its last getTabIds() returned
  cur,          \* what its getCurrentTabId() returned
  lastOp,       \* the last command, and how it ended
  calls,        \* made so far
  since,        \* the tabs opened since the last command began
  disturbed     \* the page closed a tab, or the test the main one beside others

browser == <<tabs, current, opened>>
command == <<todo, ids, cur, lastOp, calls>>
tabsVars == <<browser, mainTabID, command, since, disturbed>>

None == 0
Idle == todo = <<>>

TabsTypeOK ==
  /\ ToSet(tabs) \subseteq 1..opened /\ IsInjective(tabs)
  /\ current = None \/ current \in ToSet(tabs)
  /\ opened \in 0..MaxTabs /\ mainTabID \in 0..opened /\ cur \in 0..opened
  /\ ToSet(ids) \subseteq 1..opened /\ since \subseteq 1..opened
  /\ calls \in 0..MaxTabCalls /\ disturbed \in BOOLEAN

TabsInit ==
  /\ tabs = <<>> /\ current = None /\ opened = 0
  /\ mainTabID = None /\ todo = <<>> /\ ids = <<>> /\ cur = None
  /\ lastOp = <<"none", "ok">> /\ calls = 0 /\ since = {} /\ disturbed = FALSE

-----------------------------------------------------------------------------
(* The commands as steps                                                   *)

\* window(), setActiveTab(), switchTab(): the main tab is made certain first.
Window(t) == <<<<"init">>, <<"switch", t>>>>
\* closeBrowserWindow(), of the main tab without an argument.
CloseBrowserWindow(t) == <<<<"init">>, <<"ids">>, <<"close", t>>>>
CloseCurrentTab == <<<<"cur">>, <<"init">>, <<"closeCurrent">>>>
CloseAllOtherTabs == <<<<"ids">>, <<"init">>, <<"closeOthers">>>>
SwitchToFirstSiblingTab == <<<<"init">>, <<"ids">>, <<"toSibling">>>>
SwitchToMainSiblingTab == <<<<"init">>, <<"ids">>, <<"toMain">>>>
CloseFirstSiblingTab == SwitchToFirstSiblingTab \o CloseCurrentTab \o SwitchToMainSiblingTab

\* The tabs of a list but one, in their order.
Without(list, t) == Rest(list, ToSet(list) \ {t})

Begin(name, steps) ==
  /\ todo' = steps /\ lastOp' = <<name, "begun">> /\ calls' = calls + 1 /\ since' = {}

TabCommand ==
  /\ Idle /\ calls < MaxTabCalls
  /\ \/ \E t \in ToSet(tabs) : Begin("window", Window(t)) \/ Begin("close", CloseBrowserWindow(t))
     \/ Begin("close", CloseBrowserWindow(None))
     \/ Begin("closeCurrent", CloseCurrentTab)
     \/ Begin("closeOthers", CloseAllOtherTabs)
     \/ Begin("closeSibling", CloseFirstSiblingTab)
     \/ Begin("toSibling", SwitchToFirstSiblingTab)
     \/ Begin("toMain", SwitchToMainSiblingTab)
     \/ Begin("newWindow", <<<<"new">>>>)
     \/ Begin("end", <<<<"end">>>>)
  /\ UNCHANGED <<browser, mainTabID, ids, cur, disturbed>>

-----------------------------------------------------------------------------
(* The steps.  A request finds a session or opens one with a tab.          *)

Now == Head(todo)
AtStep(name) == ~Idle /\ Now[1] = name
NoSession == tabs = <<>>
Tabs == IF NoSession THEN <<opened + 1>> ELSE tabs
Current == IF NoSession THEN opened + 1 ELSE current
Session == /\ NoSession => opened < MaxTabs
           /\ opened' = (IF NoSession THEN opened + 1 ELSE opened)

GoOn(rest) ==
  /\ todo' = rest
  /\ lastOp' = IF rest = <<>> THEN <<lastOp[1], "ok">> ELSE lastOp
Next1 == GoOn(Tail(todo))
Fails == todo' = <<>> /\ lastOp' = <<lastOp[1], "error">>

\* initMainTabId(): asks for the current tab when no main tab is known.
InitMainTabId ==
  /\ AtStep("init")
  /\ IF mainTabID # None
     THEN Next1 /\ UNCHANGED <<browser, mainTabID>>
     ELSE /\ Session /\ tabs' = Tabs /\ current' = Current
          /\ mainTabID' = Current
          /\ IF Current = None THEN Fails ELSE Next1
  /\ UNCHANGED <<ids, cur, calls, since, disturbed>>

GetTabIds ==
  /\ AtStep("ids")
  /\ Session /\ tabs' = Tabs /\ current' = Current
  /\ ids' = Tabs /\ Next1
  /\ UNCHANGED <<mainTabID, cur, calls, since, disturbed>>

GetCurrentTabId ==
  /\ AtStep("cur")
  /\ Session /\ tabs' = Tabs /\ current' = Current
  /\ cur' = Current
  /\ IF Current = None THEN Fails ELSE Next1
  /\ UNCHANGED <<mainTabID, ids, calls, since, disturbed>>

\* switchToWindow() of the driver fails for a tab that is gone.
Switch ==
  /\ AtStep("switch")
  /\ Session /\ tabs' = Tabs
  /\ IF Now[2] \in ToSet(Tabs) THEN current' = Now[2] /\ Next1 ELSE current' = Current /\ Fails
  /\ UNCHANGED <<mainTabID, ids, cur, calls, since, disturbed>>

\* Mutant: the main tab is not forgotten with the session.
ResetMainTabId_Never(t) == mainTabID
\* closeBrowserWindow() forgets the main tab with the last one.
ResetMainTabId(t) == IF ids = <<t>> THEN None ELSE mainTabID

\* close() of the driver: the last tab ends the session, another is closed and the
\* browser is on none.
DriverClose ==
  LET t == IF Now[2] = None THEN mainTabID ELSE Now[2]
  IN /\ AtStep("close")
     /\ mainTabID' = ResetMainTabId(t)
     /\ \/ /\ Tabs = <<t>>
           /\ tabs' = <<>> /\ current' = None /\ Session /\ Next1
        \/ /\ Tabs # <<t>> /\ t \in ToSet(Tabs)
           /\ tabs' = Without(tabs, t) /\ current' = None
           /\ Next1 /\ UNCHANGED opened
        \/ /\ t \notin ToSet(Tabs)
           /\ Session /\ tabs' = Tabs /\ current' = Current /\ Fails
     /\ disturbed' = (disturbed \/ (lastOp[1] = "close" /\ t = mainTabID /\ Tabs # <<t>>))
     /\ UNCHANGED <<ids, cur, calls, since>>

\* Mutant: the first tab left is made active, not made the main one.
Adopted_NoMain(t) == Window(t)
Adopted(t) == Window(t) \o <<<<"setMain", t>>>>

\* closeCurrentTab() goes on: with the close; then with the first tab left, when the
\* main one was closed, or to the main one.
ClosesCurrent ==
  \/ /\ AtStep("closeCurrent")
     /\ GoOn(CloseBrowserWindow(cur) \o <<<<"closed", cur = mainTabID>>>> \o Tail(todo))
     /\ UNCHANGED mainTabID
  \/ /\ AtStep("closed")
     /\ GoOn((IF Now[2] THEN <<<<"ids">>, <<"adopt">>>> ELSE SwitchToMainSiblingTab) \o Tail(todo))
     /\ UNCHANGED mainTabID
  \/ /\ AtStep("adopt")
     /\ GoOn(Adopted(ids[1]) \o Tail(todo)) /\ UNCHANGED mainTabID
  \/ /\ AtStep("setMain")
     /\ mainTabID' = Now[2] /\ Next1

\* Mutant: every tab is closed.
Others_All == ids
\* The tabs that closeAllOtherTabs() closes.
Others == Without(ids, mainTabID)

\* closeAllOtherTabs(), switchToFirstSiblingTab(), switchToMainSiblingTab() go on.
ChoosesTab ==
  /\ \/ /\ AtStep("closeOthers")
        /\ GoOn(<<<<"closeEach", Others>>>> \o SwitchToMainSiblingTab)
     \/ /\ AtStep("closeEach")
        /\ GoOn((IF Now[2] = <<>> THEN <<>> ELSE
                  Window(Now[2][1]) \o CloseBrowserWindow(Now[2][1]) \o <<<<"closeEach", Tail(Now[2])>>>>)
                \o Tail(todo))
     \/ /\ AtStep("toSibling")
        /\ LET siblings == Without(ids, mainTabID)
           IN GoOn((IF siblings = <<>> THEN <<>> ELSE Window(siblings[1])) \o Tail(todo))
     \/ /\ AtStep("toMain")
        /\ GoOn(Window(IF mainTabID \in ToSet(ids) THEN mainTabID ELSE ids[1]) \o Tail(todo))
  /\ UNCHANGED mainTabID

\* newWindow() opens a tab and goes to it; end() ends the session.
NewOrEnd ==
  \/ /\ AtStep("new") /\ opened + Len(Tabs) - Len(tabs) < MaxTabs
     /\ opened' = opened + 1 + Len(Tabs) - Len(tabs)
     /\ tabs' = Append(Tabs, opened') /\ current' = opened'
     /\ Next1 /\ UNCHANGED mainTabID
  \/ /\ AtStep("end")
     /\ tabs' = <<>> /\ current' = None /\ mainTabID' = None
     /\ Next1 /\ UNCHANGED opened

\* The page opens a tab of its own or closes one.
PageOpens ==
  /\ tabs # <<>> /\ opened < MaxTabs
  /\ opened' = opened + 1 /\ tabs' = Append(tabs, opened + 1) /\ since' = since \cup {opened + 1}
  /\ UNCHANGED <<current, mainTabID, command, disturbed>>

PageCloses ==
  \E t \in ToSet(tabs) :
    /\ Len(tabs) > 1
    /\ tabs' = Without(tabs, t) /\ current' = (IF current = t THEN None ELSE current)
    /\ disturbed' = TRUE
    /\ UNCHANGED <<opened, mainTabID, command, since>>

-----------------------------------------------------------------------------
TabsProgress ==
  \/ InitMainTabId \/ GetTabIds \/ GetCurrentTabId \/ Switch \/ DriverClose
  \/ (ClosesCurrent \/ ChoosesTab) /\ UNCHANGED <<browser, ids, cur, calls, since, disturbed>>
  \/ NewOrEnd /\ UNCHANGED <<ids, cur, calls, since, disturbed>>

TabsNext == TabsProgress \/ TabCommand \/ PageOpens \/ PageCloses
TabsSpec == TabsInit /\ [][TabsNext]_tabsVars

-----------------------------------------------------------------------------
(* What the commands leave behind                                          *)

EndedOk(names) == Idle /\ lastOp[1] \in names /\ lastOp[2] = "ok"

\* As long as the page closes no tab, and closeBrowserWindow() not the main one beside
\* others, the main tab is an open one; the commands that close tabs leave the browser
\* on an open tab; and of all tabs that were open only the main one is left by
\* closeAllOtherTabs().
TabsLeft ==
  Idle /\ ~disturbed =>
    /\ mainTabID = None \/ mainTabID \in ToSet(tabs)
    /\ EndedOk({"closeCurrent", "closeOthers", "closeSibling", "toMain"}) => current # None
    /\ EndedOk({"closeOthers"}) => ToSet(tabs) \ since = {mainTabID} /\ current = mainTabID
=============================================================================
