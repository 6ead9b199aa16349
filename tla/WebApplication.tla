----------------------------- MODULE WebApplication -----------------------------
(***************************************************************************)
(* packages/web-application: the commands of a test as its promises, its   *)
(* log and the requests to the browser see them.  Nearly every method is   *)
(* wrapped by stepLog: it awaits initPromise, opens a step of the log      *)
(* unless one is open (isLogOpened), runs the method, whose own calls of   *)
(* wrapped methods are wrapped as well, and closes the step.  A method is  *)
(* a sequence of requests, which the WebApplicationController of the main  *)
(* process runs and answers by uid; the calls a method makes of others are *)
(* modelled one level deep.  Assertions log a step of their own.           *)
(*                                                                         *)
(* A rejection nobody handles ends the process (node's default): one of    *)
(* initPromise, or of the screenshot made for a failed command.  The       *)
(* breakpoint after the instruction is awaited beside the method and holds *)
(* back nothing; it is left out, as are the devtool's highlights.          *)
(***************************************************************************)
EXTENDS Naturals, Sequences, FiniteSets, SequencesExt

CONSTANTS
  AppCalls,     \* the commands of the test, each once
  MaxPolls      \* bound on the repetitions of a request in one command

ASSUME AppAssumption == MaxPolls \in Nat

VARIABLES
  parallel,       \* chosen once: the test does not await its commands
  screenshots,    \* chosen once: config.screenshotsEnabled
  initFails,      \* chosen once: setCustomBrowserClientConfig() rejects
  isLogOpened,
  stepStack,      \* of the loggers of this process; "test" is a step of the test's own
  breakpoint,     \* that before the instruction is set
  call,           \* the wrapped calls
  softErrors,     \* the assertions recorded in _errorMessages
  process,        \* of the test: "up", or "ended" by an unhandled rejection
  controller      \* of the web application: "up", "killed", or "ended" like the test's process

appModes == <<parallel, screenshots, initFails>>
logState == <<isLogOpened, stepStack>>
appVars == <<appModes, logState, breakpoint, call, softErrors, process, controller>>

-----------------------------------------------------------------------------
(* The methods: what each asks for, in order.  "ask" is a request, "asks"  *)
(* one or more, "try" and "tries" those whose failure is ignored, "exist"  *)
(* a wrapped call of waitForExist(), "call" one of another method, "float" *)
(* one that is not awaited, "shot" a screenshot when they are enabled.     *)

\* waitForExist(), whose move to the element may fail.
WaitForExist == <<"ask", "tries">>
\* waitForRoot(), waitForNotExists() and every method that asks once.
OneRequest == <<"ask">>
\* waitForVisible(); waitForNotVisible(), which waits for the root.
VisibleMethods == {<<"exist", "ask">>, <<"call", "asks">>}
\* openPage() without its timer: url(), documentReadyWait().
OpenPage == <<"call", "asks">>
\* isBecomeVisible(), isBecomeHidden().
BecomeMethods == {<<"try">>, <<"asks">>}
\* click(), clickButton(), clickCoordinates(), which may ask for the size.
ClickMethods == {<<"exist", "shot", "ask">>, <<"exist", "shot", "asks">>}
\* getSize(), getValue().
ValueMethods == {<<"exist", "ask">>}
\* setValue() with emulateViaJS does not await simulateJSFieldChange().
SetValueByScript == <<"exist", "float", "shot">>
\* simulateJSField...(), clearElement() by keys or script, clearValue(), setValue().
FieldMethods ==
  {<<"call">>, OneRequest, <<"exist", "ask", "exist", "ask">>, <<"exist", "call">>, <<"exist", "ask">>,
   <<"call", "shot">>, <<"exist", "ask", "shot">>, SetValueByScript}
\* getText() and its siblings, which ask for the elements and each one's text; of options.
TextMethods == {<<"exist", "asks">>, <<"exist", "ask">>, <<"call">>}
\* selectNotCurrent(), selectByIndex() and its siblings, getSelectedText().
SelectMethods == {<<"call", "ask", "call">>, <<"exist", "ask">>, <<"exist", "ask", "try">>}
\* getElementsIds(), isChecked(), setChecked(), isVisible(), getAttribute(), isReadOnly() and the like.
StateMethods == {<<"exist", "call">>, <<"exist", "asks">>, <<"call", "ask">>, <<"call">>}
\* maximizeWindow(), moveToObject(), scroll() and its siblings, dragAndDrop().
MoveMethods == {<<"try">>, <<"call", "ask">>, <<"exist", "ask">>, <<"exist", "exist", "ask">>}
\* elements(), getElementsCount(), notExists(), isElementsExist().
CountMethods == {OneRequest, <<"call", "call">>, <<"call">>}
\* isAlertOpen(), waitForAlert(), which ignores what it finds, alertAccept() and its siblings.
AlertMethods == {OneRequest, <<"tries">>, <<"call", "ask">>}
\* getHTML(), cookies, frames, execute(); pause() asks for nothing.
FrameMethods == {<<"exist", "ask">>, OneRequest, <<"call">>, <<>>}
\* url() with or without the registration in the devtool and its handshake.
UrlMethods == {OneRequest, <<"asks">>}
\* keys(), refresh(), uploadFile(), makeElementScreenshot(), end() with its deregistration.
KeyMethods == {OneRequest, <<"exist", "ask">>, <<"asks">>}
\* getCssProperty(), isExisting(), waitForValue(), selectByAttribute(), addValue() and the like.
ElementMethods == {<<"exist", "ask">>, OneRequest}
\* waitForClickable(), isClickable(), isFocused() and the like.
CheckMethods == {OneRequest}

Methods ==
  UNION {{WaitForExist, OneRequest, OpenPage}, VisibleMethods, BecomeMethods, ClickMethods, ValueMethods,
         FieldMethods, TextMethods, SelectMethods, StateMethods, MoveMethods, CountMethods, AlertMethods,
         FrameMethods, UrlMethods, KeyMethods, ElementMethods, CheckMethods}

\* Bound: what commands after the first or beside another are made of.
ShortMethods == {OneRequest, <<"call">>}

-----------------------------------------------------------------------------
\* A wrapped call: one of the test's commands or the one it has made of another.
Wrapped == AppCalls \X {"command", "inner"}
Command(c) == <<c, "command">>
Inner(w) == <<w[1], "inner">>

\* kind: of an openPage() its "timer", of SetValueByScript its "float"; an assertion
\* has "passed" or "failed".  asked: the repetitions of a request.  opened: its step
\* is (or was) in the log.
NotCalled == [pc |-> "idle", rest |-> <<>>, kind |-> "plain", soft |-> FALSE, asked |-> 0,
              opened |-> FALSE, settled |-> "no"]

AppTypeOK ==
  /\ parallel \in BOOLEAN /\ screenshots \in BOOLEAN /\ initFails \in BOOLEAN
  /\ isLogOpened \in BOOLEAN /\ breakpoint \in {"none", "set", "broken"}
  /\ \A i \in 1..Len(stepStack) : stepStack[i] \in Wrapped \cup {<<"test">>}
  /\ \A w \in Wrapped :
       /\ call[w].pc \in {"idle", "init", "before", "run", "asked", "inner", "rejected", "shot",
                          "closing", "over"}
       /\ call[w].kind \in {"plain", "timer", "float", "passed", "failed"}
       /\ call[w].settled \in {"no", "ok", "error"} /\ call[w].asked \in 0..MaxPolls
  /\ softErrors \subseteq AppCalls
  /\ process \in {"up", "ended"} /\ controller \in {"up", "killed", "ended"}

\* Bound: at most two of the modes and the breakpoint at a time.
AppInit ==
  /\ parallel \in BOOLEAN /\ screenshots \in BOOLEAN /\ initFails \in BOOLEAN
  /\ breakpoint \in {"none", "set"}
  /\ Cardinality({b \in 1..4 : <<parallel, screenshots, initFails, breakpoint = "set">>[b]}) <= 2
  /\ isLogOpened = FALSE /\ stepStack = <<<<"test">>>>
  /\ call = [w \in Wrapped |-> NotCalled] /\ softErrors = {}
  /\ process = "up" /\ controller = "up"

\* endStep(): pops the steps above its own, and all steps when its own is not there.
EndStep(w) ==
  IF w \in ToSet(stepStack)
  THEN SubSeq(stepStack, 1, SelectLastInSeq(stepStack, LAMBDA s : s = w) - 1)
  ELSE <<>>

Settled(w) == call[w].settled # "no"
Set(w, r) == call' = [call EXCEPT ![w] = r]

\* The test makes its next call, when the last one has settled or at once.
MayCall(c) ==
  /\ process = "up" /\ call[Command(c)].pc = "idle"
  /\ parallel \/ \A d \in AppCalls : call[Command(d)].pc # "idle" => Settled(Command(d))

Call(c) ==
  /\ MayCall(c)
  /\ \E m \in IF ~parallel /\ (\A w \in Wrapped : call[w].pc = "idle") THEN Methods ELSE ShortMethods,
        timer \in BOOLEAN :
       /\ timer => m = OpenPage
       /\ Set(Command(c), [NotCalled EXCEPT !.pc = "init", !.rest = m,
                             !.kind = IF timer THEN "timer" ELSE IF m = SetValueByScript THEN "float" ELSE "plain"])
  /\ UNCHANGED <<appModes, logState, breakpoint, softErrors, process, controller>>

\* After initPromise: with an open step the method runs at once.
Initialised(w) ==
  /\ process = "up" /\ call[w].pc = "init" /\ ~initFails
  /\ Set(w, [call[w] EXCEPT !.pc = IF isLogOpened THEN "run" ELSE "before"])
  /\ UNCHANGED <<appModes, logState, breakpoint, softErrors, process, controller>>

\* initPromise rejects and nobody handles it, whether or not a call awaits it.
InitRejects ==
  /\ process = "up" /\ initFails
  /\ process' = "ended"
  /\ UNCHANGED <<appModes, logState, breakpoint, call, softErrors, controller>>

\* Without one it awaits the breakpoint (at least a turn of the microtask queue),
\* then opens its own, also when another call has opened one meanwhile.
OpenStep(w) ==
  /\ process = "up" /\ call[w].pc = "before"
  /\ \/ /\ breakpoint = "none"
        /\ stepStack' = Append(stepStack, w) /\ isLogOpened' = TRUE
        /\ Set(w, [call[w] EXCEPT !.pc = "run", !.opened = TRUE])
        /\ UNCHANGED process
     \/ /\ breakpoint = "broken"
        /\ process' = "ended" /\ UNCHANGED <<call, logState>>
  /\ UNCHANGED <<appModes, breakpoint, softErrors, controller>>

\* Mutant: the call it makes is not awaited.
CallsInner_NotAwaited(w, r, body) ==
  call' = [call EXCEPT ![w] = [@ EXCEPT !.rest = Tail(@)],
                       ![Inner(w)] = [NotCalled EXCEPT !.pc = "init", !.rest = body]]

\* The method calls another wrapped one.
CallsInner(w, r, body) ==
  call' = [call EXCEPT ![w] = r, ![Inner(w)] = [NotCalled EXCEPT !.pc = "init", !.rest = body]]

\* The method goes on with what it asks for next.
Goes(w) ==
  LET r == call[w]
      next == Head(r.rest)
  IN /\ process = "up" /\ r.pc = "run" /\ r.rest # <<>>
     /\ \/ /\ next \in {"ask", "asks", "try", "tries"} \/ (next = "shot" /\ screenshots)
           /\ Set(w, [r EXCEPT !.pc = "asked"])
        \/ next = "shot" /\ ~screenshots /\ Set(w, [r EXCEPT !.rest = Tail(@)])
        \/ next = "exist" /\ CallsInner(w, [r EXCEPT !.pc = "inner"], WaitForExist)
        \/ next = "call" /\ CallsInner(w, [r EXCEPT !.pc = "inner"], OneRequest)
        \/ next = "float" /\ CallsInner(w, [r EXCEPT !.rest = Tail(@)], OneRequest)
     /\ UNCHANGED <<appModes, logState, breakpoint, softErrors, process, controller>>

\* Mutant: the end of a step leaves isLogOpened set.
Close_Open(w) == stepStack' = EndStep(w) /\ UNCHANGED isLogOpened
Close(w) == stepStack' = EndStep(w) /\ isLogOpened' = FALSE

\* The method resolves: the step is closed, then the promise resolves.
Resolves(w) ==
  /\ process = "up" /\ call[w].pc = "run" /\ call[w].rest = <<>>
  /\ call[w].kind \notin {"passed", "failed"}
  /\ Set(w, [call[w] EXCEPT !.pc = "over", !.settled = IF @ = "no" THEN "ok" ELSE @])
  /\ IF call[w].opened THEN Close(w) ELSE UNCHANGED logState
  /\ UNCHANGED <<appModes, breakpoint, softErrors, process, controller>>

\* Mutant: the step is closed and the promise left as it is.
Rejected_Silent(r) == [r EXCEPT !.rest = <<>>, !.pc = IF r.opened THEN "shot" ELSE "over"]

\* It rejects: the promise rejects at once, the step is closed after the screenshot
\* of asyncErrorHandler().
Rejected(r) ==
  IF r.kind \in {"passed", "failed"} THEN [r EXCEPT !.pc = "rejected"]
  ELSE [r EXCEPT !.settled = IF @ = "no" THEN "error" ELSE @, !.rest = <<>>,
                 !.pc = IF r.opened THEN "shot" ELSE "over"]

\* The wrapped call it waits for has settled.
InnerSettled(w) ==
  /\ process = "up" /\ call[w].pc = "inner" /\ Settled(Inner(w))
  /\ Set(w, IF call[Inner(w)].settled = "ok" THEN [call[w] EXCEPT !.pc = "run", !.rest = Tail(@)]
            ELSE Rejected(call[w]))
  /\ UNCHANGED <<appModes, logState, breakpoint, softErrors, process, controller>>

\* makeScreenshot() ends and the step is closed, or fails and nobody handles it.
ErrorHandled(w) ==
  /\ process = "up" /\ call[w].pc = "shot" /\ (controller = "up" \/ ~screenshots)
  /\ \/ Close(w) /\ Set(w, [call[w] EXCEPT !.pc = "closing"]) /\ UNCHANGED process
     \/ screenshots /\ process' = "ended" /\ UNCHANGED <<call, logState>>
  /\ UNCHANGED <<appModes, breakpoint, softErrors, controller>>

\* The then() after the catch() runs as well: the step is closed a second time.
ClosesAgain(w) ==
  /\ process = "up" /\ call[w].pc = "closing"
  /\ Close(w) /\ Set(w, [call[w] EXCEPT !.pc = "over"])
  /\ UNCHANGED <<appModes, breakpoint, softErrors, process, controller>>

\* openPage(): the timer rejects, the method goes on in the background.
PageTimeout(w) ==
  /\ process = "up" /\ call[w].kind = "timer" /\ ~Settled(w) /\ call[w].pc \in {"run", "asked", "inner"}
  /\ Set(w, [call[w] EXCEPT !.settled = "error"])
  /\ UNCHANGED <<appModes, logState, breakpoint, softErrors, process, controller>>

-----------------------------------------------------------------------------
(* Assertions: createAssertion() with the handlers of the web application. *)

\* The check itself: it logs a step in which it makes a screenshot.
CallAssertion(c) ==
  /\ MayCall(c) /\ ~parallel
  /\ \E kind \in {"passed", "failed"}, soft \in BOOLEAN :
       Set(Command(c), [NotCalled EXCEPT !.pc = "run", !.rest = <<"shot">>, !.kind = kind, !.soft = soft])
  /\ stepStack' = Append(stepStack, Command(c))
  /\ UNCHANGED <<appModes, isLogOpened, breakpoint, softErrors, process, controller>>

\* Mutant: a soft assertion records its error before it is handled.
Recorded_Early(c) == IF call[Command(c)].soft THEN softErrors' = softErrors \cup {c} ELSE UNCHANGED softErrors
\* A handled error is recorded by a soft assertion and thrown by another.
Recorded(c) ==
  IF call[Command(c)].soft /\ call[Command(c)].pc = "run"
  THEN softErrors' = softErrors \cup {c} ELSE UNCHANGED softErrors

\* Its handler has ended, or its screenshot failed: in onSuccess that fails the
\* assertion, in onError the error of the handler is thrown, soft or not.
AssertHandled(c) ==
  LET w == Command(c)
      r == call[w]
      over == [r EXCEPT !.pc = "over"]
  IN /\ process = "up" /\ ((r.pc = "run" /\ r.rest = <<>>) \/ r.pc = "rejected")
     /\ \/ /\ r.kind = "passed" /\ r.pc = "run"
           /\ Set(w, [over EXCEPT !.settled = "ok"])
           /\ stepStack' = EndStep(w) /\ UNCHANGED softErrors
        \/ /\ r.kind = "passed" /\ r.pc = "rejected"
           /\ Set(w, [r EXCEPT !.kind = "failed", !.pc = "run", !.rest = <<"shot">>])
           /\ stepStack' = Append(EndStep(w), w) /\ UNCHANGED softErrors
        \/ /\ r.kind = "failed"
           /\ Set(w, [over EXCEPT !.settled = IF r.soft /\ r.pc = "run" THEN "ok" ELSE "error"])
           /\ stepStack' = EndStep(w) /\ Recorded(c)
     /\ UNCHANGED <<appModes, isLogOpened, breakpoint, process, controller>>

-----------------------------------------------------------------------------
(* The requests                                                            *)

\* makeRequest() gets the response with its uid.
Answered(w, ok) ==
  IF ok \/ Head(call[w].rest) \in {"try", "tries"}
  THEN [call[w] EXCEPT !.pc = "run", !.rest = Tail(@), !.asked = 0]
  ELSE Rejected(call[w])

\* The answer leaves something to ask: another element, a page that is not ready.
AskAgain(w) ==
  /\ Head(call[w].rest) \in {"asks", "tries"} /\ call[w].asked < MaxPolls
  /\ Set(w, [call[w] EXCEPT !.asked = @ + 1])

\* onExecuteRequest() of the controller: the browser proxy has executed the command
\* and the response goes to the process that asked.  When that has ended, neither
\* the response nor the error that follows can be sent.
Respond(w) ==
  /\ call[w].pc = "asked" /\ controller = "up"
  /\ IF process = "up"
     THEN /\ (\E ok \in BOOLEAN : Set(w, Answered(w, ok))) \/ AskAgain(w)
          /\ UNCHANGED controller
     ELSE /\ Set(w, [call[w] EXCEPT !.pc = "over"])
          /\ controller' = "ended"
  /\ UNCHANGED <<appModes, logState, breakpoint, softErrors, process>>

\* kill() of the controller: answers are dropped from now on.
KillController ==
  /\ controller = "up"
  /\ controller' = "killed"
  /\ UNCHANGED <<appModes, logState, breakpoint, call, softErrors, process>>

\* The breakpoint is released, or the stack broken (release of the worker controller).
Release ==
  /\ breakpoint = "set" /\ process = "up"
  /\ breakpoint' \in {"none", "broken"}
  /\ UNCHANGED <<appModes, logState, call, softErrors, process, controller>>

-----------------------------------------------------------------------------
\* Microtasks run, the browser answers, a breakpoint is released.
AppProgress ==
  \/ \E w \in Wrapped : Initialised(w) \/ OpenStep(w) \/ Goes(w) \/ Resolves(w) \/ InnerSettled(w)
                        \/ ErrorHandled(w) \/ ClosesAgain(w) \/ Respond(w)
  \/ \E c \in AppCalls : AssertHandled(c)
  \/ InitRejects \/ Release

AppNext ==
  \/ AppProgress
  \/ \E c \in AppCalls : Call(c) \/ CallAssertion(c)
  \/ \E w \in Wrapped : PageTimeout(w)
  \/ KillController

AppSpec == AppInit /\ [][AppNext]_appVars
FairAppSpec == AppSpec /\ WF_appVars(AppProgress)

-----------------------------------------------------------------------------
(* What a test may rely on                                                 *)

\* As long as a test awaits its commands and none has failed, the steps it has opened
\* itself stay open, and between two commands nothing of them is left in the log.
StepsKept ==
  /\ ~parallel /\ process = "up"
  /\ \A w \in Wrapped : call[w].settled # "error" /\ call[w].kind \notin {"timer", "float", "failed"}
  => /\ stepStack # <<>> /\ stepStack[1] = <<"test">>
     /\ (\A w \in Wrapped : call[w].pc \in {"idle", "over"})
        => ~isLogOpened /\ stepStack = <<<<"test">>>>

\* A command that has settled asks for nothing any more, and nor does a call it has
\* made: only an openPage() out of time and a setValue() by script go on.
NothingStray ==
  \A c \in AppCalls :
    Settled(Command(c)) /\ call[Command(c)].kind \notin {"timer", "float"} =>
      \A w \in {Command(c), Inner(Command(c))} : call[w].pc \in {"idle", "shot", "closing", "over"}

\* An assertion that failed, also by its own screenshot, is heard of exactly once: it
\* rejects or is among the errors of the soft assertions.
AssertionsHeard ==
  \A c \in AppCalls :
    LET r == call[Command(c)]
    IN IF r.kind = "failed" /\ r.settled # "no"
       THEN (r.settled = "error") # (c \in softErrors) ELSE c \notin softErrors

\* In the end every command has settled, unless its process or the controller is gone.
AppQuiet ==
  process = "up" /\ controller = "up" =>
    \A c \in AppCalls : call[Command(c)].pc # "idle" => Settled(Command(c))
AppCallsSettle == <>[]AppQuiet
=============================================================================
