------------------------------- MODULE MCServices -------------------------------
(***************************************************************************)
(* The services around a test, one at a time: the logger, the HTTP client   *)
(* and server, the two transports, the execution of a test in its worker,    *)
(* a file of the store, the devtool and the sandboxes share no state in the  *)
(* model, so a behaviour is one of one part and the others stay where they   *)
(* began.                                                                   *)
(***************************************************************************)
EXTENDS Logger, HttpRequests, WsTransport, DirectTransport, TestExecution, FSStoreFile,
        Devtool, Sandboxes, TLC

CONSTANTS g1, g2, g3, s1, s2, s3, r1, r2, r3, m1, m2, m3, p1, p2, q1, q2,
          c1, c2, c3, x, w1, w2, a1, a2, n1, f1, f2, f3

MCLogCalls == {g1, g2, g3}
MCLogSteps == {s1, s2, s3}
MCStepMessage == s1 :> "m" @@ s2 :> "n" @@ s3 :> "m"
MCRequests == {r1, r2, r3}
MCClientOf == r1 :> 1 @@ r2 :> 1 @@ r3 :> 2
MCWsMessages == {m1, m2, m3}
MCHandshakes == {m1}
MCCyclic == {m3}
MCProcs == {p1, p2}
MCPrefix == {<<p1, p2>>}
MCSends == {q1, q2}
MCMaxStarts == p1 :> 2 @@ p2 :> 1
MCOwnCalls == {c1, c2, c3}
MCTransactionCalls == {c2, c3}
MCOtherCalls == {x}
MCDevWorkers == {w1, w2}
MCDevApps == {a1, a2}
MCAppOwner == a1 :> w1 @@ a2 :> w2
MCConnections == {n1}
MCSourceFiles == {f1, f2, f3}
MCPackages == {f3}

VARIABLE part

servicesVars == <<part, loggerVars, httpVars, wsVars, transportVars, execVars, fileVars, devVars,
                  sandboxVars>>

\* The modes of the parts that rest are one of those they may begin with.
ServicesInit ==
  /\ part \in {"logger", "http", "ws", "transport", "execution", "file", "devtool", "sandboxes"}
  /\ HttpInit
  /\ LoggerInit /\ (part # "logger" => numberOfRetries = 0 /\ ~shouldSkip /\ ~awaited /\ logLevel = "debug")
  /\ WsInit /\ (part # "ws" => ~shouldReconnect)
  /\ TransportInit /\ (part # "transport" => \A q \in Sends : msg[q].to = p1)
  /\ ExecutionInit /\ (part # "execution" => ~waitForRelease /\ ~callbacksFail)
  /\ FileInit /\ (part # "file" => ~lockAtStart /\ ~fsFails)
  /\ DevInit /\ (part # "devtool" => serial)
  /\ SandboxInit /\ (part # "sandboxes" => packages = {} /\ \A f \in SourceFiles : requests[f] = <<>>)

OfLogger(A) == /\ part = "logger" /\ A
               /\ UNCHANGED <<part, httpVars, wsVars, transportVars, execVars, fileVars, devVars, sandboxVars>>
OfHttp(A) == /\ part = "http" /\ A
             /\ UNCHANGED <<part, loggerVars, wsVars, transportVars, execVars, fileVars, devVars, sandboxVars>>
OfWs(A) == /\ part = "ws" /\ A
           /\ UNCHANGED <<part, loggerVars, httpVars, transportVars, execVars, fileVars, devVars, sandboxVars>>
OfTransport(A) == /\ part = "transport" /\ A
                  /\ UNCHANGED <<part, loggerVars, httpVars, wsVars, execVars, fileVars, devVars, sandboxVars>>
OfExecution(A) == /\ part = "execution" /\ A
                  /\ UNCHANGED <<part, loggerVars, httpVars, wsVars, transportVars, fileVars, devVars, sandboxVars>>
OfFile(A) == /\ part = "file" /\ A
             /\ UNCHANGED <<part, loggerVars, httpVars, wsVars, transportVars, execVars, devVars, sandboxVars>>
OfDevtool(A) == /\ part = "devtool" /\ A
                /\ UNCHANGED <<part, loggerVars, httpVars, wsVars, transportVars, execVars, fileVars, sandboxVars>>
OfSandboxes(A) == /\ part = "sandboxes" /\ A
                  /\ UNCHANGED <<part, loggerVars, httpVars, wsVars, transportVars, execVars, fileVars, devVars>>

ServicesNext ==
  \/ OfLogger(LoggerNext) \/ OfHttp(HttpNext) \/ OfWs(WsNext) \/ OfTransport(TransportNext)
  \/ OfExecution(ExecutionNext) \/ OfFile(FileNext) \/ OfDevtool(DevNext) \/ OfSandboxes(SandboxNext)

ServicesProgress ==
  \/ OfLogger(LoggerProgress) \/ OfHttp(HttpProgress) \/ OfWs(WsProgress)
  \/ OfTransport(TransportProgress) \/ OfExecution(ExecutionProgress) \/ OfFile(FileProgress)
  \/ OfDevtool(DevProgress) \/ OfSandboxes(SandboxProgress)

ServicesSpec ==
  ServicesInit /\ [][ServicesNext]_servicesVars /\ WF_servicesVars(ServicesProgress)

\* The types of all parts.
ServicesTypeOK ==
  /\ part = "logger" => LoggerTypeOK
  /\ part = "http" => HttpTypeOK
  /\ part = "ws" => WsTypeOK
  /\ part = "transport" => TransportTypeOK
  /\ part = "execution" => ExecutionTypeOK
  /\ part = "file" => FileTypeOK
  /\ part = "devtool" => DevTypeOK
  /\ part = "sandboxes" => SandboxTypeOK

\* No entry of the log is lost, failed more often than it may, or left on the stack of
\* steps; a client makes one request at a time; messages pass the socket in the order in
\* which they were sent; a send to a process waits only for one that can answer: the
\* invariants of Logger, HttpRequests, WsTransport and DirectTransport.
MessagesKept ==
  /\ part = "logger" => LinesKept /\ FailuresTolerated /\ StepsOnStack
  /\ part = "http" => OneRequestAtATime
  /\ part = "ws" => WsInOrder /\ OneSocket
  /\ part = "transport" => PendingRegistered /\ ResolvedForAReason

\* A test in its worker is settled by its own end, its callbacks are called and the
\* devtool is told of every pause: OwnVerdict, AfterRunCalled and PauseTold of
\* TestExecution.
ExecutionKeeps == part = "execution" => OwnVerdict /\ AfterRunCalled /\ PauseTold

\* A file object writes only with an access of its own, its locks are the ones the server
\* knows, and its transactions exclude each other: AccessIsMine, LocksMatch and
\* OneTransaction of FSStoreFile.
FilesKept == part = "file" => AccessIsMine /\ LocksMatch /\ OneTransaction

\* The devtool finds the web applications of a worker and their owner, and the code of a
\* test finds the files it required, one sandbox for each: the invariants of Devtool and
\* Sandboxes.
CodeAndPagesFound ==
  /\ part = "devtool" => AppsFollowWorker /\ ActionsToOwner /\ NoStaleListener
  /\ part = "sandboxes" => DictionaryComplete /\ OneSandbox /\ PartialInCycle

\* In the end the queues are empty or stopped by what their modules name, and every call
\* that can be answered has been.
ServicesQuiet ==
  /\ LoggerQuiet /\ HttpQuiet /\ WsQuiet /\ TransportQuiet /\ FileQuiet /\ DevQuiet
  /\ part = "execution" => ExecutionQuiet
  /\ part = "sandboxes" => SandboxQuiet
ServicesAnswer == <>[]ServicesQuiet
=============================================================================
