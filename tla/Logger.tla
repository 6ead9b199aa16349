--------------------------------- MODULE Logger ---------------------------------
(***************************************************************************)
(* core/logger: the steps that the clients of one process keep on a stack, *)
(* and the queue in which LoggerServer hands the entries of all processes  *)
(* to its plugins, one after the other, again after a failure.             *)
(*                                                                         *)
(* An entry whose plugin fails goes to the end of the queue; the retries   *)
(* it has left are those of whatever entry is next.  Without any left it   *)
(* is dropped (shouldSkip) or the error is thrown where nobody handles it, *)
(* which ends the process (node's default); so is the error of an onError   *)
(* hook, whatever is left.  The text, the format and the parents of an      *)
(* entry are left out.                                                     *)
(***************************************************************************)
EXTENDS Naturals, Sequences, FiniteSets, SequencesExt

CONSTANTS
  LogCalls,      \* the calls of the client's methods, each once
  LogSteps,      \* the calls of step()
  StepMessage,   \* the message of each
  MaxRetries,    \* bound on numberOfRetries
  MaxFaults      \* bound on the failures of plugins

ASSUME LoggerAssumption == MaxRetries \in Nat /\ MaxFaults \in Nat /\ IsFiniteSet(LogSteps)

VARIABLES
  numberOfRetries, shouldSkip, logLevel,  \* chosen once: the server's configuration
  awaited,       \* chosen once: the callers of step() await it
  lines,         \* the server: its queue, status, the runs of runQueue() and what became of entries
  reported,      \* the calls the server has accepted, in order
  filtered,      \* those it has not
  steps,         \* the stack of a client and of those made from it
  stepCall,      \* the calls of step()
  failures,      \* of plugins so far
  onErrorFailed  \* a hook of onError has rejected

loggerModes == <<numberOfRetries, shouldSkip, logLevel, awaited>>
faults == <<failures, onErrorFailed>>
loggerVars == <<loggerModes, lines, reported, filtered, steps, stepCall, faults>>

\* LogLevelNumeric.
LogLevelNumeric == [verbose |-> 0, debug |-> 1, info |-> 2, warning |-> 3, error |-> 4, silent |-> 5]

\* The levels of log(), info(), success(), screenshot(), file(), media(); of warn(),
\* error(), debug() and verbose().
ClientLevels == {"info", "warning", "error", "debug", "verbose"}

\* runs has one record for each runQueue() that awaits a plugin.
LoggerTypeOK ==
  /\ numberOfRetries \in 0..MaxRetries /\ shouldSkip \in BOOLEAN /\ awaited \in BOOLEAN
  /\ logLevel \in DOMAIN LogLevelNumeric /\ failures \in 0..MaxFaults
  /\ onErrorFailed \in BOOLEAN
  /\ lines.queue \in Seq(LogCalls) /\ lines.status \in {"EMPTY", "RUNNING"}
  /\ \A i \in 1..Len(lines.runs) :
       lines.runs[i] \in [entry : LogCalls, retry : 0..MaxRetries, at : {"beforeLog", "onLog", "onError"}]
  /\ lines.logged \in Seq(LogCalls) /\ lines.dropped \subseteq LogCalls
  /\ lines.thrown \subseteq LogCalls
  /\ reported \in Seq(LogCalls) /\ filtered \subseteq LogCalls /\ steps \in Seq(LogSteps)
  /\ stepCall \in [LogSteps -> {"new", "open", "over"}]

LoggerInit ==
  /\ numberOfRetries \in 0..MaxRetries /\ shouldSkip \in BOOLEAN /\ awaited \in BOOLEAN
  /\ logLevel \in {"debug", "error", "silent"}
  /\ lines = [queue |-> <<>>, status |-> "EMPTY", runs |-> <<>>, logged |-> <<>>,
              dropped |-> {}, thrown |-> {}]
  /\ reported = <<>> /\ filtered = {} /\ steps = <<>> /\ failures = 0 /\ onErrorFailed = FALSE
  /\ stepCall = [c \in LogSteps |-> "new"]

-----------------------------------------------------------------------------
(* logger-server.ts                                                        *)

\* The start of runQueue(): it takes the first entry and asks the plugins.
RunQueue(s, retry) ==
  IF s.queue = <<>> THEN [s EXCEPT !.status = "EMPTY"]
  ELSE [s EXCEPT !.queue = Tail(@), !.status = "RUNNING",
                 !.runs = Append(@, [entry |-> Head(s.queue), retry |-> retry, at |-> "beforeLog"])]

\* Mutant: every entry runs the queue.
Log_Always(s, c) == RunQueue([s EXCEPT !.queue = Append(@, c)], numberOfRetries)

\* log(): an entry runs the queue unless it is running.
Log(s, c) ==
  LET pushed == [s EXCEPT !.queue = Append(@, c)]
  IN IF s.status = "RUNNING" THEN pushed ELSE RunQueue(pushed, numberOfRetries)

\* silent, and the filter by level.
LevelPasses(level) == logLevel # "silent" /\ LogLevelNumeric[level] >= LogLevelNumeric[logLevel]

Ended == lines.thrown # {}

\* A client logs; the transport brings it to the server.
Report(c) ==
  /\ ~Ended /\ c \notin ToSet(reported) \cup filtered
  /\ \E level \in ClientLevels :
       IF LevelPasses(level)
       THEN lines' = Log(lines, c) /\ reported' = Append(reported, c) /\ UNCHANGED filtered
       ELSE filtered' = filtered \cup {c} /\ UNCHANGED <<lines, reported>>
  /\ UNCHANGED <<loggerModes, steps, stepCall, faults>>

Without(i) == [lines EXCEPT !.runs = RemoveAt(@, i)]
At(i, place) == lines' = [lines EXCEPT !.runs[i].at = place]

\* A plugin's hook resolves.
Hooked(i) ==
  LET r == lines.runs[i]
  IN /\ ~Ended
     /\ \/ r.at = "beforeLog" /\ At(i, "onLog")
        \/ r.at = "onLog" /\ lines' = RunQueue([Without(i) EXCEPT !.logged = Append(@, r.entry)], numberOfRetries)
     /\ UNCHANGED <<loggerModes, reported, filtered, steps, stepCall, faults>>

\* It rejects: onError is next.
HookFailed(i) ==
  /\ ~Ended /\ failures < MaxFaults
  /\ lines.runs[i].at \in {"beforeLog", "onLog"} /\ At(i, "onError")
  /\ failures' = failures + 1
  /\ UNCHANGED <<loggerModes, reported, filtered, steps, stepCall, onErrorFailed>>

\* Mutant: the entry is not queued again.
Retried_Forgotten(s, r) == RunQueue(s, r.retry - 1)
Retried(s, r) == RunQueue([s EXCEPT !.queue = Append(@, r.entry)], r.retry - 1)

\* Mutant: an entry is tried once more than it may be.
MayRetry_Once(r) == r.retry >= 0
MayRetry(r) == r.retry > 0

Thrown(i) == [Without(i) EXCEPT !.thrown = @ \cup {lines.runs[i].entry}]

\* onError has been told: try again, drop the entry or throw; or its hook rejects too.
ErrorTold(i) ==
  LET r == lines.runs[i]
  IN /\ ~Ended /\ r.at = "onError"
     /\ \/ /\ lines' = IF MayRetry(r) THEN Retried(Without(i), r)
                       ELSE IF shouldSkip
                       THEN RunQueue([Without(i) EXCEPT !.dropped = @ \cup {r.entry}], numberOfRetries)
                       ELSE Thrown(i)
           /\ UNCHANGED onErrorFailed
        \/ lines' = Thrown(i) /\ onErrorFailed' = TRUE
     /\ UNCHANGED <<loggerModes, reported, filtered, steps, stepCall, failures>>

-----------------------------------------------------------------------------
(* abstract-logger-client.ts                                               *)

\* step(): startStep() before the callback.  Bound: with a server that logs nothing,
\* as the stack and the queue have nothing in common.
StartStep(c) ==
  /\ stepCall[c] = "new" /\ logLevel = "silent"
  /\ steps' = Append(steps, c) /\ stepCall' = [stepCall EXCEPT ![c] = "open"]
  /\ UNCHANGED <<loggerModes, lines, reported, filtered, faults>>

\* Mutant: one step is popped, whatever it is.
PopTo_One(message) == IF steps = <<>> THEN <<>> ELSE Front(steps)

\* endStep(): pops until a step with the message has been popped.
PopTo(message) ==
  LET fits == {i \in 1..Len(steps) : StepMessage[steps[i]] = message}
  IN IF fits = {} THEN <<>> ELSE SubSeq(steps, 1, (CHOOSE i \in fits : \A j \in fits : j <= i) - 1)

\* The callback has settled.  An awaited step ends after those in its callback.
StepEnds(c) ==
  /\ stepCall[c] = "open"
  /\ awaited => steps # <<>> /\ Last(steps) = c
  /\ steps' = PopTo(StepMessage[c]) /\ stepCall' = [stepCall EXCEPT ![c] = "over"]
  /\ UNCHANGED <<loggerModes, lines, reported, filtered, faults>>

\* endAllSteps().
EndAllSteps ==
  /\ ~awaited /\ steps # <<>> /\ steps' = <<>>
  /\ UNCHANGED <<loggerModes, lines, reported, filtered, stepCall, faults>>

\* The plugins answer.
LoggerProgress == \E i \in 1..Len(lines.runs) : Hooked(i) \/ HookFailed(i) \/ ErrorTold(i)

LoggerNext ==
  \/ LoggerProgress
  \/ \E c \in LogCalls : Report(c)
  \/ \E c \in LogSteps : StartStep(c) \/ StepEnds(c)
  \/ EndAllSteps

LoggerSpec == LoggerInit /\ [][LoggerNext]_loggerVars
FairLoggerSpec == LoggerSpec /\ WF_loggerVars(LoggerProgress)

-----------------------------------------------------------------------------
(* What the logger promises                                                *)

\* Whether c was accepted before d.
Earlier(accepted, c, d) ==
  \E i, j \in 1..Len(accepted) : i < j /\ accepted[i] = c /\ accepted[j] = d

\* An accepted entry is in one place: queued, with the plugins, logged, dropped or
\* thrown; the plugins get one at a time, and a queue with entries is being run.
\* Without retries they are logged in the order in which they were reported.
LinesKept ==
  LET held == lines.queue \o [i \in 1..Len(lines.runs) |-> lines.runs[i].entry] \o lines.logged
  IN /\ IsInjective(held) /\ ToSet(held) \cap (lines.dropped \cup lines.thrown) = {}
     /\ ToSet(held) \cup lines.dropped \cup lines.thrown = ToSet(reported)
     /\ Len(lines.runs) <= 1
     /\ lines.queue # <<>> => lines.runs # <<>> \/ Ended
     /\ numberOfRetries = 0 =>
          \A i, j \in 1..Len(lines.logged) :
            i < j => Earlier(reported, lines.logged[i], lines.logged[j])

\* No more failures than retries, of whatever entries, drop nothing, and nothing is thrown
\* unless the hook of onError has rejected.
FailuresTolerated ==
  failures <= numberOfRetries => lines.dropped = {} /\ (Ended => onErrorFailed)

\* Awaited steps are on the stack in their order as long as they are open; of steps
\* that overlap there are never more with one message on it than are open.
StepsOnStack ==
  /\ awaited => ToSet(steps) = {c \in LogSteps : stepCall[c] = "open"}
  /\ \A c \in LogSteps :
       LET alike == {d \in LogSteps : StepMessage[d] = StepMessage[c]}
       IN Cardinality({i \in 1..Len(steps) : steps[i] \in alike})
            <= Cardinality({d \in alike : stepCall[d] = "open"})

\* In the end the queue is empty and the status says so.
LoggerQuiet == ~Ended => lines.status = "EMPTY" /\ lines.queue = <<>> /\ lines.runs = <<>>
=============================================================================
