----------------------------- MODULE ExecutionProofs -----------------------------
(***************************************************************************)
(* The execution of tests, the devtool, the sandboxes and the logger, for  *)
(* any number of tests, callbacks, workers, applications, messages, files, *)
(* entries and steps, any retries and failures: ServicesProofs states the  *)
(* theorems, of the services together.                                     *)
(*                                                                         *)
(* TestExecution: the tests that have started are the first ones and at    *)
(* most one of them has not completed (TestsInTurn), so an end is that of  *)
(* the test it settles; without the devtool no test is ever paused or      *)
(* released (OnItsOwn).  CallbacksKept says where the one callback of a    *)
(* test is while nothing rejects and no breakpoint is broken.  PauseInv is *)
(* about the record of the pause, as its lemmas are.                       *)
(*                                                                         *)
(* Devtool: a store is of one worker, for the worker, its applications and *)
(* the messages that carry it alike (OneOwner); one message at a time      *)
(* carries the store its worker has (StoreOfWorker).  An application is    *)
(* registered once (RegisteredOnce), which is what keeps it from being     *)
(* attached to a store that its worker has left.  Of a connection,         *)
(* SubscribedOnce: the stores that tell it are the one it will leave.      *)
(*                                                                         *)
(* Sandboxes: a file of the cache has been read to its end, and has its    *)
(* node, or is on the stack of buildNodes() with what has been read of it  *)
(* (BuildKept); so at the end the nodes are closed under require().  A     *)
(* sandbox is found by its path, in the run that made it (CachedByPath,    *)
(* OfTheRun).                                                              *)
(*                                                                         *)
(* Logger: Placed and Ordered say place by place what LinesKept says of    *)
(* the sequences put behind each other.  They rest on Running (the status  *)
(* is that of the one run, so a second run never starts) and, for the      *)
(* entries dropped and thrown, on Counted: the tries that the entry with   *)
(* the plugins has lost are failures that have happened, although they     *)
(* may have been those of another entry.  StackKept: a step that ends      *)
(* takes at least one step with its message from the stack, or all.        *)
(***************************************************************************)
EXTENDS TestExecution, Devtool, Sandboxes, Logger, SequenceTheorems,
        FiniteSetTheorems, WellFoundedInduction, TLAPS

\* What push does to a queue, element by element.
LEMMA PushFacts ==
  ASSUME NEW S, NEW s \in Seq(S), NEW e \in S
  PROVE  /\ Append(s, e) \in Seq(S) /\ Append(s, e) # <<>>
         /\ DOMAIN s = 1..Len(s) /\ Len(s) \in Nat
         /\ Len(Append(s, e)) = Len(s) + 1
         /\ DOMAIN Append(s, e) = 1..(Len(s) + 1)
         /\ \A i \in DOMAIN s : Append(s, e)[i] = s[i]
         /\ Append(s, e)[Len(s) + 1] = e
OBVIOUS

\* Every set of naturals that is not empty has a least element.
LEMMA LeastNumber ==
  ASSUME NEW T \in SUBSET Nat, T # {}
  PROVE  \E x \in T : \A y \in T : x <= y
<1> DEFINE R == {p \in Nat \X Nat : p[1] < p[2]}
<1>1. IsWellFoundedOn(R, Nat)
  BY NatLessThanWellFounded DEF OpToRel
<1>2. \E x \in T : \A y \in T : ~ (<<y, x>> \in R)
  <2> HIDE DEF R
  <2> QED
    BY <1>1, WFMin, Zenon
<1>3. PICK x \in T : \A y \in T : ~ (<<y, x>> \in R)
  BY <1>2
<1>4. ASSUME NEW y \in T PROVE x <= y
  <2>1. x \in Nat /\ y \in Nat /\ <<y, x>> \notin R
    BY <1>3
  <2> QED
    BY <2>1
<1> QED
  BY <1>4

-----------------------------------------------------------------------------
(* TestExecution                                                           *)

PauseTyped ==
  /\ executionState \in [paused : BOOLEAN, pending : BOOLEAN, pausedTilNext : BOOLEAN]
  /\ breakpoints \in [Types -> {"none", "set", "broken"}]
  /\ waiting \in [Waiters -> Types \cup {"no", "released", "rejected"}]

TestSet == [at : {"new", "start", "flushed", "body", "over"},
            verdict : {"none", "passed", "failed", "broken"},
            heard : {"no", "finished", "failed", "broken", "taken"}]
CompletionSet == [of : 0..NumTests, status : {"done", "failed"}, rest : Seq(ExecTests), live : BOOLEAN,
                  at : {"none", "flushAfter", "callbacks", "flushed", "sent"}]

\* The types of what is not about pauses, for any number of calls of a callback.
ExecTyped ==
  /\ test \in [ExecTests -> TestSet]
  /\ listeners \subseteq ExecTests /\ afterRunCallbacks \in Seq(ExecTests)
  /\ completion \in [Completions -> CompletionSet] /\ called \in [ExecTests -> Nat]

\* Who waits does so at a breakpoint that is set, and is rejected when one is broken.
AtSet ==
  \A w \in Waiters : /\ \A b \in Types : waiting[w] = b => breakpoints[b] = "set"
                     /\ waiting[w] = "rejected" => \E b \in Types : breakpoints[b] = "broken"

PauseInv == PauseTyped /\ PauseTold /\ AtSet

\* One test after the other: before one starts those before it have completed.
TestsInTurn ==
  /\ \A m, n \in ExecTests : m < n /\ test[n].at # "new" => test[m].at # "new" /\ Completed(m)
  /\ \A c \in Completions : completion[c].at = "none" <=> completion[c].of = 0
  /\ \A n \in ExecTests, c \in Completions : completion[c].of = n => test[n].at # "new"
  /\ \A n \in ExecTests : test[n].at = "new" => test[n].verdict = "none" /\ test[n].heard = "no" /\ n \notin listeners

\* No test completes twice.
CompletedOnce ==
  \A c, d \in Completions : completion[c].of = completion[d].of /\ completion[c].of # 0 => c = d

\* Nothing is set and nobody waits.
NothingSet == (\A b \in Types : breakpoints[b] = "none") /\ (\A w \in Waiters : waiting[w] = "no")

\* A test is listened to until it has been heard of.  One whose file did not throw, and
\* that began when no other ran, runs alone while it is listened to.  Another runs beside
\* it only after a file threw.
Plain(n) == n \notin threw /\ n \notin beside
RunsAlone(n) ==
  /\ n \in listeners <=> test[n].at \in {"start", "flushed", "body"}
  /\ n \in listeners => \A m \in ExecTests : m # n => test[m].at \in {"new", "over"}
  /\ test[n].verdict = "failed" => test[n].heard \in {"failed", "taken"}
  /\ test[n].verdict = "passed" => test[n].heard \in {"finished", "taken"}
Heard(n) ==
  /\ n \in listeners <=> test[n].at # "new" /\ test[n].heard = "no"
  /\ n \in threw => test[n].at # "new" /\ test[n].heard \in {"failed", "taken"}
  /\ n \in beside => test[n].at # "new" /\ \E m \in ExecTests : m \in threw /\ m < n
  /\ Plain(n) => RunsAlone(n)

\* One that completes has been heard of.
CompletesAs(c, n) ==
  /\ test[n].heard = "taken"
  /\ n \in threw => completion[c].status = "failed"
  /\ Plain(n) => /\ test[n].verdict = "failed" => completion[c].status = "failed"
                 /\ test[n].verdict = "passed" => completion[c].status = "done"

\* Without the devtool a test goes on by itself and completes once.
OnItsOwn ==
  ~waitForRelease =>
    /\ NothingSet /\ CompletedOnce
    /\ \A n \in ExecTests : Heard(n) /\ \A c \in Completions : completion[c].of = n => CompletesAs(c, n)

\* Nothing rejects, nothing is broken, and no test has completed twice.
Undisturbed ==
  ~callbacksFail /\ (\A b \in Types : breakpoints[b] # "broken") /\ CompletedOnce

\* The callback of n, if it has one, in the list, and how often it is called.
Ran(n) == test[n].at \in {"start", "flushed", "body"} \/ test[n].verdict # "none"
ListOf(n) == IF Ran(n) THEN <<n>> ELSE <<>>
CountOf(n) == IF Ran(n) THEN 1 ELSE 0

\* The list has the callback of the test that has not completed, until it has been called.
NobodyElse ==
  \/ afterRunCallbacks = <<>>
  \/ \E n \in ExecTests : afterRunCallbacks = <<n>> /\ test[n].at # "new" /\ ~Completed(n)
NotYet(n) == called[n] = 0 /\ (test[n].at # "new" => afterRunCallbacks = ListOf(n))
Flushes(c, n) ==
  /\ completion[c].at = "flushAfter" => called[n] = 0 /\ afterRunCallbacks = ListOf(n)
  /\ completion[c].at = "callbacks" => \/ completion[c].rest = ListOf(n) /\ called[n] = 0
                                       \/ completion[c].rest = <<>> /\ called[n] = CountOf(n)
  /\ completion[c].at = "flushed" => called[n] = CountOf(n) /\ afterRunCallbacks = <<>>
  /\ completion[c].at = "sent" => called[n] = CountOf(n)
CallbacksKept ==
  Undisturbed =>
    /\ NobodyElse
    /\ \A n \in ExecTests : (\A c \in Completions : completion[c].of # n) => NotYet(n)
    /\ \A n \in ExecTests, c \in Completions : completion[c].of = n => Flushes(c, n)

ExecInv == PauseInv /\ ExecTyped /\ TestsInTurn /\ OnItsOwn /\ CallbacksKept

\* It holds at the start.
LEMMA ExecStarts == ExecutionInit => ExecInv
<1> SUFFICES ASSUME ExecutionInit PROVE ExecInv
  OBVIOUS
<1>1. NumTests \in Nat /\ MaxReleases \in Nat
  BY ExecutionAssumption
<1>2. NoCompletion \in CompletionSet
  BY <1>1 DEF NoCompletion, CompletionSet
<1>3. ExecTyped /\ PauseTyped
  BY <1>1, <1>2 DEF ExecutionInit, ExecTyped, PauseTyped, Waiters, Types, TestSet
<1>4. \A c \in Completions : completion[c].of = 0 /\ completion[c].at = "none"
  BY DEF ExecutionInit, NoCompletion
<1>5. \A n \in ExecTests : n # 0 /\ test[n].at = "new" /\ test[n].verdict = "none" /\ test[n].heard = "no"
  BY DEF ExecutionInit, ExecTests
<1>6. PauseTold /\ AtSet
  BY DEF ExecutionInit, PauseTold, AtSet, Types
<1>7. TestsInTurn
  BY <1>4, <1>5 DEF ExecutionInit, TestsInTurn
<1>8. OnItsOwn
  BY <1>4, <1>5 DEF ExecutionInit, OnItsOwn, CompletedOnce, Heard, RunsAlone, NothingSet
<1>9. CallbacksKept
  BY <1>4, <1>5 DEF ExecutionInit, CallbacksKept, NobodyElse, NotYet
<1> QED
  BY <1>3, <1>6, <1>7, <1>8, <1>9 DEF ExecInv, PauseInv

-----------------------------------------------------------------------------
(* Breakpoints                                                             *)

PauseSet ==
  [state : [paused : BOOLEAN, pending : BOOLEAN, pausedTilNext : BOOLEAN],
   bp : [Types -> {"none", "set", "broken"}],
   waits : [Waiters -> Types \cup {"no", "released", "rejected"}]]

\* PauseTold and AtSet of a record.
BeforeTold(p) == p.bp["before"] # "broken" => (p.state.paused <=> p.bp["before"] = "set")
AfterTold(p) == p.bp["after"] # "broken" => (p.state.pausedTilNext <=> p.bp["after"] = "set")
WaitsRight(p) ==
  \A w \in Waiters : /\ \A b \in Types : p.waits[w] = b => p.bp[b] = "set"
                     /\ p.waits[w] = "rejected" => \E b \in Types : p.bp[b] = "broken"

\* What is broken stays so, and where nothing is set and nobody waits nothing changes.
PauseMoves(p, q) ==
  /\ \A b \in Types : p.bp[b] = "broken" => q.bp[b] = "broken"
  /\ (\A b \in Types : p.bp[b] = "none") /\ (\A w \in Waiters : p.waits[w] = "no") =>
       (\A b \in Types : q.bp[b] = "none") /\ (\A w \in Waiters : q.waits[w] = "no")

\* addBreakpoint().
LEMMA AddFacts ==
  ASSUME NEW p \in PauseSet, NEW b \in Types, WaitsRight(p)
  PROVE  LET q == AddBreakpoint(p, b) IN
         /\ q \in PauseSet /\ WaitsRight(q) /\ q.state = p.state
         /\ q.bp[b] = (IF p.bp[b] = "none" THEN "set" ELSE p.bp[b])
         /\ \A d \in Types : d # b => q.bp[d] = p.bp[d]
<1> DEFINE q == AddBreakpoint(p, b)
<1>1. q = [state |-> p.state, bp |-> [p.bp EXCEPT ![b] = IF p.bp[b] = "none" THEN "set" ELSE p.bp[b]],
           waits |-> p.waits]
  BY DEF AddBreakpoint, PauseSet
<1>2. q.state = p.state /\ q.waits = p.waits
  BY <1>1
<1>3. \A d \in Types : q.bp[d] = IF d = b /\ p.bp[b] = "none" THEN "set" ELSE p.bp[d]
  BY <1>1 DEF PauseSet
<1>4. q \in PauseSet
  BY <1>1 DEF PauseSet
<1> HIDE DEF q
<1>5. WaitsRight(q)
  BY <1>2, <1>3 DEF WaitsRight
<1> QED
  BY <1>2, <1>3, <1>4, <1>5 DEF q

\* resolveBreakpoint().
LEMMA ResolveFacts ==
  ASSUME NEW p \in PauseSet, NEW b \in Types, WaitsRight(p)
  PROVE  LET q == ResolveBreakpoint(p, b) IN
         /\ q \in PauseSet /\ WaitsRight(q) /\ q.state = p.state
         /\ q.bp[b] = (IF p.bp[b] = "set" THEN "none" ELSE p.bp[b])
         /\ \A d \in Types : d # b => q.bp[d] = p.bp[d]
         /\ (\A w \in Waiters : p.waits[w] = "no") => \A w \in Waiters : q.waits[w] = "no"
<1> DEFINE q == ResolveBreakpoint(p, b)
<1>1. CASE p.bp[b] # "set"
  BY <1>1 DEF ResolveBreakpoint
<1>2. CASE p.bp[b] = "set"
  <2>1. q = [state |-> p.state, bp |-> [p.bp EXCEPT ![b] = "none"],
             waits |-> [w \in Waiters |-> IF p.waits[w] = b THEN "released" ELSE p.waits[w]]]
    BY <1>2 DEF ResolveBreakpoint, PauseSet
  <2>2. q.state = p.state
    BY <2>1
  <2>3. \A d \in Types : q.bp[d] = IF d = b THEN "none" ELSE p.bp[d]
    BY <2>1 DEF PauseSet
  <2>4. \A w \in Waiters : q.waits[w] = IF p.waits[w] = b THEN "released" ELSE p.waits[w]
    BY <2>1
  <2>5. q \in PauseSet
    BY <2>1 DEF PauseSet
  <2> HIDE DEF q
  <2>6. WaitsRight(q)
    BY <1>2, <2>3, <2>4 DEF WaitsRight, Types
  <2> QED
    BY <1>2, <2>2, <2>3, <2>4, <2>5, <2>6 DEF q, Types
<1> QED
  BY <1>1, <1>2

\* breakStack().
LEMMA BreakFacts ==
  ASSUME NEW p \in PauseSet, WaitsRight(p)
  PROVE  LET q == BreakStack(p) IN
         /\ q \in PauseSet /\ WaitsRight(q) /\ q.state = p.state
         /\ \A d \in Types : q.bp[d] = IF p.bp[d] = "set" THEN "broken" ELSE p.bp[d]
         /\ (\A w \in Waiters : p.waits[w] = "no") => \A w \in Waiters : q.waits[w] = "no"
<1> DEFINE q == BreakStack(p)
           bps == [d \in Types |-> IF p.bp[d] = "set" THEN "broken" ELSE p.bp[d]]
           was == [w \in Waiters |-> IF p.waits[w] \in Types THEN "rejected" ELSE p.waits[w]]
<1>0. q = [p EXCEPT !.bp = bps, !.waits = was]
  BY DEF BreakStack
<1> HIDE DEF q
<1>1. q = [state |-> p.state, bp |-> bps, waits |-> was]
  <2> HIDE DEF bps, was
  <2> QED
    BY <1>0 DEF PauseSet
<1>2. q.state = p.state
  BY <1>1
<1>3. \A d \in Types : q.bp[d] = IF p.bp[d] = "set" THEN "broken" ELSE p.bp[d]
  BY <1>1
<1>4. \A w \in Waiters : q.waits[w] = IF p.waits[w] \in Types THEN "rejected" ELSE p.waits[w]
  BY <1>1
<1>5. q \in PauseSet
  BY <1>1 DEF PauseSet
<1> HIDE DEF q
<1>6. WaitsRight(q)
  BY <1>3, <1>4 DEF WaitsRight, Types
<1> QED
  BY <1>2, <1>3, <1>4, <1>5, <1>6 DEF q, Types

\* releasePauseMode(), whatever the devtool was told before.
LEMMA ReleaseFacts ==
  ASSUME NEW p \in PauseSet, WaitsRight(p)
  PROVE  LET q == ReleasePauseMode(p) IN
         /\ q \in PauseSet /\ WaitsRight(q) /\ BeforeTold(q) /\ AfterTold(q) /\ PauseMoves(p, q)
<1> DEFINE u == [p EXCEPT !.state = [@ EXCEPT !.paused = FALSE, !.pausedTilNext = FALSE]]
           v == ResolveBreakpoint(u, "before")
           q == ResolveBreakpoint(v, "after")
<1>1. /\ u \in PauseSet /\ u.bp = p.bp /\ u.waits = p.waits
      /\ u.state.paused = FALSE /\ u.state.pausedTilNext = FALSE
  BY DEF PauseSet
<1>2. WaitsRight(u)
  BY <1>1 DEF WaitsRight
<1> HIDE DEF u
<1>3. /\ v \in PauseSet /\ WaitsRight(v) /\ v.state = u.state
      /\ v.bp["before"] = (IF u.bp["before"] = "set" THEN "none" ELSE u.bp["before"])
      /\ v.bp["after"] = u.bp["after"]
      /\ (\A w \in Waiters : u.waits[w] = "no") => \A w \in Waiters : v.waits[w] = "no"
  BY <1>1, <1>2, ResolveFacts DEF Types
<1> HIDE DEF v
<1>4. /\ q \in PauseSet /\ WaitsRight(q) /\ q.state = v.state
      /\ q.bp["after"] = (IF v.bp["after"] = "set" THEN "none" ELSE v.bp["after"])
      /\ q.bp["before"] = v.bp["before"]
      /\ (\A w \in Waiters : v.waits[w] = "no") => \A w \in Waiters : q.waits[w] = "no"
  BY <1>3, ResolveFacts DEF Types
<1>5. q = ReleasePauseMode(p)
  BY DEF ReleasePauseMode, u, v
<1> HIDE DEF q
<1>6. BeforeTold(q) /\ AfterTold(q)
  BY <1>1, <1>3, <1>4 DEF BeforeTold, AfterTold
<1>7. PauseMoves(p, q)
  BY <1>1, <1>3, <1>4 DEF PauseMoves, Types
<1> QED
  BY <1>4, <1>5, <1>6, <1>7

\* activatePauseMode().
LEMMA ActivateFacts ==
  ASSUME NEW p \in PauseSet, WaitsRight(p), AfterTold(p)
  PROVE  LET q == ActivatePauseMode(p) IN
         /\ q \in PauseSet /\ WaitsRight(q) /\ BeforeTold(q) /\ AfterTold(q)
         /\ \A b \in Types : p.bp[b] = "broken" => q.bp[b] = "broken"
<1> DEFINE u == [p EXCEPT !.state.paused = TRUE]
           q == AddBreakpoint(u, "before")
<1>1. /\ u \in PauseSet /\ u.bp = p.bp /\ u.waits = p.waits
      /\ u.state.paused = TRUE /\ u.state.pausedTilNext = p.state.pausedTilNext
  BY DEF PauseSet
<1>2. WaitsRight(u)
  BY <1>1 DEF WaitsRight
<1> HIDE DEF u
<1>3. /\ q \in PauseSet /\ WaitsRight(q) /\ q.state = u.state
      /\ q.bp["before"] = (IF u.bp["before"] = "none" THEN "set" ELSE u.bp["before"])
      /\ q.bp["after"] = u.bp["after"]
  BY <1>1, <1>2, AddFacts DEF Types
<1>4. q = ActivatePauseMode(p)
  BY DEF ActivatePauseMode, u
<1> HIDE DEF q
<1>5. q.bp["before"] \in {"set", "broken"}
  BY <1>1, <1>3 DEF PauseSet, Types
<1>6. BeforeTold(q) /\ AfterTold(q)
  BY <1>1, <1>3, <1>5 DEF BeforeTold, AfterTold
<1>7. \A b \in Types : p.bp[b] = "broken" => q.bp[b] = "broken"
  BY <1>1, <1>3 DEF Types
<1> QED
  BY <1>3, <1>4, <1>6, <1>7

\* setRunTillNextExecutionMode().
LEMMA RunTillNextFacts ==
  ASSUME NEW p \in PauseSet, WaitsRight(p)
  PROVE  LET q == SetRunTillNextExecutionMode(p) IN
         /\ q \in PauseSet /\ WaitsRight(q) /\ BeforeTold(q) /\ AfterTold(q)
         /\ \A b \in Types : p.bp[b] = "broken" => q.bp[b] = "broken"
<1> DEFINE u == [p EXCEPT !.state.paused = FALSE]
           v == ResolveBreakpoint(u, "before")
           t == [v EXCEPT !.state.pausedTilNext = TRUE]
           a == ResolveBreakpoint(t, "after")
           q == AddBreakpoint(a, "after")
<1>1. /\ u \in PauseSet /\ u.bp = p.bp /\ u.waits = p.waits /\ u.state.paused = FALSE
  BY DEF PauseSet
<1>2. WaitsRight(u)
  BY <1>1 DEF WaitsRight
<1> HIDE DEF u
<1>3. /\ v \in PauseSet /\ WaitsRight(v) /\ v.state = u.state
      /\ v.bp["before"] = (IF u.bp["before"] = "set" THEN "none" ELSE u.bp["before"])
      /\ v.bp["after"] = u.bp["after"]
  BY <1>1, <1>2, ResolveFacts DEF Types
<1> HIDE DEF v
<1>4. /\ t \in PauseSet /\ t.bp = v.bp /\ t.waits = v.waits
      /\ t.state.pausedTilNext = TRUE /\ t.state.paused = v.state.paused
  BY <1>3 DEF PauseSet
<1>5. WaitsRight(t)
  BY <1>3, <1>4 DEF WaitsRight
<1> HIDE DEF t
<1>6. /\ a \in PauseSet /\ WaitsRight(a) /\ a.state = t.state
      /\ a.bp["after"] = (IF t.bp["after"] = "set" THEN "none" ELSE t.bp["after"])
      /\ a.bp["before"] = t.bp["before"]
  BY <1>4, <1>5, ResolveFacts DEF Types
<1> HIDE DEF a
<1>7. /\ q \in PauseSet /\ WaitsRight(q) /\ q.state = a.state
      /\ q.bp["after"] = (IF a.bp["after"] = "none" THEN "set" ELSE a.bp["after"])
      /\ q.bp["before"] = a.bp["before"]
  BY <1>6, AddFacts DEF Types
<1>8. q = SetRunTillNextExecutionMode(p)
  BY DEF SetRunTillNextExecutionMode, u, v, t, a
<1> HIDE DEF q
<1>9. q.bp["after"] \in {"set", "broken"}
  BY <1>6, <1>7 DEF PauseSet, Types
<1>10. BeforeTold(q) /\ AfterTold(q)
  BY <1>1, <1>3, <1>4, <1>6, <1>7, <1>9 DEF BeforeTold, AfterTold
<1>11. \A b \in Types : p.bp[b] = "broken" => q.bp[b] = "broken"
  BY <1>1, <1>3, <1>4, <1>6, <1>7 DEF Types
<1> QED
  BY <1>7, <1>8, <1>10, <1>11

-----------------------------------------------------------------------------
(* The steps of a test and of a completion                                 *)

\* Tests and completions wait under numbers of their own.
LEMMA WaiterFacts ==
  /\ \A n \in ExecTests : n \in Waiters
  /\ \A c \in Completions : Waiter(c) \in Waiters
<1>1. NumTests \in Nat /\ MaxReleases \in Nat
  BY ExecutionAssumption
<1> QED
  BY <1>1 DEF ExecTests, Completions, Waiters, Waiter, NumCompletions

\* RunGoesOn(n): it waits, goes on, ends, or ends because its stack is broken.
RunWaits(n) == (\E b \in Types : Waits(n, b)) /\ UNCHANGED <<test, listeners>>
RunPasses(n) ==
  /\ (\E b \in Types : Passes(n, b)) /\ UNCHANGED listeners
  /\ test[n].at # "body" /\ test' = [test EXCEPT ![n].at = IF @ = "start" THEN "flushed" ELSE "body"]
RunEnds(n) ==
  /\ \E b \in Types : Passes(n, b)
  /\ Emit(n, "passed", "finished") \/ Emit(n, "failed", "failed")
RunBreaks(n) == (\E b \in Types : Breaks(n, b)) /\ Emit(n, "broken", "broken")

\* Which they are.
LEMMA RunAlternatives ==
  ASSUME NEW n \in ExecTests, RunGoesOn(n)
  PROVE  /\ test[n].at \notin {"new", "over"}
         /\ RunWaits(n) \/ RunPasses(n) \/ RunEnds(n) \/ RunBreaks(n)
         /\ UNCHANGED <<execModes, executionState, breakpoints, afterRunCallbacks, completion, called, devtool>>
<1> DEFINE b == IF test[n].at = "flushed" THEN "after" ELSE "before"
<1>1. b \in Types
  BY DEF Types
<1> HIDE DEF b
<1>2. /\ test[n].at \notin {"new", "over"}
      /\ \/ Waits(n, b) /\ UNCHANGED <<test, listeners>>
         \/ /\ Passes(n, b) /\ test[n].at # "body"
            /\ test' = [test EXCEPT ![n].at = IF @ = "start" THEN "flushed" ELSE "body"]
            /\ UNCHANGED listeners
         \/ /\ Passes(n, b) /\ test[n].at = "body"
            /\ Emit(n, "passed", "finished") \/ Emit(n, "failed", "failed")
         \/ Breaks(n, b) /\ Emit(n, "broken", "broken")
      /\ UNCHANGED <<execModes, executionState, breakpoints, afterRunCallbacks, completion, called, devtool>>
  BY DEF RunGoesOn, b
<1> QED
  BY <1>1, <1>2 DEF RunWaits, RunPasses, RunEnds, RunBreaks

\* FlushGoesOn(c): it waits, is broken, begins, ends, calls a callback, which may reject,
\* and clears the list.
FlushWaits(c) == (\E b \in Types : Waits(Waiter(c), b)) /\ UNCHANGED <<completion, afterRunCallbacks, called>>
FlushBreaks(c) ==
  /\ completion[c].at \in {"flushAfter", "flushed"} /\ (\E b \in Types : Breaks(Waiter(c), b))
  /\ Goes(c, "sent") /\ UNCHANGED <<afterRunCallbacks, called>>
FlushBegins(c) ==
  /\ completion[c].at = "flushAfter" /\ (\E b \in Types : Passes(Waiter(c), b))
  /\ completion' = [completion EXCEPT ![c] = [@ EXCEPT !.at = "callbacks", !.live = TRUE, !.rest = afterRunCallbacks]]
  /\ UNCHANGED <<afterRunCallbacks, called>>
FlushEnds(c) ==
  /\ completion[c].at = "flushed" /\ (\E b \in Types : Passes(Waiter(c), b))
  /\ Goes(c, "sent") /\ UNCHANGED <<afterRunCallbacks, called>>
FlushCalls(c) ==
  /\ completion[c].at = "callbacks" /\ completion[c].rest # <<>>
  /\ called' = [called EXCEPT ![Head(completion[c].rest)] = @ + 1]
  /\ \/ completion' = [completion EXCEPT ![c].rest = Tail(@)]
     \/ callbacksFail /\ completion' = [completion EXCEPT ![c] = [@ EXCEPT !.at = "sent", !.live = FALSE, !.rest = <<>>]]
  /\ UNCHANGED <<waiting, afterRunCallbacks>>
FlushClears(c) ==
  /\ completion[c].at = "callbacks" /\ completion[c].rest = <<>> /\ afterRunCallbacks' = <<>>
  /\ completion' = [d \in Completions |-> IF d = c THEN [completion[c] EXCEPT !.at = "flushed", !.live = FALSE]
                                          ELSE [completion[d] EXCEPT !.live = FALSE]]
  /\ UNCHANGED <<waiting, called>>

\* Which they are.
LEMMA FlushAlternatives ==
  ASSUME NEW c \in Completions, FlushGoesOn(c)
  PROVE  /\ \/ FlushWaits(c) \/ FlushBreaks(c) \/ FlushBegins(c) \/ FlushEnds(c)
            \/ FlushCalls(c) \/ FlushClears(c)
         /\ UNCHANGED <<execModes, executionState, breakpoints, test, listeners, devtool>>
<1> DEFINE b == IF completion[c].at = "flushed" THEN "after" ELSE "before"
<1>1. b \in Types
  BY DEF Types
<1> HIDE DEF b
<1>2. /\ \/ Waits(Waiter(c), b) /\ UNCHANGED <<completion, afterRunCallbacks, called>>
         \/ /\ completion[c].at \in {"flushAfter", "flushed"} /\ Breaks(Waiter(c), b) /\ Goes(c, "sent")
            /\ UNCHANGED <<afterRunCallbacks, called>>
         \/ /\ Passes(Waiter(c), b)
            /\ \/ /\ completion[c].at = "flushAfter"
                  /\ completion' = [completion EXCEPT ![c] = [@ EXCEPT !.at = "callbacks", !.live = TRUE,
                                                                       !.rest = afterRunCallbacks]]
               \/ completion[c].at = "flushed" /\ Goes(c, "sent")
            /\ UNCHANGED <<afterRunCallbacks, called>>
         \/ FlushCalls(c)
         \/ FlushClears(c)
      /\ UNCHANGED <<execModes, executionState, breakpoints, test, listeners, devtool>>
  BY DEF FlushGoesOn, b, FlushCalls, FlushClears, Flushed
<1> QED
  BY <1>1, <1>2 DEF FlushWaits, FlushBreaks, FlushBegins, FlushEnds

\* The callers of completeExecution...(): the number of the completion is a free one.
LEMMA CompleteFacts ==
  ASSUME NEW n, NEW status, NEW p, Complete(n, status, p)
  PROVE  /\ SetPause(ReleasePauseMode(p))
         /\ \E c \in Completions :
              /\ completion[c].at = "none"
              /\ completion' = [completion EXCEPT ![c] = [of |-> n, status |-> status, rest |-> <<>>, live |-> FALSE,
                                                          at |-> "flushAfter"]]
BY DEF Complete, NoCompletion

-----------------------------------------------------------------------------
(* The pauses keep to what is told                                         *)

PauseFits(p) == p \in PauseSet /\ WaitsRight(p) /\ BeforeTold(p) /\ AfterTold(p)

\* Nothing that is broken is mended, and what rests without the devtool goes on resting.
BreakpointsMove ==
  /\ \A b \in Types : breakpoints[b] = "broken" => breakpoints'[b] = "broken"
  /\ ~waitForRelease /\ NothingSet => NothingSet'

\* The same of the variables.
LEMMA PauseOfState == PauseInv <=> PauseFits(Pause)
<1>1. /\ Pause.state = executionState /\ Pause.bp = breakpoints /\ Pause.waits = waiting
      /\ Pause \in PauseSet <=> PauseTyped
  BY DEF Pause, PauseSet, PauseTyped
<1>2. AtSet <=> WaitsRight(Pause)
  BY <1>1 DEF AtSet, WaitsRight
<1>3. PauseTold <=> BeforeTold(Pause) /\ AfterTold(Pause)
  BY <1>1 DEF PauseTold, BeforeTold, AfterTold
<1> QED
  BY <1>1, <1>2, <1>3 DEF PauseInv, PauseFits

\* And of what is assigned to them.
LEMMA PauseIsSet ==
  ASSUME NEW p, PauseFits(p), SetPause(p)
  PROVE  PauseInv'
<1>1. executionState' = p.state /\ breakpoints' = p.bp /\ waiting' = p.waits
  BY DEF SetPause
<1>2. PauseTyped'
  BY <1>1 DEF PauseTyped, PauseFits, PauseSet
<1>3. AtSet'
  BY <1>1 DEF AtSet, WaitsRight, PauseFits
<1>4. PauseTold'
  BY <1>1 DEF PauseTold, BeforeTold, AfterTold, PauseFits
<1> QED
  BY <1>2, <1>3, <1>4 DEF PauseInv

\* Who comes to a breakpoint.
LEMMA WaitingMoves ==
  ASSUME PauseInv, NEW w \in Waiters, NEW b \in Types, Waits(w, b) \/ Passes(w, b) \/ Breaks(w, b),
         UNCHANGED <<executionState, breakpoints>>
  PROVE  PauseInv' /\ BreakpointsMove
<1>1. waiting \in [Waiters -> Types \cup {"no", "released", "rejected"}] /\ PauseTyped /\ PauseTold /\ AtSet
  BY DEF PauseInv, PauseTyped
<1>2. \E v \in {"no", b} : waiting' = [waiting EXCEPT ![w] = v] /\ (v = b => breakpoints[b] = "set")
  BY DEF Waits, Passes, Breaks, Types
<1>3. PICK v \in {"no", b} : waiting' = [waiting EXCEPT ![w] = v] /\ (v = b => breakpoints[b] = "set")
  BY <1>2
<1>4. PauseTyped'
  BY <1>1, <1>3 DEF PauseTyped
<1>5. \A u \in Waiters : waiting'[u] = IF u = w THEN v ELSE waiting[u]
  BY <1>1, <1>3
<1>6. PauseTold'
  BY <1>1 DEF PauseTold
<1>7. AtSet'
  BY <1>1, <1>3, <1>5 DEF AtSet, Types
<1>8. BreakpointsMove
  BY <1>3, <1>5 DEF BreakpointsMove, NothingSet
<1> QED
  BY <1>4, <1>6, <1>7, <1>8 DEF PauseInv

\* Completing releases the pauses of p.
LEMMA CompletePauses ==
  ASSUME NEW n, NEW status, NEW p \in PauseSet, Complete(n, status, p), WaitsRight(p),
         \A b \in Types : breakpoints[b] = "broken" => p.bp[b] = "broken",
         ~waitForRelease => p.bp = breakpoints /\ p.waits = waiting
  PROVE  PauseInv' /\ BreakpointsMove
<1>1. PICK q : q = ReleasePauseMode(p)
  OBVIOUS
<1>2. PauseFits(q) /\ PauseMoves(p, q)
  BY <1>1, ReleaseFacts DEF PauseFits
<1>3. SetPause(q)
  BY <1>1, CompleteFacts
<1>4. PauseInv'
  BY <1>2, <1>3, PauseIsSet
<1>5. breakpoints' = q.bp /\ waiting' = q.waits
  BY <1>3 DEF SetPause
<1>6. BreakpointsMove
  BY <1>2, <1>5 DEF PauseMoves, BreakpointsMove, NothingSet
<1> QED
  BY <1>4, <1>6

\* runTest() has settled.
LEMMA SettledPauses ==
  ASSUME PauseInv, NEW n \in ExecTests, Settled(n)
  PROVE  PauseInv' /\ BreakpointsMove
<1>1. PICK p : p = IF test[n].heard = "finished" THEN [Pause EXCEPT !.state.pending = FALSE] ELSE Pause
  OBVIOUS
<1>2. IF waitForRelease THEN SetPause(p) ELSE Complete(n, StatusOf(n), p)
  BY <1>1 DEF Settled
<1>3. PauseFits(Pause)
  BY PauseOfState
<1>4. /\ p \in PauseSet /\ p.bp = Pause.bp /\ p.waits = Pause.waits
      /\ p.state.paused = Pause.state.paused /\ p.state.pausedTilNext = Pause.state.pausedTilNext
  BY <1>1, <1>3 DEF PauseFits, PauseSet
<1>5. PauseFits(p)
  BY <1>3, <1>4 DEF PauseFits, WaitsRight, BeforeTold, AfterTold
<1>6. p.bp = breakpoints /\ p.waits = waiting
  BY <1>4 DEF Pause
<1>7. CASE waitForRelease
  <2>1. SetPause(p)
    BY <1>2, <1>7
  <2>2. BreakpointsMove
    BY <2>1, <1>6, <1>7 DEF SetPause, BreakpointsMove
  <2> QED
    BY <2>1, <2>2, <1>5, PauseIsSet
<1>8. CASE ~waitForRelease
  <2>1. Complete(n, StatusOf(n), p)
    BY <1>2, <1>8
  <2> QED
    BY <2>1, <1>4, <1>5, <1>6, CompletePauses DEF PauseFits
<1> QED
  BY <1>7, <1>8

\* releaseTestExecution().
LEMMA ReleasePauses ==
  ASSUME PauseInv, ReleaseTestExecution
  PROVE  PauseInv' /\ BreakpointsMove
<1>1. PICK p : p = IF executionState.pending THEN BreakStack(Pause) ELSE Pause
  OBVIOUS
<1>2. Complete(LastStarted, "done", p) /\ waitForRelease
  BY <1>1 DEF ReleaseTestExecution
<1>3. Pause \in PauseSet /\ WaitsRight(Pause) /\ Pause.bp = breakpoints
  BY PauseOfState DEF PauseFits, Pause
<1>4. /\ p \in PauseSet /\ WaitsRight(p)
      /\ \A b \in Types : breakpoints[b] = "broken" => p.bp[b] = "broken"
  BY <1>1, <1>3, BreakFacts
<1> QED
  BY <1>2, <1>4, CompletePauses

\* The messages of the devtool.
LEMMA DevtoolPausesFit ==
  ASSUME PauseInv, DevtoolPauses
  PROVE  PauseInv' /\ BreakpointsMove
<1>1. PauseFits(Pause) /\ Pause.bp = breakpoints
  BY PauseOfState DEF Pause
<1>2. waitForRelease
  BY DEF DevtoolPauses, Told
<1>3. ASSUME NEW q, SetPause(q), PauseFits(q), \A b \in Types : Pause.bp[b] = "broken" => q.bp[b] = "broken"
      PROVE  PauseInv' /\ BreakpointsMove
  BY <1>1, <1>2, <1>3, PauseIsSet DEF SetPause, BreakpointsMove
<1>4. CASE SetPause(ActivatePauseMode(Pause))
  BY <1>1, <1>3, <1>4, ActivateFacts DEF PauseFits
<1>5. CASE SetPause(SetRunTillNextExecutionMode(Pause))
  BY <1>1, <1>3, <1>5, RunTillNextFacts DEF PauseFits
<1>6. CASE SetPause(ReleasePauseMode(Pause))
  BY <1>1, <1>3, <1>6, ReleaseFacts DEF PauseFits, PauseMoves
<1> QED
  BY <1>4, <1>5, <1>6 DEF DevtoolPauses

\* What is told of the pauses stays what the breakpoints do.
LEMMA PauseSteps ==
  ASSUME PauseInv, [ExecutionNext]_execVars
  PROVE  PauseInv' /\ BreakpointsMove
<1>0. PauseTyped /\ PauseTold /\ AtSet
  BY DEF PauseInv
<1>1. ASSUME UNCHANGED <<breakpoints, waiting>>,
             \E v \in BOOLEAN : executionState' = [executionState EXCEPT !.pending = v]
      PROVE  PauseInv' /\ BreakpointsMove
  <2>1. PICK v \in BOOLEAN : executionState' = [executionState EXCEPT !.pending = v]
    BY <1>1
  <2>2. /\ executionState' \in [paused : BOOLEAN, pending : BOOLEAN, pausedTilNext : BOOLEAN]
        /\ executionState'.paused = executionState.paused
        /\ executionState'.pausedTilNext = executionState.pausedTilNext
    BY <2>1, <1>0 DEF PauseTyped
  <2>3. PauseTyped' /\ AtSet'
    BY <2>2, <1>0, <1>1 DEF PauseTyped, AtSet
  <2>4. PauseTold'
    BY <2>2, <1>0, <1>1 DEF PauseTold
  <2>5. BreakpointsMove
    BY <1>1 DEF BreakpointsMove, NothingSet
  <2> QED
    BY <2>3, <2>4, <2>5 DEF PauseInv
<1>2. ASSUME UNCHANGED pause PROVE PauseInv' /\ BreakpointsMove
  BY <1>0, <1>2 DEF pause, PauseInv, PauseTyped, PauseTold, AtSet, BreakpointsMove, NothingSet
<1>3. ASSUME NEW n \in ExecTests, ExecuteTest(n) PROVE PauseInv' /\ BreakpointsMove
  BY <1>1, <1>3 DEF ExecuteTest
<1>4. ASSUME NEW n \in ExecTests, RunGoesOn(n) PROVE PauseInv' /\ BreakpointsMove
  <2>1. \E b \in Types : Waits(n, b) \/ Passes(n, b) \/ Breaks(n, b)
    BY <1>4, RunAlternatives DEF RunWaits, RunPasses, RunEnds, RunBreaks
  <2>2. UNCHANGED <<executionState, breakpoints>>
    BY <1>4, RunAlternatives
  <2> QED
    BY <2>1, <2>2, WaiterFacts, WaitingMoves
<1>5. ASSUME NEW n \in ExecTests, Settled(n) PROVE PauseInv' /\ BreakpointsMove
  BY <1>5, SettledPauses
<1>6. ASSUME NEW c \in Completions, FlushGoesOn(c) PROVE PauseInv' /\ BreakpointsMove
  <2>1. UNCHANGED <<executionState, breakpoints>>
    BY <1>6, FlushAlternatives
  <2>2. CASE FlushCalls(c) \/ FlushClears(c)
    BY <1>2, <2>1, <2>2 DEF FlushCalls, FlushClears, pause
  <2>3. CASE \E b \in Types : Waits(Waiter(c), b) \/ Passes(Waiter(c), b) \/ Breaks(Waiter(c), b)
    BY <2>1, <2>3, WaiterFacts, WaitingMoves
  <2> QED
    BY <1>6, <2>2, <2>3, FlushAlternatives DEF FlushWaits, FlushBreaks, FlushBegins, FlushEnds
<1>7. CASE DevtoolPauses
  BY <1>7, DevtoolPausesFit
<1>8. CASE EvaluateCode
  BY <1>1, <1>8 DEF EvaluateCode
<1>9. CASE ReleaseTestExecution
  BY <1>9, ReleasePauses
<1>10. CASE UNCHANGED execVars
  BY <1>2, <1>10 DEF execVars
<1> QED
  BY <1>3, <1>4, <1>5, <1>6, <1>7, <1>8, <1>9, <1>10 DEF ExecutionNext, ExecutionProgress

-----------------------------------------------------------------------------
(* The tests in their turn                                                 *)

\* The tests that have started are the first ones.
LEMMA NextTest ==
  ASSUME ExecTyped, TestsInTurn, NEW n \in ExecTests, n = LastStarted + 1, n > 1 => Completed(n - 1)
  PROVE  test[n].at = "new" /\ \A m \in ExecTests : m < n => test[m].at # "new" /\ Completed(m)
<1> DEFINE started == {m \in ExecTests : test[m].at # "new"}
<1>1. NumTests \in Nat /\ n \in 1..NumTests
  BY ExecutionAssumption DEF ExecTests
<1>2. IsFiniteSet(1..NumTests) /\ IsFiniteSet(started)
  <2>1. IsFiniteSet(1..NumTests)
    BY <1>1, FS_Interval
  <2>2. started \in SUBSET (1..NumTests)
    BY DEF ExecTests
  <2> HIDE DEF started
  <2> QED
    BY <2>1, <2>2, FS_Subset
<1>3. Cardinality(started) = n - 1
  BY <1>1, <1>2, FS_CardinalityType DEF LastStarted
<1>4. test[n].at = "new"
  <2> SUFFICES ASSUME test[n].at # "new" PROVE FALSE
    OBVIOUS
  <2>1. \A m \in ExecTests : m < n => test[m].at # "new"
    BY DEF TestsInTurn
  <2>2. 1..n \subseteq started
    BY <1>1, <2>1 DEF ExecTests
  <2>3. Cardinality(1..n) = n
    BY <1>1, FS_Interval
  <2> QED
    BY <1>1, <1>2, <1>3, <2>2, <2>3, FS_Subset
<1>5. ASSUME NEW m \in ExecTests, m < n PROVE test[m].at # "new" /\ Completed(m)
  <2>1. m \in 1..NumTests /\ n > 1
    BY <1>1, <1>5 DEF ExecTests
  <2>2. Completed(n - 1) /\ n - 1 \in ExecTests
    BY <1>1, <2>1 DEF ExecTests
  <2>3. test[n - 1].at # "new"
    BY <2>2 DEF Completed, TestsInTurn
  <2>4. m = n - 1 \/ m < n - 1
    BY <1>1, <1>5, <2>1
  <2> QED
    BY <2>2, <2>3, <2>4 DEF TestsInTurn
<1> QED
  BY <1>4, <1>5

\* Their number is the last of them.
LEMMA LastHasStarted ==
  ASSUME ExecTyped, TestsInTurn, LastStarted > 0
  PROVE  LastStarted \in ExecTests /\ test[LastStarted].at # "new"
<1> DEFINE started == {m \in ExecTests : test[m].at # "new"}
           n == Cardinality(started)
<1>1. NumTests \in Nat
  BY ExecutionAssumption
<1>2. IsFiniteSet(1..NumTests) /\ Cardinality(1..NumTests) = NumTests
  BY <1>1, FS_Interval
<1>3. IsFiniteSet(started) /\ n \in Nat /\ n <= NumTests
  BY <1>1, <1>2, FS_Subset, FS_CardinalityType DEF ExecTests
<1>4. n \in ExecTests /\ n = LastStarted
  BY <1>1, <1>3 DEF ExecTests, LastStarted
<1>5. test[n].at # "new"
  <2> SUFFICES ASSUME test[n].at = "new" PROVE FALSE
    OBVIOUS
  <2>1. \A m \in ExecTests : test[m].at # "new" => m < n
    <3> SUFFICES ASSUME NEW m \in ExecTests, test[m].at # "new", ~(m < n) PROVE FALSE
      OBVIOUS
    <3>1. n < m \/ n = m
      BY <1>3 DEF ExecTests
    <3> QED
      BY <1>4, <3>1 DEF TestsInTurn
  <2> HIDE DEF n
  <2>2. started \subseteq 1..(n - 1)
    BY <1>1, <1>3, <2>1 DEF ExecTests
  <2>3. n > 0
    BY <1>4 DEF ExecTests
  <2>4. IsFiniteSet(1..(n - 1)) /\ Cardinality(1..(n - 1)) = n - 1
    BY <1>3, <2>3, FS_Interval
  <2>5. Cardinality(started) <= n - 1
    BY <2>2, <2>4, FS_Subset
  <2> QED
    BY <1>3, <2>5 DEF n
<1> QED
  BY <1>4, <1>5

\* A completion goes on, or a free one is taken for a test.
CompletionsGo ==
  /\ completion' \in [Completions -> CompletionSet]
  /\ \A c \in Completions : /\ completion'[c].of = completion[c].of /\ completion'[c].status = completion[c].status
                            /\ completion'[c].at = "none" <=> completion[c].at = "none"
                            /\ completion[c].at = "sent" => completion'[c].at = "sent"
Completes(c, n, status) ==
  /\ completion[c].at = "none" /\ completion' \in [Completions -> CompletionSet]
  /\ completion'[c].of = n /\ completion'[c].status = status /\ completion'[c].at = "flushAfter"
  /\ \A d \in Completions : d # c => completion'[d] = completion[d]

\* completeExecution...() takes a free one.
LEMMA CompletionSteps ==
  ASSUME ExecTyped, NEW n \in ExecTests, NEW status \in {"done", "failed"}, NEW p, Complete(n, status, p)
  PROVE  \E c \in Completions : Completes(c, n, status)
<1> DEFINE r == [of |-> n, status |-> status, rest |-> <<>>, live |-> FALSE, at |-> "flushAfter"]
<1>1. PICK c \in Completions : completion[c].at = "none" /\ completion' = [completion EXCEPT ![c] = r]
  BY CompleteFacts
<1>2. r \in CompletionSet /\ r.of = n /\ r.status = status /\ r.at = "flushAfter"
  BY ExecutionAssumption DEF CompletionSet, ExecTests
<1> HIDE DEF r
<1>3. completion' \in [Completions -> CompletionSet]
  BY <1>1, <1>2 DEF ExecTyped
<1>4. completion'[c] = r /\ \A d \in Completions : d # c => completion'[d] = completion[d]
  BY <1>1 DEF ExecTyped
<1> QED
  BY <1>1, <1>2, <1>3, <1>4 DEF Completes

\* The list and its callbacks have their types.
LEMMA RegisterGoes ==
  ASSUME ExecTyped, NEW n \in ExecTests, RegisterAfterRunCallback(n)
  PROVE  /\ CompletionsGo /\ afterRunCallbacks' \in Seq(ExecTests)
         /\ \A c \in Completions : completion'[c].at = completion[c].at
<1> DEFINE New(c) == IF completion[c].live THEN [completion[c] EXCEPT !.rest = Append(@, n)] ELSE completion[c]
<1>1. completion' = [c \in Completions |-> New(c)] /\ afterRunCallbacks' = Append(afterRunCallbacks, n)
  BY DEF RegisterAfterRunCallback
<1>2. ASSUME NEW c \in Completions
      PROVE  /\ New(c) \in CompletionSet /\ New(c).of = completion[c].of
             /\ New(c).status = completion[c].status /\ New(c).at = completion[c].at
  <2>1. completion[c] \in CompletionSet
    BY DEF ExecTyped
  <2>2. Append(completion[c].rest, n) \in Seq(ExecTests)
    BY <2>1 DEF CompletionSet
  <2> QED
    BY <2>1, <2>2 DEF CompletionSet
<1> HIDE DEF New
<1>3. completion' \in [Completions -> CompletionSet] /\ \A c \in Completions : completion'[c] = New(c)
  BY <1>1, <1>2
<1>4. afterRunCallbacks' \in Seq(ExecTests)
  BY <1>1 DEF ExecTyped
<1> QED
  BY <1>2, <1>3, <1>4 DEF CompletionsGo

\* A flush touches no test.
LEMMA FlushGoes ==
  ASSUME ExecTyped, TestsInTurn, NEW c \in Completions, FlushGoesOn(c)
  PROVE  /\ CompletionsGo /\ afterRunCallbacks' \in Seq(ExecTests) /\ called' \in [ExecTests -> Nat]
         /\ UNCHANGED <<execModes, test, listeners>>
<1>1. UNCHANGED <<execModes, test, listeners>>
  BY FlushAlternatives
<1>2. /\ completion \in [Completions -> CompletionSet] /\ afterRunCallbacks \in Seq(ExecTests)
      /\ called \in [ExecTests -> Nat] /\ completion[c] \in CompletionSet
  BY DEF ExecTyped
<1>3. ASSUME NEW r \in CompletionSet, r.of = completion[c].of, r.status = completion[c].status,
             r.at # "none", completion[c].at # "none", completion[c].at = "sent" => r.at = "sent",
             completion' = [completion EXCEPT ![c] = r]
      PROVE  CompletionsGo
  <2>1. \A d \in Completions : completion'[d] = IF d = c THEN r ELSE completion[d]
    BY <1>2, <1>3
  <2> QED
    BY <1>2, <1>3, <2>1 DEF CompletionsGo
<1>4. CASE FlushWaits(c)
  BY <1>1, <1>2, <1>4 DEF FlushWaits, CompletionsGo
<1>5. CASE FlushBreaks(c) \/ FlushEnds(c)
  <2>1. /\ completion' = [completion EXCEPT ![c] = [completion[c] EXCEPT !.at = "sent"]]
        /\ completion[c].at \in {"flushAfter", "flushed"}
        /\ UNCHANGED <<afterRunCallbacks, called>>
    BY <1>5 DEF FlushBreaks, FlushEnds, Goes
  <2> DEFINE r == [completion[c] EXCEPT !.at = "sent"]
  <2>2. r \in CompletionSet /\ r.of = completion[c].of /\ r.status = completion[c].status /\ r.at = "sent"
    BY <1>2 DEF CompletionSet
  <2> HIDE DEF r
  <2>3. completion' = [completion EXCEPT ![c] = r]
    BY <2>1 DEF r
  <2> QED
    BY <1>1, <1>2, <1>3, <2>1, <2>2, <2>3
<1>6. CASE FlushBegins(c)
  <2>1. /\ completion' = [completion EXCEPT ![c] = [completion[c] EXCEPT !.at = "callbacks", !.live = TRUE,
                                                                        !.rest = afterRunCallbacks]]
        /\ completion[c].at = "flushAfter" /\ UNCHANGED <<afterRunCallbacks, called>>
    BY <1>6 DEF FlushBegins
  <2> DEFINE r == [completion[c] EXCEPT !.at = "callbacks", !.live = TRUE, !.rest = afterRunCallbacks]
  <2>2. r \in CompletionSet /\ r.of = completion[c].of /\ r.status = completion[c].status /\ r.at = "callbacks"
    BY <1>2 DEF CompletionSet
  <2> HIDE DEF r
  <2>3. completion' = [completion EXCEPT ![c] = r]
    BY <2>1 DEF r
  <2> QED
    BY <1>1, <1>2, <1>3, <2>1, <2>2, <2>3
<1>7. CASE FlushCalls(c)
  <2> DEFINE r == [completion[c] EXCEPT !.rest = Tail(completion[c].rest)]
             t == [completion[c] EXCEPT !.at = "sent", !.live = FALSE, !.rest = <<>>]
             n == Head(completion[c].rest)
  <2>1. /\ completion[c].at = "callbacks" /\ completion[c].rest # <<>>
        /\ called' = [called EXCEPT ![n] = called[n] + 1] /\ UNCHANGED afterRunCallbacks
        /\ completion' = [completion EXCEPT ![c] = r] \/ completion' = [completion EXCEPT ![c] = t]
    BY <1>7 DEF FlushCalls
  <2>2. completion[c].rest \in Seq(ExecTests)
    BY <1>2 DEF CompletionSet
  <2>3. Tail(completion[c].rest) \in Seq(ExecTests) /\ n \in ExecTests
    BY <2>1, <2>2
  <2>4. r \in CompletionSet /\ r.of = completion[c].of /\ r.status = completion[c].status /\ r.at = "callbacks"
    BY <1>2, <2>1, <2>3 DEF CompletionSet
  <2>5. t \in CompletionSet /\ t.of = completion[c].of /\ t.status = completion[c].status /\ t.at = "sent"
    <3>1. <<>> \in Seq(ExecTests)
      OBVIOUS
    <3> QED
      BY <1>2, <3>1 DEF CompletionSet
  <2> HIDE DEF r, t, n
  <2>6. called' \in [ExecTests -> Nat]
    BY <1>2, <2>1, <2>3
  <2> QED
    BY <1>1, <1>2, <1>3, <2>1, <2>4, <2>5, <2>6
<1>8. CASE FlushClears(c)
  <2> DEFINE New(d) == IF d = c THEN [completion[c] EXCEPT !.at = "flushed", !.live = FALSE]
                       ELSE [completion[d] EXCEPT !.live = FALSE]
  <2>1. /\ completion[c].at = "callbacks" /\ afterRunCallbacks' = <<>> /\ UNCHANGED called
        /\ completion' = [d \in Completions |-> New(d)]
    BY <1>8 DEF FlushClears
  <2>2. ASSUME NEW d \in Completions
        PROVE  /\ New(d) \in CompletionSet /\ New(d).of = completion[d].of
               /\ New(d).status = completion[d].status
               /\ New(d).at = IF d = c THEN "flushed" ELSE completion[d].at
    <3>1. completion[d] \in CompletionSet
      BY <1>2
    <3> QED
      BY <3>1 DEF CompletionSet
  <2> HIDE DEF New
  <2>3. completion' \in [Completions -> CompletionSet] /\ \A d \in Completions : completion'[d] = New(d)
    BY <2>1, <2>2
  <2>4. CompletionsGo
    BY <2>1, <2>2, <2>3 DEF CompletionsGo
  <2> QED
    BY <1>1, <1>2, <2>1, <2>4
<1> QED
  BY <1>4, <1>5, <1>6, <1>7, <1>8, FlushAlternatives

\* Every step but the start of a test: who has started stays started, and has a callback
\* or none as before.
TestsStay ==
  /\ test' \in [ExecTests -> TestSet] /\ listeners' \subseteq listeners
  /\ \A m \in ExecTests : /\ test'[m].at = "new" <=> test[m].at = "new"
                          /\ test[m].at = "new" /\ m \notin listeners =>
                               test'[m].verdict = test[m].verdict /\ test'[m].heard = test[m].heard
                          /\ Ran(m)' <=> Ran(m)

\* executeTest(): one that is new, after all before it have completed.
LEMMA ExecuteFacts ==
  ASSUME ExecTyped, TestsInTurn, NEW n \in ExecTests, ExecuteTest(n)
  PROVE  /\ test[n].at = "new" /\ \A m \in ExecTests : m < n => test[m].at # "new" /\ Completed(m)
         /\ test' \in [ExecTests -> TestSet] /\ \A m \in ExecTests : m # n => test'[m] = test[m]
         /\ test'[n].verdict = test[n].verdict
         /\ \/ /\ test'[n].at = "start" /\ test'[n].heard = test[n].heard /\ UNCHANGED threw
               /\ listeners' = listeners \cup {n} /\ afterRunCallbacks' = Append(afterRunCallbacks, n)
            \/ /\ test'[n].at = "start" /\ test'[n].heard = "failed" /\ threw' = threw \cup {n}
               /\ UNCHANGED listeners /\ afterRunCallbacks' = Append(afterRunCallbacks, n)
            \/ /\ test'[n].at = "over" /\ test'[n].heard \in {"finished", "failed"}
               /\ UNCHANGED <<listeners, afterRunCallbacks, threw>>
         /\ beside' = IF \E m \in ExecTests : test[m].at \notin {"new", "over"} THEN beside \cup {n} ELSE beside
         /\ CompletionsGo /\ \A c \in Completions : completion'[c].at = completion[c].at
         /\ afterRunCallbacks' \in Seq(ExecTests)
         /\ UNCHANGED <<execModes, breakpoints, called>>
<1>1. /\ n = LastStarted + 1 /\ (n > 1 => Completed(n - 1))
      /\ UNCHANGED <<execModes, breakpoints, called>>
      /\ beside' = IF \E m \in ExecTests : test[m].at \notin {"new", "over"} THEN beside \cup {n} ELSE beside
      /\ \/ /\ test' = [test EXCEPT ![n].at = "start"]
            /\ listeners' = listeners \cup {n} /\ RegisterAfterRunCallback(n) /\ UNCHANGED threw
         \/ /\ test' = [test EXCEPT ![n] = [test[n] EXCEPT !.at = "start", !.heard = "failed"]]
            /\ threw' = threw \cup {n} /\ RegisterAfterRunCallback(n) /\ UNCHANGED listeners
         \/ /\ \E heard \in {"finished", "failed"} :
                 test' = [test EXCEPT ![n] = [test[n] EXCEPT !.at = "over", !.heard = heard]]
            /\ UNCHANGED <<listeners, afterRunCallbacks, completion, threw>>
  BY DEF ExecuteTest
<1>2. test[n].at = "new" /\ \A m \in ExecTests : m < n => test[m].at # "new" /\ Completed(m)
  BY <1>1, NextTest
<1>3. test \in [ExecTests -> TestSet] /\ completion \in [Completions -> CompletionSet]
      /\ afterRunCallbacks \in Seq(ExecTests) /\ test[n] \in TestSet
  BY DEF ExecTyped
<1>4. ASSUME NEW r \in TestSet, test' = [test EXCEPT ![n] = r]
      PROVE  /\ test' \in [ExecTests -> TestSet] /\ test'[n] = r
             /\ \A m \in ExecTests : m # n => test'[m] = test[m]
  BY <1>3, <1>4
<1>5. CASE /\ test' = [test EXCEPT ![n].at = "start"]
           /\ listeners' = listeners \cup {n} /\ RegisterAfterRunCallback(n) /\ UNCHANGED threw
  <2> DEFINE r == [test[n] EXCEPT !.at = "start"]
  <2>1. r \in TestSet /\ r.at = "start" /\ r.verdict = test[n].verdict /\ r.heard = test[n].heard
    BY <1>3 DEF TestSet
  <2>2. test' = [test EXCEPT ![n] = r]
    BY <1>5
  <2> HIDE DEF r
  <2>3. /\ test' \in [ExecTests -> TestSet] /\ test'[n] = r
        /\ \A m \in ExecTests : m # n => test'[m] = test[m]
    BY <2>1, <2>2, <1>4
  <2>4. afterRunCallbacks' = Append(afterRunCallbacks, n)
    BY <1>5 DEF RegisterAfterRunCallback
  <2>5. /\ CompletionsGo /\ \A c \in Completions : completion'[c].at = completion[c].at
        /\ afterRunCallbacks' \in Seq(ExecTests)
    BY <1>5, RegisterGoes
  <2> QED
    BY <1>1, <1>2, <1>5, <2>1, <2>3, <2>4, <2>5
<1>7. CASE /\ test' = [test EXCEPT ![n] = [test[n] EXCEPT !.at = "start", !.heard = "failed"]]
           /\ threw' = threw \cup {n} /\ RegisterAfterRunCallback(n) /\ UNCHANGED listeners
  <2> DEFINE r == [test[n] EXCEPT !.at = "start", !.heard = "failed"]
  <2>1. r \in TestSet /\ r.at = "start" /\ r.verdict = test[n].verdict /\ r.heard = "failed"
    BY <1>3 DEF TestSet
  <2>2. test' = [test EXCEPT ![n] = r]
    BY <1>7
  <2> HIDE DEF r
  <2>3. /\ test' \in [ExecTests -> TestSet] /\ test'[n] = r
        /\ \A m \in ExecTests : m # n => test'[m] = test[m]
    BY <2>1, <2>2, <1>4
  <2>4. afterRunCallbacks' = Append(afterRunCallbacks, n)
    BY <1>7 DEF RegisterAfterRunCallback
  <2>5. /\ CompletionsGo /\ \A c \in Completions : completion'[c].at = completion[c].at
        /\ afterRunCallbacks' \in Seq(ExecTests)
    BY <1>7, RegisterGoes
  <2> QED
    BY <1>1, <1>2, <1>7, <2>1, <2>3, <2>4, <2>5
<1>6. CASE /\ \E heard \in {"finished", "failed"} :
                test' = [test EXCEPT ![n] = [test[n] EXCEPT !.at = "over", !.heard = heard]]
           /\ UNCHANGED <<listeners, afterRunCallbacks, completion, threw>>
  <2>1. PICK heard \in {"finished", "failed"} :
               test' = [test EXCEPT ![n] = [test[n] EXCEPT !.at = "over", !.heard = heard]]
    BY <1>6
  <2> DEFINE r == [test[n] EXCEPT !.at = "over", !.heard = heard]
  <2>2. r \in TestSet /\ r.at = "over" /\ r.verdict = test[n].verdict /\ r.heard = heard
    BY <1>3 DEF TestSet
  <2> HIDE DEF r
  <2>3. test' = [test EXCEPT ![n] = r]
    BY <2>1 DEF r
  <2>4. /\ test' \in [ExecTests -> TestSet] /\ test'[n] = r
        /\ \A m \in ExecTests : m # n => test'[m] = test[m]
    BY <2>2, <2>3, <1>4
  <2>5. CompletionsGo /\ \A c \in Completions : completion'[c].at = completion[c].at
    BY <1>3, <1>6 DEF CompletionsGo
  <2> QED
    BY <1>1, <1>2, <1>3, <1>6, <2>1, <2>2, <2>4, <2>5
<1> QED
  BY <1>1, <1>5, <1>6, <1>7

\* finished or failed on the bus.
LEMMA EmitFacts ==
  ASSUME ExecTyped, NEW n \in ExecTests, NEW verdict \in {"passed", "failed", "broken"},
         NEW heard \in {"finished", "failed", "broken"}, Emit(n, verdict, heard)
  PROVE  /\ test' \in [ExecTests -> TestSet] /\ listeners' = {}
         /\ \A m \in ExecTests :
              /\ test'[m].at = (IF m = n THEN "over" ELSE test[m].at)
              /\ test'[m].verdict = (IF m = n THEN verdict ELSE test[m].verdict)
              /\ test'[m].heard = (IF m \in listeners /\ test[m].heard = "no" THEN heard ELSE test[m].heard)
<1> DEFINE EndsOf(m) == IF m = n THEN [test[m] EXCEPT !.at = "over", !.verdict = verdict] ELSE test[m]
           Hears(m) == IF m \in listeners /\ EndsOf(m).heard = "no" THEN [EndsOf(m) EXCEPT !.heard = heard] ELSE EndsOf(m)
<1>1. test' = [m \in ExecTests |-> Hears(m)] /\ listeners' = {}
  BY DEF Emit
<1>2. ASSUME NEW m \in ExecTests
      PROVE  /\ Hears(m) \in TestSet
             /\ Hears(m).at = (IF m = n THEN "over" ELSE test[m].at)
             /\ Hears(m).verdict = (IF m = n THEN verdict ELSE test[m].verdict)
             /\ Hears(m).heard = (IF m \in listeners /\ test[m].heard = "no" THEN heard ELSE test[m].heard)
  <2>1. test[m] \in TestSet
    BY DEF ExecTyped
  <2>2. /\ EndsOf(m) \in TestSet /\ EndsOf(m).heard = test[m].heard
        /\ EndsOf(m).at = (IF m = n THEN "over" ELSE test[m].at)
        /\ EndsOf(m).verdict = (IF m = n THEN verdict ELSE test[m].verdict)
    BY <2>1 DEF TestSet
  <2> HIDE DEF EndsOf
  <2> QED
    BY <2>2 DEF TestSet
<1> HIDE DEF Hears
<1>3. test' \in [ExecTests -> TestSet] /\ \A m \in ExecTests : test'[m] = Hears(m)
  BY <1>1, <1>2
<1> QED
  BY <1>1, <1>2, <1>3

\* run() goes on.
LEMMA RunStays ==
  ASSUME ExecTyped, TestsInTurn, NEW n \in ExecTests, RunGoesOn(n)
  PROVE  TestsStay
<1>1. test[n].at \notin {"new", "over"} /\ test \in [ExecTests -> TestSet] /\ test[n] \in TestSet
  BY RunAlternatives DEF ExecTyped
<1>2. test[n].at \in {"start", "flushed", "body"}
  BY <1>1 DEF TestSet
<1>3. CASE RunWaits(n)
  BY <1>1, <1>3 DEF RunWaits, TestsStay, Ran
<1>4. CASE RunPasses(n)
  <2> DEFINE r == [test[n] EXCEPT !.at = IF test[n].at = "start" THEN "flushed" ELSE "body"]
  <2>1. r \in TestSet /\ r.at \in {"flushed", "body"} /\ r.verdict = test[n].verdict /\ r.heard = test[n].heard
    BY <1>1 DEF TestSet
  <2>2. test' = [test EXCEPT ![n] = r] /\ UNCHANGED listeners
    BY <1>4 DEF RunPasses
  <2> HIDE DEF r
  <2>3. test' \in [ExecTests -> TestSet] /\ \A m \in ExecTests : test'[m] = IF m = n THEN r ELSE test[m]
    BY <1>1, <2>1, <2>2
  <2> QED
    BY <1>2, <2>1, <2>2, <2>3 DEF TestsStay, Ran
<1>5. ASSUME NEW verdict \in {"passed", "failed", "broken"}, NEW heard \in {"finished", "failed", "broken"},
             Emit(n, verdict, heard)
      PROVE  TestsStay
  <2>1. /\ test' \in [ExecTests -> TestSet] /\ listeners' = {}
        /\ \A m \in ExecTests :
             /\ test'[m].at = (IF m = n THEN "over" ELSE test[m].at)
             /\ test'[m].verdict = (IF m = n THEN verdict ELSE test[m].verdict)
             /\ test'[m].heard = (IF m \in listeners /\ test[m].heard = "no" THEN heard ELSE test[m].heard)
    BY <1>5, EmitFacts
  <2> QED
    BY <1>2, <2>1 DEF TestsStay, Ran
<1> QED
  BY <1>3, <1>4, <1>5, RunAlternatives DEF RunEnds, RunBreaks

\* runTest() has settled, and without the devtool the test completes.
LEMMA SettledFacts ==
  ASSUME ExecTyped, TestsInTurn, NEW n \in ExecTests, Settled(n)
  PROVE  /\ TestsStay /\ test[n].at # "new" /\ test[n].heard \in {"finished", "failed", "broken"}
         /\ \A m \in ExecTests : /\ test'[m].at = test[m].at /\ test'[m].verdict = test[m].verdict
                                 /\ test'[m].heard = IF m = n THEN "taken" ELSE test[m].heard
         /\ IF waitForRelease THEN UNCHANGED completion
            ELSE \E c \in Completions : Completes(c, n, StatusOf(n))
         /\ UNCHANGED <<execModes, listeners, afterRunCallbacks, called>>
<1>1. PICK p : p = IF test[n].heard = "finished" THEN [Pause EXCEPT !.state.pending = FALSE] ELSE Pause
  OBVIOUS
<1>2. /\ test[n].heard \in {"finished", "failed", "broken"}
      /\ test' = [test EXCEPT ![n].heard = "taken"]
      /\ IF waitForRelease THEN SetPause(p) /\ UNCHANGED completion ELSE Complete(n, StatusOf(n), p)
      /\ UNCHANGED <<execModes, listeners, afterRunCallbacks, called, devtool>>
  BY <1>1 DEF Settled
<1>3. test \in [ExecTests -> TestSet] /\ test[n] \in TestSet
  BY DEF ExecTyped
<1> DEFINE r == [test[n] EXCEPT !.heard = "taken"]
<1>4. r \in TestSet /\ r.at = test[n].at /\ r.verdict = test[n].verdict /\ r.heard = "taken"
  BY <1>3 DEF TestSet
<1>5. test' = [test EXCEPT ![n] = r]
  BY <1>2
<1> HIDE DEF r
<1>6. test' \in [ExecTests -> TestSet] /\ \A m \in ExecTests : test'[m] = IF m = n THEN r ELSE test[m]
  BY <1>3, <1>4, <1>5
<1>7. test[n].at # "new"
  BY <1>2 DEF TestsInTurn
<1>8. TestsStay
  BY <1>2, <1>4, <1>6, <1>7 DEF TestsStay, Ran
<1>9. StatusOf(n) \in {"done", "failed"}
  BY DEF StatusOf
<1>10. IF waitForRelease THEN UNCHANGED completion ELSE \E c \in Completions : Completes(c, n, StatusOf(n))
  BY <1>2, <1>9, CompletionSteps
<1> QED
  BY <1>2, <1>4, <1>6, <1>7, <1>8, <1>10

\* Steps that are not about tests, or not about completions.
LEMMA SameStays == ExecTyped /\ UNCHANGED <<test, listeners>> => TestsStay
BY DEF ExecTyped, TestsStay, Ran

LEMMA SameGoes == ExecTyped /\ UNCHANGED completion => CompletionsGo
BY DEF ExecTyped, CompletionsGo

\* releaseTestExecution() completes the last test.
LEMMA ReleaseCompletes ==
  ASSUME ExecTyped, TestsInTurn, ReleaseTestExecution
  PROVE  /\ LastStarted \in ExecTests /\ test[LastStarted].at # "new" /\ waitForRelease
         /\ \E c \in Completions : Completes(c, LastStarted, "done")
         /\ UNCHANGED <<execModes, test, listeners, afterRunCallbacks, called>>
<1>1. PICK p : p = IF executionState.pending THEN BreakStack(Pause) ELSE Pause
  OBVIOUS
<1>2. /\ waitForRelease /\ LastStarted > 0 /\ Complete(LastStarted, "done", p)
      /\ UNCHANGED <<execModes, test, listeners, afterRunCallbacks, called>>
  BY <1>1 DEF ReleaseTestExecution
<1>3. LastStarted \in ExecTests /\ test[LastStarted].at # "new"
  BY <1>2, LastHasStarted
<1>4. PICK n \in ExecTests : n = LastStarted
  BY <1>3
<1> QED
  BY <1>2, <1>3, <1>4, CompletionSteps

\* The types are kept.
LEMMA ExecTypedSteps ==
  ASSUME ExecTyped, TestsInTurn, [ExecutionNext]_execVars
  PROVE  ExecTyped' /\ UNCHANGED execModes
<1>0. /\ test \in [ExecTests -> TestSet] /\ listeners \subseteq ExecTests /\ afterRunCallbacks \in Seq(ExecTests)
      /\ completion \in [Completions -> CompletionSet] /\ called \in [ExecTests -> Nat]
  BY DEF ExecTyped
<1>1. ASSUME NEW n \in ExecTests, ExecuteTest(n) PROVE ExecTyped' /\ UNCHANGED execModes
  <2>1. /\ test' \in [ExecTests -> TestSet] /\ listeners' \subseteq listeners \cup {n}
        /\ CompletionsGo /\ afterRunCallbacks' \in Seq(ExecTests) /\ UNCHANGED <<execModes, called>>
    BY <1>1, ExecuteFacts
  <2> QED
    BY <2>1, <1>0 DEF ExecTyped, CompletionsGo
<1>2. ASSUME NEW n \in ExecTests, RunGoesOn(n) PROVE ExecTyped' /\ UNCHANGED execModes
  <2>1. TestsStay /\ UNCHANGED <<execModes, afterRunCallbacks, completion, called>>
    BY <1>2, RunStays, RunAlternatives
  <2> QED
    BY <2>1, <1>0 DEF ExecTyped, TestsStay
<1>3. ASSUME NEW n \in ExecTests, Settled(n) PROVE ExecTyped' /\ UNCHANGED execModes
  <2>1. /\ TestsStay /\ completion' \in [Completions -> CompletionSet]
        /\ UNCHANGED <<execModes, afterRunCallbacks, called>>
    BY <1>0, <1>3, SettledFacts DEF Completes
  <2> QED
    BY <2>1, <1>0 DEF ExecTyped, TestsStay
<1>4. ASSUME NEW c \in Completions, FlushGoesOn(c) PROVE ExecTyped' /\ UNCHANGED execModes
  BY <1>0, <1>4, FlushGoes DEF ExecTyped, CompletionsGo
<1>5. CASE DevtoolPauses
  BY <1>0, <1>5 DEF DevtoolPauses, ExecTyped
<1>6. CASE EvaluateCode
  BY <1>0, <1>6 DEF EvaluateCode, ExecTyped
<1>7. CASE ReleaseTestExecution
  BY <1>0, <1>7, ReleaseCompletes DEF ExecTyped, Completes
<1>8. CASE UNCHANGED execVars
  BY <1>0, <1>8 DEF execVars, ExecTyped
<1> QED
  BY <1>1, <1>2, <1>3, <1>4, <1>5, <1>6, <1>7, <1>8 DEF ExecutionNext, ExecutionProgress

\* The completions of a step: they go on, or one is taken for a test that has started.
CompletionsMove ==
  CompletionsGo \/ \E c \in Completions, n \in ExecTests, status \in {"done", "failed"} :
                     test[n].at # "new" /\ Completes(c, n, status)

\* What has been sent stays so.
LEMMA CompletedStays ==
  ASSUME CompletionsMove, NEW n, Completed(n)
  PROVE  Completed(n)'
<1>1. PICK d \in Completions : completion[d].of = n /\ completion[d].at = "sent"
  BY DEF Completed
<1>2. completion'[d].of = n /\ completion'[d].at = "sent"
  BY <1>1 DEF CompletionsMove, CompletionsGo, Completes
<1> QED
  BY <1>2 DEF Completed

\* All steps but the start of a test.
LEMMA OtherSteps ==
  ASSUME ExecTyped, TestsInTurn, [ExecutionNext]_execVars, ~\E n \in ExecTests : ExecuteTest(n)
  PROVE  TestsStay /\ CompletionsMove
<1>1. ASSUME NEW n \in ExecTests, RunGoesOn(n) PROVE TestsStay /\ CompletionsMove
  BY <1>1, RunStays, RunAlternatives, SameGoes DEF CompletionsMove
<1>2. ASSUME NEW n \in ExecTests, Settled(n) PROVE TestsStay /\ CompletionsMove
  <2>1. StatusOf(n) \in {"done", "failed"}
    BY DEF StatusOf
  <2> QED
    BY <1>2, <2>1, SettledFacts, SameGoes DEF CompletionsMove
<1>3. ASSUME NEW c \in Completions, FlushGoesOn(c) PROVE TestsStay /\ CompletionsMove
  BY <1>3, FlushGoes, SameStays DEF CompletionsMove
<1>4. CASE DevtoolPauses
  BY <1>4, SameStays, SameGoes DEF DevtoolPauses, CompletionsMove
<1>5. CASE EvaluateCode
  BY <1>5, SameStays, SameGoes DEF EvaluateCode, CompletionsMove
<1>6. CASE ReleaseTestExecution
  <2>1. TestsStay
    BY <1>6, ReleaseCompletes, SameStays
  <2>2. PICK n \in ExecTests : n = LastStarted
    BY <1>6, ReleaseCompletes
  <2>3. test[n].at # "new" /\ \E c \in Completions : Completes(c, n, "done")
    BY <1>6, <2>2, ReleaseCompletes
  <2> QED
    BY <2>1, <2>3 DEF CompletionsMove
<1>7. CASE UNCHANGED execVars
  BY <1>7, SameStays, SameGoes DEF execVars, CompletionsMove
<1> QED
  BY <1>1, <1>2, <1>3, <1>4, <1>5, <1>6, <1>7 DEF ExecutionNext, ExecutionProgress

\* TestsInTurn, for them and for the start of a test.
LEMMA TurnKept ==
  ASSUME TestsInTurn, TestsStay, CompletionsMove
  PROVE  TestsInTurn'
<1>1. \A m, n \in ExecTests : m < n /\ test'[n].at # "new" => test'[m].at # "new" /\ Completed(m)'
  BY CompletedStays DEF TestsInTurn, TestsStay
<1>2. \A c \in Completions : completion'[c].at = "none" <=> completion'[c].of = 0
  BY DEF TestsInTurn, CompletionsMove, CompletionsGo, Completes, ExecTests
<1>3. \A n \in ExecTests, c \in Completions : completion'[c].of = n => test'[n].at # "new"
  BY DEF TestsInTurn, TestsStay, CompletionsMove, CompletionsGo, Completes
<1>4. \A n \in ExecTests : test'[n].at = "new" =>
        test'[n].verdict = "none" /\ test'[n].heard = "no" /\ n \notin listeners'
  BY DEF TestsInTurn, TestsStay
<1> QED
  BY <1>1, <1>2, <1>3, <1>4 DEF TestsInTurn

LEMMA TurnStarts ==
  ASSUME ExecTyped, TestsInTurn, NEW n \in ExecTests, ExecuteTest(n)
  PROVE  TestsInTurn'
<1>1. /\ test[n].at = "new" /\ \A m \in ExecTests : m < n => test[m].at # "new" /\ Completed(m)
      /\ \A m \in ExecTests : m # n => test'[m] = test[m]
      /\ test'[n].at # "new" /\ CompletionsGo /\ listeners' \subseteq listeners \cup {n}
  BY ExecuteFacts
<1>2. \A m \in ExecTests : Completed(m) => Completed(m)'
  BY <1>1, CompletedStays DEF CompletionsMove
<1>3. \A k, m \in ExecTests : k < m /\ test'[m].at # "new" => test'[k].at # "new" /\ Completed(k)'
  <2> SUFFICES ASSUME NEW k \in ExecTests, NEW m \in ExecTests, k < m, test'[m].at # "new"
               PROVE  test'[k].at # "new" /\ Completed(k)'
    OBVIOUS
  <2>1. CASE m = n
    <3>1. k # n
      BY <2>1 DEF ExecTests
    <3> QED
      BY <1>1, <1>2, <2>1, <3>1
  <2>2. CASE m # n
    BY <1>1, <1>2, <2>2 DEF TestsInTurn
  <2> QED
    BY <2>1, <2>2
<1>4. \A c \in Completions : completion'[c].at = "none" <=> completion'[c].of = 0
  BY <1>1 DEF TestsInTurn, CompletionsGo
<1>5. \A m \in ExecTests, c \in Completions : completion'[c].of = m => test'[m].at # "new"
  BY <1>1 DEF TestsInTurn, CompletionsGo
<1>6. \A m \in ExecTests : test'[m].at = "new" =>
        test'[m].verdict = "none" /\ test'[m].heard = "no" /\ m \notin listeners'
  BY <1>1 DEF TestsInTurn
<1> QED
  BY <1>3, <1>4, <1>5, <1>6 DEF TestsInTurn

-----------------------------------------------------------------------------
(* Without the devtool                                                     *)

\* Completions that go on are no more and no fewer.
LEMMA OnceGoes == CompletionsGo => (CompletedOnce <=> CompletedOnce')
BY DEF CompletionsGo, CompletedOnce

\* Only the start of a test lets a file throw or one test run beside another.
LEMMA StraysStay ==
  ASSUME [ExecutionNext]_execVars, ~\E n \in ExecTests : ExecuteTest(n)
  PROVE  UNCHANGED <<threw, beside>>
<1>1. UNCHANGED strays
  <2>1. ASSUME NEW n \in ExecTests, RunGoesOn(n) \/ Settled(n) PROVE UNCHANGED strays
    BY <2>1 DEF RunGoesOn, Settled
  <2>2. ASSUME NEW c \in Completions, FlushGoesOn(c) PROVE UNCHANGED strays
    BY <2>2 DEF FlushGoesOn
  <2>3. CASE DevtoolPauses \/ EvaluateCode \/ ReleaseTestExecution \/ UNCHANGED execVars
    BY <2>3 DEF DevtoolPauses, EvaluateCode, ReleaseTestExecution, execVars
  <2> QED
    BY <2>1, <2>2, <2>3 DEF ExecutionNext, ExecutionProgress
<1> QED
  BY <1>1 DEF strays

\* What OnItsOwn says of every test.
HeardAll == \A m \in ExecTests : Heard(m) /\ \A c \in Completions : completion[c].of = m => CompletesAs(c, m)

\* Only one test is listened to.
LEMMA OneListens ==
  ASSUME TestsInTurn, HeardAll, NEW m \in ExecTests, NEW n \in ExecTests,
         m \in listeners, n \in listeners
  PROVE  m = n
<1>1. /\ test[m].at # "new" /\ test[m].heard = "no"
      /\ test[n].at # "new" /\ test[n].heard = "no"
  BY DEF HeardAll, Heard
<1>2. ~Completed(m) /\ ~Completed(n)
  BY <1>1 DEF HeardAll, CompletesAs, Completed
<1> QED
  BY <1>1, <1>2 DEF TestsInTurn, ExecTests

\* run() goes on; its end is heard by the test that is listened to.
LEMMA OwnRuns ==
  ASSUME ExecTyped, TestsInTurn, NothingSet, HeardAll, NEW n \in ExecTests, RunGoesOn(n),
         UNCHANGED <<threw, beside>>
  PROVE  HeardAll'
<1>1. /\ n \in Waiters /\ test[n] \in TestSet
      /\ test[n].at \in {"start", "flushed", "body"} /\ UNCHANGED completion
  BY RunAlternatives, WaiterFacts DEF ExecTyped, TestSet
<1>2. \A m \in ExecTests : Heard(m) /\ \A c \in Completions : completion[c].of = m => CompletesAs(c, m)
  BY DEF HeardAll
<1>3. RunPasses(n) \/ RunEnds(n)
  BY <1>1, RunAlternatives DEF RunWaits, RunBreaks, NothingSet, Waits, Breaks
<1>4. CASE RunPasses(n)
  <2>1. /\ test'[n].at \in {"flushed", "body"} /\ test'[n].heard = test[n].heard /\ test'[n].verdict = test[n].verdict
        /\ \A m \in ExecTests : m # n => test'[m] = test[m]
        /\ UNCHANGED listeners
    BY <1>1, <1>4 DEF RunPasses, ExecTyped, TestSet
  <2>2. \A m \in ExecTests : /\ test'[m].heard = test[m].heard /\ test'[m].verdict = test[m].verdict
                             /\ test'[m].at = "new" <=> test[m].at = "new"
                             /\ test'[m].at \in {"start", "flushed", "body"} <=> test[m].at \in {"start", "flushed", "body"}
                             /\ test'[m].at \in {"new", "over"} <=> test[m].at \in {"new", "over"}
    BY <1>1, <2>1
  <2>3. ASSUME NEW m \in ExecTests PROVE Heard(m)'
    <3>1. Plain(m) => RunsAlone(m)'
      BY <1>2, <2>1, <2>2 DEF Heard, RunsAlone
    <3> QED
      BY <1>2, <2>1, <2>2, <3>1 DEF Heard, Plain
  <2>4. ASSUME NEW m \in ExecTests, NEW c \in Completions, completion'[c].of = m PROVE CompletesAs(c, m)'
    BY <1>1, <1>2, <2>2, <2>4 DEF CompletesAs, Plain
  <2> QED
    BY <2>3, <2>4 DEF HeardAll
<1>5. ASSUME NEW verdict \in {"passed", "failed"}, NEW heard \in {"finished", "failed"},
             verdict = "passed" <=> heard = "finished", Emit(n, verdict, heard)
      PROVE  HeardAll'
  <2>1. /\ listeners' = {}
        /\ \A m \in ExecTests :
             /\ test'[m].at = (IF m = n THEN "over" ELSE test[m].at)
             /\ test'[m].verdict = (IF m = n THEN verdict ELSE test[m].verdict)
             /\ test'[m].heard = (IF m \in listeners /\ test[m].heard = "no" THEN heard ELSE test[m].heard)
    BY <1>5, EmitFacts
  <2>2. ASSUME NEW m \in ExecTests, Plain(m)
        PROVE  RunsAlone(m)'
    <3>1. RunsAlone(m) /\ Heard(m)
      BY <1>2, <2>2 DEF Heard
    <3>2. CASE m = n
      <4>1. m \in listeners /\ test[m].heard = "no"
        BY <1>1, <3>1, <3>2 DEF RunsAlone, Heard
      <4>2. test'[m].at = "over" /\ test'[m].verdict = verdict /\ test'[m].heard = heard
        BY <2>1, <3>2, <4>1
      <4> QED
        BY <1>5, <2>1, <4>2 DEF RunsAlone
    <3>3. CASE m # n
      <4>1. m \notin listeners
        BY <1>1, <3>1, <3>3 DEF RunsAlone
      <4>2. test'[m].at = test[m].at /\ test'[m].verdict = test[m].verdict /\ test'[m].heard = test[m].heard
        BY <2>1, <3>3, <4>1
      <4> QED
        BY <2>1, <3>1, <4>1, <4>2 DEF RunsAlone
    <3> QED
      BY <3>2, <3>3
  <2>3. ASSUME NEW m \in ExecTests PROVE Heard(m)'
    <3>1. test[m].at # "new" => test'[m].heard # "no"
      BY <1>1, <1>2, <1>5, <2>1 DEF Heard
    <3>2. test[m].heard # "no" => test'[m].heard = test[m].heard
      BY <2>1
    <3>3. Heard(m) /\ (test'[m].at = "new" <=> test[m].at = "new")
      BY <1>1, <1>2, <2>1
    <3> QED
      BY <2>1, <2>2, <3>1, <3>2, <3>3 DEF Heard, Plain
  <2>4. ASSUME NEW m \in ExecTests, NEW c \in Completions, completion'[c].of = m PROVE CompletesAs(c, m)'
    <3>1. CompletesAs(c, m) /\ completion'[c] = completion[c] /\ Heard(m)
      BY <1>1, <1>2, <2>4
    <3>2. test'[m].heard = "taken"
      BY <2>1, <3>1 DEF CompletesAs
    <3>3. Plain(m) => m # n
      BY <1>1, <3>1 DEF CompletesAs, Heard, RunsAlone
    <3>4. Plain(m) => test'[m].verdict = test[m].verdict
      BY <2>1, <3>3
    <3> QED
      BY <3>1, <3>2, <3>4 DEF CompletesAs, Plain
  <2> QED
    BY <2>3, <2>4 DEF HeardAll
<1> QED
  BY <1>3, <1>4, <1>5 DEF RunEnds

\* It has been heard of and completes for the first time.
LEMMA OwnSettles ==
  ASSUME ExecTyped, TestsInTurn, CompletedOnce, HeardAll, ~waitForRelease, NEW n \in ExecTests, Settled(n),
         UNCHANGED <<threw, beside>>
  PROVE  CompletedOnce' /\ HeardAll'
<1>1. /\ test[n].heard \in {"finished", "failed", "broken"} /\ test[n].at # "new"
      /\ \A m \in ExecTests : /\ test'[m].at = test[m].at /\ test'[m].verdict = test[m].verdict
                              /\ test'[m].heard = IF m = n THEN "taken" ELSE test[m].heard
      /\ \E c \in Completions : Completes(c, n, StatusOf(n))
      /\ UNCHANGED listeners
  BY SettledFacts
<1>2. PICK c \in Completions : Completes(c, n, StatusOf(n))
  BY <1>1
<1>3. \A m \in ExecTests : Heard(m) /\ \A d \in Completions : completion[d].of = m => CompletesAs(d, m)
  BY DEF HeardAll
<1>4. \A d \in Completions : completion[d].of # n
  BY <1>1, <1>3 DEF CompletesAs
<1>5. /\ completion'[c].of = n /\ completion'[c].status = StatusOf(n)
      /\ \A d \in Completions : d # c => completion'[d] = completion[d]
  BY <1>2 DEF Completes
<1>6. CompletedOnce'
  BY <1>4, <1>5 DEF CompletedOnce
<1>7. ASSUME NEW m \in ExecTests PROVE Heard(m)'
  <2>1. Plain(m) => RunsAlone(m)'
    BY <1>1, <1>3 DEF Heard, RunsAlone
  <2> QED
    BY <1>1, <1>3, <2>1 DEF Heard, Plain
<1>8. CompletesAs(c, n)'
  <2>1. n \in threw => test[n].heard = "failed"
    BY <1>1, <1>3 DEF Heard
  <2>2. Plain(n) /\ test[n].verdict = "failed" => test[n].heard = "failed"
    BY <1>1, <1>3 DEF Heard, RunsAlone
  <2>3. Plain(n) /\ test[n].verdict = "passed" => test[n].heard = "finished"
    BY <1>1, <1>3 DEF Heard, RunsAlone
  <2> QED
    BY <1>1, <1>5, <2>1, <2>2, <2>3 DEF CompletesAs, StatusOf, Plain
<1>9. ASSUME NEW m \in ExecTests, NEW d \in Completions, completion'[d].of = m PROVE CompletesAs(d, m)'
  <2>1. CASE d = c
    BY <1>5, <1>8, <1>9, <2>1
  <2>2. CASE d # c
    BY <1>1, <1>3, <1>4, <1>5, <1>9, <2>2 DEF CompletesAs, Plain
  <2> QED
    BY <2>1, <2>2
<1> QED
  BY <1>6, <1>7, <1>9 DEF HeardAll

\* The next one starts, when nobody is listened to; beside another if a file before threw.
LEMMA OwnStarts ==
  ASSUME ExecTyped, TestsInTurn, HeardAll, NEW n \in ExecTests, ExecuteTest(n)
  PROVE  HeardAll'
<1>1. /\ test[n].at = "new" /\ \A m \in ExecTests : m < n => test[m].at # "new" /\ Completed(m)
      /\ \A m \in ExecTests : m # n => test'[m] = test[m]
      /\ test'[n].verdict = test[n].verdict
      /\ \/ /\ test'[n].at = "start" /\ test'[n].heard = test[n].heard
            /\ listeners' = listeners \cup {n} /\ UNCHANGED threw
         \/ /\ test'[n].at = "start" /\ test'[n].heard = "failed"
            /\ UNCHANGED listeners /\ threw' = threw \cup {n}
         \/ /\ test'[n].at = "over" /\ test'[n].heard \in {"finished", "failed"}
            /\ UNCHANGED <<listeners, threw>>
      /\ beside' = IF \E m \in ExecTests : test[m].at \notin {"new", "over"} THEN beside \cup {n} ELSE beside
      /\ CompletionsGo
  BY ExecuteFacts
<1>2. \A m \in ExecTests : Heard(m) /\ \A d \in Completions : completion[d].of = m => CompletesAs(d, m)
  BY DEF HeardAll
<1>3. /\ test[n].verdict = "none" /\ test[n].heard = "no" /\ n \notin listeners
      /\ n \notin threw /\ n \notin beside /\ \A c \in Completions : completion[c].of # n
  BY <1>1, <1>2 DEF TestsInTurn, Heard
<1>4. \A m \in ExecTests : test[m].at # "new" => m < n /\ test[m].heard = "taken"
  <2> SUFFICES ASSUME NEW m \in ExecTests, test[m].at # "new" PROVE m < n /\ test[m].heard = "taken"
    OBVIOUS
  <2>1. ~(n < m) /\ n # m
    BY <1>1 DEF TestsInTurn
  <2>2. m < n
    BY <2>1 DEF ExecTests
  <2>3. Completed(m)
    BY <1>1, <2>2
  <2> QED
    BY <1>2, <2>2, <2>3 DEF Completed, CompletesAs
<1>5. ASSUME NEW m \in ExecTests, test[m].at \notin {"new", "over"}
      PROVE  \E k \in ExecTests : k \in threw /\ k < n
  <2>1. m < n /\ test[m].heard = "taken" /\ test[m].at \in {"start", "flushed", "body"}
    BY <1>4, <1>5 DEF ExecTyped, TestSet
  <2>2. ~Plain(m)
    BY <1>2, <2>1 DEF Heard, RunsAlone
  <2>3. CASE m \in threw
    BY <2>1, <2>3
  <2>4. CASE m \in beside
    <3>1. PICK k \in ExecTests : k \in threw /\ k < m
      BY <1>2, <2>4 DEF Heard
    <3>2. k < n
      BY <2>1, <3>1 DEF ExecTests
    <3> QED
      BY <3>1, <3>2
  <2> QED
    BY <2>2, <2>3, <2>4 DEF Plain
<1>6. /\ \A m \in ExecTests : m # n => /\ m \in threw' <=> m \in threw
                                       /\ m \in beside' <=> m \in beside
      /\ threw \subseteq threw'
      /\ n \in beside' <=> \E m \in ExecTests : test[m].at \notin {"new", "over"}
  BY <1>1, <1>3
<1>7. \A m \in ExecTests : m \notin listeners
  BY <1>2, <1>4 DEF Heard
<1>8. Heard(n)'
  <2>1. n \in listeners' <=> test'[n].at # "new" /\ test'[n].heard = "no"
    BY <1>1, <1>3
  <2>2. n \in threw' => test'[n].at # "new" /\ test'[n].heard \in {"failed", "taken"}
    BY <1>1, <1>3
  <2>3. n \in beside' => test'[n].at # "new" /\ \E m \in ExecTests : m \in threw' /\ m < n
    BY <1>1, <1>5, <1>6
  <2>4. Plain(n)' => RunsAlone(n)'
    <3> SUFFICES ASSUME n \notin threw', n \notin beside' PROVE RunsAlone(n)'
      BY DEF Plain
    <3>1. \A m \in ExecTests : m # n => test'[m].at \in {"new", "over"}
      BY <1>1, <1>6
    <3>2. n \in listeners' <=> test'[n].at \in {"start", "flushed", "body"}
      BY <1>1, <1>3
    <3> QED
      BY <1>1, <1>3, <3>1, <3>2 DEF RunsAlone
  <2> QED
    BY <2>1, <2>2, <2>3, <2>4 DEF Heard
<1>9. ASSUME NEW m \in ExecTests, m # n PROVE Heard(m)'
  <2>1. test'[m] = test[m] /\ m \notin listeners' /\ m \notin listeners /\ Heard(m)
    BY <1>1, <1>2, <1>7, <1>9
  <2>2. Plain(m)' => RunsAlone(m)'
    BY <1>6, <1>9, <2>1 DEF Heard, Plain, RunsAlone
  <2>3. m \in beside' => test'[m].at # "new" /\ \E k \in ExecTests : k \in threw' /\ k < m
    BY <1>6, <1>9, <2>1 DEF Heard
  <2> QED
    BY <1>6, <1>9, <2>1, <2>2, <2>3 DEF Heard
<1>10. ASSUME NEW m \in ExecTests, NEW c \in Completions, completion'[c].of = m PROVE CompletesAs(c, m)'
  <2>1. /\ completion[c].of = m /\ completion'[c].status = completion[c].status /\ m # n
        /\ CompletesAs(c, m)
    BY <1>1, <1>2, <1>3, <1>10 DEF CompletionsGo
  <2> QED
    BY <1>1, <1>6, <2>1 DEF CompletesAs, Plain
<1> QED
  BY <1>8, <1>9, <1>10 DEF HeardAll

\* OnItsOwn is kept.
LEMMA OwnSteps ==
  ASSUME PauseInv, ExecTyped, TestsInTurn, OnItsOwn, [ExecutionNext]_execVars
  PROVE  OnItsOwn'
<1>1. waitForRelease' = waitForRelease
  BY ExecTypedSteps DEF execModes
<1> SUFFICES ASSUME ~waitForRelease PROVE OnItsOwn'
  BY <1>1 DEF OnItsOwn
<1>2. NothingSet' /\ NothingSet /\ CompletedOnce /\ HeardAll
  BY PauseSteps DEF BreakpointsMove, OnItsOwn, HeardAll
<1> SUFFICES CompletedOnce' /\ HeardAll'
  BY <1>2 DEF OnItsOwn, HeardAll
<1>3. ASSUME NEW n \in ExecTests, ExecuteTest(n)
      PROVE  CompletedOnce' /\ HeardAll'
  BY <1>2, <1>3, ExecuteFacts, OnceGoes, OwnStarts
<1>4. CASE ~\E n \in ExecTests : ExecuteTest(n)
  <2>0. UNCHANGED <<threw, beside>>
    BY <1>4, StraysStay
  <2>1. ASSUME NEW n \in ExecTests, RunGoesOn(n) PROVE CompletedOnce' /\ HeardAll'
    <3>1. UNCHANGED completion
      BY <2>1, RunAlternatives
    <3> QED
      BY <1>2, <2>0, <2>1, <3>1, OwnRuns DEF CompletedOnce
  <2>2. ASSUME NEW n \in ExecTests, Settled(n) PROVE CompletedOnce' /\ HeardAll'
    BY <1>2, <2>0, <2>2, OwnSettles
  <2>3. ASSUME UNCHANGED <<test, listeners>>, CompletionsGo PROVE CompletedOnce' /\ HeardAll'
    <3>1. CompletedOnce'
      BY <1>2, <2>3, OnceGoes
    <3>2. \A m \in ExecTests : Heard(m)'
      BY <1>2, <2>0, <2>3 DEF HeardAll, Heard, Plain, RunsAlone
    <3>3. \A m \in ExecTests, c \in Completions : completion'[c].of = m => CompletesAs(c, m)'
      BY <1>2, <2>0, <2>3 DEF HeardAll, CompletesAs, Plain, CompletionsGo
    <3> QED
      BY <3>1, <3>2, <3>3 DEF HeardAll
  <2>4. ASSUME NEW c \in Completions, FlushGoesOn(c) PROVE UNCHANGED <<test, listeners>> /\ CompletionsGo
    BY <2>4, FlushGoes
  <2>5. CASE UNCHANGED execVars
    BY <2>3, <2>5, SameGoes DEF execVars
  <2>6. ~DevtoolPauses /\ ~EvaluateCode /\ ~ReleaseTestExecution
    BY DEF DevtoolPauses, EvaluateCode, ReleaseTestExecution, Told
  <2> QED
    BY <1>4, <2>1, <2>2, <2>3, <2>4, <2>5, <2>6 DEF ExecutionNext, ExecutionProgress
<1> QED
  BY <1>3, <1>4

-----------------------------------------------------------------------------
(* The callbacks                                                           *)

\* What is undisturbed has always been.
LEMMA UndisturbedBefore ==
  ASSUME TestsInTurn, UNCHANGED execModes, BreakpointsMove, CompletionsMove, Undisturbed'
  PROVE  Undisturbed
<1>1. ~callbacksFail /\ \A b \in Types : breakpoints[b] # "broken"
  BY DEF execModes, BreakpointsMove, Undisturbed
<1>2. CompletedOnce
  BY OnceGoes DEF CompletionsMove, Completes, Undisturbed, CompletedOnce, TestsInTurn
<1> QED
  BY <1>1, <1>2 DEF Undisturbed

\* Of the tests that have started at most one has not completed.
LEMMA OneIncomplete ==
  ASSUME TestsInTurn, NEW m \in ExecTests, NEW n \in ExecTests, test[m].at # "new", test[n].at # "new",
         ~Completed(m), ~Completed(n)
  PROVE  m = n
<1>1. ~(m < n) /\ ~(n < m)
  BY DEF TestsInTurn
<1> QED
  BY <1>1 DEF ExecTests

\* Its completion, if it has one, is not sent.
LEMMA NotSentYet ==
  ASSUME TestsInTurn, CompletedOnce, NEW n \in ExecTests, NEW c \in Completions, completion[c].of = n,
         completion[c].at # "sent"
  PROVE  test[n].at # "new" /\ ~Completed(n)
BY DEF TestsInTurn, CompletedOnce, Completed, ExecTests

\* Whether it has a callback does not change.
LEMMA RanStays ==
  ASSUME TestsStay, NEW n \in ExecTests
  PROVE  /\ ListOf(n)' = ListOf(n) /\ CountOf(n)' = CountOf(n)
         /\ test'[n].at # "new" <=> test[n].at # "new"
BY DEF TestsStay, ListOf, CountOf

\* executeTest(): the list is empty, and gets the callback of the one that starts.
LEMMA CallbacksStart ==
  ASSUME ExecTyped, TestsInTurn, CallbacksKept, Undisturbed, NEW n \in ExecTests, ExecuteTest(n)
  PROVE  CallbacksKept'
<1>1. /\ test[n].at = "new" /\ \A m \in ExecTests : m < n => test[m].at # "new" /\ Completed(m)
      /\ \A m \in ExecTests : m # n => test'[m] = test[m]
      /\ test'[n].verdict = test[n].verdict
      /\ \/ test'[n].at = "start" /\ afterRunCallbacks' = Append(afterRunCallbacks, n)
         \/ test'[n].at = "over" /\ UNCHANGED afterRunCallbacks
      /\ CompletionsGo /\ \A c \in Completions : completion'[c].at = completion[c].at
      /\ UNCHANGED called
  BY ExecuteFacts
<1>2. /\ NobodyElse /\ CompletedOnce
      /\ \A m \in ExecTests : (\A c \in Completions : completion[c].of # m) => NotYet(m)
      /\ \A m \in ExecTests, c \in Completions : completion[c].of = m => Flushes(c, m)
  BY DEF CallbacksKept, Undisturbed
<1>3. \A m \in ExecTests : test[m].at # "new" => Completed(m)
  <2> SUFFICES ASSUME NEW m \in ExecTests, test[m].at # "new" PROVE Completed(m)
    OBVIOUS
  <2>1. ~(n < m) /\ n # m
    BY <1>1 DEF TestsInTurn
  <2>2. m < n
    BY <2>1 DEF ExecTests
  <2> QED
    BY <1>1, <2>2
<1>4. afterRunCallbacks = <<>>
  BY <1>2, <1>3 DEF NobodyElse
<1>5. test[n].verdict = "none" /\ \A c \in Completions : completion[c].of # n
  BY <1>1 DEF TestsInTurn
<1>6. afterRunCallbacks' = ListOf(n)' /\ test'[n].at # "new"
  <2>1. CASE test'[n].at = "start" /\ afterRunCallbacks' = Append(afterRunCallbacks, n)
    BY <1>4, <2>1 DEF ListOf, Ran
  <2>2. CASE test'[n].at = "over" /\ UNCHANGED afterRunCallbacks
    BY <1>1, <1>4, <1>5, <2>2 DEF ListOf, Ran
  <2> QED
    BY <1>1, <2>1, <2>2
<1>7. \A c \in Completions : completion'[c].of = completion[c].of
  BY <1>1 DEF CompletionsGo
<1>8. NobodyElse'
  <2>1. ~Completed(n)'
    BY <1>5, <1>7 DEF Completed
  <2> QED
    BY <1>6, <2>1 DEF NobodyElse, ListOf
<1>9. ASSUME NEW m \in ExecTests, \A c \in Completions : completion'[c].of # m PROVE NotYet(m)'
  <2>1. NotYet(m)
    BY <1>2, <1>7, <1>9
  <2>2. m = n \/ (m # n /\ test[m].at = "new")
    BY <1>3, <1>7, <1>9 DEF Completed
  <2> QED
    BY <1>1, <1>6, <2>1, <2>2 DEF NotYet
<1>10. ASSUME NEW m \in ExecTests, NEW c \in Completions, completion'[c].of = m PROVE Flushes(c, m)'
  <2>1. completion[c].of = m /\ Flushes(c, m) /\ m # n
    BY <1>2, <1>5, <1>7, <1>10
  <2>2. completion[c].at = "sent"
    BY <1>2, <1>3, <2>1, NotSentYet
  <2>3. completion'[c].at = "sent" /\ called'[m] = CountOf(m)
    BY <1>1, <2>1, <2>2 DEF Flushes
  <2>4. CountOf(m)' = CountOf(m)
    BY <1>1, <2>1 DEF CountOf, Ran
  <2> QED
    BY <2>3, <2>4 DEF Flushes
<1> QED
  BY <1>8, <1>9, <1>10 DEF CallbacksKept

\* Steps that leave list, calls and completions alone.
LEMMA CallbacksStay ==
  ASSUME CallbacksKept, Undisturbed, TestsStay, UNCHANGED <<completion, afterRunCallbacks, called>>
  PROVE  CallbacksKept'
<1>1. /\ NobodyElse
      /\ \A m \in ExecTests : (\A c \in Completions : completion[c].of # m) => NotYet(m)
      /\ \A m \in ExecTests, c \in Completions : completion[c].of = m => Flushes(c, m)
  BY DEF CallbacksKept
<1>2. NobodyElse'
  BY <1>1, RanStays DEF NobodyElse, Completed
<1>3. \A m \in ExecTests : (\A c \in Completions : completion'[c].of # m) => NotYet(m)'
  BY <1>1, RanStays DEF NotYet
<1>4. ASSUME NEW m \in ExecTests, NEW c \in Completions, completion'[c].of = m PROVE Flushes(c, m)'
  <2>1. ListOf(m)' = ListOf(m) /\ CountOf(m)' = CountOf(m)
    BY RanStays
  <2> QED
    BY <1>1, <1>4, <2>1 DEF Flushes
<1> QED
  BY <1>2, <1>3, <1>4 DEF CallbacksKept

\* A completion is taken: for a test that had none, or two would be completed.
LEMMA CallbacksComplete ==
  ASSUME TestsInTurn, CallbacksKept, Undisturbed, TestsStay, CompletedOnce',
         NEW c \in Completions, NEW n \in ExecTests, NEW status, test[n].at # "new", Completes(c, n, status),
         UNCHANGED <<afterRunCallbacks, called>>
  PROVE  CallbacksKept'
<1>1. /\ NobodyElse
      /\ \A m \in ExecTests : (\A d \in Completions : completion[d].of # m) => NotYet(m)
      /\ \A m \in ExecTests, d \in Completions : completion[d].of = m => Flushes(d, m)
  BY DEF CallbacksKept
<1>2. /\ completion[c].of = 0 /\ n # 0 /\ completion'[c].of = n /\ completion'[c].at = "flushAfter"
      /\ \A d \in Completions : d # c => completion'[d] = completion[d]
  BY DEF Completes, TestsInTurn, ExecTests
<1>3. \A d \in Completions : completion[d].of # n
  BY <1>2 DEF CompletedOnce
<1>4. \A m \in ExecTests : Completed(m) <=> Completed(m)'
  BY <1>2 DEF Completed, Completes
<1>5. NobodyElse'
  BY <1>1, <1>4, RanStays DEF NobodyElse
<1>6. NotYet(n)
  BY <1>1, <1>3
<1>7. ASSUME NEW m \in ExecTests, \A d \in Completions : completion'[d].of # m PROVE NotYet(m)'
  <2>1. \A d \in Completions : completion[d].of # m
    BY <1>2, <1>7 DEF ExecTests
  <2> QED
    BY <1>1, <2>1, RanStays DEF NotYet
<1>8. ASSUME NEW m \in ExecTests, NEW d \in Completions, completion'[d].of = m PROVE Flushes(d, m)'
  <2>1. ListOf(m)' = ListOf(m) /\ CountOf(m)' = CountOf(m)
    BY RanStays
  <2>2. CASE d = c
    BY <1>2, <1>6, <1>8, <2>1, <2>2 DEF Flushes, NotYet
  <2>3. CASE d # c
    BY <1>1, <1>2, <1>8, <2>1, <2>3 DEF Flushes
  <2> QED
    BY <2>2, <2>3
<1> QED
  BY <1>5, <1>7, <1>8 DEF CallbacksKept

\* While a completion flushes, all the others have been sent.
LEMMA FlushesAlone ==
  ASSUME TestsInTurn, CallbacksKept, Undisturbed, NEW c \in Completions, NEW n \in ExecTests,
         completion[c].of = n, completion[c].at # "sent", UNCHANGED test,
         completion'[c].of = n,
         \A d \in Completions : d # c => completion'[d].of = completion[d].of /\ completion'[d].at = completion[d].at,
         \A m \in ExecTests : m # n => called'[m] = called[m],
         NobodyElse', Flushes(c, n)'
  PROVE  CallbacksKept'
<1>1. /\ CompletedOnce
      /\ \A m \in ExecTests : (\A d \in Completions : completion[d].of # m) => NotYet(m)
      /\ \A m \in ExecTests, d \in Completions : completion[d].of = m => Flushes(d, m)
  BY DEF CallbacksKept, Undisturbed
<1>2. test[n].at # "new" /\ ~Completed(n)
  BY <1>1, NotSentYet
<1>3. ASSUME NEW m \in ExecTests, test[m].at # "new", m # n PROVE Completed(m)
  BY <1>2, <1>3, OneIncomplete
<1>4. ASSUME NEW m \in ExecTests, \A d \in Completions : completion'[d].of # m PROVE NotYet(m)'
  <2>1. m # n /\ \A d \in Completions : completion[d].of # m
    BY <1>4
  <2>2. test[m].at = "new" /\ NotYet(m)
    BY <1>1, <1>3, <2>1 DEF Completed
  <2> QED
    BY <2>1, <2>2 DEF NotYet
<1>5. ASSUME NEW m \in ExecTests, NEW d \in Completions, completion'[d].of = m PROVE Flushes(d, m)'
  <2>1. CASE d = c
    BY <1>5, <2>1
  <2>2. CASE d # c
    <3>1. completion[d].of = m /\ completion'[d].at = completion[d].at /\ m # 0
      BY <1>5, <2>2 DEF ExecTests
    <3>2. m # n
      BY <1>1, <2>2, <3>1 DEF CompletedOnce
    <3>3. completion[d].at = "sent"
      <4> SUFFICES ASSUME completion[d].at # "sent" PROVE FALSE
        OBVIOUS
      <4>1. test[m].at # "new" /\ ~Completed(m)
        BY <1>1, <3>1, NotSentYet
      <4> QED
        BY <1>3, <3>2, <4>1
    <3>4. called'[m] = CountOf(m) /\ CountOf(m)' = CountOf(m)
      BY <1>1, <3>1, <3>2, <3>3 DEF Flushes, CountOf, Ran
    <3> QED
      BY <3>1, <3>3, <3>4 DEF Flushes
  <2> QED
    BY <2>1, <2>2
<1> QED
  BY <1>4, <1>5 DEF CallbacksKept

\* flushAfterRunCallbacks(): nothing is broken and nothing rejects.
LEMMA CallbacksFlush ==
  ASSUME PauseInv, ExecTyped, TestsInTurn, CallbacksKept, Undisturbed, NEW c \in Completions, FlushGoesOn(c)
  PROVE  CallbacksKept'
<1>0. PICK n : n = completion[c].of
  OBVIOUS
<1>1. /\ CompletedOnce /\ ~callbacksFail /\ NobodyElse
      /\ \A m \in ExecTests, d \in Completions : completion[d].of = m => Flushes(d, m)
  BY DEF CallbacksKept, Undisturbed
<1>2. UNCHANGED <<test, listeners>>
  BY FlushAlternatives
<1>3. /\ completion \in [Completions -> CompletionSet] /\ completion[c] \in CompletionSet
      /\ called \in [ExecTests -> Nat]
  BY DEF ExecTyped
<1>4. ASSUME completion[c].at # "none"
      PROVE  n \in ExecTests /\ Flushes(c, n)
  <2>1. n \in 0..NumTests /\ n # 0
    BY <1>0, <1>3, <1>4 DEF CompletionSet, TestsInTurn
  <2> QED
    BY <1>0, <1>1, <2>1, ExecutionAssumption DEF ExecTests
<1>5. ASSUME NEW r, completion' = [completion EXCEPT ![c] = r]
      PROVE  completion'[c] = r /\ \A d \in Completions : d # c => completion'[d] = completion[d]
  BY <1>3, <1>5
<1>6. ListOf(n)' = ListOf(n) /\ CountOf(n)' = CountOf(n)
  BY <1>2 DEF ListOf, CountOf, Ran
<1>7. CASE FlushWaits(c)
  BY <1>2, <1>7, SameStays, CallbacksStay DEF FlushWaits
<1>8. ~FlushBreaks(c)
  <2>1. Waiter(c) \in Waiters
    BY WaiterFacts
  <2> QED
    BY <2>1 DEF FlushBreaks, Breaks, Undisturbed, PauseInv, AtSet
<1>9. CASE FlushBegins(c)
  <2> DEFINE r == [completion[c] EXCEPT !.at = "callbacks", !.live = TRUE, !.rest = afterRunCallbacks]
  <2>1. completion[c].at = "flushAfter" /\ UNCHANGED <<afterRunCallbacks, called>>
    BY <1>9 DEF FlushBegins
  <2>2. r.of = n /\ r.at = "callbacks" /\ r.rest = afterRunCallbacks
    BY <1>0, <1>3 DEF CompletionSet
  <2>3. completion' = [completion EXCEPT ![c] = r]
    BY <1>9 DEF FlushBegins
  <2> HIDE DEF r
  <2>4. completion'[c] = r /\ \A d \in Completions : d # c => completion'[d] = completion[d]
    BY <1>5, <2>3
  <2>5. n \in ExecTests /\ called[n] = 0 /\ afterRunCallbacks = ListOf(n)
    BY <1>4, <2>1 DEF Flushes
  <2>6. Flushes(c, n)'
    BY <1>6, <2>1, <2>2, <2>4, <2>5 DEF Flushes
  <2>7. NobodyElse'
    <3>1. \A m \in ExecTests : Completed(m)' => Completed(m)
      BY <2>2, <2>4 DEF Completed
    <3> QED
      BY <1>1, <1>2, <2>1, <3>1 DEF NobodyElse
  <2> QED
    BY <1>0, <1>2, <2>1, <2>2, <2>4, <2>5, <2>6, <2>7, FlushesAlone
<1>10. CASE FlushEnds(c)
  <2> DEFINE r == [completion[c] EXCEPT !.at = "sent"]
  <2>1. completion[c].at = "flushed" /\ UNCHANGED <<afterRunCallbacks, called>>
    BY <1>10 DEF FlushEnds
  <2>2. r.of = n /\ r.at = "sent"
    BY <1>0, <1>3 DEF CompletionSet
  <2>3. completion' = [completion EXCEPT ![c] = r]
    BY <1>10 DEF FlushEnds, Goes
  <2> HIDE DEF r
  <2>4. completion'[c] = r /\ \A d \in Completions : d # c => completion'[d] = completion[d]
    BY <1>5, <2>3
  <2>5. n \in ExecTests /\ called[n] = CountOf(n) /\ afterRunCallbacks = <<>>
    BY <1>4, <2>1 DEF Flushes
  <2>6. Flushes(c, n)'
    BY <1>6, <2>1, <2>2, <2>4, <2>5 DEF Flushes
  <2>7. NobodyElse'
    BY <2>1, <2>5 DEF NobodyElse
  <2> QED
    BY <1>0, <1>2, <2>1, <2>2, <2>4, <2>5, <2>6, <2>7, FlushesAlone
<1>11. CASE FlushCalls(c)
  <2> DEFINE r == [completion[c] EXCEPT !.rest = Tail(completion[c].rest)]
  <2>1. /\ completion[c].at = "callbacks" /\ completion[c].rest # <<>> /\ UNCHANGED afterRunCallbacks
        /\ called' = [called EXCEPT ![Head(completion[c].rest)] = @ + 1]
        /\ completion' = [completion EXCEPT ![c] = r]
    BY <1>1, <1>11 DEF FlushCalls
  <2>2. r.of = n /\ r.at = "callbacks" /\ r.rest = Tail(completion[c].rest)
    BY <1>0, <1>3, <2>1 DEF CompletionSet
  <2> HIDE DEF r
  <2>3. completion'[c] = r /\ \A d \in Completions : d # c => completion'[d] = completion[d]
    BY <1>5, <2>1
  <2>4. n \in ExecTests /\ completion[c].rest = ListOf(n) /\ called[n] = 0
    BY <1>4, <2>1 DEF Flushes
  <2>5. ListOf(n) = <<n>> /\ CountOf(n) = 1
    BY <2>1, <2>4 DEF ListOf, CountOf
  <2>6. r.rest = <<>> /\ called' = [called EXCEPT ![n] = @ + 1]
    <3>1. Head(<<n>>) = n /\ Tail(<<n>>) = <<>>
      OBVIOUS
    <3> QED
      BY <2>1, <2>2, <2>4, <2>5, <3>1
  <2>7. called'[n] = 1 /\ \A m \in ExecTests : m # n => called'[m] = called[m]
    BY <1>3, <2>4, <2>6
  <2>8. Flushes(c, n)'
    BY <1>6, <2>2, <2>3, <2>5, <2>6, <2>7 DEF Flushes
  <2>9. NobodyElse'
    <3>1. \A m \in ExecTests : Completed(m)' => Completed(m)
      BY <2>2, <2>3 DEF Completed
    <3> QED
      BY <1>1, <1>2, <2>1, <3>1 DEF NobodyElse
  <2> QED
    BY <1>0, <1>2, <2>1, <2>2, <2>3, <2>4, <2>7, <2>8, <2>9, FlushesAlone
<1>12. CASE FlushClears(c)
  <2> DEFINE New(d) == IF d = c THEN [completion[c] EXCEPT !.at = "flushed", !.live = FALSE]
                       ELSE [completion[d] EXCEPT !.live = FALSE]
  <2>1. /\ completion[c].at = "callbacks" /\ completion[c].rest = <<>> /\ afterRunCallbacks' = <<>>
        /\ UNCHANGED called /\ completion' = [d \in Completions |-> New(d)]
    BY <1>12 DEF FlushClears
  <2>2. ASSUME NEW d \in Completions
        PROVE  New(d).of = completion[d].of /\ New(d).at = IF d = c THEN "flushed" ELSE completion[d].at
    <3>1. completion[d] \in CompletionSet
      BY <1>3
    <3> QED
      BY <3>1 DEF CompletionSet
  <2> HIDE DEF New
  <2>3. /\ completion'[c].of = n /\ completion'[c].at = "flushed"
        /\ \A d \in Completions : d # c => completion'[d].of = completion[d].of /\ completion'[d].at = completion[d].at
    BY <1>0, <2>1, <2>2
  <2>4. n \in ExecTests /\ called[n] = CountOf(n)
    <3>1. /\ n \in ExecTests
          /\ (completion[c].rest = ListOf(n) /\ called[n] = 0) \/ called[n] = CountOf(n)
      BY <1>4, <2>1 DEF Flushes
    <3>2. ListOf(n) = <<>> => CountOf(n) = 0
      BY DEF ListOf, CountOf
    <3> QED
      BY <2>1, <3>1, <3>2
  <2>5. Flushes(c, n)'
    BY <1>6, <2>1, <2>3, <2>4 DEF Flushes
  <2>6. NobodyElse'
    BY <2>1 DEF NobodyElse
  <2> QED
    BY <1>0, <1>2, <2>1, <2>3, <2>4, <2>5, <2>6, FlushesAlone
<1> QED
  BY <1>7, <1>8, <1>9, <1>10, <1>11, <1>12, FlushAlternatives

\* CallbacksKept is kept.
LEMMA CallbacksSteps ==
  ASSUME PauseInv, ExecTyped, TestsInTurn, CallbacksKept, [ExecutionNext]_execVars
  PROVE  CallbacksKept'
<1> SUFFICES ASSUME Undisturbed' PROVE CallbacksKept'
  BY DEF CallbacksKept
<1>1. UNCHANGED execModes /\ BreakpointsMove
  BY ExecTypedSteps, PauseSteps
<1>2. ASSUME NEW n \in ExecTests, ExecuteTest(n) PROVE CallbacksKept'
  <2>1. CompletionsMove
    BY <1>2, ExecuteFacts DEF CompletionsMove
  <2> QED
    BY <1>1, <1>2, <2>1, UndisturbedBefore, CallbacksStart
<1>3. CASE ~\E n \in ExecTests : ExecuteTest(n)
  <2>1. TestsStay /\ CompletionsMove
    BY <1>3, OtherSteps
  <2>2. Undisturbed /\ CompletedOnce'
    BY <1>1, <2>1, UndisturbedBefore DEF Undisturbed
  <2>3. ASSUME NEW n \in ExecTests, RunGoesOn(n) PROVE CallbacksKept'
    BY <2>1, <2>2, <2>3, RunAlternatives, CallbacksStay
  <2>4. ASSUME NEW n \in ExecTests, Settled(n) PROVE CallbacksKept'
    <3>1. /\ test[n].at # "new" /\ UNCHANGED <<afterRunCallbacks, called>>
          /\ UNCHANGED completion \/ \E c \in Completions : Completes(c, n, StatusOf(n))
      BY <2>4, SettledFacts
    <3>2. CASE UNCHANGED completion
      BY <2>1, <2>2, <3>1, <3>2, CallbacksStay
    <3>3. CASE \E c \in Completions : Completes(c, n, StatusOf(n))
      BY <2>1, <2>2, <3>1, <3>3, CallbacksComplete
    <3> QED
      BY <3>1, <3>2, <3>3
  <2>5. ASSUME NEW c \in Completions, FlushGoesOn(c) PROVE CallbacksKept'
    BY <2>2, <2>5, CallbacksFlush
  <2>6. CASE DevtoolPauses \/ EvaluateCode
    BY <2>1, <2>2, <2>6, CallbacksStay DEF DevtoolPauses, EvaluateCode
  <2>7. CASE ReleaseTestExecution
    <3>1. PICK n \in ExecTests : n = LastStarted
      BY <2>7, ReleaseCompletes
    <3>2. /\ test[n].at # "new" /\ (\E c \in Completions : Completes(c, n, "done"))
          /\ UNCHANGED <<afterRunCallbacks, called>>
      BY <2>7, <3>1, ReleaseCompletes
    <3> QED
      BY <2>1, <2>2, <3>2, CallbacksComplete
  <2>8. CASE UNCHANGED execVars
    BY <2>1, <2>2, <2>8, CallbacksStay DEF execVars
  <2> QED
    BY <1>3, <2>3, <2>4, <2>5, <2>6, <2>7, <2>8 DEF ExecutionNext, ExecutionProgress
<1> QED
  BY <1>2, <1>3

-----------------------------------------------------------------------------
(* What the worker process promises                                        *)

\* Every step keeps the invariant.
LEMMA ExecSteps == ExecInv /\ [ExecutionNext]_execVars => ExecInv'
<1> SUFFICES ASSUME ExecInv, [ExecutionNext]_execVars PROVE ExecInv'
  OBVIOUS
<1>1. PauseInv /\ ExecTyped /\ TestsInTurn /\ OnItsOwn /\ CallbacksKept
  BY DEF ExecInv
<1>2. PauseInv' /\ ExecTyped'
  BY <1>1, PauseSteps, ExecTypedSteps
<1>3. TestsInTurn'
  BY <1>1, TurnStarts, OtherSteps, TurnKept
<1>4. OnItsOwn' /\ CallbacksKept'
  BY <1>1, OwnSteps, CallbacksSteps
<1> QED
  BY <1>2, <1>3, <1>4 DEF ExecInv

\* No test completes twice, said by counting.
LEMMA OnceCounted ==
  ASSUME ExecTyped
  PROVE  CompletedOnce <=> \A n \in ExecTests : Cardinality(CompletionsOf(n)) <= 1
<1>1. IsFiniteSet(Completions)
  BY ExecutionAssumption, FS_Interval DEF Completions, NumCompletions
<1>2. ASSUME NEW n PROVE IsFiniteSet(CompletionsOf(n)) /\ Cardinality(CompletionsOf(n)) \in Nat
  BY <1>1, FS_Subset, FS_CardinalityType DEF CompletionsOf
<1>3. ASSUME CompletedOnce, NEW n \in ExecTests PROVE Cardinality(CompletionsOf(n)) <= 1
  <2>1. CASE CompletionsOf(n) = {}
    BY <2>1, FS_EmptySet
  <2>2. CASE CompletionsOf(n) # {}
    <3>1. PICK c \in CompletionsOf(n) : TRUE
      BY <2>2
    <3>2. CompletionsOf(n) = {c}
      BY <1>3, <3>1 DEF CompletionsOf, CompletedOnce, ExecTests
    <3>3. Cardinality({c}) = 1
      BY FS_Singleton
    <3> QED
      BY <3>2, <3>3
  <2> QED
    BY <2>1, <2>2
<1>4. ASSUME \A n \in ExecTests : Cardinality(CompletionsOf(n)) <= 1 PROVE CompletedOnce
  <2> SUFFICES ASSUME NEW c \in Completions, NEW d \in Completions, completion[c].of = completion[d].of,
                      completion[c].of # 0, c # d
               PROVE  FALSE
    BY DEF CompletedOnce
  <2>1. completion[c].of \in ExecTests
    BY <1>4, ExecutionAssumption DEF ExecTyped, CompletionSet, ExecTests
  <2>2. PICK n \in ExecTests : n = completion[c].of
    BY <2>1
  <2>3. {c, d} \subseteq CompletionsOf(n)
    BY <2>2 DEF CompletionsOf
  <2>4. IsFiniteSet({c}) /\ Cardinality({c}) = 1
    BY FS_Singleton
  <2>5. Cardinality({c} \cup {d}) = 2
    <3>1. d \notin {c}
      OBVIOUS
    <3>2. Cardinality({c} \cup {d}) = IF d \in {c} THEN Cardinality({c}) ELSE Cardinality({c}) + 1
      BY ONLY <2>4, FS_AddElement, Zenon
    <3> QED
      BY ONLY <2>4, <3>1, <3>2
  <2>6. {c} \cup {d} \in SUBSET CompletionsOf(n)
    BY <2>3
  <2>7. 2 <= Cardinality(CompletionsOf(n))
    BY <1>2, <2>5, <2>6, FS_Subset
  <2> QED
    BY <1>2, <1>4, <2>7
<1> QED
  BY <1>3, <1>4

\* The invariant says what ExecutionKeeps says.
LEMMA ExecInvKeeps == ExecInv => OwnVerdict /\ AfterRunCalled /\ PauseTold
<1> SUFFICES ASSUME ExecInv PROVE OwnVerdict /\ AfterRunCalled /\ PauseTold
  OBVIOUS
<1>1. PauseTold /\ ExecTyped /\ TestsInTurn /\ OnItsOwn /\ CallbacksKept
  BY DEF ExecInv, PauseInv
<1>2. OwnVerdict
  <2> SUFFICES ASSUME ~waitForRelease, NEW n \in ExecTests
               PROVE  /\ Cardinality(CompletionsOf(n)) <= 1
                      /\ n \in beside => \E m \in threw : m < n
                      /\ \A c \in CompletionsOf(n) :
                           IF n \in threw THEN completion[c].status = "failed"
                           ELSE n \notin beside => /\ test[n].at = "over"
                                                   /\ test[n].verdict = "failed" => completion[c].status = "failed"
                                                   /\ test[n].verdict = "passed" => completion[c].status = "done"
    BY DEF OwnVerdict
  <2>1. CompletedOnce /\ Heard(n) /\ \A c \in Completions : completion[c].of = n => CompletesAs(c, n)
    BY <1>1 DEF OnItsOwn
  <2>2. Cardinality(CompletionsOf(n)) <= 1
    BY <1>1, <2>1, OnceCounted
  <2>3. n \in beside => \E m \in threw : m < n
    BY <2>1 DEF Heard
  <2>4. ASSUME NEW c \in CompletionsOf(n), n \notin threw, n \notin beside PROVE test[n].at = "over"
    <3>1. test[n].at # "new" /\ test[n].heard = "taken" /\ test[n] \in TestSet
      BY <1>1, <2>1 DEF CompletionsOf, CompletesAs, TestsInTurn, ExecTyped
    <3>2. n \notin listeners /\ RunsAlone(n)
      BY <2>1, <2>4, <3>1 DEF Heard, Plain
    <3> QED
      BY <3>1, <3>2 DEF RunsAlone, TestSet
  <2> QED
    BY <2>1, <2>2, <2>3, <2>4 DEF CompletionsOf, CompletesAs, Plain
<1>3. AfterRunCalled
  <2> SUFFICES ASSUME ~callbacksFail, \A b \in Types : breakpoints[b] # "broken",
                      \A n \in ExecTests : Cardinality(CompletionsOf(n)) <= 1,
                      NEW n \in ExecTests
               PROVE  /\ called[n] <= 1
                      /\ Completed(n) /\ test[n].at # "new" /\ test[n].verdict # "none" =>
                           called[n] = 1 /\ n \notin ToSet(afterRunCallbacks)
    BY DEF AfterRunCalled
  <2>1. Undisturbed
    BY <1>1, OnceCounted DEF Undisturbed
  <2>2. /\ NobodyElse
        /\ (\A c \in Completions : completion[c].of # n) => NotYet(n)
        /\ \A c \in Completions : completion[c].of = n => Flushes(c, n)
    BY <1>1, <2>1 DEF CallbacksKept
  <2>3. called[n] <= 1
    <3>1. CASE \A c \in Completions : completion[c].of # n
      BY <2>2, <3>1 DEF NotYet
    <3>2. CASE \E c \in Completions : completion[c].of = n
      <4>1. PICK c \in Completions : completion[c].of = n
        BY <3>2
      <4>2. completion[c].at # "none" /\ completion[c] \in CompletionSet
        BY <1>1, <4>1 DEF TestsInTurn, ExecTyped, ExecTests
      <4>3. Flushes(c, n)
        BY <2>2, <4>1
      <4>4. called[n] \in {0, CountOf(n)}
        BY <4>2, <4>3 DEF Flushes, CompletionSet
      <4> QED
        BY <4>4 DEF CountOf
    <3> QED
      BY <3>1, <3>2
  <2>4. ASSUME Completed(n), test[n].verdict # "none"
        PROVE  called[n] = 1 /\ n \notin ToSet(afterRunCallbacks)
    <3>1. called[n] = 1
      BY <2>2, <2>4 DEF Completed, Flushes, CountOf, Ran
    <3>2. afterRunCallbacks = <<>> \/ \E m \in ExecTests : afterRunCallbacks = <<m>> /\ m # n
      BY <2>2, <2>4 DEF NobodyElse
    <3>3. n \notin ToSet(afterRunCallbacks)
      BY <3>2 DEF ToSet
    <3> QED
      BY <3>1, <3>3
  <2> QED
    BY <2>3, <2>4
<1> QED
  BY <1>1, <1>2, <1>3

-----------------------------------------------------------------------------
(* Devtool                                                                 *)

CallKinds == {"none", "update", "unregister", "register app", "unregister app"}
CallPlaces == {"new", "found", "created", "attach", "dispatch", "over"}
CallSet == [kind : CallKinds, worker : DevWorkers \cup {"none"}, app : DevApps \cup {"none"},
            store : Nat, at : CallPlaces, error : BOOLEAN]

\* The types, for any number of stores, with anything as the ids of applications.
StoreOf(ids) == [workerState : Nat, ids : ids, listeners : Seq(Connections)]
StoresTyped == \E ids : stores \in Seq(StoreOf(ids))
DevTyped ==
  /\ StoresTyped
  /\ storesByWorkerId \in [DevWorkers -> Nat] /\ storesByWebAppId \in [DevApps -> Nat]
  /\ workerIdByWebAppId \in [DevApps -> DevWorkers \cup {"none"}]
  /\ devCall \in [DevCalls -> CallSet]
  /\ appState \in [DevApps -> {"new", "asked", "registered", "refused", "leaving", "left"}]
  /\ webAppIdByConnectionId \in [Connections -> DevApps \cup {"none"}]
  /\ handlersByConnectionId \in [Connections -> Nat]
  /\ connected \in [Connections -> {"no", "open", "closed"}]
  /\ handshakes \in [Connections -> Nat]

\* What is known of a message from how far it is.
CallIs(r) ==
  /\ r.at = "new" => r = [kind |-> "none", worker |-> "none", app |-> "none", store |-> NoStore,
                          at |-> "new", error |-> FALSE]
  /\ r.kind \in {"register app", "unregister app"} => r.app \in DevApps /\ r.worker = AppOwner[r.app]
  /\ r.kind \notin {"register app", "unregister app"} => r.app = "none"
  /\ r.at \notin {"new", "over"} =>
       r.kind \in {"update", "register app", "unregister app"} /\ r.worker \in DevWorkers
  /\ r.at \in {"created", "attach", "dispatch"} => r.store # NoStore
  /\ r.at = "created" => r.kind # "unregister app"
  /\ r.at = "attach" => r.kind # "update"
CallsAre == \A m \in DevCalls : CallIs(devCall[m])

\* Messages arrive in their order; serial ones are handled one at a time.
UnderWay(m) == devCall[m].at \notin {"new", "over"}
CallsInOrder ==
  /\ \A m, n \in DevCalls : m < n /\ devCall[n].at # "new" => devCall[m].at # "new"
  /\ serial => \A m, n \in DevCalls : m < n /\ devCall[n].at # "new" => devCall[m].at = "over"

\* The store s is that of the worker w, for the worker, an application or a message.
Claims(s, w) ==
  \/ w \in DevWorkers /\ storesByWorkerId[w] = s
  \/ \E a \in DevApps : AppOwner[a] = w /\ storesByWebAppId[a] = s
  \/ \E m \in DevCalls : devCall[m].worker = w /\ devCall[m].store = s

\* A store is that of one worker.
OneOwner ==
  /\ \A s \in Nat \ {NoStore}, w \in DevWorkers \cup {"none"} : Claims(s, w) => s <= Len(stores)
  /\ \A s \in Nat \ {NoStore}, v, w \in DevWorkers \cup {"none"} : Claims(s, v) /\ Claims(s, w) => v = w

\* An application with a worker has its own, and a store.
OwnerWithStore ==
  \A a \in DevApps : workerIdByWebAppId[a] # "none" =>
    workerIdByWebAppId[a] = AppOwner[a] /\ storesByWebAppId[a] # NoStore

\* An application registers once; it has a store when that has been attached.
Registers(m, a) == devCall[m].kind = "register app" /\ devCall[m].app = a
RegisteredOnce ==
  /\ \A m \in DevCalls, a \in DevApps : Registers(m, a) => appState[a] # "new"
  /\ \A m, n \in DevCalls, a \in DevApps : Registers(m, a) /\ Registers(n, a) => m = n
  /\ \A a \in DevApps : storesByWebAppId[a] # NoStore =>
       \E m \in DevCalls : Registers(m, a) /\ devCall[m].at \in {"dispatch", "over"}

\* The store of a message is that of its worker, when it is the only one.
StoreOfWorker ==
  serial => \A m \in DevCalls : UnderWay(m) => devCall[m].store = storesByWorkerId[devCall[m].worker]

\* The store n has c as a listener.
Listens(c, n) == \E i \in 1..Len(stores[n].listeners) : stores[n].listeners[i] = c

\* A connection listens to the store it will unsubscribe from; one that shook hands at
\* most once listens to no other, once, while it is open.
SubscribedOnce(c) ==
  /\ handlersByConnectionId[c] <= Len(stores)
  /\ \A n \in 1..Len(stores) : handlersByConnectionId[c] = n => Listens(c, n)
  /\ connected[c] = "no" => handshakes[c] = 0
  /\ handshakes[c] = 0 => \A n \in 1..Len(stores) : ~Listens(c, n)
  /\ handshakes[c] <= 1 =>
       /\ connected[c] = "closed" => \A n \in 1..Len(stores) : ~Listens(c, n)
       /\ \A n \in 1..Len(stores) : \A i, j \in 1..Len(stores[n].listeners) :
            stores[n].listeners[i] = c /\ stores[n].listeners[j] = c => i = j
       /\ \A n \in 1..Len(stores) : Listens(c, n) => handlersByConnectionId[c] = n
Subscribed == \A c \in Connections : SubscribedOnce(c)

\* No message has failed.
NoneRefused ==
  serial /\ (\A c \in Connections : handshakes[c] <= 1) =>
     \A m \in DevCalls : devCall[m].kind \in {"update", "register app"} => ~devCall[m].error

DevInv ==
  /\ DevTyped /\ CallsAre /\ CallsInOrder /\ OneOwner /\ OwnerWithStore /\ RegisteredOnce /\ StoreOfWorker
  /\ AppsFollowWorker /\ Subscribed /\ NoneRefused

\* What the types of the stores give, now and after a step.
LEMMA StoresAre ==
  /\ StoresTyped => Len(stores) \in Nat /\ \A n \in 1..Len(stores) : stores[n].listeners \in Seq(Connections)
  /\ StoresTyped' => Len(stores') \in Nat /\ \A n \in 1..Len(stores') : stores'[n].listeners \in Seq(Connections)
<1>1. ASSUME StoresTyped
      PROVE  Len(stores) \in Nat /\ \A n \in 1..Len(stores) : stores[n].listeners \in Seq(Connections)
  <2>1. PICK ids : stores \in Seq(StoreOf(ids))
    BY <1>1 DEF StoresTyped
  <2>2. Len(stores) \in Nat /\ \A n \in 1..Len(stores) : stores[n] \in StoreOf(ids)
    BY <2>1
  <2> QED
    BY <2>2 DEF StoreOf
<1>2. ASSUME StoresTyped'
      PROVE  Len(stores') \in Nat /\ \A n \in 1..Len(stores') : stores'[n].listeners \in Seq(Connections)
  <2>1. PICK ids : stores' \in Seq(StoreOf(ids))
    BY <1>2 DEF StoresTyped, StoreOf
  <2>2. Len(stores') \in Nat /\ \A n \in 1..Len(stores') : stores'[n] \in StoreOf(ids)
    BY <2>1
  <2> QED
    BY <2>2 DEF StoreOf
<1> QED
  BY <1>1, <1>2

LEMMA StoresSame == StoresTyped /\ stores' = stores => StoresTyped'
BY DEF StoresTyped

\* It holds at the start.
LEMMA DevStarts == DevInit => DevInv
<1> SUFFICES ASSUME DevInit PROVE DevInv
  OBVIOUS
<1> USE DEF DevInit, NoStore
<1>1. StoresTyped /\ Len(stores) = 0
  <2>1. stores \in Seq(StoreOf({}))
    OBVIOUS
  <2> QED
    BY <2>1 DEF StoresTyped
<1>2. DevTyped
  BY <1>1 DEF DevTyped, CallSet, CallKinds, CallPlaces
<1>3. CallsAre
  BY DEF CallsAre, CallIs
<1>4. CallsInOrder
  BY DEF CallsInOrder
<1>5. OneOwner
  BY DevtoolAssumption DEF OneOwner, Claims
<1>6. OwnerWithStore /\ RegisteredOnce /\ StoreOfWorker /\ AppsFollowWorker
  BY DEF OwnerWithStore, RegisteredOnce, Registers, StoreOfWorker, UnderWay, AppsFollowWorker
<1>7. Subscribed
  BY <1>1 DEF Subscribed, SubscribedOnce, Listens
<1>8. NoneRefused
  BY DEF NoneRefused
<1> QED
  BY <1>2, <1>3, <1>4, <1>5, <1>6, <1>7, <1>8 DEF DevInv

\* What becomes of the messages when m goes on as r.
Becomes(m, r) ==
  /\ devCall' = [devCall EXCEPT ![m] = r] /\ serial' = serial
  /\ r \in CallSet /\ CallIs(r) /\ r.at # "new" /\ (MayArrive(m) \/ UnderWay(m))

LEMMA CallsChange ==
  ASSUME DevInv, NEW m \in DevCalls, NEW r, Becomes(m, r)
  PROVE  devCall' \in [DevCalls -> CallSet] /\ CallsAre' /\ CallsInOrder'
<1>1. /\ devCall \in [DevCalls -> CallSet] /\ CallsAre /\ CallsInOrder
      /\ devCall' = [devCall EXCEPT ![m] = r] /\ serial' = serial /\ r \in CallSet /\ CallIs(r) /\ r.at # "new"
  BY DEF DevInv, DevTyped, Becomes
<1>2. \A n \in DevCalls : devCall'[n] = IF n = m THEN r ELSE devCall[n]
  BY <1>1
<1>3. CallsAre'
  BY <1>1, <1>2 DEF CallsAre
<1>4. MayArrive(m) \/ UnderWay(m)
  BY DEF Becomes
<1>5. ASSUME NEW k \in DevCalls, NEW n \in DevCalls, k < n, devCall'[n].at # "new"
      PROVE  devCall'[k].at # "new" /\ (serial => devCall'[k].at = "over")
  <2>1. k \in Nat /\ n \in Nat /\ k >= 1
    BY DevtoolAssumption DEF DevCalls
  <2>2. CASE n = m
    <3>1. MayArrive(m) => devCall[k].at # "new" /\ (serial => devCall[k].at = "over")
      BY <1>5, <2>1, <2>2 DEF MayArrive
    <3>2. UnderWay(m) => devCall[k].at # "new" /\ (serial => devCall[k].at = "over")
      BY <1>1, <1>5, <2>2 DEF UnderWay, CallsInOrder
    <3> QED
      BY <1>2, <1>4, <1>5, <2>1, <2>2, <3>1, <3>2
  <2>3. CASE n # m
    <3>1. devCall[n].at # "new"
      BY <1>2, <1>5, <2>3
    <3>2. devCall[k].at # "new" /\ (serial => devCall[k].at = "over")
      BY <1>1, <1>5, <3>1 DEF CallsInOrder
    <3>3. k = m => ~serial
      BY <1>4, <3>2 DEF MayArrive, UnderWay
    <3> QED
      BY <1>1, <1>2, <3>2, <3>3
  <2> QED
    BY <2>2, <2>3
<1>6. CallsInOrder'
  BY <1>1, <1>5 DEF CallsInOrder
<1> QED
  BY <1>1, <1>3, <1>6

\* Nothing but the place, the store and the error of m changes: registrations are the same.
LEMMA RegistersStay ==
  ASSUME DevInv, NEW m \in DevCalls, NEW r, Becomes(m, r),
         r.kind = "register app" <=> devCall[m].kind = "register app", r.app = devCall[m].app
  PROVE  \A n \in DevCalls, a \in DevApps : Registers(n, a)' <=> Registers(n, a)
BY DEF Becomes, DevInv, DevTyped, Registers

\* Only a new store may be claimed for somebody else.
ClaimedFor(s, w, v) ==
  s # NoStore => Claims(s, w) \/ (s = Len(stores) + 1 /\ w = v /\ Len(stores') = Len(stores) + 1)

LEMMA OwnersStay ==
  ASSUME DevInv, NEW v, Len(stores') \in Nat, Len(stores') >= Len(stores),
         devCall' \in [DevCalls -> CallSet],
         \A w \in DevWorkers : ClaimedFor(storesByWorkerId'[w], w, v),
         \A a \in DevApps : ClaimedFor(storesByWebAppId'[a], AppOwner[a], v),
         \A m \in DevCalls : ClaimedFor(devCall'[m].store, devCall'[m].worker, v)
  PROVE  OneOwner'
<1>1. OneOwner /\ Len(stores) \in Nat
  BY StoresAre DEF DevInv, DevTyped
<1>2. \A s \in Nat \ {NoStore}, w \in DevWorkers \cup {"none"} : Claims(s, w)' => ClaimedFor(s, w, v)
  BY DEF Claims
<1>3. \A s \in Nat \ {NoStore}, w \in DevWorkers \cup {"none"} : Claims(s, w)' =>
        Claims(s, w) \/ (s = Len(stores) + 1 /\ w = v /\ Len(stores') = Len(stores) + 1)
  BY <1>2 DEF ClaimedFor
<1>4. \A s \in Nat \ {NoStore}, w \in DevWorkers \cup {"none"} : Claims(s, w) => s <= Len(stores)
  BY <1>1 DEF OneOwner
<1>5. \A s \in Nat \ {NoStore}, u, w \in DevWorkers \cup {"none"} : Claims(s, u) /\ Claims(s, w) => u = w
  BY <1>1 DEF OneOwner
<1>6. \A s \in Nat \ {NoStore}, w \in DevWorkers \cup {"none"} : Claims(s, w)' => s <= Len(stores')
  BY <1>1, <1>3, <1>4
<1>7. \A s \in Nat \ {NoStore}, u, w \in DevWorkers \cup {"none"} : Claims(s, u)' /\ Claims(s, w)' => u = w
  BY <1>1, <1>3, <1>4, <1>5
<1> QED
  BY <1>6, <1>7 DEF OneOwner

\* Who claims a store already.
LEMMA Claimers ==
  ASSUME DevInv, NEW v
  PROVE  /\ \A w \in DevWorkers : ClaimedFor(storesByWorkerId[w], w, v)
         /\ \A a \in DevApps : ClaimedFor(storesByWebAppId[a], AppOwner[a], v)
         /\ \A m \in DevCalls : ClaimedFor(devCall[m].store, devCall[m].worker, v)
BY DevtoolAssumption DEF ClaimedFor, Claims

\* Stores keep their listeners, and a new one has none.
ListenersStay ==
  /\ StoresTyped' /\ Len(stores') >= Len(stores)
  /\ \A n \in 1..Len(stores) : stores'[n].listeners = stores[n].listeners
  /\ \A n \in 1..Len(stores') : n > Len(stores) => stores'[n].listeners = <<>>

LEMMA SubscribedStays ==
  ASSUME DevInv, ListenersStay, UNCHANGED <<connected, handshakes, handlersByConnectionId>>
  PROVE  Subscribed'
<1>1. /\ Subscribed /\ Len(stores) \in Nat /\ Len(stores') \in Nat /\ Len(stores') >= Len(stores)
      /\ handlersByConnectionId \in [Connections -> Nat]
  BY StoresAre DEF DevInv, DevTyped, ListenersStay
<1>2. ASSUME NEW n \in 1..Len(stores'), NEW i \in 1..Len(stores'[n].listeners)
      PROVE  n \in 1..Len(stores) /\ stores'[n].listeners = stores[n].listeners
  <2>1. stores'[n].listeners # <<>>
    OBVIOUS
  <2>2. n <= Len(stores)
    BY <1>1, <2>1 DEF ListenersStay
  <2> QED
    BY <1>1, <2>2 DEF ListenersStay
<1>3. \A c \in Connections, n \in 1..Len(stores') : Listens(c, n)' => n \in 1..Len(stores) /\ Listens(c, n)
  BY <1>2 DEF Listens
<1>4. \A c \in Connections, n \in 1..Len(stores) : Listens(c, n) => Listens(c, n)'
  BY DEF Listens, ListenersStay
<1>5. ASSUME NEW c \in Connections PROVE SubscribedOnce(c)'
  <2>1. SubscribedOnce(c)
    BY <1>1 DEF Subscribed
  <2>2. handlersByConnectionId[c] # NoStore => handlersByConnectionId[c] \in 1..Len(stores)
    BY <1>1, <2>1 DEF SubscribedOnce, NoStore
  <2>3. handshakes[c] <= 1 => \A n \in 1..Len(stores') : \A i, j \in 1..Len(stores'[n].listeners) :
           stores'[n].listeners[i] = c /\ stores'[n].listeners[j] = c => i = j
    BY <1>2, <2>1 DEF SubscribedOnce
  <2> QED
    BY <1>1, <1>3, <1>4, <2>1, <2>2, <2>3 DEF SubscribedOnce
<1> QED
  BY <1>5 DEF Subscribed

\* Steps of the server alone.
LEMMA ServerSteps ==
  ASSUME DevInv, UNCHANGED NotServer
  PROVE  DevInv'
<1>1. DevTyped' /\ CallsAre' /\ CallsInOrder'
  BY StoresSame DEF DevInv, NotServer, DevTyped, CallsAre, CallsInOrder
<1>2. OneOwner'
  BY DEF DevInv, NotServer, OneOwner, Claims
<1>3. OwnerWithStore' /\ RegisteredOnce' /\ StoreOfWorker' /\ AppsFollowWorker'
  BY DEF DevInv, NotServer, OwnerWithStore, RegisteredOnce, Registers, StoreOfWorker, UnderWay, AppsFollowWorker
<1>4. Subscribed'
  BY DEF DevInv, NotServer, Subscribed, SubscribedOnce, Listens
<1>5. NoneRefused'
  BY DEF DevInv, NotServer, NoneRefused
<1> QED
  BY <1>1, <1>2, <1>3, <1>4, <1>5 DEF DevInv

\* The parts of the invariant about stores and connections, when a message changes neither.
LEMMA ConnectionsRest ==
  ASSUME DevInv, UNCHANGED <<stores, connected, handshakes, handlersByConnectionId>>
  PROVE  Subscribed'
<1>1. ListenersStay
  BY StoresAre, StoresSame DEF DevInv, DevTyped, ListenersStay
<1> QED
  BY <1>1, SubscribedStays

\* A message that is not refused now changes nothing about those that were refused.
LEMMA ErrorsStay ==
  ASSUME DevInv, serial' = serial, \A c \in Connections : handshakes'[c] <= 1 => handshakes[c] <= 1,
         serial /\ (\A c \in Connections : handshakes[c] <= 1) =>
           \A n \in DevCalls : \/ devCall'[n].kind = devCall[n].kind /\ devCall'[n].error = devCall[n].error
                               \/ devCall'[n].kind \notin {"update", "register app"} \/ ~devCall'[n].error
  PROVE  NoneRefused'
<1> SUFFICES ASSUME serial, \A c \in Connections : handshakes'[c] <= 1, NEW n \in DevCalls,
                    devCall'[n].kind \in {"update", "register app"}
             PROVE  ~devCall'[n].error
  BY DEF NoneRefused
<1>1. serial /\ \A c \in Connections : handshakes[c] <= 1
  OBVIOUS
<1>2. devCall[n].kind \in {"update", "register app"} => ~devCall[n].error
  BY <1>1 DEF DevInv, NoneRefused
<1>3. CASE devCall'[n].kind = devCall[n].kind /\ devCall'[n].error = devCall[n].error
  BY <1>2, <1>3
<1> QED
  BY <1>1, <1>3

\* The message that arrives.
LEMMA ArrivedIs ==
  ASSUME DevInv, NEW m \in DevCalls, NEW kind \in {"update", "register app", "unregister app"},
         NEW w \in DevWorkers, NEW app, serial' = serial,
         kind = "update" => app = "none", kind # "update" => app \in DevApps /\ w = AppOwner[app],
         Arrives(m, kind, w, app)
  PROVE  /\ devCall[m].at = "new"
         /\ Becomes(m, [kind |-> kind, worker |-> w, app |-> app, store |-> storesByWorkerId[w],
                        at |-> "found", error |-> FALSE])
<1> DEFINE r == [kind |-> kind, worker |-> w, app |-> app, store |-> storesByWorkerId[w],
                 at |-> "found", error |-> FALSE]
<1>1. devCall' = [devCall EXCEPT ![m] = r] /\ MayArrive(m) /\ devCall[m].at = "new"
  BY DEF Arrives, Set, MayArrive
<1>2. r \in CallSet
  BY DEF DevInv, DevTyped, CallSet, CallKinds, CallPlaces
<1>3. CallIs(r) /\ r.at # "new"
  BY DEF CallIs
<1> QED
  BY <1>1, <1>2, <1>3 DEF Becomes

\* What a new message has been.
LEMMA NewIs ==
  ASSUME DevInv, NEW m \in DevCalls, devCall[m].at = "new"
  PROVE  devCall[m] = [kind |-> "none", worker |-> "none", app |-> "none", store |-> NoStore,
                       at |-> "new", error |-> FALSE]
BY DEF DevInv, CallsAre, CallIs

LEMMA NewRegistersNothing ==
  ASSUME DevInv, NEW m \in DevCalls, devCall[m].at = "new"
  PROVE  \A a \in DevApps : ~Registers(m, a)
<1>1. devCall[m].kind = "none"
  BY NewIs
<1> QED
  BY <1>1 DEF Registers

\* A message that arrives takes the store of its worker along.
LEMMA ArrivalKeeps ==
  ASSUME DevInv, NEW m \in DevCalls, NEW r, Becomes(m, r), devCall[m].at = "new",
         r.at = "found", r.worker \in DevWorkers, r.store = storesByWorkerId[r.worker], ~r.error,
         UNCHANGED <<UnchangedByCalls, stores, storesByWorkerId, storesByWebAppId, workerIdByWebAppId>>
  PROVE  /\ OneOwner' /\ OwnerWithStore' /\ StoreOfWorker' /\ AppsFollowWorker' /\ Subscribed' /\ NoneRefused'
<1> USE DEF UnchangedByCalls
<1>1. /\ devCall' \in [DevCalls -> CallSet] /\ CallsAre' /\ CallsInOrder'
      /\ \A n \in DevCalls : devCall'[n] = IF n = m THEN r ELSE devCall[n]
  BY CallsChange DEF Becomes, DevInv, DevTyped
<1>2. OneOwner'
  <2>1. Len(stores) \in Nat
    BY StoresAre DEF DevInv, DevTyped
  <2>2. ClaimedFor(storesByWorkerId[r.worker], r.worker, "none")
    BY Claimers
  <2>3. ASSUME NEW n \in DevCalls PROVE ClaimedFor(devCall'[n].store, devCall'[n].worker, "none")
    BY <1>1, <2>2, Claimers
  <2>4. /\ \A w \in DevWorkers : ClaimedFor(storesByWorkerId'[w], w, "none")
        /\ \A a \in DevApps : ClaimedFor(storesByWebAppId'[a], AppOwner[a], "none")
    BY Claimers
  <2> QED
    BY <1>1, <2>1, <2>3, <2>4, OwnersStay
<1>3. OwnerWithStore' /\ AppsFollowWorker'
  BY DEF DevInv, OwnerWithStore, AppsFollowWorker
<1>4. StoreOfWorker'
  BY <1>1 DEF DevInv, StoreOfWorker, UnderWay
<1>5. Subscribed'
  BY ConnectionsRest
<1>6. NoneRefused'
  BY <1>1 DEF DevInv, NoneRefused
<1> QED
  BY <1>2, <1>3, <1>4, <1>5, <1>6

LEMMA UpdateKeeps ==
  ASSUME DevInv, NEW m \in DevCalls, NEW w \in DevWorkers, UpdateMessage(m, w)
  PROVE  DevInv'
<1> DEFINE r == [kind |-> "update", worker |-> w, app |-> "none", store |-> storesByWorkerId[w],
                 at |-> "found", error |-> FALSE]
<1>1. /\ UNCHANGED <<UnchangedByCalls, stores, storesByWorkerId, storesByWebAppId, workerIdByWebAppId, appState>>
      /\ Arrives(m, "update", w, "none") /\ serial' = serial
  BY DEF UpdateMessage, UnchangedByCalls
<1>2. devCall[m].at = "new" /\ Becomes(m, r)
  BY <1>1, ArrivedIs
<1>3. devCall' \in [DevCalls -> CallSet] /\ CallsAre' /\ CallsInOrder'
  BY <1>2, CallsChange
<1>4. DevTyped'
  BY StoresSame, <1>1, <1>3 DEF DevInv, DevTyped, UnchangedByCalls
<1>5. /\ OneOwner' /\ OwnerWithStore' /\ StoreOfWorker' /\ AppsFollowWorker' /\ Subscribed' /\ NoneRefused'
  BY <1>1, <1>2, ArrivalKeeps
<1>6. RegisteredOnce'
  <2>1. \A n \in DevCalls : devCall'[n] = IF n = m THEN r ELSE devCall[n]
    BY <1>2 DEF Becomes, DevInv, DevTyped
  <2>4. r.kind = "update"
    OBVIOUS
  <2> HIDE DEF r
  <2>2. ASSUME NEW n \in DevCalls, NEW a \in DevApps PROVE Registers(n, a)' <=> n # m /\ Registers(n, a)
    BY <2>1, <2>4 DEF Registers
  <2>3. \A a \in DevApps : ~Registers(m, a)
    BY <1>2, NewRegistersNothing
  <2> QED
    BY <1>1, <2>1, <2>2, <2>3 DEF DevInv, RegisteredOnce
<1> QED
  BY <1>3, <1>4, <1>5, <1>6 DEF DevInv

LEMMA AppMessageKeeps ==
  ASSUME DevInv, NEW m \in DevCalls, NEW a \in DevApps, AppMessage(m, a)
  PROVE  DevInv'
<1> DEFINE kind == IF appState[a] = "registered" THEN "unregister app" ELSE "register app"
           w == AppOwner[a]
           r == [kind |-> kind, worker |-> w, app |-> a, store |-> storesByWorkerId[w],
                 at |-> "found", error |-> FALSE]
<1>1. /\ UNCHANGED <<UnchangedByCalls, stores, storesByWorkerId, storesByWebAppId, workerIdByWebAppId>>
      /\ serial' = serial /\ appState[a] \in {"new", "registered"}
      /\ appState' = [appState EXCEPT ![a] = IF appState[a] = "registered" THEN "leaving" ELSE "asked"]
      /\ Arrives(m, kind, w, a) \/ devCall' = devCall
  BY DEF AppMessage, UnchangedByCalls
<1>2. /\ w \in DevWorkers /\ kind \in {"update", "register app", "unregister app"} /\ kind # "update"
      /\ a # "none" /\ w # "none"
  BY DevtoolAssumption
<1>3. \A b \in DevApps : appState'[b] = "new" => appState[b] = "new" /\ b # a
  BY <1>1 DEF DevInv, DevTyped
<1>4. appState' \in [DevApps -> {"new", "asked", "registered", "refused", "leaving", "left"}]
  BY <1>1 DEF DevInv, DevTyped
<1>5. CASE devCall' = devCall
  <2>1. DevTyped' /\ CallsAre' /\ CallsInOrder'
    BY StoresSame, <1>1, <1>4, <1>5 DEF DevInv, DevTyped, CallsAre, CallsInOrder, UnchangedByCalls
  <2>2. OneOwner'
    <3>1. ASSUME NEW v, NEW k PROVE Claims(k, v)' <=> Claims(k, v)
      BY <1>1, <1>5 DEF Claims
    <3>2. OneOwner /\ stores' = stores
      BY <1>1 DEF DevInv
    <3> QED
      BY ONLY <3>1, <3>2 DEF OneOwner
  <2>3. OwnerWithStore' /\ RegisteredOnce' /\ StoreOfWorker' /\ AppsFollowWorker'
    <3>1. OwnerWithStore'
      BY <1>1 DEF DevInv, OwnerWithStore
    <3>2. RegisteredOnce'
      <4>1. ASSUME NEW n, NEW b PROVE Registers(n, b)' <=> Registers(n, b)
        BY <1>5 DEF Registers
      <4>2. RegisteredOnce /\ storesByWebAppId' = storesByWebAppId /\ devCall' = devCall
        BY <1>1, <1>5 DEF DevInv
      <4> QED
        BY ONLY <1>3, <4>1, <4>2 DEF RegisteredOnce
    <3>3. StoreOfWorker'
      BY <1>1, <1>5 DEF DevInv, StoreOfWorker, UnderWay
    <3>4. AppsFollowWorker'
      BY <1>1 DEF DevInv, AppsFollowWorker
    <3> QED
      BY <3>1, <3>2, <3>3, <3>4
  <2>4. Subscribed'
    BY <1>1, ConnectionsRest DEF UnchangedByCalls
  <2>5. NoneRefused'
    BY <1>1, <1>5, ErrorsStay DEF UnchangedByCalls
  <2> QED
    BY <2>1, <2>2, <2>3, <2>4, <2>5 DEF DevInv
<1>6. CASE Arrives(m, kind, w, a)
  <2>1. devCall[m].at = "new" /\ Becomes(m, r)
    BY <1>1, <1>2, <1>6, ArrivedIs
  <2>2. devCall' \in [DevCalls -> CallSet] /\ CallsAre' /\ CallsInOrder'
    BY <2>1, CallsChange
  <2>3. DevTyped'
    BY StoresSame, <1>1, <1>4, <2>2 DEF DevInv, DevTyped, UnchangedByCalls
  <2>4. r.at = "found" /\ r.worker \in DevWorkers /\ r.store = storesByWorkerId[r.worker] /\ ~r.error
    BY <1>2
  <2>5. /\ OneOwner' /\ OwnerWithStore' /\ StoreOfWorker' /\ AppsFollowWorker' /\ Subscribed' /\ NoneRefused'
    <3> HIDE DEF r
    <3> QED
      BY <1>1, <2>1, <2>4, ArrivalKeeps
  <2>6. RegisteredOnce'
    <3>1. \A n \in DevCalls : devCall'[n] = IF n = m THEN r ELSE devCall[n]
      BY <2>1 DEF Becomes, DevInv, DevTyped
    <3>9. r.app = a /\ (r.kind = "register app" <=> appState[a] # "registered")
      OBVIOUS
    <3> HIDE DEF r
    <3>2. ASSUME NEW n \in DevCalls, NEW b \in DevApps
          PROVE  Registers(n, b)' <=> IF n = m THEN b = a /\ appState[a] # "registered" ELSE Registers(n, b)
      BY <3>1, <3>9 DEF Registers
    <3>3. \A b \in DevApps : ~Registers(m, b)
      BY <2>1, NewRegistersNothing
    <3>4. appState[a] # "registered" => \A n \in DevCalls : ~Registers(n, a)
      BY <1>1 DEF DevInv, RegisteredOnce
    <3>5. RegisteredOnce
      BY DEF DevInv
    <3>6. ASSUME NEW b \in DevApps, storesByWebAppId'[b] # NoStore
          PROVE  \E n \in DevCalls : Registers(n, b)' /\ devCall'[n].at \in {"dispatch", "over"}
      <4>1. PICK n \in DevCalls : Registers(n, b) /\ devCall[n].at \in {"dispatch", "over"}
        BY <1>1, <3>5, <3>6 DEF RegisteredOnce
      <4>2. n # m
        BY <3>3, <4>1
      <4> QED
        BY <3>1, <3>2, <4>1, <4>2
    <3>7. \A n \in DevCalls, b \in DevApps : Registers(n, b)' => appState'[b] # "new"
      BY <1>3, <3>2, <3>5 DEF RegisteredOnce
    <3>8. \A k, n \in DevCalls, b \in DevApps : Registers(k, b)' /\ Registers(n, b)' => k = n
      BY <3>2, <3>4, <3>5 DEF RegisteredOnce
    <3> QED
      BY <3>6, <3>7, <3>8 DEF RegisteredOnce
  <2> QED
    BY <2>2, <2>3, <2>5, <2>6 DEF DevInv
<1> QED
  BY <1>1, <1>5, <1>6

LEMMA UnregisterWorkerKeeps ==
  ASSUME DevInv, NEW m \in DevCalls, NEW w \in DevWorkers, UnregisterWorker(m, w)
  PROVE  DevInv'
<1> DEFINE r == [devCall[m] EXCEPT !.kind = "unregister", !.worker = w, !.at = "over"]
<1> USE DEF UnchangedByCalls
<1>1. /\ UNCHANGED <<UnchangedByCalls, stores, appState>> /\ MayArrive(m) /\ devCall[m].at = "new"
      /\ devCall' = [devCall EXCEPT ![m] = r]
      /\ storesByWebAppId' = [a \in DevApps |-> IF a \in AppsOf(w) THEN NoStore ELSE storesByWebAppId[a]]
      /\ workerIdByWebAppId' = [a \in DevApps |-> IF workerIdByWebAppId[a] = w THEN "none" ELSE workerIdByWebAppId[a]]
      /\ storesByWorkerId' = [storesByWorkerId EXCEPT ![w] = NoStore]
  BY DEF UnregisterWorker, Set, MayArrive
<1>2. r.kind = "unregister" /\ r.worker = w /\ r.app = "none" /\ r.store = NoStore /\ r.at = "over" /\ r \in CallSet
  <2>1. devCall[m].app = "none" /\ devCall[m].store = NoStore
    BY <1>1, NewIs
  <2>2. devCall[m] \in CallSet
    BY DEF DevInv, DevTyped
  <2> QED
    BY <2>1, <2>2 DEF CallSet, CallKinds, CallPlaces
<1>3. Becomes(m, r)
  <2> HIDE DEF r
  <2>1. CallIs(r) /\ r.at # "new"
    BY <1>2 DEF CallIs
  <2> QED
    BY <1>1, <1>2, <2>1 DEF Becomes
<1>4. devCall' \in [DevCalls -> CallSet] /\ CallsAre' /\ CallsInOrder'
  BY <1>3, CallsChange
<1>5. DevTyped'
  BY StoresSame, <1>1, <1>4 DEF DevInv, DevTyped, NoStore
<1>6. \A n \in DevCalls : devCall'[n] = IF n = m THEN r ELSE devCall[n]
  BY <1>1 DEF DevInv, DevTyped
<1> HIDE DEF r
<1>7. OneOwner'
  <2>1. Len(stores) \in Nat /\ Len(stores') = Len(stores)
    BY <1>1, StoresAre DEF DevInv, DevTyped
  <2>2. ASSUME NEW n \in DevCalls PROVE ClaimedFor(devCall'[n].store, devCall'[n].worker, "none")
    <3>1. CASE n = m
      BY <1>2, <1>6, <3>1 DEF ClaimedFor
    <3>2. CASE n # m
      <4>1. devCall'[n] = devCall[n]
        BY <1>6, <3>2
      <4>2. ClaimedFor(devCall[n].store, devCall[n].worker, "none")
        BY Claimers
      <4> QED
        BY <4>1, <4>2
    <3> QED
      BY <3>1, <3>2
  <2>3. \A v \in DevWorkers : ClaimedFor(storesByWorkerId'[v], v, "none")
    BY <1>1, Claimers DEF ClaimedFor, DevInv, DevTyped
  <2>4. \A a \in DevApps : ClaimedFor(storesByWebAppId'[a], AppOwner[a], "none")
    BY <1>1, Claimers DEF ClaimedFor
  <2> QED
    BY <1>4, <2>1, <2>2, <2>3, <2>4, OwnersStay
<1>8. \A a \in DevApps : a \in AppsOf(w) => AppOwner[a] = w
  <2> SUFFICES ASSUME NEW a \in DevApps, a \in AppsOf(w) PROVE AppOwner[a] = w
    OBVIOUS
  <2>1. storesByWorkerId[w] \in Nat \ {NoStore} /\ storesByWebAppId[a] = storesByWorkerId[w]
    BY DEF AppsOf, DevInv, DevTyped
  <2>2. Claims(storesByWorkerId[w], w) /\ Claims(storesByWorkerId[w], AppOwner[a]) /\ AppOwner[a] \in DevWorkers
    BY <2>1, DevtoolAssumption DEF Claims
  <2> QED
    BY <2>1, <2>2 DEF DevInv, OneOwner
<1>9. OwnerWithStore'
  BY <1>1, <1>8, DevtoolAssumption DEF DevInv, OwnerWithStore
<1>10. AppsFollowWorker'
  <2> SUFFICES ASSUME serial, NEW a \in DevApps
               PROVE  /\ storesByWebAppId'[a] # NoStore => storesByWebAppId'[a] = storesByWorkerId'[AppOwner[a]]
                      /\ workerIdByWebAppId'[a] = (IF storesByWebAppId'[a] = NoStore THEN "none" ELSE AppOwner[a])
    BY <1>1 DEF AppsFollowWorker
  <2>1. /\ storesByWebAppId[a] # NoStore => storesByWebAppId[a] = storesByWorkerId[AppOwner[a]]
        /\ workerIdByWebAppId[a] = (IF storesByWebAppId[a] = NoStore THEN "none" ELSE AppOwner[a])
    BY DEF DevInv, AppsFollowWorker
  <2>2. AppOwner[a] = w => storesByWebAppId'[a] = NoStore
    BY <1>1, <2>1 DEF AppsOf
  <2>3. AppOwner[a] # w => storesByWebAppId'[a] = storesByWebAppId[a] /\ storesByWorkerId'[AppOwner[a]] = storesByWorkerId[AppOwner[a]]
    BY <1>1, <1>8, DevtoolAssumption DEF DevInv, DevTyped
  <2>4. w # "none" /\ AppOwner[a] # "none"
    BY DevtoolAssumption
  <2> QED
    BY <1>1, <2>1, <2>2, <2>3, <2>4
<1>11. RegisteredOnce'
  <2>4. r.kind = "unregister"
    BY <1>2
  <2>1. ASSUME NEW n \in DevCalls, NEW a \in DevApps PROVE Registers(n, a)' <=> n # m /\ Registers(n, a)
    BY <1>6, <2>4 DEF Registers
  <2>2. \A a \in DevApps : ~Registers(m, a)
    BY <1>1, NewRegistersNothing
  <2>3. \A a \in DevApps : storesByWebAppId'[a] # NoStore => storesByWebAppId[a] # NoStore
    BY <1>1
  <2> QED
    BY <1>1, <1>6, <2>1, <2>2, <2>3 DEF DevInv, RegisteredOnce
<1>12. StoreOfWorker'
  <2> SUFFICES ASSUME serial, NEW n \in DevCalls, devCall'[n].at \notin {"new", "over"}
               PROVE  FALSE
    BY <1>1 DEF StoreOfWorker, UnderWay
  <2>1. n # m /\ devCall[n].at \notin {"new", "over"}
    BY <1>2, <1>6
  <2>2. n < m => devCall[n].at = "over"
    BY <1>1, <2>1, DevtoolAssumption DEF MayArrive, DevCalls
  <2>3. m < n => devCall[m].at = "over"
    BY <2>1 DEF DevInv, CallsInOrder
  <2>4. n < m \/ m < n
    BY <2>1, DevtoolAssumption DEF DevCalls
  <2> QED
    BY <1>1, <2>1, <2>2, <2>3, <2>4
<1>13. Subscribed'
  BY <1>1, ConnectionsRest
<1>14. NoneRefused'
  BY <1>1, <1>2, <1>6, ErrorsStay
<1> QED
  BY <1>4, <1>5, <1>7, <1>9, <1>10, <1>11, <1>12, <1>13, <1>14 DEF DevInv

-----------------------------------------------------------------------------
\* A message that is under way goes on as the same one; a serial one is the only one.
GoesOn(m, r) ==
  /\ UnderWay(m) /\ devCall' = [devCall EXCEPT ![m] = r] /\ UNCHANGED UnchangedByCalls
  /\ r \in CallSet /\ CallIs(r)
  /\ r.kind = devCall[m].kind /\ r.worker = devCall[m].worker /\ r.app = devCall[m].app
  /\ r.at \in {"created", "attach", "dispatch", "over"}

LEMMA GoingOn ==
  ASSUME DevInv, NEW m \in DevCalls, NEW r, GoesOn(m, r)
  PROVE  /\ devCall' \in [DevCalls -> CallSet] /\ CallsAre' /\ CallsInOrder'
         /\ \A n \in DevCalls : devCall'[n] = IF n = m THEN r ELSE devCall[n]
         /\ \A n \in DevCalls, a \in DevApps : Registers(n, a)' <=> Registers(n, a)
         /\ serial => \A n \in DevCalls : n # m => ~UnderWay(n)
<1>1. Becomes(m, r)
  BY DEF GoesOn, Becomes, UnchangedByCalls
<1>2. \A n \in DevCalls : devCall'[n] = IF n = m THEN r ELSE devCall[n]
  BY DEF GoesOn, DevInv, DevTyped
<1>3. \A n \in DevCalls, a \in DevApps : Registers(n, a)' <=> Registers(n, a)
  BY <1>1, RegistersStay DEF GoesOn
<1>4. ASSUME serial, NEW n \in DevCalls, n # m, UnderWay(n) PROVE FALSE
  <2>1. n < m \/ m < n
    BY <1>4, DevtoolAssumption DEF DevCalls
  <2>2. n < m => devCall[n].at = "over"
    BY <1>4 DEF DevInv, CallsInOrder, GoesOn, UnderWay
  <2>3. m < n => devCall[m].at = "over"
    BY <1>4 DEF DevInv, CallsInOrder, GoesOn, UnderWay
  <2> QED
    BY <1>4, <2>1, <2>2, <2>3 DEF GoesOn, UnderWay
<1> QED
  BY <1>1, <1>2, <1>3, <1>4, CallsChange

\* Registrations, when m goes on: only its own application may get a store.
LEMMA RegistrationsStay ==
  ASSUME DevInv, NEW m \in DevCalls, NEW r, GoesOn(m, r),
         \A a \in DevApps : appState'[a] = "new" => appState[a] = "new",
         \A a \in DevApps : storesByWebAppId'[a] # NoStore =>
           storesByWebAppId[a] # NoStore \/ (Registers(m, a) /\ r.at = "dispatch"),
         devCall[m].at = "dispatch" => r.at = "over"
  PROVE  RegisteredOnce'
<1>1. /\ \A n \in DevCalls : devCall'[n] = IF n = m THEN r ELSE devCall[n]
      /\ \A n \in DevCalls, a \in DevApps : Registers(n, a)' <=> Registers(n, a)
      /\ RegisteredOnce
  BY GoingOn DEF DevInv
<1>2. ASSUME NEW a \in DevApps, storesByWebAppId'[a] # NoStore
      PROVE  \E n \in DevCalls : Registers(n, a)' /\ devCall'[n].at \in {"dispatch", "over"}
  <2>1. CASE Registers(m, a) /\ r.at = "dispatch"
    BY <1>1, <2>1
  <2>2. CASE storesByWebAppId[a] # NoStore
    <3>1. PICK n \in DevCalls : Registers(n, a) /\ devCall[n].at \in {"dispatch", "over"}
      BY <1>1, <2>2 DEF RegisteredOnce
    <3>2. n = m => r.at = "over"
      BY <3>1 DEF GoesOn, UnderWay
    <3> QED
      BY <1>1, <3>1, <3>2
  <2> QED
    BY <1>2, <2>1, <2>2
<1>3. \A n \in DevCalls, a \in DevApps : Registers(n, a)' => appState'[a] # "new"
  BY <1>1 DEF RegisteredOnce
<1>4. \A k, n \in DevCalls, a \in DevApps : Registers(k, a)' /\ Registers(n, a)' => k = n
  BY <1>1 DEF RegisteredOnce
<1> QED
  BY <1>2, <1>3, <1>4 DEF RegisteredOnce

\* The stores claimed, when m goes on.
LEMMA ClaimsStay ==
  ASSUME DevInv, NEW m \in DevCalls, NEW r, GoesOn(m, r), NEW v, NEW n \in DevCalls,
         ClaimedFor(r.store, r.worker, v)
  PROVE  ClaimedFor(devCall'[n].store, devCall'[n].worker, v)
<1>1. CASE n = m
  BY <1>1, GoingOn
<1>2. CASE n # m
  BY <1>2, GoingOn, Claimers
<1> QED
  BY <1>1, <1>2

LEMMA CreateStoreKeeps ==
  ASSUME DevInv, NEW m \in DevCalls, CreateStore(m)
  PROVE  DevInv'
<1> DEFINE new == Len(stores) + 1
           w == devCall[m].worker
           r == [devCall[m] EXCEPT !.store = new, !.at = "created"]
           s == [workerState |-> 0, ids |-> <<>>, listeners |-> <<>>]
<1>1. /\ devCall[m].at = "found" /\ devCall[m].store = NoStore /\ devCall[m].kind # "unregister app"
      /\ stores' = Append(stores, s) /\ storesByWorkerId' = [storesByWorkerId EXCEPT ![w] = new]
      /\ devCall' = [devCall EXCEPT ![m] = r]
      /\ UNCHANGED <<UnchangedByCalls, storesByWebAppId, workerIdByWebAppId, appState>>
  BY DEF CreateStore, Set
<1>2. Len(stores) \in Nat /\ devCall[m] \in CallSet /\ CallIs(devCall[m])
  BY StoresAre DEF DevInv, DevTyped, CallsAre
<1>3. r \in CallSet /\ r.store = new /\ r.at = "created" /\ r.kind = devCall[m].kind
      /\ r.worker = w /\ r.app = devCall[m].app /\ r.error = devCall[m].error
  <2>1. new \in Nat
    BY <1>2
  <2> HIDE DEF new
  <2> QED
    BY <1>2, <2>1 DEF CallSet, CallPlaces
<1>4. w \in DevWorkers /\ w # "none"
  BY <1>1, <1>2, DevtoolAssumption DEF CallIs
<1> HIDE DEF r
<1>5. CallIs(r)
  <2>1. r.store # NoStore
    BY <1>2, <1>3 DEF NoStore
  <2> HIDE DEF new
  <2> QED
    BY <1>1, <1>2, <1>3, <2>1 DEF CallIs
<1>6. GoesOn(m, r)
  BY <1>1, <1>3, <1>5 DEF GoesOn, UnderWay
<1>7. /\ devCall' \in [DevCalls -> CallSet] /\ CallsAre' /\ CallsInOrder'
      /\ \A n \in DevCalls : devCall'[n] = IF n = m THEN r ELSE devCall[n]
      /\ serial => \A n \in DevCalls : n # m => ~UnderWay(n)
  BY <1>6, GoingOn
<1>8. /\ StoresTyped' /\ Len(stores') = Len(stores) + 1 /\ stores'[new].listeners = <<>>
      /\ \A n \in 1..Len(stores) : stores'[n] = stores[n]
  <2>1. PICK ids : stores \in Seq(StoreOf(ids))
    BY DEF DevInv, DevTyped, StoresTyped
  <2> DEFINE more == ids \cup {<<>>}
  <2>2. StoreOf(ids) \subseteq StoreOf(more)
    BY DEF StoreOf
  <2>3. <<>> \in Seq(Connections) /\ <<>> \in more /\ 0 \in Nat
    OBVIOUS
  <2>4. s \in StoreOf(more) /\ s.listeners = <<>>
    BY <2>3 DEF StoreOf
  <2> HIDE DEF s, more
  <2>5. stores \in Seq(StoreOf(more))
    BY <2>1, <2>2
  <2>6. /\ stores' \in Seq(StoreOf(more)) /\ Len(stores') = Len(stores) + 1 /\ stores'[new] = s
        /\ \A n \in 1..Len(stores) : stores'[n] = stores[n]
    <3> DEFINE S == StoreOf(more)
    <3>1. s \in S /\ stores \in Seq(S)
      BY <2>4, <2>5
    <3> HIDE DEF S
    <3>2. /\ Append(stores, s) \in Seq(S) /\ Len(Append(stores, s)) = Len(stores) + 1
          /\ \A i \in 1..Len(stores) : Append(stores, s)[i] = stores[i]
          /\ Append(stores, s)[Len(stores) + 1] = s
      BY ONLY <3>1, AppendProperties
    <3> QED
      BY <1>1, <3>2 DEF S
  <2>7. StoresTyped'
    BY <2>6 DEF StoresTyped, StoreOf
  <2> QED
    BY <2>4, <2>6, <2>7
<1>9. DevTyped'
  <2>1. storesByWorkerId' \in [DevWorkers -> Nat]
    <3>1. new \in Nat /\ storesByWorkerId \in [DevWorkers -> Nat]
      BY <1>2 DEF DevInv, DevTyped
    <3> HIDE DEF new
    <3> QED
      BY <1>1, <3>1
  <2> QED
    BY <1>1, <1>7, <1>8, <2>1 DEF DevInv, DevTyped, UnchangedByCalls
<1>10. OneOwner'
  <2>1. ClaimedFor(r.store, r.worker, w)
    BY <1>3, <1>8 DEF ClaimedFor
  <2>2. \A n \in DevCalls : ClaimedFor(devCall'[n].store, devCall'[n].worker, w)
    BY <1>6, <2>1, ClaimsStay
  <2>3. ASSUME NEW v \in DevWorkers PROVE ClaimedFor(storesByWorkerId'[v], v, w)
    <3>1. CASE v = w
      BY <1>1, <1>3, <2>1, <3>1 DEF DevInv, DevTyped
    <3>2. CASE v # w
      BY <1>1, <3>2, Claimers DEF DevInv, DevTyped
    <3> QED
      BY <3>1, <3>2
  <2>4. \A a \in DevApps : ClaimedFor(storesByWebAppId'[a], AppOwner[a], w)
    BY <1>1, Claimers
  <2>5. Len(stores') \in Nat /\ Len(stores') >= Len(stores)
    BY <1>2, <1>8
  <2> QED
    BY <1>7, <2>2, <2>3, <2>4, <2>5, OwnersStay
<1>11. OwnerWithStore' /\ RegisteredOnce'
  BY <1>1, <1>6, RegistrationsStay DEF DevInv, OwnerWithStore
<1>12. StoreOfWorker'
  BY <1>1, <1>3, <1>4, <1>7 DEF StoreOfWorker, UnderWay, UnchangedByCalls, DevInv, DevTyped
<1>13. AppsFollowWorker'
  <2>1. serial => storesByWorkerId[w] = NoStore
    BY <1>1 DEF DevInv, StoreOfWorker, UnderWay
  <2>2. \A v \in DevWorkers : v # w => storesByWorkerId'[v] = storesByWorkerId[v]
    BY <1>1 DEF DevInv, DevTyped
  <2> SUFFICES ASSUME serial, NEW a \in DevApps
               PROVE  /\ storesByWebAppId[a] # NoStore => storesByWebAppId[a] = storesByWorkerId'[AppOwner[a]]
                      /\ workerIdByWebAppId[a] = (IF storesByWebAppId[a] = NoStore THEN "none" ELSE AppOwner[a])
    BY <1>1 DEF AppsFollowWorker, UnchangedByCalls
  <2>3. /\ storesByWebAppId[a] # NoStore => storesByWebAppId[a] = storesByWorkerId[AppOwner[a]]
        /\ workerIdByWebAppId[a] = (IF storesByWebAppId[a] = NoStore THEN "none" ELSE AppOwner[a])
    BY DEF DevInv, AppsFollowWorker
  <2> QED
    BY <2>1, <2>2, <2>3, DevtoolAssumption
<1>14. Subscribed'
  <2>1. ListenersStay
    BY <1>2, <1>8 DEF ListenersStay
  <2> QED
    BY <1>1, <2>1, SubscribedStays DEF UnchangedByCalls
<1>15. NoneRefused'
  BY <1>1, <1>3, <1>7, ErrorsStay DEF UnchangedByCalls
<1> QED
  BY <1>7, <1>9, <1>10, <1>11, <1>12, <1>13, <1>14, <1>15 DEF DevInv

LEMMA HasStoreKeeps ==
  ASSUME DevInv, NEW m \in DevCalls, HasStore(m)
  PROVE  DevInv'
<1> DEFINE w == devCall[m].worker
           r == [devCall[m] EXCEPT !.at = IF devCall[m].app = "none" THEN "dispatch" ELSE "attach"]
<1>1. /\ devCall' = [devCall EXCEPT ![m] = r]
      /\ \/ devCall[m].at = "created" /\ storesByWorkerId' = [storesByWorkerId EXCEPT ![w] = devCall[m].store]
         \/ devCall[m].at = "found" /\ devCall[m].store # NoStore /\ storesByWorkerId' = storesByWorkerId
      /\ UNCHANGED <<UnchangedByCalls, stores, storesByWebAppId, workerIdByWebAppId, appState>>
  BY DEF HasStore, Set
<1>2. Len(stores) \in Nat /\ devCall[m] \in CallSet /\ CallIs(devCall[m])
  BY StoresAre DEF DevInv, DevTyped, CallsAre
<1>3. r \in CallSet /\ r.store = devCall[m].store /\ r.at = (IF devCall[m].app = "none" THEN "dispatch" ELSE "attach")
      /\ r.kind = devCall[m].kind /\ r.worker = w /\ r.app = devCall[m].app /\ r.error = devCall[m].error
  BY <1>2 DEF CallSet, CallPlaces
<1>4. w \in DevWorkers
  BY <1>1, <1>2 DEF CallIs
<1> HIDE DEF r
<1>5. CallIs(r)
  BY <1>1, <1>2, <1>3 DEF CallIs
<1>6. GoesOn(m, r)
  BY <1>1, <1>3, <1>5 DEF GoesOn, UnderWay
<1>7. /\ devCall' \in [DevCalls -> CallSet] /\ CallsAre' /\ CallsInOrder'
      /\ \A n \in DevCalls : devCall'[n] = IF n = m THEN r ELSE devCall[n]
      /\ serial => \A n \in DevCalls : n # m => ~UnderWay(n)
  BY <1>6, GoingOn
<1>8. storesByWorkerId' \in [DevWorkers -> Nat] /\ (serial => storesByWorkerId' = storesByWorkerId)
  <2>1. serial => devCall[m].store = storesByWorkerId[w]
    BY <1>1 DEF DevInv, StoreOfWorker, UnderWay
  <2>2. storesByWorkerId \in [DevWorkers -> Nat] /\ devCall[m].store \in Nat
    BY <1>2 DEF DevInv, DevTyped, CallSet
  <2> QED
    BY <1>1, <2>1, <2>2
<1>9. DevTyped'
  BY StoresSame, <1>1, <1>7, <1>8 DEF DevInv, DevTyped, UnchangedByCalls
<1>10. OneOwner'
  <2>1. ClaimedFor(r.store, r.worker, "none")
    BY <1>3, Claimers
  <2>2. \A n \in DevCalls : ClaimedFor(devCall'[n].store, devCall'[n].worker, "none")
    BY <1>6, <2>1, ClaimsStay
  <2>3. ASSUME NEW v \in DevWorkers PROVE ClaimedFor(storesByWorkerId'[v], v, "none")
    <3>1. storesByWorkerId'[v] = storesByWorkerId[v] \/ (v = w /\ storesByWorkerId'[v] = r.store)
      BY <1>1, <1>3 DEF DevInv, DevTyped
    <3> QED
      BY <1>3, <2>1, <3>1, Claimers
  <2>4. \A a \in DevApps : ClaimedFor(storesByWebAppId'[a], AppOwner[a], "none")
    BY <1>1, Claimers
  <2> QED
    BY <1>1, <1>2, <1>7, <2>2, <2>3, <2>4, OwnersStay
<1>11. OwnerWithStore' /\ RegisteredOnce'
  BY <1>1, <1>6, RegistrationsStay DEF DevInv, OwnerWithStore
<1>12. StoreOfWorker'
  BY <1>1, <1>3, <1>7, <1>8 DEF StoreOfWorker, UnderWay, UnchangedByCalls, DevInv
<1>13. AppsFollowWorker'
  BY <1>1, <1>8 DEF DevInv, AppsFollowWorker, UnchangedByCalls
<1>14. Subscribed'
  BY <1>1, ConnectionsRest DEF UnchangedByCalls
<1>15. NoneRefused'
  BY <1>1, <1>3, <1>7, ErrorsStay DEF UnchangedByCalls
<1> QED
  BY <1>7, <1>9, <1>10, <1>11, <1>12, <1>13, <1>14, <1>15 DEF DevInv

LEMMA RegisterWebAppIdKeeps ==
  ASSUME DevInv, NEW m \in DevCalls, RegisterWebAppId(m)
  PROVE  DevInv'
<1> DEFINE w == devCall[m].worker
           a == devCall[m].app
           ok == storesByWorkerId[w] # NoStore /\ storesByWebAppId[a] = NoStore
           r == IF ok THEN [devCall[m] EXCEPT !.at = "dispatch"] ELSE [devCall[m] EXCEPT !.at = "over", !.error = TRUE]
<1>1. /\ devCall[m].kind = "register app" /\ devCall[m].at = "attach" /\ devCall' = [devCall EXCEPT ![m] = r]
      /\ ok => /\ workerIdByWebAppId' = [workerIdByWebAppId EXCEPT ![a] = w]
               /\ storesByWebAppId' = [storesByWebAppId EXCEPT ![a] = storesByWorkerId[w]] /\ appState' = appState
      /\ ~ok => /\ workerIdByWebAppId' = workerIdByWebAppId /\ storesByWebAppId' = storesByWebAppId
                /\ appState' = [appState EXCEPT ![a] = "refused"]
      /\ UNCHANGED <<UnchangedByCalls, stores, storesByWorkerId>>
  BY DEF RegisterWebAppId, Set, Ends
<1>2. Len(stores) \in Nat /\ devCall[m] \in CallSet /\ CallIs(devCall[m])
  BY StoresAre DEF DevInv, DevTyped, CallsAre
<1>3. r \in CallSet /\ r.store = devCall[m].store /\ r.at = (IF ok THEN "dispatch" ELSE "over")
      /\ r.kind = "register app" /\ r.worker = w /\ r.app = a /\ (ok => r.error = devCall[m].error)
  <2>1. CASE ok
    BY <1>1, <1>2, <2>1 DEF CallSet, CallPlaces
  <2>2. CASE ~ok
    BY <1>1, <1>2, <2>2 DEF CallSet, CallPlaces
  <2> QED
    BY <2>1, <2>2
<1>4. w \in DevWorkers /\ w # "none" /\ a \in DevApps /\ w = AppOwner[a] /\ devCall[m].store # NoStore
  BY <1>1, <1>2, DevtoolAssumption DEF CallIs
<1> HIDE DEF r
<1>5. CallIs(r)
  BY <1>1, <1>2, <1>3 DEF CallIs
<1>6. GoesOn(m, r)
  BY <1>1, <1>3, <1>5 DEF GoesOn, UnderWay
<1>7. /\ devCall' \in [DevCalls -> CallSet] /\ CallsAre' /\ CallsInOrder'
      /\ \A n \in DevCalls : devCall'[n] = IF n = m THEN r ELSE devCall[n]
      /\ serial => \A n \in DevCalls : n # m => ~UnderWay(n)
  BY <1>6, GoingOn
\* A serial one is not refused.
<1>8. serial => ok
  <2> SUFFICES ASSUME serial PROVE ok
    OBVIOUS
  <2>1. storesByWorkerId[w] # NoStore
    BY <1>1, <1>4 DEF DevInv, StoreOfWorker, UnderWay
  <2>2. Registers(m, a)
    BY <1>1 DEF Registers
  <2>3. storesByWebAppId[a] # NoStore => devCall[m].at \in {"dispatch", "over"}
    BY <1>4, <2>2 DEF DevInv, RegisteredOnce
  <2> QED
    BY <1>1, <2>1, <2>3
<1>9. /\ \A b \in DevApps : storesByWebAppId'[b] = IF ok /\ b = a THEN storesByWorkerId[w] ELSE storesByWebAppId[b]
      /\ \A b \in DevApps : workerIdByWebAppId'[b] = IF ok /\ b = a THEN w ELSE workerIdByWebAppId[b]
      /\ \A b \in DevApps : appState'[b] = "new" => appState[b] = "new"
      /\ storesByWebAppId' \in [DevApps -> Nat] /\ workerIdByWebAppId' \in [DevApps -> DevWorkers \cup {"none"}]
      /\ appState' \in [DevApps -> {"new", "asked", "registered", "refused", "leaving", "left"}]
  <2>1. /\ storesByWorkerId \in [DevWorkers -> Nat] /\ storesByWebAppId \in [DevApps -> Nat]
        /\ workerIdByWebAppId \in [DevApps -> DevWorkers \cup {"none"}]
        /\ appState \in [DevApps -> {"new", "asked", "registered", "refused", "leaving", "left"}]
    BY DEF DevInv, DevTyped
  <2> HIDE DEF w, a
  <2>2. CASE ok
    BY <1>1, <1>4, <2>1, <2>2
  <2>3. CASE ~ok
    BY <1>1, <1>4, <2>1, <2>3
  <2> QED
    BY <2>2, <2>3
<1>10. DevTyped'
  BY StoresSame, <1>1, <1>7, <1>9 DEF DevInv, DevTyped, UnchangedByCalls
<1>11. OneOwner'
  <2>1. ClaimedFor(r.store, r.worker, "none")
    BY <1>3, Claimers
  <2>2. \A n \in DevCalls : ClaimedFor(devCall'[n].store, devCall'[n].worker, "none")
    BY <1>6, <2>1, ClaimsStay
  <2>3. \A v \in DevWorkers : ClaimedFor(storesByWorkerId'[v], v, "none")
    BY <1>1, Claimers
  <2>4. ASSUME NEW b \in DevApps PROVE ClaimedFor(storesByWebAppId'[b], AppOwner[b], "none")
    <3>1. storesByWebAppId'[b] = storesByWebAppId[b] \/ (AppOwner[b] = w /\ storesByWebAppId'[b] = storesByWorkerId[w])
      BY <1>4, <1>9
    <3> QED
      BY <1>4, <3>1, Claimers
  <2>5. Len(stores') \in Nat /\ Len(stores') >= Len(stores)
    <3>1. stores' = stores /\ Len(stores) \in Nat
      BY <1>1, <1>2
    <3> QED
      BY ONLY <3>1
  <2> QED
    BY <1>7, <2>2, <2>3, <2>4, <2>5, OwnersStay
<1>12. OwnerWithStore'
  BY <1>4, <1>9 DEF DevInv, OwnerWithStore
<1>13. RegisteredOnce'
  <2>1. \A b \in DevApps : storesByWebAppId'[b] # NoStore =>
           storesByWebAppId[b] # NoStore \/ (Registers(m, b) /\ r.at = "dispatch")
    BY <1>1, <1>3, <1>9 DEF Registers
  <2> QED
    BY <1>1, <1>6, <1>9, <2>1, RegistrationsStay
<1>14. StoreOfWorker'
  BY <1>1, <1>3, <1>7 DEF StoreOfWorker, UnderWay, UnchangedByCalls, DevInv
<1>15. AppsFollowWorker'
  <2> SUFFICES ASSUME serial, NEW b \in DevApps
               PROVE  /\ storesByWebAppId'[b] # NoStore => storesByWebAppId'[b] = storesByWorkerId[AppOwner[b]]
                      /\ workerIdByWebAppId'[b] = (IF storesByWebAppId'[b] = NoStore THEN "none" ELSE AppOwner[b])
    BY <1>1 DEF AppsFollowWorker, UnchangedByCalls
  <2>1. /\ storesByWebAppId[b] # NoStore => storesByWebAppId[b] = storesByWorkerId[AppOwner[b]]
        /\ workerIdByWebAppId[b] = (IF storesByWebAppId[b] = NoStore THEN "none" ELSE AppOwner[b])
    BY DEF DevInv, AppsFollowWorker
  <2>2. \A v \in DevWorkers : v # "none"
    BY DevtoolAssumption
  <2>3. AppOwner[b] \in DevWorkers /\ w = AppOwner[a]
    BY <1>4, DevtoolAssumption
  <2> HIDE DEF w, a
  <2> QED
    BY <1>8, <1>9, <2>1, <2>2, <2>3
<1>16. Subscribed'
  BY <1>1, ConnectionsRest DEF UnchangedByCalls
<1>17. NoneRefused'
  BY <1>1, <1>3, <1>7, <1>8, ErrorsStay DEF UnchangedByCalls
<1> QED
  BY <1>7, <1>10, <1>11, <1>12, <1>13, <1>14, <1>15, <1>16, <1>17 DEF DevInv

LEMMA UnregisterWebAppIdKeeps ==
  ASSUME DevInv, NEW m \in DevCalls, UnregisterWebAppId(m)
  PROVE  DevInv'
<1> DEFINE w == devCall[m].worker
           a == devCall[m].app
           ok == devCall[m].store # NoStore /\ storesByWebAppId[a] # NoStore
           r == IF ok THEN [devCall[m] EXCEPT !.at = "dispatch"] ELSE [devCall[m] EXCEPT !.at = "over", !.error = TRUE]
<1>1. /\ devCall[m].kind = "unregister app" /\ devCall[m].at \in {"attach", "found"} /\ devCall' = [devCall EXCEPT ![m] = r]
      /\ ok => /\ workerIdByWebAppId' = [workerIdByWebAppId EXCEPT ![a] = "none"]
               /\ storesByWebAppId' = [storesByWebAppId EXCEPT ![a] = NoStore] /\ appState' = appState
      /\ ~ok => /\ workerIdByWebAppId' = workerIdByWebAppId /\ storesByWebAppId' = storesByWebAppId
                /\ appState' = [appState EXCEPT ![a] = "left"]
      /\ UNCHANGED <<UnchangedByCalls, stores, storesByWorkerId>>
  BY DEF UnregisterWebAppId, Set, Ends
<1>2. Len(stores) \in Nat /\ devCall[m] \in CallSet /\ CallIs(devCall[m])
  BY StoresAre DEF DevInv, DevTyped, CallsAre
<1>3. r \in CallSet /\ r.store = devCall[m].store /\ r.at = (IF ok THEN "dispatch" ELSE "over")
      /\ r.kind = "unregister app" /\ r.worker = w /\ r.app = a
  <2>1. CASE ok
    BY <1>1, <1>2, <2>1 DEF CallSet, CallPlaces
  <2>2. CASE ~ok
    BY <1>1, <1>2, <2>2 DEF CallSet, CallPlaces
  <2> QED
    BY <2>1, <2>2
<1>4. w \in DevWorkers /\ a \in DevApps /\ w = AppOwner[a]
  BY <1>1, <1>2 DEF CallIs
<1> HIDE DEF r
<1>5. CallIs(r)
  BY <1>1, <1>2, <1>3 DEF CallIs
<1>6. GoesOn(m, r)
  BY <1>1, <1>3, <1>5 DEF GoesOn, UnderWay
<1>7. /\ devCall' \in [DevCalls -> CallSet] /\ CallsAre' /\ CallsInOrder'
      /\ \A n \in DevCalls : devCall'[n] = IF n = m THEN r ELSE devCall[n]
      /\ serial => \A n \in DevCalls : n # m => ~UnderWay(n)
  BY <1>6, GoingOn
<1>9. /\ \A b \in DevApps : storesByWebAppId'[b] = IF ok /\ b = a THEN NoStore ELSE storesByWebAppId[b]
      /\ \A b \in DevApps : workerIdByWebAppId'[b] = IF ok /\ b = a THEN "none" ELSE workerIdByWebAppId[b]
      /\ \A b \in DevApps : appState'[b] = "new" => appState[b] = "new"
      /\ storesByWebAppId' \in [DevApps -> Nat] /\ workerIdByWebAppId' \in [DevApps -> DevWorkers \cup {"none"}]
      /\ appState' \in [DevApps -> {"new", "asked", "registered", "refused", "leaving", "left"}]
  <2>1. /\ storesByWebAppId \in [DevApps -> Nat] /\ NoStore \in Nat
        /\ workerIdByWebAppId \in [DevApps -> DevWorkers \cup {"none"}]
        /\ appState \in [DevApps -> {"new", "asked", "registered", "refused", "leaving", "left"}]
    BY DEF DevInv, DevTyped, NoStore
  <2> HIDE DEF a
  <2>2. CASE ok
    BY <1>1, <1>4, <2>1, <2>2
  <2>3. CASE ~ok
    BY <1>1, <1>4, <2>1, <2>3
  <2> QED
    BY <2>2, <2>3
<1>10. DevTyped'
  BY StoresSame, <1>1, <1>7, <1>9 DEF DevInv, DevTyped, UnchangedByCalls
<1>11. OneOwner'
  <2>1. ClaimedFor(r.store, r.worker, "none")
    BY <1>3, Claimers
  <2>2. \A n \in DevCalls : ClaimedFor(devCall'[n].store, devCall'[n].worker, "none")
    BY <1>6, <2>1, ClaimsStay
  <2>3. \A v \in DevWorkers : ClaimedFor(storesByWorkerId'[v], v, "none")
    BY <1>1, Claimers
  <2>4. ASSUME NEW b \in DevApps PROVE ClaimedFor(storesByWebAppId'[b], AppOwner[b], "none")
    <3>1. storesByWebAppId'[b] = storesByWebAppId[b] \/ storesByWebAppId'[b] = NoStore
      BY <1>9
    <3> QED
      BY <3>1, Claimers DEF ClaimedFor
  <2>5. Len(stores') \in Nat /\ Len(stores') >= Len(stores)
    <3>1. stores' = stores /\ Len(stores) \in Nat
      BY <1>1, <1>2
    <3> QED
      BY ONLY <3>1
  <2> QED
    BY <1>7, <2>2, <2>3, <2>4, <2>5, OwnersStay
<1>12. OwnerWithStore'
  BY <1>4, <1>9 DEF DevInv, OwnerWithStore
<1>13. RegisteredOnce'
  <2>1. \A b \in DevApps : storesByWebAppId'[b] # NoStore => storesByWebAppId[b] # NoStore
    BY <1>9
  <2> QED
    BY <1>1, <1>6, <1>9, <2>1, RegistrationsStay
<1>14. StoreOfWorker'
  BY <1>1, <1>3, <1>7 DEF StoreOfWorker, UnderWay, UnchangedByCalls, DevInv
<1>15. AppsFollowWorker'
  <2> SUFFICES ASSUME serial, NEW b \in DevApps
               PROVE  /\ storesByWebAppId'[b] # NoStore => storesByWebAppId'[b] = storesByWorkerId[AppOwner[b]]
                      /\ workerIdByWebAppId'[b] = (IF storesByWebAppId'[b] = NoStore THEN "none" ELSE AppOwner[b])
    BY <1>1 DEF AppsFollowWorker, UnchangedByCalls
  <2>1. /\ storesByWebAppId[b] # NoStore => storesByWebAppId[b] = storesByWorkerId[AppOwner[b]]
        /\ workerIdByWebAppId[b] = (IF storesByWebAppId[b] = NoStore THEN "none" ELSE AppOwner[b])
    BY DEF DevInv, AppsFollowWorker
  <2> QED
    BY <1>1, <1>4, <1>9, <2>1
<1>16. Subscribed'
  BY <1>1, ConnectionsRest DEF UnchangedByCalls
<1>17. NoneRefused'
  <2>1. \A n \in DevCalls : \/ devCall'[n].kind = devCall[n].kind /\ devCall'[n].error = devCall[n].error
                            \/ devCall'[n].kind \notin {"update", "register app"}
    BY <1>3, <1>7
  <2> QED
    BY <1>1, <2>1, ErrorsStay DEF UnchangedByCalls
<1> QED
  BY <1>7, <1>10, <1>11, <1>12, <1>13, <1>14, <1>15, <1>16, <1>17 DEF DevInv

LEMMA DispatchKeeps ==
  ASSUME DevInv, NEW m \in DevCalls, Dispatch(m)
  PROVE  DevInv'
<1> DEFINE w == devCall[m].worker
           a == devCall[m].app
           k == devCall[m].store
           error == Throws(stores[k])
           r == [devCall[m] EXCEPT !.at = "over", !.error = error]
<1>1. /\ devCall[m].at = "dispatch" /\ devCall' = [devCall EXCEPT ![m] = r]
      /\ stores' = [stores EXCEPT ![k] = Reduced(stores[k], m)]
      /\ appState' = CASE devCall[m].kind = "update" -> appState
                       [] devCall[m].kind = "register app" ->
                            [appState EXCEPT ![a] = IF error THEN "refused" ELSE "registered"]
                       [] OTHER -> [appState EXCEPT ![a] = "left"]
      /\ UNCHANGED <<UnchangedByCalls, storesByWorkerId, storesByWebAppId, workerIdByWebAppId>>
  BY DEF Dispatch, Set, Ends
<1>2. Len(stores) \in Nat /\ devCall[m] \in CallSet /\ CallIs(devCall[m])
  BY StoresAre DEF DevInv, DevTyped, CallsAre
<1>3. r \in CallSet /\ r.store = k /\ r.at = "over" /\ r.kind = devCall[m].kind /\ r.worker = w /\ r.app = a
      /\ r.error = error
  <2>1. error \in BOOLEAN
    BY DEF Throws
  <2> HIDE DEF error
  <2> QED
    BY <1>2, <2>1 DEF CallSet, CallPlaces
<1>4. /\ w \in DevWorkers /\ k # NoStore /\ k \in Nat
      /\ devCall[m].kind \in {"update", "register app", "unregister app"}
  BY <1>1, <1>2 DEF CallIs, CallSet
<1> HIDE DEF r
<1>5. CallIs(r)
  BY <1>1, <1>2, <1>3 DEF CallIs
<1>6. GoesOn(m, r)
  BY <1>1, <1>3, <1>5 DEF GoesOn, UnderWay
<1>7. /\ devCall' \in [DevCalls -> CallSet] /\ CallsAre' /\ CallsInOrder'
      /\ \A n \in DevCalls : devCall'[n] = IF n = m THEN r ELSE devCall[n]
      /\ serial => \A n \in DevCalls : n # m => ~UnderWay(n)
  BY <1>6, GoingOn
<1>8. k \in 1..Len(stores)
  <2>1. Claims(k, w)
    BY DEF Claims
  <2>2. k <= Len(stores)
    BY <1>4, <2>1 DEF DevInv, OneOwner
  <2>3. k \in Nat /\ k # 0
    BY <1>4 DEF NoStore
  <2>4. Len(stores) \in Nat
    BY <1>2
  <2> HIDE DEF k
  <2> QED
    BY ONLY <2>2, <2>3, <2>4
<1>9. ListenersStay
  <2>1. PICK ids : stores \in Seq(StoreOf(ids))
    BY DEF DevInv, DevTyped, StoresTyped
  <2> DEFINE s == Reduced(stores[k], m)
             more == ids \cup {s.ids}
  <2>2. StoreOf(ids) \subseteq StoreOf(more)
    BY DEF StoreOf
  <2>3. stores[k] \in StoreOf(ids)
    BY <1>8, <2>1
  <2>4. s \in StoreOf(more) /\ s.listeners = stores[k].listeners
    <3>1. m \in Nat
      BY DevtoolAssumption DEF DevCalls
    <3>2. CASE devCall[m].kind = "update"
      BY <2>3, <3>1, <3>2 DEF Reduced, StoreOf
    <3>3. CASE devCall[m].kind = "register app"
      BY <2>3, <3>3 DEF Reduced, StoreOf
    <3>4. CASE devCall[m].kind = "unregister app"
      BY <2>3, <3>4 DEF Reduced, StoreOf
    <3> QED
      BY <1>4, <3>2, <3>3, <3>4
  <2> HIDE DEF s, more
  <2>9. stores' = [stores EXCEPT ![k] = s]
    BY <1>1 DEF s
  <2>5. stores \in Seq(StoreOf(more)) /\ stores' = [stores EXCEPT ![k] = s]
    BY <2>1, <2>2, <2>9
  <2>6. stores' \in Seq(StoreOf(more)) /\ Len(stores') = Len(stores)
    BY <1>8, <2>4, <2>5
  <2>7. StoresTyped'
    BY <2>6 DEF StoresTyped, StoreOf
  <2>8. \A n \in 1..Len(stores) : stores'[n] = IF n = k THEN s ELSE stores[n]
    BY <2>5
  <2>10. \A n \in 1..Len(stores) : stores'[n].listeners = stores[n].listeners
    BY <2>4, <2>8
  <2> QED
    BY <1>2, <2>6, <2>7, <2>10 DEF ListenersStay
<1>10. /\ Len(stores') \in Nat /\ Len(stores') >= Len(stores) /\ StoresTyped'
  BY <1>9, StoresAre DEF ListenersStay
<1>11. /\ \A b \in DevApps : appState'[b] = "new" => appState[b] = "new"
       /\ appState' \in [DevApps -> {"new", "asked", "registered", "refused", "leaving", "left"}]
  <2>1. appState \in [DevApps -> {"new", "asked", "registered", "refused", "leaving", "left"}]
    BY DEF DevInv, DevTyped
  <2>2. PICK u \in {"registered", "refused", "left"} : appState' = appState \/ appState' = [appState EXCEPT ![a] = u]
    <3> HIDE DEF error
    <3> QED
      BY <1>1, <1>4
  <2> QED
    BY <2>1, <2>2
<1>12. DevTyped'
  BY <1>1, <1>7, <1>10, <1>11 DEF DevInv, DevTyped, UnchangedByCalls
<1>13. OneOwner'
  <2>1. ClaimedFor(r.store, r.worker, "none")
    BY <1>3, Claimers
  <2>2. \A n \in DevCalls : ClaimedFor(devCall'[n].store, devCall'[n].worker, "none")
    BY <1>6, <2>1, ClaimsStay
  <2>3. \A v \in DevWorkers : ClaimedFor(storesByWorkerId'[v], v, "none")
    BY <1>1, Claimers
  <2>4. \A b \in DevApps : ClaimedFor(storesByWebAppId'[b], AppOwner[b], "none")
    BY <1>1, Claimers
  <2> QED
    BY <1>7, <1>10, <2>2, <2>3, <2>4, OwnersStay
<1>14. OwnerWithStore' /\ AppsFollowWorker'
  BY <1>1 DEF DevInv, OwnerWithStore, AppsFollowWorker, UnchangedByCalls
<1>15. RegisteredOnce'
  BY <1>1, <1>3, <1>6, <1>11, RegistrationsStay
<1>16. StoreOfWorker'
  BY <1>1, <1>3, <1>7 DEF StoreOfWorker, UnderWay, UnchangedByCalls, DevInv
<1>17. Subscribed'
  BY <1>1, <1>9, SubscribedStays DEF UnchangedByCalls
\* Whoever listens is connected.
<1>18. NoneRefused'
  <2>1. (\A c \in Connections : handshakes[c] <= 1) => ~error
    <3> SUFFICES ASSUME \A c \in Connections : handshakes[c] <= 1, NEW i \in 1..Len(stores[k].listeners),
                        connected[stores[k].listeners[i]] = "closed"
                 PROVE  FALSE
      BY DEF Throws
    <3>1. stores[k].listeners[i] \in Connections
      BY <1>8, StoresAre DEF DevInv, DevTyped
    <3>2. Listens(stores[k].listeners[i], k)
      BY DEF Listens
    <3> QED
      BY <1>8, <3>1, <3>2 DEF DevInv, Subscribed, SubscribedOnce
  <2> QED
    BY <1>1, <1>3, <1>7, <2>1, ErrorsStay DEF UnchangedByCalls
<1> QED
  BY <1>7, <1>12, <1>13, <1>14, <1>15, <1>16, <1>17, <1>18 DEF DevInv

-----------------------------------------------------------------------------
(* Connections                                                             *)

\* Connections change nothing of workers, applications and messages.
LEMMA WorkersRest ==
  ASSUME DevInv, UNCHANGED NotConnections, StoresTyped', Len(stores') = Len(stores)
  PROVE  /\ CallsAre' /\ CallsInOrder' /\ OneOwner' /\ OwnerWithStore' /\ RegisteredOnce' /\ StoreOfWorker'
         /\ AppsFollowWorker'
<1>1. CallsAre' /\ CallsInOrder' /\ OneOwner'
  BY DEF DevInv, NotConnections, CallsAre, CallsInOrder, OneOwner, Claims
<1>2. OwnerWithStore' /\ RegisteredOnce' /\ StoreOfWorker' /\ AppsFollowWorker'
  BY DEF DevInv, NotConnections, OwnerWithStore, RegisteredOnce, Registers, StoreOfWorker, UnderWay, AppsFollowWorker
<1> QED
  BY <1>1, <1>2

LEMMA RegisterConnectionKeeps ==
  ASSUME DevInv, NEW c \in Connections, RegisterConnection(c)
  PROVE  DevInv'
<1>1. /\ connected[c] = "no" /\ connected' = [connected EXCEPT ![c] = "open"]
      /\ UNCHANGED NotConnections /\ UNCHANGED <<stores, webAppIdByConnectionId, handlersByConnectionId, handshakes>>
  BY DEF RegisterConnection
<1>2. StoresTyped' /\ Len(stores') = Len(stores)
  BY <1>1, StoresSame DEF DevInv, DevTyped
<1>3. DevTyped'
  BY <1>1, <1>2 DEF DevInv, DevTyped, NotConnections
<1>4. Subscribed'
  <2>1. \A d \in Connections : connected'[d] = IF d = c THEN "open" ELSE connected[d]
    BY <1>1 DEF DevInv, DevTyped
  <2>2. \A d \in Connections, n \in 1..Len(stores) : Listens(d, n)' <=> Listens(d, n)
    BY <1>1 DEF Listens
  <2>3. Subscribed /\ UNCHANGED <<stores, handlersByConnectionId, handshakes>>
    BY <1>1 DEF DevInv
  <2>4. ASSUME NEW d \in Connections PROVE SubscribedOnce(d)'
    <3>1. SubscribedOnce(d)
      BY <2>3 DEF Subscribed
    <3>3. CASE d = c
      <4>1. connected[d] = "no" /\ connected'[d] = "open"
        BY <1>1, <2>1, <3>3
      <4> QED
        BY ONLY <2>2, <2>3, <3>1, <4>1, d \in Connections DEF SubscribedOnce
    <3>4. CASE d # c
      <4>1. connected'[d] = connected[d]
        BY <2>1, <3>4
      <4> QED
        BY ONLY <2>2, <2>3, <3>1, <4>1, d \in Connections DEF SubscribedOnce
    <3> QED
      BY <3>3, <3>4
  <2> QED
    BY <2>4 DEF Subscribed
<1>5. NoneRefused'
  BY <1>1, ErrorsStay DEF NotConnections
<1> QED
  BY <1>1, <1>2, <1>3, <1>4, <1>5, WorkersRest DEF DevInv

LEMMA HandshakeKeeps ==
  ASSUME DevInv, NEW c \in Connections, NEW a \in DevApps, Handshake(c, a)
  PROVE  DevInv'
<1> DEFINE k == storesByWebAppId[a]
           ls == Append(stores[k].listeners, c)
<1>1. /\ connected[c] = "open" /\ handshakes' = [handshakes EXCEPT ![c] = handshakes[c] + 1]
      /\ webAppIdByConnectionId' = [webAppIdByConnectionId EXCEPT ![c] = a]
      /\ k = NoStore => stores' = stores /\ handlersByConnectionId' = handlersByConnectionId
      /\ k # NoStore => /\ stores' = [stores EXCEPT ![k] = [stores[k] EXCEPT !.listeners = ls]]
                        /\ handlersByConnectionId' = [handlersByConnectionId EXCEPT ![c] = k]
      /\ UNCHANGED NotConnections /\ UNCHANGED connected
  BY DEF Handshake
<1>2. /\ Len(stores) \in Nat /\ k \in Nat /\ handshakes[c] \in Nat /\ connected \in [Connections -> {"no", "open", "closed"}]
      /\ handshakes \in [Connections -> Nat] /\ handlersByConnectionId \in [Connections -> Nat]
      /\ \A n \in 1..Len(stores) : stores[n].listeners \in Seq(Connections)
  BY StoresAre DEF DevInv, DevTyped
<1>3. k # NoStore => k \in 1..Len(stores)
  <2> SUFFICES ASSUME k # NoStore PROVE k \in 1..Len(stores)
    OBVIOUS
  <2>1. Claims(k, AppOwner[a]) /\ AppOwner[a] \in DevWorkers
    BY DevtoolAssumption DEF Claims
  <2>2. k <= Len(stores)
    BY <1>2, <2>1 DEF DevInv, OneOwner
  <2> HIDE DEF k
  <2> QED
    BY <1>2, <2>2 DEF NoStore
<1>4. k # NoStore => /\ ls \in Seq(Connections) /\ Len(ls) = Len(stores[k].listeners) + 1 /\ ls[Len(ls)] = c
                     /\ \A i \in 1..Len(stores[k].listeners) : ls[i] = stores[k].listeners[i]
                     /\ Len(stores[k].listeners) \in Nat
  BY <1>2, <1>3
<1>5. /\ StoresTyped' /\ Len(stores') = Len(stores)
      /\ \A n \in 1..Len(stores) : stores'[n].listeners = IF k # NoStore /\ n = k THEN ls ELSE stores[n].listeners
  <2>1. CASE k = NoStore
    BY <1>1, <2>1, StoresSame DEF DevInv, DevTyped
  <2>2. CASE k # NoStore
    <3>1. PICK ids : stores \in Seq(StoreOf(ids))
      BY DEF DevInv, DevTyped, StoresTyped
    <3>2. stores[k] \in StoreOf(ids) /\ ls \in Seq(Connections)
      BY <1>3, <1>4, <2>2, <3>1
    <3> DEFINE s == [stores[k] EXCEPT !.listeners = ls]
    <3> HIDE DEF ls
    <3>3. s \in StoreOf(ids) /\ s.listeners = ls
      BY <3>2 DEF StoreOf
    <3>4. stores' = [stores EXCEPT ![k] = s]
      BY <1>1, <2>2
    <3> HIDE DEF s, k
    <3>5. stores' \in Seq(StoreOf(ids)) /\ Len(stores') = Len(stores)
      BY <1>3, <2>2, <3>1, <3>3, <3>4
    <3>6. \A n \in 1..Len(stores) : stores'[n] = IF n = k THEN s ELSE stores[n]
      BY <3>1, <3>4
    <3>7. StoresTyped'
      BY <3>5 DEF StoresTyped, StoreOf
    <3> QED
      BY <2>2, <3>3, <3>5, <3>6, <3>7
  <2> QED
    BY <2>1, <2>2
<1>9. /\ handlersByConnectionId' = IF k = NoStore THEN handlersByConnectionId
                                    ELSE [handlersByConnectionId EXCEPT ![c] = k]
      /\ handshakes' = [handshakes EXCEPT ![c] = handshakes[c] + 1] /\ connected' = connected /\ connected[c] = "open"
  BY <1>1
<1>6. DevTyped'
  <2>1. handlersByConnectionId' \in [Connections -> Nat] /\ handshakes' \in [Connections -> Nat]
    BY <1>2, <1>9
  <2> QED
    BY <1>1, <1>5, <2>1 DEF DevInv, DevTyped, NotConnections
<1>7. Subscribed'
  <2> SUFFICES ASSUME NEW d \in Connections PROVE SubscribedOnce(d)'
    BY DEF Subscribed
  <2>1. SubscribedOnce(d)
    BY DEF DevInv, Subscribed
  <2> HIDE DEF ls, k
  <2>2. handlersByConnectionId'[d] <= Len(stores')
    <3>1. k # NoStore => k <= Len(stores) /\ k \in Nat
      BY <1>2, <1>3
    <3>2. CASE d = c
      BY <1>2, <1>5, <1>9, <2>1, <3>1, <3>2 DEF SubscribedOnce
    <3>3. CASE d # c
      BY <1>2, <1>5, <1>9, <2>1, <3>3 DEF SubscribedOnce
    <3> QED
      BY <3>2, <3>3
  \* Who listens still does.
  <2>5. \A n \in 1..Len(stores) : Listens(d, n) => Listens(d, n)'
    <3> SUFFICES ASSUME NEW n \in 1..Len(stores), NEW i \in 1..Len(stores[n].listeners), stores[n].listeners[i] = d
                 PROVE  \E j \in 1..Len(stores'[n].listeners) : stores'[n].listeners[j] = d
      BY DEF Listens
    <3>1. CASE k # NoStore /\ n = k
      <4>1. stores'[n].listeners = ls /\ i \in 1..Len(ls) /\ ls[i] = d
        BY <1>4, <1>5, <3>1
      <4> QED
        BY <4>1
    <3>2. CASE ~(k # NoStore /\ n = k)
      <4>1. stores'[n].listeners = stores[n].listeners
        BY <1>5, <3>2
      <4> QED
        BY <4>1
    <3> QED
      BY <3>1, <3>2
  <2>6. ASSUME NEW n \in 1..Len(stores'), handlersByConnectionId'[d] = n PROVE Listens(d, n)'
    <3>1. CASE d = c /\ k # NoStore
      <4>1. n = k /\ stores'[n].listeners = ls
        BY <1>2, <1>3, <1>5, <1>9, <2>6, <3>1
      <4>2. Len(ls) \in 1..Len(ls) /\ ls[Len(ls)] = d
        BY <1>4, <3>1
      <4> QED
        BY <4>1, <4>2 DEF Listens
    <3>2. CASE ~(d = c /\ k # NoStore)
      <4>1. handlersByConnectionId[d] = n
        BY <1>2, <1>9, <2>6, <3>2
      <4> QED
        BY <1>5, <2>1, <2>5, <4>1 DEF SubscribedOnce
    <3> QED
      BY <3>1, <3>2
  <2>3. CASE d # c
    <3>1. handshakes'[d] = handshakes[d] /\ handlersByConnectionId'[d] = handlersByConnectionId[d]
      BY <1>1, <1>2, <2>3
    <3>2. ASSUME NEW n \in 1..Len(stores), NEW i \in 1..Len(stores'[n].listeners), stores'[n].listeners[i] = d
          PROVE  i \in 1..Len(stores[n].listeners) /\ stores[n].listeners[i] = d
      <4>1. CASE k # NoStore /\ n = k
        BY <1>4, <1>5, <2>3, <3>2, <4>1
      <4>2. CASE ~(k # NoStore /\ n = k)
        BY <1>5, <3>2, <4>2
      <4> QED
        BY <4>1, <4>2
    <3>3. \A n \in 1..Len(stores) : Listens(d, n)' => Listens(d, n)
      BY <3>2 DEF Listens
    <3>4. handshakes[d] <= 1 => \A n \in 1..Len(stores') : \A i, j \in 1..Len(stores'[n].listeners) :
             stores'[n].listeners[i] = d /\ stores'[n].listeners[j] = d => i = j
      BY <1>5, <2>1, <3>2 DEF SubscribedOnce
    <3> QED
      BY <1>5, <1>9, <2>1, <2>2, <2>6, <3>1, <3>3, <3>4 DEF SubscribedOnce
  <2>4. CASE d = c
    <3>1. handshakes'[d] = handshakes[d] + 1 /\ connected'[d] = "open"
      BY <1>1, <1>2, <2>4
    <3>2. ASSUME handshakes[d] = 0
          PROVE  /\ \A n \in 1..Len(stores') : \A i, j \in 1..Len(stores'[n].listeners) :
                      stores'[n].listeners[i] = d /\ stores'[n].listeners[j] = d => i = j
                 /\ \A n \in 1..Len(stores') : Listens(d, n)' => handlersByConnectionId'[d] = n
      <4>1. \A n \in 1..Len(stores) : \A i \in 1..Len(stores[n].listeners) : stores[n].listeners[i] # d
        BY <2>1, <3>2 DEF Listens, SubscribedOnce
      <4>2. ASSUME NEW n \in 1..Len(stores), NEW i \in 1..Len(stores'[n].listeners), stores'[n].listeners[i] = d
            PROVE  k # NoStore /\ n = k /\ i = Len(ls)
        <5>1. k # NoStore /\ n = k
          BY <1>5, <4>1, <4>2
        <5>2. stores'[n].listeners = ls
          BY <1>5, <5>1
        <5>3. i \in 1..Len(stores[k].listeners) => ls[i] # d
          BY <1>4, <4>1, <5>1
        <5> QED
          BY <1>4, <4>2, <5>1, <5>2, <5>3
      <4>3. k # NoStore => handlersByConnectionId'[d] = k
        BY <1>1, <1>2, <2>4
      <4> QED
        BY <1>5, <4>2, <4>3 DEF Listens
    <3>3. handshakes[d] \in Nat
      BY <1>2
    <3> QED
      BY <2>2, <2>6, <3>1, <3>2, <3>3 DEF SubscribedOnce
  <2> QED
    BY <2>3, <2>4
<1>8. NoneRefused'
  <2>1. \A d \in Connections : handshakes'[d] <= 1 => handshakes[d] <= 1
    BY <1>1, <1>2
  <2> QED
    BY <1>1, <2>1, ErrorsStay DEF NotConnections
<1> QED
  BY <1>1, <1>5, <1>6, <1>7, <1>8, WorkersRest DEF DevInv

\* Without its element i a sequence has the others, one place further down behind i.
LEMMA RemovedAt ==
  ASSUME NEW S, NEW s \in Seq(S), NEW i \in 1..Len(s)
  PROVE  /\ RemoveAt(s, i) \in Seq(S) /\ Len(RemoveAt(s, i)) = Len(s) - 1
         /\ \A j \in 1..(Len(s) - 1) : RemoveAt(s, i)[j] = IF j < i THEN s[j] ELSE s[j + 1]
<1>1. Len(s) \in Nat /\ i \in Nat
  OBVIOUS
<1>2. /\ SubSeq(s, 1, i - 1) \in Seq(S) /\ Len(SubSeq(s, 1, i - 1)) = i - 1
      /\ \A j \in 1..(i - 1) : SubSeq(s, 1, i - 1)[j] = s[j]
  <2>1. \A j \in 1..(i - 1) : s[j] \in S
    OBVIOUS
  <2>2. 1 \in Int /\ i - 1 \in Int
    BY <1>1
  <2> QED
    BY <1>1, <2>1, <2>2, SubSeqProperties
<1>3. /\ SubSeq(s, i + 1, Len(s)) \in Seq(S) /\ Len(SubSeq(s, i + 1, Len(s))) = Len(s) - i
      /\ \A j \in 1..(Len(s) - i) : SubSeq(s, i + 1, Len(s))[j] = s[i + j]
  <2>1. \A j \in (i + 1)..Len(s) : s[j] \in S
    OBVIOUS
  <2>2. i + 1 \in Int /\ Len(s) \in Int
    BY <1>1
  <2> QED
    BY <1>1, <2>1, <2>2, SubSeqProperties
<1> DEFINE a == SubSeq(s, 1, i - 1)
           b == SubSeq(s, i + 1, Len(s))
<1> HIDE DEF a, b
<1>4. /\ a \o b \in Seq(S) /\ Len(a \o b) = Len(a) + Len(b)
      /\ \A j \in 1..(Len(a) + Len(b)) : (a \o b)[j] = IF j <= Len(a) THEN a[j] ELSE b[j - Len(a)]
  BY <1>2, <1>3, ConcatProperties DEF a, b
<1>5. RemoveAt(s, i) = a \o b /\ Len(a) = i - 1 /\ Len(b) = Len(s) - i
  BY <1>2, <1>3 DEF RemoveAt, a, b
<1>6. ASSUME NEW j \in 1..(Len(s) - 1) PROVE (a \o b)[j] = IF j < i THEN s[j] ELSE s[j + 1]
  <2>1. CASE j < i
    BY <1>1, <1>2, <1>4, <1>5, <2>1 DEF a
  <2>2. CASE ~(j < i)
    <3>1. (a \o b)[j] = b[j - (i - 1)] /\ j - (i - 1) \in 1..(Len(s) - i)
      BY <1>1, <1>4, <1>5, <2>2
    <3>2. b[j - (i - 1)] = s[i + (j - (i - 1))]
      BY <1>3, <3>1 DEF b
    <3>3. i + (j - (i - 1)) = j + 1
      BY <1>1
    <3> QED
      BY <2>2, <3>1, <3>2, <3>3
  <2> QED
    BY <2>1, <2>2
<1>7. Len(a) + Len(b) = Len(s) - 1
  BY <1>1, <1>5
<1>8. a \o b \in Seq(S) /\ Len(a \o b) = Len(s) - 1
  BY <1>4, <1>7
<1> QED
  BY ONLY <1>5, <1>6, <1>8

LEMMA LastListener ==
  ASSUME NEW list \in Seq(Connections), NEW c, \E i \in 1..Len(list) : list[i] = c
  PROVE  \E i \in 1..Len(list) : list[i] = c /\ \A j \in 1..Len(list) : list[j] = c => j <= i
<1>1. Len(list) \in Nat
  OBVIOUS
<1> DEFINE Q == {n \in Nat : \E i \in 1..Len(list) : list[i] = c /\ n = Len(list) - i}
<1>2. Q \in SUBSET Nat /\ Q # {}
  <2>1. PICK i \in 1..Len(list) : list[i] = c
    OBVIOUS
  <2>2. Len(list) - i \in Nat
    BY <1>1
  <2> QED
    BY <2>1, <2>2
<1>3. PICK q \in Q : \A p \in Q : q <= p
  <2> HIDE DEF Q
  <2> QED
    BY <1>2, LeastNumber
<1>4. PICK i \in 1..Len(list) : list[i] = c /\ q = Len(list) - i
  BY <1>3
<1>5. ASSUME NEW j \in 1..Len(list), list[j] = c PROVE j <= i
  <2>1. Len(list) - j \in Q
    BY <1>1, <1>5
  <2>2. q <= Len(list) - j
    BY <1>3, <2>1
  <2> HIDE DEF Q
  <2> QED
    BY <1>1, <1>4, <2>2
<1> QED
  BY <1>4, <1>5

\* The listeners of a store after c has unsubscribed from it.
LEMMA DisconnectsKeeps ==
  ASSUME DevInv, NEW c \in Connections, Disconnects(c)
  PROVE  DevInv'
<1> DEFINE k == handlersByConnectionId[c]
           list == stores[k].listeners
           at == CHOOSE i \in 1..Len(list) : list[i] = c /\ \A j \in 1..Len(list) : list[j] = c => j <= i
           ls == RemoveAt(list, at)
           from(j) == IF j < at THEN j ELSE j + 1
<1>1. /\ connected[c] = "open" /\ connected' = [connected EXCEPT ![c] = "closed"]
      /\ handlersByConnectionId' = [handlersByConnectionId EXCEPT ![c] = NoStore]
      /\ webAppIdByConnectionId' = [webAppIdByConnectionId EXCEPT ![c] = "none"]
      /\ UNCHANGED NotConnections /\ handshakes' = handshakes
      /\ k = NoStore => stores' = stores
      /\ k # NoStore => stores' = [stores EXCEPT ![k].listeners = ls]
  BY DEF Disconnects, Unsubscribed
<1>2. /\ Len(stores) \in Nat /\ k \in Nat /\ connected \in [Connections -> {"no", "open", "closed"}]
      /\ handlersByConnectionId \in [Connections -> Nat]
      /\ webAppIdByConnectionId \in [Connections -> DevApps \cup {"none"}]
      /\ \A n \in 1..Len(stores) : stores[n].listeners \in Seq(Connections)
      /\ SubscribedOnce(c)
  BY StoresAre DEF DevInv, DevTyped, Subscribed
<1>3. k # NoStore => k \in 1..Len(stores) /\ list \in Seq(Connections) /\ Listens(c, k)
  BY <1>2 DEF NoStore, SubscribedOnce
<1>4. k # NoStore => at \in 1..Len(list) /\ list[at] = c
  <2> SUFFICES ASSUME k # NoStore PROVE at \in 1..Len(list) /\ list[at] = c
    OBVIOUS
  <2>1. \E i \in 1..Len(list) : list[i] = c
    BY <1>3 DEF Listens
  <2> HIDE DEF list
  <2>2. \E i \in 1..Len(list) : list[i] = c /\ \A j \in 1..Len(list) : list[j] = c => j <= i
    BY <1>3, <2>1, LastListener
  <2> QED
    BY <2>2
<1>5. k # NoStore => /\ ls \in Seq(Connections) /\ Len(ls) = Len(list) - 1
                     /\ \A j \in 1..Len(ls) : ls[j] = list[from(j)] /\ from(j) \in 1..Len(list) /\ from(j) # at
                     /\ \A i \in 1..Len(list) : i # at => \E j \in 1..Len(ls) : from(j) = i
  <2> SUFFICES ASSUME k # NoStore
               PROVE  /\ ls \in Seq(Connections) /\ Len(ls) = Len(list) - 1
                      /\ \A j \in 1..Len(ls) : ls[j] = list[from(j)] /\ from(j) \in 1..Len(list) /\ from(j) # at
                      /\ \A i \in 1..Len(list) : i # at => \E j \in 1..Len(ls) : from(j) = i
    OBVIOUS
  <2> HIDE DEF list, at
  <2>1. /\ ls \in Seq(Connections) /\ Len(ls) = Len(list) - 1
        /\ \A j \in 1..(Len(list) - 1) : ls[j] = IF j < at THEN list[j] ELSE list[j + 1]
    BY <1>3, <1>4, RemovedAt
  <2>2. Len(list) \in Nat /\ at \in 1..Len(list)
    BY <1>3, <1>4
  <2> HIDE DEF ls
  <2>3. ASSUME NEW j \in 1..Len(ls) PROVE ls[j] = list[from(j)] /\ from(j) \in 1..Len(list) /\ from(j) # at
    BY <2>1, <2>2
  <2>4. ASSUME NEW i \in 1..Len(list), i # at PROVE \E j \in 1..Len(ls) : from(j) = i
    <3>1. CASE i < at
      <4>1. i \in 1..Len(ls) /\ from(i) = i
        BY <2>1, <2>2, <3>1
      <4> QED
        BY <4>1
    <3>2. CASE ~(i < at)
      <4>1. i - 1 \in 1..Len(ls) /\ from(i - 1) = i
        BY <2>1, <2>2, <2>4, <3>2
      <4> QED
        BY <4>1
    <3> QED
      BY <3>1, <3>2
  <2> QED
    BY <2>1, <2>3, <2>4
<1>6. /\ StoresTyped' /\ Len(stores') = Len(stores)
      /\ \A n \in 1..Len(stores) :
           stores'[n].listeners = IF k # NoStore /\ n = k THEN ls ELSE stores[n].listeners
  <2>1. CASE k = NoStore
    BY <1>1, <2>1, StoresSame DEF DevInv, DevTyped
  <2>2. CASE k # NoStore
    <3>1. PICK ids : stores \in Seq(StoreOf(ids))
      BY DEF DevInv, DevTyped, StoresTyped
    <3>2. stores[k] \in StoreOf(ids) /\ ls \in Seq(Connections)
      BY <1>3, <1>5, <2>2, <3>1
    <3> DEFINE s == [stores[k] EXCEPT !.listeners = ls]
    <3> HIDE DEF ls
    <3>3. s \in StoreOf(ids) /\ s.listeners = ls
      BY <3>2 DEF StoreOf
    <3>4. stores' = [stores EXCEPT ![k] = s]
      BY <1>1, <2>2
    <3> HIDE DEF s, k
    <3>5. stores' \in Seq(StoreOf(ids)) /\ Len(stores') = Len(stores)
      BY <1>3, <2>2, <3>1, <3>3, <3>4
    <3>6. \A n \in 1..Len(stores) : stores'[n] = IF n = k THEN s ELSE stores[n]
      BY <3>1, <3>4
    <3>7. StoresTyped'
      BY <3>5 DEF StoresTyped, StoreOf
    <3> QED
      BY <2>2, <3>3, <3>5, <3>6, <3>7
  <2> QED
    BY <2>1, <2>2
<1>7. /\ handlersByConnectionId' = [handlersByConnectionId EXCEPT ![c] = NoStore]
      /\ webAppIdByConnectionId' = [webAppIdByConnectionId EXCEPT ![c] = "none"]
      /\ handshakes' = handshakes /\ connected' = [connected EXCEPT ![c] = "closed"]
  BY <1>1
<1>8. DevTyped'
  <2>1. /\ handlersByConnectionId' \in [Connections -> Nat]
        /\ connected' \in [Connections -> {"no", "open", "closed"}]
        /\ webAppIdByConnectionId' \in [Connections -> DevApps \cup {"none"}]
    BY <1>2, <1>7 DEF NoStore
  <2> QED
    BY <1>1, <1>6, <2>1 DEF DevInv, DevTyped, NotConnections
<1>9. Subscribed'
  <2> SUFFICES ASSUME NEW d \in Connections PROVE SubscribedOnce(d)'
    BY DEF Subscribed
  <2>1. SubscribedOnce(d) /\ handshakes'[d] = handshakes[d]
    BY <1>7 DEF DevInv, Subscribed
  <2> HIDE DEF ls, k, list, at, from
  \* Where an entry has been.
  <2>2. ASSUME NEW n \in 1..Len(stores'), NEW i \in 1..Len(stores'[n].listeners), stores'[n].listeners[i] = d
        PROVE  /\ n \in 1..Len(stores) /\ Listens(d, n)
               /\ k # NoStore /\ n = k => from(i) \in 1..Len(stores[n].listeners) /\ from(i) # at
                                          /\ stores[n].listeners[from(i)] = d
    <3>1. CASE k # NoStore /\ n = k
      <4>1. stores'[n].listeners = ls /\ stores[n].listeners = list
        BY <1>3, <1>6, <3>1 DEF list
      <4>2. from(i) \in 1..Len(list) /\ from(i) # at /\ list[from(i)] = d
        BY <1>5, <2>2, <3>1, <4>1
      <4> QED
        BY <1>6, <4>1, <4>2 DEF Listens
    <3>2. CASE ~(k # NoStore /\ n = k)
      BY <1>6, <2>2, <3>2 DEF Listens
    <3> QED
      BY <3>1, <3>2
  <2>3. \A n \in 1..Len(stores') : Listens(d, n)' => n \in 1..Len(stores) /\ Listens(d, n)
    BY <2>2 DEF Listens
  <2>4. handshakes[d] <= 1 => \A n \in 1..Len(stores') : \A i, j \in 1..Len(stores'[n].listeners) :
           stores'[n].listeners[i] = d /\ stores'[n].listeners[j] = d => i = j
    <3> SUFFICES ASSUME handshakes[d] <= 1, NEW n \in 1..Len(stores'),
                        NEW i \in 1..Len(stores'[n].listeners), NEW j \in 1..Len(stores'[n].listeners),
                        stores'[n].listeners[i] = d, stores'[n].listeners[j] = d
                 PROVE  i = j
      OBVIOUS
    <3>1. CASE k # NoStore /\ n = k
      <4>1. from(i) = from(j)
        BY <2>1, <2>2, <3>1 DEF SubscribedOnce
      <4>2. at \in Nat
        BY <1>3, <1>4, <3>1
      <4> QED
        BY <4>1, <4>2 DEF from
    <3>2. CASE ~(k # NoStore /\ n = k)
      BY <1>6, <2>1, <3>2 DEF SubscribedOnce
    <3> QED
      BY <3>1, <3>2
  <2>5. CASE d # c
    <3>1. handlersByConnectionId'[d] = handlersByConnectionId[d] /\ connected'[d] = connected[d]
      BY <1>2, <1>7, <2>5
    \* Who listens still does.
    <3>2. ASSUME NEW n \in 1..Len(stores), NEW i \in 1..Len(stores[n].listeners), stores[n].listeners[i] = d
          PROVE  Listens(d, n)'
      <4>1. CASE k # NoStore /\ n = k
        <5>1. stores'[n].listeners = ls /\ stores[n].listeners = list
          BY <1>6, <4>1 DEF list
        <5>2. PICK j \in 1..Len(ls) : from(j) = i
          BY <1>4, <1>5, <2>5, <3>2, <4>1, <5>1
        <5>3. ls[j] = d
          BY <1>5, <3>2, <4>1, <5>1, <5>2
        <5> QED
          BY <5>1, <5>3 DEF Listens
      <4>2. CASE ~(k # NoStore /\ n = k)
        BY <1>6, <3>2, <4>2 DEF Listens
      <4> QED
        BY <4>1, <4>2
    <3>3. \A n \in 1..Len(stores) : handlersByConnectionId[d] = n => Listens(d, n)'
      BY <2>1, <3>2 DEF SubscribedOnce, Listens
    <3> QED
      BY <1>6, <2>1, <2>3, <2>4, <3>1, <3>3 DEF SubscribedOnce
  <2>6. CASE d = c
    <3>1. handlersByConnectionId'[d] = NoStore /\ connected'[d] = "closed"
      BY <1>2, <1>7, <2>6
    <3>2. ASSUME handshakes[d] <= 1, NEW n \in 1..Len(stores') PROVE ~Listens(d, n)'
      <4> SUFFICES ASSUME NEW i \in 1..Len(stores'[n].listeners), stores'[n].listeners[i] = d PROVE FALSE
        BY DEF Listens
      <4>1. n \in 1..Len(stores) /\ k = n /\ k # NoStore
        BY <2>1, <2>2, <2>6, <3>2 DEF SubscribedOnce, k, NoStore
      <4>2. from(i) \in 1..Len(stores[n].listeners) /\ from(i) # at /\ stores[n].listeners[from(i)] = d
        BY <2>2, <4>1
      <4>3. at \in 1..Len(stores[n].listeners) /\ stores[n].listeners[at] = d
        BY <1>4, <2>6, <4>1 DEF list
      <4> QED
        BY <2>1, <3>2, <4>1, <4>2, <4>3 DEF SubscribedOnce
    <3>3. 0 <= Len(stores')
      BY <1>2, <1>6
    <3> QED
      BY <2>1, <2>3, <2>4, <3>1, <3>2, <3>3 DEF SubscribedOnce, NoStore
  <2> QED
    BY <2>5, <2>6
<1>10. NoneRefused'
  <2>1. \A d \in Connections : handshakes'[d] <= 1 => handshakes[d] <= 1
    BY <1>7
  <2> QED
    BY <1>1, <2>1, ErrorsStay DEF NotConnections
<1> QED
  BY <1>1, <1>6, <1>8, <1>9, <1>10, WorkersRest DEF DevInv

\* Every step of the devtool keeps the invariant.
LEMMA DevSteps == DevInv /\ [DevNext]_devVars => DevInv'
<1> SUFFICES ASSUME DevInv, [DevNext]_devVars PROVE DevInv'
  OBVIOUS
<1>1. CASE StartServer \/ ServersStart \/ MessagesProxied \/ KillDevtool
  BY <1>1, ServerSteps DEF StartServer, ServersStart, MessagesProxied, KillDevtool
<1>2. ASSUME NEW m \in DevCalls, Handles(m) PROVE DevInv'
  BY <1>2, CreateStoreKeeps, HasStoreKeeps, RegisterWebAppIdKeeps, UnregisterWebAppIdKeeps, DispatchKeeps DEF Handles
<1>3. ASSUME NEW m \in DevCalls, NEW w \in DevWorkers, UpdateMessage(m, w) \/ UnregisterWorker(m, w) PROVE DevInv'
  BY <1>3, UpdateKeeps, UnregisterWorkerKeeps
<1>4. ASSUME NEW m \in DevCalls, NEW a \in DevApps, AppMessage(m, a) PROVE DevInv'
  BY <1>4, AppMessageKeeps
<1>5. ASSUME NEW c \in Connections, RegisterConnection(c) \/ Disconnects(c) PROVE DevInv'
  BY <1>5, RegisterConnectionKeeps, DisconnectsKeeps
<1>6. ASSUME NEW c \in Connections, NEW a \in DevApps, Handshake(c, a) PROVE DevInv'
  BY <1>6, HandshakeKeeps
<1>7. CASE UNCHANGED devVars
  BY <1>7, ServerSteps DEF devVars, NotServer
<1> QED
  BY <1>1, <1>2, <1>3, <1>4, <1>5, <1>6, <1>7 DEF DevNext, DevProgress

\* What the invariant says of the pages.
LEMMA DevPromises == DevInv => AppsFollowWorker /\ ActionsToOwner /\ NoStaleListener
<1> SUFFICES ASSUME DevInv PROVE AppsFollowWorker /\ ActionsToOwner /\ NoStaleListener
  OBVIOUS
<1>1. ActionsToOwner
  <2> SUFFICES ASSUME NEW c \in Connections, ActionTarget(c) # "none"
               PROVE  ActionTarget(c) = AppOwner[webAppIdByConnectionId[c]] /\ StoreShown(c) # NoStore
    BY DEF ActionsToOwner
  <2>1. webAppIdByConnectionId[c] \in DevApps /\ webAppIdByConnectionId[c] # "none"
    BY DEF DevInv, DevTyped, ActionTarget
  <2> QED
    BY <2>1 DEF DevInv, OwnerWithStore, ActionTarget, StoreShown
<1>2. NoStaleListener
  <2>1. ASSUME NEW n \in 1..Len(stores), NEW i \in 1..Len(stores[n].listeners), handshakes[stores[n].listeners[i]] <= 1
        PROVE  connected[stores[n].listeners[i]] = "open"
    <3> DEFINE c == stores[n].listeners[i]
    <3>1. c \in Connections
      BY StoresAre DEF DevInv, DevTyped
    <3>2. Listens(c, n)
      BY DEF Listens
    <3>3. SubscribedOnce(c) /\ connected[c] \in {"no", "open", "closed"} /\ handshakes[c] <= 1
      BY <2>1, <3>1 DEF DevInv, DevTyped, Subscribed
    <3> HIDE DEF c
    <3>4. connected[c] = "open"
      BY <3>2, <3>3 DEF SubscribedOnce
    <3> QED
      BY <3>4 DEF c
  <2> QED
    BY <2>1 DEF DevInv, NoneRefused, NoStaleListener
<1> QED
  BY <1>1, <1>2 DEF DevInv

-----------------------------------------------------------------------------
(* Sandboxes                                                               *)

\* What the builder has done: the files that are being read are in the cache, each once; a
\* file's node has what has been read of it, and everything when the file has been read.
BuildSet == [at : {"reading", "built", "rejected"}, stack : Seq(Frame), nodesCache : SUBSET SourceFiles,
             nodes : [SourceFiles -> SUBSET SourceFiles]]
Bundled(f) == ToSet(requests[f]) \ packages
ReadSoFar(p) == {requests[p.file][i] : i \in 1..(p.next - 1)} \ packages
IsRead(b, f) == \E i \in 1..Len(b.stack) : b.stack[i].file = f
CallsOnStack(b) ==
  /\ \A i \in 1..Len(b.stack) :
       /\ b.stack[i].file \in b.nodesCache /\ b.stack[i].next \in 1..(Len(requests[b.stack[i].file]) + 1)
       /\ b.nodes[b.stack[i].file] = ReadSoFar(b.stack[i])
  /\ \A i, j \in 1..Len(b.stack) : b.stack[i].file = b.stack[j].file => i = j
NodesLinked(b) ==
  /\ \A f \in b.nodesCache : ~IsRead(b, f) => b.nodes[f] = Bundled(f)
  /\ \A f \in SourceFiles : b.nodes[f] \subseteq b.nodesCache
  /\ \A f \in SourceFiles \ b.nodesCache : b.nodes[f] = {}
CacheReached(b) ==
  /\ Entry \in b.nodesCache /\ b.nodesCache \cap packages = {}
  /\ \A S \in SUBSET SourceFiles : Entry \in S /\ Closed(S) => b.nodesCache \subseteq S
BuildEnds(b) ==
  /\ b.at = "reading" => b.stack # <<>>
  /\ b.at = "built" => b.stack = <<>>
BuildIs(b) == b \in BuildSet /\ CallsOnStack(b) /\ NodesLinked(b) /\ CacheReached(b) /\ BuildEnds(b)
ProjectTyped == requests \in [SourceFiles -> Seq(SourceFiles)] /\ packages \subseteq Packages
BuildKept == ProjectTyped /\ BuildIs(build)
\* The builder's state r, by its parts.
BuildHas(r, a, s, c, k) == r \in BuildSet /\ r.at = a /\ r.stack = s /\ r.nodesCache = c /\ r.nodes = k
\* The node of f gets the dependencies S.
NodeGrows(r, f, S) ==
  \A h \in SourceFiles : r.nodes[h] = IF h = f THEN build.nodes[h] \cup S ELSE build.nodes[h]

\* The innermost call of buildNodes(): p, the n-th.
InCall(n, p) ==
  /\ build.at = "reading" /\ build.stack # <<>> /\ build.stack \in Seq(Frame)
  /\ n = Len(build.stack) /\ n \in Nat \ {0} /\ p = build.stack[n] /\ p = Last(build.stack)
  /\ p \in Frame /\ p.file \in SourceFiles /\ p.file \in build.nodesCache
  /\ requests[p.file] \in Seq(SourceFiles) /\ Len(requests[p.file]) \in Nat
  /\ p.next \in 1..(Len(requests[p.file]) + 1) /\ build.nodes[p.file] = ReadSoFar(p)
\* It has read d and is q then, in the calls g.
HasRead(n, p, d, q, g) ==
  /\ d \in SourceFiles /\ d \in ToSet(requests[p.file])
  /\ q \in Frame /\ q.file = p.file /\ q.next \in 1..(Len(requests[p.file]) + 1)
  /\ ReadSoFar(q) = ReadSoFar(p) \cup ({d} \ packages)
  /\ g \in Seq(Frame) /\ Len(g) = n /\ g # <<>>
  /\ \A i \in 1..n : g[i] = IF i = n THEN q ELSE build.stack[i]

Instance == [path : SourceFiles, of : Runs, isCompiling : BOOLEAN, isCompiled : BOOLEAN,
             failed : BOOLEAN, broken : BOOLEAN]
ScriptFrame == [sandbox : Nat, next : Nat]
SandboxTyped ==
  /\ instances \in Seq(Instance) /\ modulesCache \in [SourceFiles -> Nat]
  /\ frames \in Seq(ScriptFrame) /\ uses \in [Runs -> SUBSET Nat]
  /\ run \in [number : Nat, going : BOOLEAN] /\ run.number <= NumRuns
\* What the cache, the scripts and the runs refer to.
InRange ==
  /\ \A f \in SourceFiles : modulesCache[f] <= Len(instances)
  /\ \A i \in 1..Len(frames) : frames[i].sandbox \in 1..Len(instances)
  /\ \A r \in Runs : uses[r] \subseteq 1..Len(instances)
CachedByPath ==
  /\ \A f \in SourceFiles : modulesCache[f] # 0 => instances[modulesCache[f]].path = f
  /\ \A k \in 1..Len(instances) : instances[k].path \in build.nodesCache
  /\ instances # <<>> => build.at = "built"
\* Unless a callback came late everything is of the run that is going on.
OfTheRun ==
  ~late.after =>
    /\ \A f \in SourceFiles : modulesCache[f] # 0 => run.going /\ instances[modulesCache[f]].of = run.number
    /\ \A i \in 1..Len(frames) : run.going /\ instances[frames[i].sandbox].of = run.number
    /\ \A r \in Runs : r > run.number => uses[r] = {}
    /\ run.going => run.number \in Runs /\ \A j \in uses[run.number] : modulesCache[instances[j].path] = j
SandboxKept ==
  BuildKept /\ SandboxTyped /\ InRange /\ CachedByPath /\ OfTheRun /\ OneSandbox /\ PartialInCycle

\* A finite set as a sequence.
LEMMA SetToSeqIs ==
  ASSUME NEW S, IsFiniteSet(S)
  PROVE  SetToSeq(S) \in Seq(S)
<1>1. Cardinality(S) \in Nat /\ ExistsBijection(1..Cardinality(S), S)
  BY FS_CardinalityType
<1>2. \E f \in [1..Cardinality(S) -> S] : IsInjective(f)
  BY <1>1 DEF ExistsBijection, Bijection, Injection
<1>3. SetToSeq(S) \in [1..Cardinality(S) -> S]
  BY <1>2 DEF SetToSeq
<1> QED
  BY <1>1, <1>3

\* A sequence without its last element, and with another one in its place.
LEMMA FrontIs ==
  ASSUME NEW S, NEW s \in Seq(S), s # <<>>
  PROVE  /\ Front(s) \in Seq(S) /\ Len(Front(s)) = Len(s) - 1 /\ Len(s) \in Nat \ {0}
         /\ \A i \in 1..(Len(s) - 1) : Front(s)[i] = s[i]
         /\ Last(s) \in S /\ Last(s) = s[Len(s)]
<1>1. Len(s) \in Nat \ {0}
  OBVIOUS
<1>2. PICK n \in Nat : n = Len(s) - 1
  BY <1>1
<1>3. 1 \in Int /\ n \in Int /\ \A i \in 1..n : s[i] \in S
  BY <1>1, <1>2
<1>4. /\ SubSeq(s, 1, n) \in Seq(S) /\ Len(SubSeq(s, 1, n)) = n
      /\ \A i \in 1..n : SubSeq(s, 1, n)[i] = s[i]
  BY <1>2, <1>3, SubSeqProperties
<1>5. Front(s) = SubSeq(s, 1, n)
  BY <1>2 DEF Front
<1>7. Last(s) \in S /\ Last(s) = s[Len(s)]
  BY <1>1 DEF Last
<1> QED
  BY <1>1, <1>2, <1>4, <1>5, <1>7

LEMMA TopBecomes ==
  ASSUME NEW S, NEW s \in Seq(S), s # <<>>, NEW z \in S
  PROVE  /\ Append(Front(s), z) \in Seq(S) /\ Len(Append(Front(s), z)) = Len(s)
         /\ \A i \in 1..Len(s) : Append(Front(s), z)[i] = IF i = Len(s) THEN z ELSE s[i]
<1> DEFINE t == Front(s)
<1>1. t \in Seq(S) /\ Len(t) = Len(s) - 1 /\ Len(s) \in Nat \ {0} /\ \A i \in 1..(Len(s) - 1) : t[i] = s[i]
  BY FrontIs
<1> HIDE DEF t
<1>2. /\ Append(t, z) \in Seq(S) /\ Len(Append(t, z)) = Len(s)
      /\ \A i \in 1..Len(s) : Append(t, z)[i] = IF i = Len(s) THEN z ELSE s[i]
  BY <1>1
<1> QED
  BY <1>2 DEF t

\* It holds at the start.
LEMMA SandboxStarts == SandboxInit => SandboxKept
<1> SUFFICES ASSUME SandboxInit PROVE SandboxKept
  OBVIOUS
<1>1. packages \subseteq Packages /\ Entry \in SourceFiles /\ Entry \notin packages
  BY SandboxAssumption DEF SandboxInit
<1>2. PICK g \in [SourceFiles -> SUBSET SourceFiles] : requests = [f \in SourceFiles |-> SetToSeq(g[f])]
  BY DEF SandboxInit
<1>3. ASSUME NEW f \in SourceFiles PROVE SetToSeq(g[f]) \in Seq(SourceFiles)
  <2>1. g[f] \in SUBSET SourceFiles /\ IsFiniteSet(g[f])
    BY SandboxAssumption, FS_Subset
  <2>2. SetToSeq(g[f]) \in Seq(g[f])
    BY <2>1, SetToSeqIs
  <2> QED
    BY <2>1, <2>2, SeqMonotonic
<1>4. requests \in [SourceFiles -> Seq(SourceFiles)]
  BY <1>2, <1>3
<1>5. BuildIs(build)
  <2> DEFINE p == [file |-> Entry, next |-> 1]
             b == [at |-> "reading", stack |-> <<p>>, nodesCache |-> {Entry}, nodes |-> [f \in SourceFiles |-> {}]]
  <2>1. build = b
    BY DEF SandboxInit
  <2>2. p \in Frame /\ p.file = Entry /\ p.next = 1
    BY <1>1 DEF Frame
  <2>3. ReadSoFar(p) = {}
    BY <2>2 DEF ReadSoFar
  <2> HIDE DEF p
  <2>4. <<p>> \in Seq(Frame) /\ Len(<<p>>) = 1 /\ <<p>>[1] = p /\ <<p>> # <<>>
    BY <2>2
  <2>5. b \in BuildSet
    BY <1>1, <2>4 DEF BuildSet
  <2>6. b.at = "reading" /\ b.stack = <<p>> /\ b.nodesCache = {Entry} /\ b.nodes = [f \in SourceFiles |-> {}]
    OBVIOUS
  <2> HIDE DEF b
  <2>7. CallsOnStack(b)
    <3>1. Len(requests[Entry]) \in Nat
      BY <1>1, <1>4
    <3>2. 1 \in 1..(Len(requests[Entry]) + 1)
      BY ONLY <3>1
    <3>3. b.nodes[Entry] = {} /\ Entry \in b.nodesCache
      BY ONLY <1>1, <2>6
    <3>4. Len(b.stack) = 1 /\ b.stack[1] = p
      BY ONLY <2>4, <2>6
    <3>5. \A i \in 1..Len(b.stack) : i = 1 /\ b.stack[i] = p
      BY ONLY <3>4
    <3>6. ASSUME NEW i \in 1..Len(b.stack)
          PROVE  /\ b.stack[i].file \in b.nodesCache /\ b.stack[i].next \in 1..(Len(requests[b.stack[i].file]) + 1)
                 /\ b.nodes[b.stack[i].file] = ReadSoFar(b.stack[i])
      BY ONLY <2>2, <2>3, <3>2, <3>3, <3>5, i \in 1..Len(b.stack)
    <3> QED
      BY ONLY <3>5, <3>6 DEF CallsOnStack
  <2>8. NodesLinked(b)
    BY <1>1, <2>2, <2>4, <2>6 DEF NodesLinked, IsRead
  <2>9. CacheReached(b) /\ BuildEnds(b)
    BY <1>1, <2>4, <2>6 DEF CacheReached, BuildEnds
  <2> QED
    BY <2>1, <2>5, <2>7, <2>8, <2>9 DEF BuildIs
<1>6. /\ instances = <<>> /\ frames = <<>> /\ modulesCache = [f \in SourceFiles |-> 0]
      /\ uses = [r \in Runs |-> {}] /\ run = [number |-> 0, going |-> FALSE]
  BY DEF SandboxInit
<1>7. SandboxTyped
  <2>1. <<>> \in Seq(Instance) /\ <<>> \in Seq(ScriptFrame)
    OBVIOUS
  <2> QED
    BY <1>6, <2>1, SandboxAssumption DEF SandboxTyped
<1>8. InRange /\ CachedByPath /\ OfTheRun /\ OneSandbox /\ PartialInCycle
  BY <1>6 DEF InRange, CachedByPath, OfTheRun, OneSandbox, PartialInCycle
<1> QED
  BY <1>1, <1>4, <1>5, <1>7, <1>8 DEF SandboxKept, BuildKept, ProjectTyped

-----------------------------------------------------------------------------
(* dependencies-builder/src/index.ts                                       *)

\* The call of buildNodes() that is going on.
LEMMA TopOfBuild ==
  ASSUME BuildKept, build.at = "reading"
  PROVE  \E n, p : InCall(n, p)
<1>1. build.stack # <<>> /\ build.stack \in Seq(Frame)
  BY DEF BuildKept, BuildIs, BuildSet, BuildEnds
<1>2. Len(build.stack) \in Nat \ {0} /\ Last(build.stack) = build.stack[Len(build.stack)] /\ Last(build.stack) \in Frame
  BY <1>1, FrontIs
<1>3. PICK n : n = Len(build.stack)
  OBVIOUS
<1>4. PICK p : p = build.stack[n]
  OBVIOUS
<1>5. n \in 1..Len(build.stack) /\ p \in Frame /\ p = Last(build.stack)
  BY <1>2, <1>3, <1>4
<1>6. /\ p.file \in build.nodesCache /\ p.next \in 1..(Len(requests[p.file]) + 1)
      /\ build.nodes[p.file] = ReadSoFar(p)
  BY <1>4, <1>5 DEF BuildKept, BuildIs, CallsOnStack
<1>7. p.file \in SourceFiles
  BY <1>5 DEF Frame
<1>8. requests[p.file] \in Seq(SourceFiles)
  BY <1>7 DEF BuildKept, ProjectTyped
<1>9. Len(requests[p.file]) \in Nat
  BY <1>8
<1>10. InCall(n, p)
  BY <1>1, <1>2, <1>3, <1>4, <1>5, <1>6, <1>7, <1>8, <1>9 DEF InCall
<1> QED
  BY <1>10

\* A call ends.
LEMMA CallEnds ==
  ASSUME BuildKept, build.at = "reading", NEW n, NEW p, InCall(n, p), p.next > Len(requests[p.file]),
         NEW r \in BuildSet, NEW t, t = Front(build.stack),
         r.stack = t, r.nodesCache = build.nodesCache, r.nodes = build.nodes,
         r.at = IF n = 1 THEN "built" ELSE build.at
  PROVE  BuildIs(r)
<1>1. /\ n \in Nat \ {0} /\ n = Len(build.stack) /\ build.stack # <<>> /\ build.stack \in Seq(Frame)
      /\ p = build.stack[n] /\ p.file \in SourceFiles /\ requests[p.file] \in Seq(SourceFiles)
      /\ Len(requests[p.file]) \in Nat /\ p.next \in 1..(Len(requests[p.file]) + 1) /\ build.nodes[p.file] = ReadSoFar(p)
  BY DEF InCall
<1>2. t \in Seq(Frame) /\ Len(t) = n - 1 /\ \A i \in 1..(n - 1) : t[i] = build.stack[i]
  <2>1. build.stack \in Seq(Frame) /\ build.stack # <<>> /\ n = Len(build.stack)
    BY <1>1
  <2> QED
    BY ONLY <2>1, FrontIs, t = Front(build.stack)
<1>3. CallsOnStack(build) /\ NodesLinked(build) /\ CacheReached(build)
  BY DEF BuildKept, BuildIs
<1>4. ReadSoFar(p) = Bundled(p.file)
  <2>1. p.next - 1 = Len(requests[p.file])
    <3>1. PICK l \in Nat : l = Len(requests[p.file])
      BY <1>1
    <3>2. p.next \in 1..(l + 1) /\ p.next > l
      BY <1>1, <3>1
    <3>3. p.next - 1 = l
      BY ONLY <3>2, l \in Nat
    <3> QED
      BY <3>1, <3>3
  <2>2. DOMAIN requests[p.file] = 1..Len(requests[p.file])
    BY <1>1
  <2> QED
    BY ONLY <2>1, <2>2 DEF ReadSoFar, Bundled, ToSet
<1>5. CallsOnStack(r)
  <2>1. Len(r.stack) = n - 1 /\ \A i \in 1..(n - 1) : r.stack[i] = build.stack[i] /\ i \in 1..Len(build.stack)
    BY <1>1, <1>2
  <2>2. r.nodesCache = build.nodesCache /\ r.nodes = build.nodes
    OBVIOUS
  <2> QED
    BY ONLY <1>3, <2>1, <2>2 DEF CallsOnStack
<1>6. NodesLinked(r)
  <2>1. ASSUME NEW f \in build.nodesCache, ~IsRead(r, f) PROVE build.nodes[f] = Bundled(f)
    <3>1. CASE f = p.file
      BY ONLY <1>1, <1>4, <3>1
    <3>2. CASE f # p.file
      <4>1. ASSUME NEW i \in 1..n, build.stack[i].file = f PROVE i \in 1..Len(t) /\ t[i].file = f
        BY ONLY <1>1, <1>2, <3>2, <4>1
      <4>2. ~IsRead(build, f)
        BY <1>1, <2>1, <4>1 DEF IsRead
      <4> QED
        BY <1>3, <4>2 DEF NodesLinked
    <3> QED
      BY <3>1, <3>2
  <2> QED
    BY <1>3, <2>1 DEF NodesLinked
<1>7. CacheReached(r)
  BY <1>3 DEF CacheReached
<1>8. BuildEnds(r)
  <2>1. n \in Nat /\ t \in Seq(Frame) /\ Len(t) = n - 1
    BY <1>1, <1>2
  <2>2. n = 1 <=> t = <<>>
    BY ONLY <2>1
  <2> QED
    BY <2>2 DEF BuildEnds
<1> QED
  BY <1>5, <1>6, <1>7, <1>8 DEF BuildIs

\* The stack of calls, when the innermost one has read its next dependency.
LEMMA ReadOn ==
  ASSUME NEW n, NEW p, InCall(n, p), p.next <= Len(requests[p.file]), NEW d, d = requests[p.file][p.next],
         NEW q, q = [p EXCEPT !.next = p.next + 1], NEW g, g = Append(Front(build.stack), q)
  PROVE  HasRead(n, p, d, q, g)
<1>1. /\ n \in Nat \ {0} /\ n = Len(build.stack) /\ build.stack # <<>> /\ build.stack \in Seq(Frame) /\ p \in Frame
      /\ requests[p.file] \in Seq(SourceFiles) /\ Len(requests[p.file]) \in Nat /\ p.next \in 1..Len(requests[p.file])
  BY DEF InCall
<1>2. q \in Frame /\ q.file = p.file /\ q.next = p.next + 1
  BY <1>1 DEF Frame
<1>3. d \in SourceFiles /\ d \in ToSet(requests[p.file])
  <2>1. DOMAIN requests[p.file] = 1..Len(requests[p.file])
    BY <1>1
  <2>2. d \in SourceFiles
    BY <1>1
  <2> QED
    BY <1>1, <2>1, <2>2 DEF ToSet
<1>4. g \in Seq(Frame) /\ Len(g) = n /\ \A i \in 1..n : g[i] = IF i = n THEN q ELSE build.stack[i]
  BY <1>1, <1>2, TopBecomes
<1>5. ReadSoFar(q) = ReadSoFar(p) \cup ({d} \ packages)
  <2>1. PICK k \in Nat \ {0} : k = p.next
    BY <1>1
  <2>2. PICK rs : rs = requests[p.file]
    OBVIOUS
  <2>3. /\ ReadSoFar(q) = {rs[i] : i \in 1..((k + 1) - 1)} \ packages
        /\ ReadSoFar(p) = {rs[i] : i \in 1..(k - 1)} \ packages
    <3>1. q.file = p.file /\ q.next = k + 1 /\ p.next = k
      BY <1>2, <2>1
    <3> QED
      BY ONLY <2>2, <3>1 DEF ReadSoFar
  <2>4. {rs[i] : i \in 1..((k + 1) - 1)} = {rs[i] : i \in 1..(k - 1)} \cup {rs[k]}
    BY ONLY <2>1
  <2>5. d = rs[k]
    BY ONLY <2>1, <2>2, d = requests[p.file][p.next]
  <2> QED
    BY ONLY <2>3, <2>4, <2>5
<1>6. g # <<>>
  BY ONLY <1>1, <1>4
<1>7. q.next \in 1..(Len(requests[p.file]) + 1)
  BY ONLY <1>1, <1>2
<1> QED
  BY ONLY <1>2, <1>3, <1>4, <1>5, <1>6, <1>7 DEF HasRead

\* A dependency that is a package or in the cache.
LEMMA CallGoesOn ==
  ASSUME BuildKept, NEW n, NEW p, InCall(n, p), NEW d, NEW q, NEW g, HasRead(n, p, d, q, g),
         d \in packages \/ d \in build.nodesCache,
         NEW r \in BuildSet, r.stack = g, r.at = build.at, r.nodesCache = build.nodesCache,
         NodeGrows(r, p.file, {d} \ packages)
  PROVE  BuildIs(r)
<1>1. /\ n \in Nat \ {0} /\ n = Len(build.stack) /\ n \in 1..n /\ p = build.stack[n]
      /\ p.file \in SourceFiles /\ p.file \in build.nodesCache /\ build.nodes[p.file] = ReadSoFar(p)
  BY DEF InCall
<1>2. /\ q.file = p.file /\ q.next \in 1..(Len(requests[p.file]) + 1)
      /\ ReadSoFar(q) = ReadSoFar(p) \cup ({d} \ packages)
      /\ Len(g) = n /\ g # <<>> /\ \A i \in 1..n : g[i] = IF i = n THEN q ELSE build.stack[i]
  BY DEF HasRead
<1>3. /\ CallsOnStack(build) /\ NodesLinked(build) /\ CacheReached(build) /\ BuildEnds(build)
      /\ build.nodesCache \subseteq SourceFiles
  BY DEF BuildKept, BuildIs, BuildSet
<1>4. \A h \in SourceFiles : r.nodes[h] = IF h = p.file THEN ReadSoFar(q) ELSE build.nodes[h]
  BY <1>1, <1>2 DEF NodeGrows
<1>5. ReadSoFar(q) \subseteq build.nodesCache
  <2>1. build.nodes[p.file] \subseteq build.nodesCache
    BY <1>1, <1>3 DEF NodesLinked
  <2> QED
    BY ONLY <1>1, <1>2, <2>1, d \in packages \/ d \in build.nodesCache
<1>6. \A i \in 1..n : g[i].file = build.stack[i].file
  BY ONLY <1>1, <1>2
<1>7. r.stack = g /\ r.nodesCache = build.nodesCache /\ r.at = build.at
  OBVIOUS
<1>8. CallsOnStack(r)
  <2>1. \A i, j \in 1..n : build.stack[i].file = build.stack[j].file => i = j
    BY ONLY <1>1, <1>3 DEF CallsOnStack
  <2>2. \A i, j \in 1..n : g[i].file = g[j].file => i = j
    BY ONLY <1>6, <2>1
  <2>3. ASSUME NEW i \in 1..n
        PROVE  /\ g[i].file \in build.nodesCache /\ g[i].next \in 1..(Len(requests[g[i].file]) + 1)
               /\ r.nodes[g[i].file] = ReadSoFar(g[i])
    <3>1. CASE i = n
      BY ONLY <1>1, <1>2, <1>4, <3>1
    <3>2. CASE i # n
      <4>1. build.stack[i].file # p.file /\ g[i] = build.stack[i]
        BY ONLY <1>1, <1>2, <2>1, <3>2, i \in 1..n
      <4>2. /\ build.stack[i].file \in build.nodesCache /\ build.stack[i].next \in 1..(Len(requests[build.stack[i].file]) + 1)
            /\ build.nodes[build.stack[i].file] = ReadSoFar(build.stack[i])
        BY ONLY <1>1, <1>3, i \in 1..n DEF CallsOnStack
      <4>3. r.nodes[build.stack[i].file] = build.nodes[build.stack[i].file]
        BY ONLY <1>3, <1>4, <4>1, <4>2
      <4> QED
        BY ONLY <4>1, <4>2, <4>3
    <3> QED
      BY <3>1, <3>2
  <2> QED
    BY ONLY <1>2, <1>7, <2>2, <2>3 DEF CallsOnStack
<1>9. NodesLinked(r)
  <2>1. \A h : IsRead(r, h) <=> IsRead(build, h)
    BY ONLY <1>1, <1>2, <1>6, <1>7 DEF IsRead
  <2>2. IsRead(build, p.file)
    BY ONLY <1>1 DEF IsRead
  <2> QED
    BY ONLY <1>1, <1>3, <1>4, <1>5, <1>7, <2>1, <2>2 DEF NodesLinked
<1>10. CacheReached(r) /\ BuildEnds(r)
  BY ONLY <1>2, <1>3, <1>7, InCall(n, p) DEF CacheReached, BuildEnds, InCall
<1> QED
  BY <1>8, <1>9, <1>10 DEF BuildIs

\* A dependency that has not been read: its own are read first.
LEMMA CallCalls ==
  ASSUME BuildKept, NEW n, NEW p, InCall(n, p), NEW d, NEW q, NEW g, HasRead(n, p, d, q, g),
         d \notin packages, d \notin build.nodesCache,
         NEW e, e = [file |-> d, next |-> 1], NEW t, t = Append(g, e),
         NEW r \in BuildSet, r.stack = t, r.at = build.at, r.nodesCache = build.nodesCache \cup {d},
         NodeGrows(r, p.file, {d})
  PROVE  BuildIs(r)
<1>1. /\ n \in Nat \ {0} /\ n = Len(build.stack) /\ n \in 1..n /\ p = build.stack[n]
      /\ p.file \in SourceFiles /\ p.file \in build.nodesCache /\ build.nodes[p.file] = ReadSoFar(p)
  BY DEF InCall
<1>2. /\ d \in SourceFiles /\ d \in ToSet(requests[p.file]) /\ q.file = p.file /\ q.next \in 1..(Len(requests[p.file]) + 1)
      /\ ReadSoFar(q) = ReadSoFar(p) \cup {d}
      /\ g \in Seq(Frame) /\ Len(g) = n /\ \A i \in 1..n : g[i] = IF i = n THEN q ELSE build.stack[i]
  BY DEF HasRead
<1>3. /\ CallsOnStack(build) /\ NodesLinked(build) /\ CacheReached(build) /\ ProjectTyped
      /\ build.nodesCache \subseteq SourceFiles
  BY DEF BuildKept, BuildIs, BuildSet
<1>4. e.file = d /\ e.next = 1 /\ e \in Frame
  BY <1>2 DEF Frame
<1>5. ReadSoFar(e) = {}
  BY ONLY <1>4 DEF ReadSoFar
<1>6. d # p.file /\ r.stack = t /\ r.nodesCache = build.nodesCache \cup {d} /\ r.at = build.at
  BY <1>1
<1>7. Len(t) = n + 1 /\ t # <<>> /\ \A i \in 1..(n + 1) : t[i] = IF i = n + 1 THEN e ELSE g[i]
  BY ONLY <1>1, <1>2, <1>4, t = Append(g, e)
<1>8. t[n + 1] = e /\ t[n] = q /\ \A i \in 1..n : i # n => t[i] = build.stack[i]
  BY ONLY <1>1, <1>2, <1>7
<1>9. \A h \in SourceFiles : r.nodes[h] = IF h = p.file THEN ReadSoFar(q) ELSE build.nodes[h]
  BY <1>1, <1>2 DEF NodeGrows
<1>10. r.nodes[d] = {}
  BY <1>2, <1>3, <1>6, <1>9 DEF NodesLinked
<1>11. ReadSoFar(q) \subseteq build.nodesCache \cup {d}
  <2>1. build.nodes[p.file] \subseteq build.nodesCache
    BY <1>1, <1>3 DEF NodesLinked
  <2> QED
    BY ONLY <1>1, <1>2, <2>1
<1>12. \A i \in 1..n : /\ t[i].file = build.stack[i].file /\ build.stack[i].file \in build.nodesCache
                       /\ \A j \in 1..n : build.stack[i].file = build.stack[j].file => i = j
  <2>1. \A i \in 1..n : t[i].file = build.stack[i].file
    BY ONLY <1>1, <1>2, <1>8
  <2> QED
    BY ONLY <1>1, <1>3, <2>1 DEF CallsOnStack
<1>13. \A i \in 1..(n + 1) : i \in 1..n \/ i = n + 1
  BY ONLY <1>1
<1>14. CallsOnStack(r)
  <2>1. ASSUME NEW i \in 1..(n + 1), NEW j \in 1..(n + 1), t[i].file = t[j].file PROVE i = j
    BY ONLY <1>4, <1>8, <1>12, <1>13, <2>1, d \notin build.nodesCache
  <2>2. ASSUME NEW i \in 1..(n + 1)
        PROVE  /\ t[i].file \in build.nodesCache \cup {d} /\ t[i].next \in 1..(Len(requests[t[i].file]) + 1)
               /\ r.nodes[t[i].file] = ReadSoFar(t[i])
    <3>1. CASE i = n
      BY ONLY <1>1, <1>2, <1>8, <1>9, <3>1
    <3>2. CASE i = n + 1
      <4>1. Len(requests[d]) \in Nat
        BY <1>2, <1>3 DEF ProjectTyped
      <4>2. 1 \in 1..(Len(requests[d]) + 1)
        BY ONLY <4>1
      <4> QED
        BY ONLY <1>4, <1>5, <1>8, <1>10, <3>2, <4>2
    <3>3. CASE i \in 1..n /\ i # n
      <4>1. build.stack[i].file # p.file /\ t[i] = build.stack[i]
        BY ONLY <1>1, <1>8, <1>12, <3>3
      <4>2. /\ build.stack[i].file \in build.nodesCache /\ build.stack[i].next \in 1..(Len(requests[build.stack[i].file]) + 1)
            /\ build.nodes[build.stack[i].file] = ReadSoFar(build.stack[i])
        BY ONLY <1>1, <1>3, <3>3 DEF CallsOnStack
      <4>3. r.nodes[build.stack[i].file] = build.nodes[build.stack[i].file]
        BY ONLY <1>3, <1>9, <4>1, <4>2
      <4> QED
        BY ONLY <4>1, <4>2, <4>3
    <3> QED
      BY <1>13, <3>1, <3>2, <3>3
  <2> QED
    BY ONLY <1>6, <1>7, <2>1, <2>2 DEF CallsOnStack
<1>15. NodesLinked(r)
  <2>1. \A h : IsRead(r, h) <=> (IsRead(build, h) \/ h = d)
    <3>1. ASSUME NEW h, NEW i \in 1..(n + 1), t[i].file = h PROVE IsRead(build, h) \/ h = d
      BY ONLY <1>1, <1>4, <1>8, <1>12, <1>13, <3>1 DEF IsRead
    <3>2. ASSUME NEW h, NEW i \in 1..n, build.stack[i].file = h PROVE i \in 1..(n + 1) /\ t[i].file = h
      BY ONLY <1>1, <1>12, <3>2
    <3>3. n + 1 \in 1..(n + 1)
      BY ONLY <1>1
    <3>4. ASSUME NEW h PROVE IsRead(r, h) <=> \E i \in 1..(n + 1) : t[i].file = h
      BY ONLY <1>6, <1>7 DEF IsRead
    <3>5. ASSUME NEW h PROVE IsRead(build, h) <=> \E i \in 1..n : build.stack[i].file = h
      BY ONLY <1>1 DEF IsRead
    <3>6. t[n + 1].file = d
      BY ONLY <1>4, <1>8
    <3> QED
      BY ONLY <3>1, <3>2, <3>3, <3>4, <3>5, <3>6
  <2>2. IsRead(build, p.file)
    BY ONLY <1>1 DEF IsRead
  <2>3. ASSUME NEW h \in build.nodesCache, ~IsRead(build, h) PROVE r.nodes[h] = Bundled(h)
    BY ONLY <1>3, <1>9, <2>2, <2>3 DEF NodesLinked
  <2>4. ASSUME NEW h \in SourceFiles PROVE r.nodes[h] \subseteq build.nodesCache \cup {d}
    BY ONLY <1>3, <1>9, <1>11, h \in SourceFiles DEF NodesLinked
  <2>5. ASSUME NEW h \in SourceFiles, h \notin build.nodesCache PROVE r.nodes[h] = {} \/ h = p.file
    BY ONLY <1>3, <1>9, <2>5 DEF NodesLinked
  <2> QED
    BY ONLY <1>1, <1>6, <2>1, <2>3, <2>4, <2>5 DEF NodesLinked
<1>16. CacheReached(r)
  <2>1. ASSUME NEW S \in SUBSET SourceFiles, Entry \in S, Closed(S) PROVE build.nodesCache \cup {d} \subseteq S
    <3>1. build.nodesCache \subseteq S
      BY <1>3, <2>1 DEF CacheReached
    <3>2. p.file \in S /\ d \in ToSet(requests[p.file]) \ packages
      BY <1>1, <1>2, <3>1
    <3> QED
      BY <2>1, <3>1, <3>2 DEF Closed
  <2> QED
    BY <1>3, <1>6, <2>1 DEF CacheReached
<1>17. BuildEnds(r)
  BY ONLY <1>6, <1>7, InCall(n, p) DEF BuildEnds, InCall
<1> QED
  BY <1>14, <1>15, <1>16, <1>17 DEF BuildIs

\* What the builder has is kept by a step that puts r in its place.
LEMMA BuildBecomes ==
  ASSUME BuildKept, UNCHANGED <<requests, packages>>, NEW r, build' = r, BuildIs(r)
  PROVE  BuildKept'
<1>1. (build \in BuildSet)' /\ ProjectTyped'
  BY DEF BuildKept, BuildIs, BuildSet, ProjectTyped
<1>2. CallsOnStack(build)'
  <2>1. CallsOnStack(r)
    BY DEF BuildIs
  <2>2. ASSUME NEW i \in 1..Len(r.stack) PROVE (ReadSoFar(build.stack[i]))' = ReadSoFar(r.stack[i])
    BY DEF ReadSoFar
  <2> QED
    BY <2>1, <2>2 DEF CallsOnStack
<1>3. NodesLinked(build)'
  BY DEF BuildIs, NodesLinked, IsRead, Bundled
<1>4. (CacheReached(build) /\ BuildEnds(build))'
  BY DEF BuildIs, CacheReached, Closed, BuildEnds
<1> QED
  BY <1>1, <1>2, <1>3, <1>4 DEF BuildKept, BuildIs

LEMMA BuildNodesKeeps ==
  ASSUME BuildKept, BuildNodes
  PROVE  BuildKept'
<1>1. /\ build.at = "reading" /\ UNCHANGED <<requests, packages>>
      /\ build \in BuildSet /\ BuildIs(build)
  BY DEF BuildNodes, BuildKept, BuildIs
<1>2. PICK n, p : InCall(n, p)
  BY <1>1, TopOfBuild
<1>3. PICK q : q = [p EXCEPT !.next = p.next + 1]
  OBVIOUS
<1>4. PICK g : g = Append(Front(build.stack), q)
  OBVIOUS
<1>5. PICK d : d = requests[p.file][p.next]
  OBVIOUS
<1>6. p.next <= Len(requests[p.file]) => HasRead(n, p, d, q, g)
  BY <1>2, <1>3, <1>4, <1>5, ReadOn
<1>7. PICK k : k = [build.nodes EXCEPT ![p.file] = build.nodes[p.file] \cup {d}]
  OBVIOUS
<1>8. PICK e : e = [file |-> d, next |-> 1]
  OBVIOUS
<1>9. p = Last(build.stack) /\ n = Len(build.stack) /\ p.file \in SourceFiles /\ build.stack # <<>> /\ build.stack \in Seq(Frame)
  BY <1>2 DEF InCall
<1>10. /\ build.nodes \in [SourceFiles -> SUBSET SourceFiles] /\ build.nodesCache \in SUBSET SourceFiles
       /\ build.at \in {"reading", "built", "rejected"}
  BY <1>1 DEF BuildSet
<1>11. PICK c : c = build.nodesCache \cup {d}
  OBVIOUS
<1>12. PICK t : t = Append(g, e)
  OBVIOUS
<1>13. PICK u : u = Front(build.stack)
  OBVIOUS
<1>14. PICK a \in {"reading", "built", "rejected"} : a = IF n = 1 THEN "built" ELSE build.at
  BY <1>10
<1>15. \/ /\ p.next > Len(requests[p.file])
          /\ build' = [build EXCEPT !.stack = u, !.at = a]
       \/ /\ p.next <= Len(requests[p.file])
          /\ \/ d \in packages /\ build' = [build EXCEPT !.stack = g]
             \/ d \in build.nodesCache /\ build' = [build EXCEPT !.stack = g, !.nodes = k]
             \/ /\ d \notin packages /\ d \notin build.nodesCache
                /\ build' = [build EXCEPT !.stack = t, !.nodes = k, !.nodesCache = c]
             \/ build' = [build EXCEPT !.at = "rejected"]
  <2> DEFINE top == Last(build.stack)
             f == top.file
             h == requests[f][top.next]
             goesOn == Append(Front(build.stack), [top EXCEPT !.next = top.next + 1])
             nodes == [build.nodes EXCEPT ![f] = build.nodes[f] \cup {h}]
  <2>1. \/ /\ top.next > Len(requests[f])
           /\ build' = [build EXCEPT !.stack = Front(build.stack), !.at = IF Len(build.stack) = 1 THEN "built" ELSE build.at]
        \/ /\ top.next <= Len(requests[f])
           /\ \/ h \in packages /\ build' = [build EXCEPT !.stack = goesOn]
              \/ h \in build.nodesCache /\ build' = [build EXCEPT !.stack = goesOn, !.nodes = nodes]
              \/ /\ h \notin packages \cup build.nodesCache
                 /\ build' = [build EXCEPT !.stack = Append(goesOn, [file |-> h, next |-> 1]), !.nodes = nodes,
                                           !.nodesCache = build.nodesCache \cup {h}]
              \/ build' = [build EXCEPT !.at = "rejected"]
    BY DEF BuildNodes, Linked
  <2>2. f = p.file /\ h = d /\ goesOn = g /\ top.next = p.next
    BY <1>3, <1>4, <1>5, <1>9
  <2>3. nodes = k
    BY ONLY <1>7, <2>2
  <2> HIDE DEF top, f, h, goesOn, nodes
  <2> QED
    BY ONLY <1>8, <1>9, <1>11, <1>12, <1>13, <1>14, <2>1, <2>2, <2>3
<1>16. d \in SourceFiles => /\ k \in [SourceFiles -> SUBSET SourceFiles]
                            /\ \A h \in SourceFiles : k[h] = IF h = p.file THEN build.nodes[h] \cup {d} ELSE build.nodes[h]
  BY ONLY <1>7, <1>9, <1>10
<1>17. PICK r : build' = r
  OBVIOUS
<1>18. CASE p.next > Len(requests[p.file]) /\ build' = [build EXCEPT !.stack = u, !.at = a]
  <2>1. u \in Seq(Frame)
    BY ONLY <1>9, <1>13, FrontIs
  <2>2. BuildHas(r, a, u, build.nodesCache, build.nodes)
    BY ONLY <1>1, <1>10, <1>17, <1>18, <2>1 DEF BuildHas, BuildSet
  <2>3. r \in BuildSet /\ r.at = a /\ r.stack = u /\ r.nodesCache = build.nodesCache /\ r.nodes = build.nodes
    BY ONLY <2>2 DEF BuildHas
  <2>4. BuildIs(r)
    BY ONLY BuildKept, <1>1, <1>2, <1>13, <1>14, <1>18, <2>3, CallEnds
  <2> QED
    BY ONLY BuildKept, <1>1, <1>17, <2>4, BuildBecomes
<1>19. CASE p.next <= Len(requests[p.file]) /\ d \in packages /\ build' = [build EXCEPT !.stack = g]
  <2>1. HasRead(n, p, d, q, g) /\ g \in Seq(Frame)
    BY ONLY <1>6, <1>19 DEF HasRead
  <2>2. BuildHas(r, build.at, g, build.nodesCache, build.nodes)
    BY ONLY <1>1, <1>10, <1>17, <1>19, <2>1 DEF BuildHas, BuildSet
  <2>3. r \in BuildSet /\ r.at = build.at /\ r.stack = g /\ r.nodesCache = build.nodesCache /\ r.nodes = build.nodes
    BY ONLY <2>2 DEF BuildHas
  <2>4. d \in packages
    BY <1>19
  <2>5. NodeGrows(r, p.file, {d} \ packages)
    BY ONLY <2>3, <2>4 DEF NodeGrows
  <2>6. BuildIs(r)
    BY ONLY BuildKept, <1>2, <2>1, <2>3, <2>4, <2>5, CallGoesOn
  <2> QED
    BY ONLY BuildKept, <1>1, <1>17, <2>6, BuildBecomes
<1>20. CASE p.next <= Len(requests[p.file]) /\ d \in build.nodesCache /\ build' = [build EXCEPT !.stack = g, !.nodes = k]
  <2>1. HasRead(n, p, d, q, g) /\ g \in Seq(Frame) /\ d \in SourceFiles /\ k \in [SourceFiles -> SUBSET SourceFiles]
    BY ONLY <1>6, <1>16, <1>20 DEF HasRead
  <2>2. BuildHas(r, build.at, g, build.nodesCache, k)
    BY ONLY <1>1, <1>10, <1>17, <1>20, <2>1 DEF BuildHas, BuildSet
  <2>3. r \in BuildSet /\ r.at = build.at /\ r.stack = g /\ r.nodesCache = build.nodesCache /\ r.nodes = k
    BY ONLY <2>2 DEF BuildHas
  <2>4. d \in build.nodesCache /\ d \notin packages
    BY <1>1, <1>20 DEF BuildIs, CacheReached
  <2>5. NodeGrows(r, p.file, {d} \ packages)
    BY ONLY <1>16, <2>1, <2>3, <2>4 DEF NodeGrows
  <2>6. BuildIs(r)
    BY ONLY BuildKept, <1>2, <2>1, <2>3, <2>4, <2>5, CallGoesOn
  <2> QED
    BY ONLY BuildKept, <1>1, <1>17, <2>6, BuildBecomes
<1>21. CASE /\ p.next <= Len(requests[p.file]) /\ d \notin packages /\ d \notin build.nodesCache
            /\ build' = [build EXCEPT !.stack = t, !.nodes = k, !.nodesCache = c]
  <2>1. HasRead(n, p, d, q, g) /\ g \in Seq(Frame) /\ d \in SourceFiles /\ k \in [SourceFiles -> SUBSET SourceFiles]
    BY ONLY <1>6, <1>16, <1>21 DEF HasRead
  <2>2. t \in Seq(Frame) /\ c \in SUBSET SourceFiles
    <3>1. e \in Frame
      BY ONLY <1>8, <2>1 DEF Frame
    <3> QED
      BY ONLY <1>10, <1>11, <1>12, <2>1, <3>1
  <2>3. BuildHas(r, build.at, t, c, k)
    <3>1. build \in BuildSet /\ k \in [SourceFiles -> SUBSET SourceFiles] /\ r = [build EXCEPT !.stack = t, !.nodes = k, !.nodesCache = c]
      BY <1>1, <1>17, <1>21, <2>1
    <3>2. r \in BuildSet
      BY ONLY <2>2, <3>1 DEF BuildSet
    <3>3. r.at = build.at /\ r.stack = t /\ r.nodesCache = c /\ r.nodes = k
      BY ONLY <3>1 DEF BuildSet
    <3> QED
      BY ONLY <3>2, <3>3 DEF BuildHas
  <2>4. r \in BuildSet /\ r.at = build.at /\ r.stack = t /\ r.nodesCache = build.nodesCache \cup {d} /\ r.nodes = k
    BY ONLY <1>11, <2>3 DEF BuildHas
  <2>5. NodeGrows(r, p.file, {d})
    BY ONLY <1>16, <2>1, <2>4 DEF NodeGrows
  <2>6. d \notin packages /\ d \notin build.nodesCache
    BY <1>21
  <2>7. BuildIs(r)
    BY ONLY BuildKept, <1>2, <1>8, <1>12, <2>1, <2>4, <2>5, <2>6, CallCalls
  <2> QED
    BY ONLY BuildKept, <1>1, <1>17, <2>7, BuildBecomes
<1>22. CASE build' = [build EXCEPT !.at = "rejected"]
  <2>1. BuildHas(r, "rejected", build.stack, build.nodesCache, build.nodes)
    BY ONLY <1>1, <1>9, <1>10, <1>17, <1>22 DEF BuildHas, BuildSet
  <2>2. /\ r \in BuildSet /\ r.stack = build.stack /\ r.nodesCache = build.nodesCache /\ r.nodes = build.nodes
        /\ r.at = "rejected"
    BY ONLY <2>1 DEF BuildHas
  <2>3. CallsOnStack(r) /\ NodesLinked(r) /\ CacheReached(r) /\ BuildEnds(r)
    BY ONLY <1>1, <2>2 DEF BuildIs, CallsOnStack, NodesLinked, IsRead, CacheReached, BuildEnds
  <2>4. BuildIs(r)
    BY ONLY <2>2, <2>3 DEF BuildIs
  <2> QED
    BY ONLY BuildKept, <1>1, <1>17, <2>4, BuildBecomes
<1> QED
  BY ONLY <1>15, <1>18, <1>19, <1>20, <1>21, <1>22

\* When every call has ended, the dictionary is that of the files the test reaches.
LEMMA DictionaryIs == BuildKept => DictionaryComplete
<1> SUFFICES ASSUME BuildKept, build.at = "built"
             PROVE  Dictionary = [f \in Reachable |-> ToSet(requests[f]) \ packages]
  BY DEF DictionaryComplete
<1>1. /\ build.stack = <<>> /\ build.nodesCache \subseteq SourceFiles /\ Entry \in build.nodesCache
      /\ NodesLinked(build) /\ CacheReached(build)
  BY DEF BuildKept, BuildIs, BuildSet, BuildEnds, CacheReached
<1>2. \A f \in build.nodesCache : build.nodes[f] = ToSet(requests[f]) \ packages
  BY <1>1 DEF NodesLinked, IsRead, Bundled
<1>3. Closed(build.nodesCache)
  BY <1>1, <1>2 DEF NodesLinked, Closed
<1>4. build.nodesCache = Reachable
  BY <1>1, <1>3 DEF CacheReached, Reachable
<1> QED
  BY <1>2, <1>4 DEF Dictionary

-----------------------------------------------------------------------------
(* sandbox.ts                                                              *)

\* Only the builder changes what it has found.
LEMMA BuildStays == BuildKept /\ UNCHANGED Built => BuildKept'
<1> SUFFICES ASSUME BuildKept, UNCHANGED Built PROVE BuildKept'
  OBVIOUS
<1>1. UNCHANGED <<requests, packages, build>>
  BY DEF Built
<1>2. ProjectTyped' /\ (build \in BuildSet)'
  BY <1>1 DEF BuildKept, BuildIs, ProjectTyped, BuildSet
<1>3. CallsOnStack(build)'
  <2>1. CallsOnStack(build)
    BY DEF BuildKept, BuildIs
  <2>2. ASSUME NEW i \in 1..Len(build.stack) PROVE (ReadSoFar(build.stack[i]))' = ReadSoFar(build.stack[i])
    BY <1>1 DEF ReadSoFar
  <2> QED
    BY <1>1, <2>1, <2>2 DEF CallsOnStack
<1>4. NodesLinked(build)'
  BY <1>1 DEF BuildKept, BuildIs, NodesLinked, IsRead, Bundled
<1>5. (CacheReached(build) /\ BuildEnds(build))'
  BY <1>1 DEF BuildKept, BuildIs, CacheReached, Closed, BuildEnds
<1> QED
  BY <1>2, <1>3, <1>4, <1>5 DEF BuildKept, BuildIs

\* What a file in the cache requires is in the cache.
LEMMA DictionaryTyped ==
  ASSUME BuildKept, NEW f \in build.nodesCache, NEW d \in Dictionary[f]
  PROVE  d \in build.nodesCache /\ d \in SourceFiles
BY DEF BuildKept, BuildIs, BuildSet, NodesLinked, Dictionary

\* A new sandbox.
LEMMA Constructed ==
  ASSUME SandboxKept, NEW d \in build.nodesCache, NEW r \in Runs, Constructs(d, r)
  PROVE  /\ instances' \in Seq(Instance) /\ Len(instances') = Len(instances) + 1 /\ Len(instances) \in Nat
         /\ \A k \in 1..Len(instances) : instances'[k] = instances[k]
         /\ instances'[Len(instances) + 1].path = d /\ instances'[Len(instances) + 1].of = r
         /\ modulesCache' \in [SourceFiles -> Nat]
         /\ \A f \in SourceFiles : modulesCache'[f] = IF f = d THEN Len(instances) + 1 ELSE modulesCache[f]
<1> DEFINE s == [path |-> d, of |-> r, isCompiling |-> TRUE, isCompiled |-> FALSE, failed |-> FALSE,
                 broken |-> FALSE]
<1>1. d \in SourceFiles /\ instances \in Seq(Instance) /\ modulesCache \in [SourceFiles -> Nat] /\ Len(instances) \in Nat
  BY DEF SandboxKept, BuildKept, BuildIs, BuildSet, SandboxTyped
<1>2. s \in Instance /\ s.path = d /\ s.of = r
  BY <1>1 DEF Instance
<1>3. instances' = Append(instances, s) /\ modulesCache' = [modulesCache EXCEPT ![d] = Len(instances) + 1]
  BY DEF Constructs
<1> HIDE DEF s
<1>4. /\ instances' \in Seq(Instance) /\ Len(instances') = Len(instances) + 1
      /\ \A k \in 1..Len(instances) : instances'[k] = instances[k]
      /\ instances'[Len(instances) + 1] = s
  BY <1>1, <1>2, <1>3
<1> QED
  BY <1>1, <1>2, <1>3, <1>4

\* A call of require() by code of the run r, whose script, if any, goes on with rest.
LEMMA RequiresKeeps ==
  ASSUME SandboxKept, UNCHANGED <<Built, run>>, build.at = "built",
         NEW d \in build.nodesCache, NEW r \in Runs, NEW rest \in Seq(ScriptFrame),
         Requires(d, r, rest), \A i \in 1..Len(rest) : rest[i].sandbox \in 1..Len(instances),
         \A k \in 1..Len(instances) : ~instances[k].isCompiled =>
           \/ \E i \in 1..Len(rest) : rest[i].sandbox = k
           \/ instances[k].path = Entry \/ instances[k].broken,
         ~late.after' => /\ ~late.after /\ run.going /\ r = run.number
                         /\ \A i \in 1..Len(rest) : instances[rest[i].sandbox].of = run.number
  PROVE  SandboxKept'
<1>1. /\ d \in SourceFiles /\ instances \in Seq(Instance) /\ modulesCache \in [SourceFiles -> Nat]
      /\ Len(instances) \in Nat /\ uses \in [Runs -> SUBSET Nat] /\ run' = run /\ build' = build
      /\ run \in [number : Nat, going : BOOLEAN] /\ run.number <= NumRuns
      /\ InRange /\ CachedByPath /\ OfTheRun /\ OneSandbox
  BY DEF SandboxKept, BuildKept, BuildIs, BuildSet, SandboxTyped, Built
<1>2. BuildKept'
  BY BuildStays DEF SandboxKept
<1>3. CASE Found(d) # 0
  <2> DEFINE j == modulesCache[d]
  <2>1. /\ uses' = [uses EXCEPT ![r] = uses[r] \cup {j}] /\ frames' = rest /\ instances' = instances
        /\ modulesCache' = modulesCache /\ j # 0
    BY <1>3 DEF Requires, Found
  <2>2. j \in 1..Len(instances) /\ instances[j].path = d
    BY <1>1, <2>1 DEF InRange, CachedByPath
  <2> HIDE DEF j
  <2>3. \A q \in Runs : uses'[q] = IF q = r THEN uses[r] \cup {j} ELSE uses[q]
    BY <1>1, <2>1
  <2>4. SandboxTyped'
    <3>1. uses' \in [Runs -> SUBSET Nat]
      BY <1>1, <2>1, <2>2
    <3> QED
      BY <1>1, <2>1, <3>1 DEF SandboxTyped
  <2>5. InRange'
    BY <1>1, <2>1, <2>2, <2>3 DEF InRange
  <2>6. CachedByPath'
    BY <1>1, <2>1 DEF CachedByPath
  <2>7. PartialInCycle'
    BY <2>1 DEF PartialInCycle
  <2>8. ASSUME ~late.after' PROVE /\ ~late.after /\ run.going /\ r = run.number /\ instances[j].of = r
                                  /\ \A k \in uses[r] : modulesCache[instances[k].path] = k
    <3>1. ~late.after /\ run.going /\ r = run.number
      BY <2>8
    <3> QED
      BY <1>1, <2>1, <3>1 DEF OfTheRun, j
  <2>9. OfTheRun'
    <3> SUFFICES ASSUME ~late.after' PROVE OfTheRun'
      BY DEF OfTheRun
    <3>1. \A i \in 1..Len(rest) : instances[rest[i].sandbox].of = run.number
      OBVIOUS
    <3>2. ASSUME NEW q \in Runs, q > run.number PROVE uses'[q] = {}
      <4>1. ~late.after /\ r = run.number
        BY <2>8
      <4>2. q # r
        BY <1>1, <3>2, <4>1 DEF Runs
      <4>3. uses[q] = {}
        BY <1>1, <3>2, <4>1 DEF OfTheRun
      <4> QED
        BY <2>3, <4>2, <4>3
    <3>3. \A k \in uses'[run.number] : modulesCache[instances[k].path] = k
      BY <2>2, <2>3, <2>8 DEF j
    <3> QED
      BY <1>1, <2>1, <2>8, <3>1, <3>2, <3>3 DEF OfTheRun
  <2>10. OneSandbox'
    <3> SUFFICES ASSUME ~late.after', NEW q \in Runs, NEW i \in uses'[q], NEW k \in uses'[q]
                 PROVE  instances[i].of = q /\ (instances[i].path = instances[k].path => i = k)
      BY <2>1 DEF OneSandbox
    <3>1. CASE q = r
      <4>1. ~late.after /\ instances[j].of = r /\ uses'[q] = uses[r] \cup {j} /\ r \in Runs
            /\ \A h \in uses[r] : modulesCache[instances[h].path] = h
        BY <1>1, <2>3, <2>8, <3>1
      <4>2. modulesCache[instances[j].path] = j
        BY <2>2 DEF j
      <4>3. \A h \in uses[r] : instances[h].of = r
        BY <1>1, <4>1 DEF OneSandbox
      <4> QED
        BY ONLY <3>1, <4>1, <4>2, <4>3, i \in uses'[q], k \in uses'[q]
    <3>2. CASE q # r
      BY <1>1, <2>3, <2>8, <3>2 DEF OneSandbox
    <3> QED
      BY <3>1, <3>2
  <2> QED
    BY <1>2, <2>4, <2>5, <2>6, <2>7, <2>9, <2>10 DEF SandboxKept
<1>4. CASE Found(d) = 0
  <2> DEFINE n == Len(instances) + 1
             e == [sandbox |-> n, next |-> 1]
  <2>1. /\ Constructs(d, r) /\ frames' = Append(rest, e) /\ uses' = [uses EXCEPT ![r] = uses[r] \cup {n}]
        /\ modulesCache[d] = 0
    BY <1>4 DEF Requires, Found
  <2>2. /\ instances' \in Seq(Instance) /\ Len(instances') = n
        /\ \A k \in 1..Len(instances) : instances'[k] = instances[k]
        /\ instances'[n].path = d /\ instances'[n].of = r
        /\ modulesCache' \in [SourceFiles -> Nat]
        /\ \A f \in SourceFiles : modulesCache'[f] = IF f = d THEN n ELSE modulesCache[f]
    BY <2>1, Constructed
  <2>3. n \in Nat /\ n = Len(instances) + 1 /\ e.sandbox = n /\ e \in ScriptFrame
    BY <1>1 DEF ScriptFrame
  <2> HIDE DEF n, e
  <2>4. \A q \in Runs : uses'[q] = IF q = r THEN uses[r] \cup {n} ELSE uses[q]
    BY <1>1, <2>1
  <2>5. /\ frames' \in Seq(ScriptFrame) /\ Len(frames') = Len(rest) + 1 /\ Len(rest) \in Nat
        /\ \A i \in 1..(Len(rest) + 1) : frames'[i] = IF i = Len(rest) + 1 THEN e ELSE rest[i]
    BY <2>1, <2>3
  <2>6. SandboxTyped'
    <3>1. uses' \in [Runs -> SUBSET Nat]
      BY <1>1, <2>1, <2>3
    <3> QED
      BY <1>1, <2>2, <2>5, <3>1 DEF SandboxTyped
  <2>7. \A i \in 1..Len(frames') : frames'[i].sandbox = n \/ (i \in 1..Len(rest) /\ frames'[i] = rest[i])
    BY <2>3, <2>5
  <2>8. InRange'
    <3>1. \A f \in SourceFiles : modulesCache'[f] <= n
      BY <1>1, <2>2, <2>3 DEF InRange
    <3>2. \A i \in 1..Len(frames') : frames'[i].sandbox \in 1..n
      BY <1>1, <2>3, <2>7
    <3>3. \A q \in Runs : uses'[q] \subseteq 1..n
      BY <1>1, <2>3, <2>4 DEF InRange
    <3> QED
      BY <2>2, <3>1, <3>2, <3>3 DEF InRange
  <2>9. CachedByPath'
    <3>1. \A f \in SourceFiles : modulesCache[f] # 0 => modulesCache[f] \in 1..Len(instances)
      BY <1>1 DEF InRange
    <3>2. ASSUME NEW f \in SourceFiles, modulesCache'[f] # 0 PROVE instances'[modulesCache'[f]].path = f
      <4>1. CASE f = d
        BY ONLY <2>2, <4>1, f \in SourceFiles
      <4>2. CASE f # d
        <5>1. modulesCache'[f] = modulesCache[f] /\ modulesCache[f] # 0
          BY ONLY <2>2, <3>2, <4>2
        <5>2. instances[modulesCache[f]].path = f
          BY <1>1, <5>1 DEF CachedByPath
        <5> QED
          BY ONLY <2>2, <3>1, <5>1, <5>2, f \in SourceFiles
      <4> QED
        BY <4>1, <4>2
    <3>3. ASSUME NEW k \in 1..n PROVE instances'[k].path \in build.nodesCache
      <4>1. k = n \/ k \in 1..Len(instances)
        BY <1>1, <2>3
      <4>2. \A h \in 1..Len(instances) : instances[h].path \in build.nodesCache
        BY <1>1 DEF CachedByPath
      <4> QED
        BY ONLY <2>2, <4>1, <4>2, d \in build.nodesCache
    <3> QED
      BY <1>1, <2>2, <3>2, <3>3 DEF CachedByPath
  <2>10. PartialInCycle'
    <3> SUFFICES ASSUME NEW k \in 1..n, ~instances'[k].isCompiled
                 PROVE  \/ \E i \in 1..Len(frames') : frames'[i].sandbox = k
                        \/ instances'[k].path = Entry \/ instances'[k].broken
      BY <2>2 DEF PartialInCycle
    <3>1. CASE k = n
      <4>1. Len(rest) + 1 \in 1..Len(frames') /\ frames'[Len(rest) + 1].sandbox = n
        BY <2>3, <2>5
      <4> QED
        BY <3>1, <4>1
    <3>2. CASE k # n
      <4>1. k \in 1..Len(instances) /\ instances'[k] = instances[k]
        BY <1>1, <2>2, <2>3, <3>2
      <4>2. ASSUME NEW i \in 1..Len(rest) PROVE i \in 1..Len(frames') /\ frames'[i] = rest[i]
        BY <2>5
      <4> QED
        BY <3>2, <4>1, <4>2
    <3> QED
      BY <3>1, <3>2
  <2>11. ASSUME ~late.after' PROVE /\ ~late.after /\ run.going /\ r = run.number
                                   /\ \A k \in uses[r] : modulesCache[instances[k].path] = k
                                   /\ \A i \in 1..Len(rest) : instances[rest[i].sandbox].of = run.number
    BY <1>1, <2>11 DEF OfTheRun
  <2>12. \A q \in Runs : \A k \in uses[q] : k \in 1..Len(instances) /\ k # n /\ instances'[k] = instances[k]
    BY <1>1, <2>2, <2>3 DEF InRange
  \* No sandbox of this run has the path yet.
  <2>13. ASSUME ~late.after', NEW k \in uses[r] PROVE instances[k].path # d /\ instances[k].path \in SourceFiles
    <3>1. k \in 1..Len(instances) /\ k # 0
      BY <1>1, <2>12
    <3>2. modulesCache[instances[k].path] = k /\ modulesCache[d] = 0
      BY <2>1, <2>11, <2>13
    <3>3. instances[k] \in Instance
      BY <1>1, <3>1
    <3> QED
      BY <3>1, <3>2, <3>3 DEF Instance
  <2>14. OfTheRun'
    <3> SUFFICES ASSUME ~late.after' PROVE OfTheRun'
      BY DEF OfTheRun
    <3>1. \A i \in 1..Len(frames') : instances'[frames'[i].sandbox].of = run.number
      BY <2>2, <2>7, <2>11
    <3>2. \A q \in Runs : q > run.number => uses'[q] = {}
      BY <1>1, <2>4, <2>11 DEF OfTheRun
    <3>3. ASSUME NEW k \in uses'[run.number] PROVE modulesCache'[instances'[k].path] = k
      <4>1. CASE k = n
        BY <1>1, <2>2, <4>1
      <4>2. CASE k # n
        <5>1. k \in uses[r]
          BY <2>4, <2>11, <4>2
        <5>2. modulesCache[instances[k].path] = k /\ instances'[k] = instances[k]
          BY <2>11, <2>12, <5>1
        <5>3. instances[k].path # d /\ instances[k].path \in SourceFiles
          BY <2>13, <5>1
        <5> QED
          BY <2>2, <5>2, <5>3
      <4> QED
        BY <4>1, <4>2
    <3>4. ASSUME NEW f \in SourceFiles, modulesCache'[f] # 0 PROVE instances'[modulesCache'[f]].of = run.number
      <4>1. CASE f = d
        BY <2>2, <2>11, <4>1
      <4>2. CASE f # d
        <5>1. modulesCache[f] # 0 /\ modulesCache'[f] = modulesCache[f] /\ modulesCache[f] \in 1..Len(instances)
          BY <1>1, <2>2, <3>4, <4>2 DEF InRange
        <5> QED
          BY <1>1, <2>2, <2>11, <5>1 DEF OfTheRun
      <4> QED
        BY <4>1, <4>2
    <3> QED
      BY <1>1, <2>11, <3>1, <3>2, <3>3, <3>4 DEF OfTheRun
  <2>15. OneSandbox'
    <3> SUFFICES ASSUME ~late.after', NEW q \in Runs, NEW i \in uses'[q], NEW k \in uses'[q]
                 PROVE  instances'[i].of = q /\ (instances'[i].path = instances'[k].path => i = k)
      BY DEF OneSandbox
    <3>1. CASE q = r
      <4>1. i = n \/ i \in uses[r]
        BY <2>4, <3>1
      <4>2. k = n \/ k \in uses[r]
        BY <2>4, <3>1
      <4>3. ASSUME NEW j \in uses[r] PROVE instances'[j] = instances[j] /\ instances[j].of = r /\ instances[j].path # d
        BY <1>1, <2>11, <2>12, <2>13, <4>3 DEF OneSandbox
      <4>4. instances'[i].of = q
        BY <2>2, <3>1, <4>1, <4>3
      <4>5. i \in uses[r] /\ k \in uses[r] => (instances[i].path = instances[k].path => i = k)
        BY <1>1, <2>11 DEF OneSandbox
      <4>6. instances'[n].path = d
        BY <2>2
      <4> QED
        BY <4>1, <4>2, <4>3, <4>4, <4>5, <4>6
    <3>2. CASE q # r
      <4>1. i \in uses[q] /\ k \in uses[q]
        BY <2>4, <3>2
      <4> QED
        BY <1>1, <2>11, <2>12, <4>1 DEF OneSandbox
    <3> QED
      BY <3>1, <3>2
  <2> QED
    BY <1>2, <2>6, <2>8, <2>9, <2>10, <2>14, <2>15 DEF SandboxKept
<1> QED
  BY <1>3, <1>4

\* The builder goes on when no sandbox has been made.
LEMMA BuildStepKeeps == SandboxKept /\ BuildNodes => SandboxKept'
<1> SUFFICES ASSUME SandboxKept, BuildNodes PROVE SandboxKept'
  OBVIOUS
<1>1. build.at = "reading" /\ UNCHANGED <<instances, modulesCache, frames, uses, run, late>>
  BY DEF BuildNodes
<1>2. BuildKept'
  BY BuildNodesKeeps DEF SandboxKept
<1>3. SandboxTyped' /\ InRange' /\ OfTheRun' /\ OneSandbox' /\ PartialInCycle'
  BY <1>1 DEF SandboxKept, SandboxTyped, InRange, OfTheRun, OneSandbox, PartialInCycle
<1>4. CachedByPath'
  <2>1. instances = <<>>
    BY <1>1 DEF SandboxKept, CachedByPath
  <2>2. Len(instances) = 0
    BY <2>1
  <2> QED
    BY <1>1, <2>1, <2>2 DEF SandboxKept, CachedByPath
<1> QED
  BY <1>2, <1>3, <1>4 DEF SandboxKept

\* The innermost script.
LEMMA TopOfFrames ==
  ASSUME SandboxKept, frames # <<>>
  PROVE  LET n == Len(frames)
             top == Last(frames)
             rest == Append(Front(frames), [top EXCEPT !.next = top.next + 1])
         IN /\ n \in Nat \ {0} /\ top = frames[n] /\ top.sandbox \in 1..Len(instances)
            /\ instances[top.sandbox] \in Instance /\ instances[top.sandbox].path \in build.nodesCache
            /\ build.at = "built" /\ Len(instances) \in Nat /\ top.sandbox \in Nat
            /\ rest \in Seq(ScriptFrame) /\ Len(rest) = n
            /\ \A i \in 1..n : rest[i].sandbox = frames[i].sandbox
            /\ Front(frames) \in Seq(ScriptFrame) /\ Len(Front(frames)) = n - 1
            /\ \A i \in 1..(n - 1) : Front(frames)[i] = frames[i]
<1> DEFINE n == Len(frames)
           top == Last(frames)
           q == [top EXCEPT !.next = top.next + 1]
           rest == Append(Front(frames), q)
<1>1. frames \in Seq(ScriptFrame) /\ instances \in Seq(Instance) /\ InRange /\ CachedByPath
  BY DEF SandboxKept, SandboxTyped
<1>2. /\ n \in Nat \ {0} /\ top = frames[n] /\ top \in ScriptFrame
      /\ Front(frames) \in Seq(ScriptFrame) /\ Len(Front(frames)) = n - 1
      /\ \A i \in 1..(n - 1) : Front(frames)[i] = frames[i]
  BY <1>1, FrontIs
<1>3. n \in 1..n /\ Len(instances) \in Nat
  BY <1>1, <1>2
<1>4. top.sandbox \in 1..Len(instances)
  BY <1>1, <1>2, <1>3 DEF InRange
<1>5. /\ instances[top.sandbox] \in Instance /\ instances[top.sandbox].path \in build.nodesCache
      /\ build.at = "built" /\ top.sandbox \in Nat
  <2>1. instances # <<>>
    BY <1>3, <1>4
  <2> HIDE DEF top
  <2> QED
    BY <1>1, <1>3, <1>4, <2>1 DEF CachedByPath
<1>6. q \in ScriptFrame /\ q.sandbox = top.sandbox
  <2>1. top \in ScriptFrame
    BY <1>2
  <2> HIDE DEF top
  <2> QED
    BY ONLY <2>1 DEF ScriptFrame, q
<1>7. rest \in Seq(ScriptFrame) /\ Len(rest) = n /\ \A i \in 1..n : rest[i].sandbox = frames[i].sandbox
  <2> HIDE DEF q
  <2>1. rest \in Seq(ScriptFrame) /\ Len(rest) = n /\ \A i \in 1..n : rest[i] = IF i = n THEN q ELSE frames[i]
    BY <1>1, <1>6, TopBecomes
  <2> HIDE DEF rest, top
  <2> QED
    BY <1>2, <1>6, <2>1
<1> QED
  BY <1>2, <1>3, <1>4, <1>5, <1>7

LEMMA RequiringKeeps == SandboxKept /\ Requiring => SandboxKept'
<1> SUFFICES ASSUME SandboxKept, Requiring PROVE SandboxKept'
  OBVIOUS
<1> DEFINE n == Len(frames)
           top == Last(frames)
           s == instances[top.sandbox]
           d == requests[s.path][top.next]
           rest == Append(Front(frames), [top EXCEPT !.next = top.next + 1])
<1>1. /\ frames # <<>> /\ UNCHANGED <<Built, run, late>>
      /\ \/ d \in Dictionary[s.path] /\ Requires(d, s.of, rest)
         \/ d \notin Dictionary[s.path] /\ frames' = rest /\ UNCHANGED <<instances, modulesCache, uses>>
  BY DEF Requiring
<1>2. /\ n \in Nat \ {0} /\ top = frames[n] /\ top.sandbox \in 1..Len(instances)
      /\ s \in Instance /\ s.path \in build.nodesCache /\ build.at = "built"
      /\ rest \in Seq(ScriptFrame) /\ Len(rest) = n /\ \A i \in 1..n : rest[i].sandbox = frames[i].sandbox
  BY <1>1, TopOfFrames
<1>3. s.of \in Runs
  BY <1>2 DEF Instance
<1>4. \A i \in 1..Len(rest) : rest[i].sandbox \in 1..Len(instances)
  BY <1>2 DEF SandboxKept, InRange
<1>5. \A k \in 1..Len(instances) : ~instances[k].isCompiled =>
        \/ \E i \in 1..Len(rest) : rest[i].sandbox = k
        \/ instances[k].path = Entry \/ instances[k].broken
  BY <1>2 DEF SandboxKept, PartialInCycle
<1>6. ~late.after => /\ run.going /\ s.of = run.number
                     /\ \A i \in 1..Len(rest) : instances[rest[i].sandbox].of = run.number
  <2>1. n \in 1..Len(frames)
    BY <1>2
  <2> QED
    BY <1>2, <2>1 DEF SandboxKept, OfTheRun
<1>7. CASE d \in Dictionary[s.path] /\ Requires(d, s.of, rest)
  <2>1. d \in build.nodesCache
    BY <1>2, <1>7, DictionaryTyped DEF SandboxKept
  <2> HIDE DEF n, top, s, d, rest
  <2> QED
    BY <1>1, <1>2, <1>3, <1>4, <1>5, <1>6, <1>7, <2>1, RequiresKeeps
<1>8. CASE frames' = rest /\ UNCHANGED <<instances, modulesCache, uses>>
  <2> HIDE DEF n, top, s, d, rest
  <2>1. BuildKept' /\ UNCHANGED build
    BY <1>1, BuildStays DEF SandboxKept, Built
  <2>2. SandboxTyped'
    BY <1>1, <1>2, <1>8 DEF SandboxKept, SandboxTyped
  <2>3. InRange' /\ CachedByPath'
    BY <1>4, <1>8, <2>1 DEF SandboxKept, InRange, CachedByPath
  <2>4. OfTheRun' /\ OneSandbox'
    BY <1>1, <1>6, <1>8 DEF SandboxKept, OfTheRun, OneSandbox
  <2>5. PartialInCycle'
    BY <1>5, <1>8 DEF PartialInCycle
  <2> QED
    BY <2>1, <2>2, <2>3, <2>4, <2>5 DEF SandboxKept
<1> QED
  BY <1>1, <1>7, <1>8

LEMMA LateRequireKeeps == SandboxKept /\ LateRequire => SandboxKept'
<1> SUFFICES ASSUME SandboxKept, LateRequire PROVE SandboxKept'
  OBVIOUS
<1>1. PICK k \in 1..Len(instances) : \E d \in Dictionary[instances[k].path] :
        /\ Requires(d, instances[k].of, <<>>)
        /\ late' = [calls |-> late.calls + 1, after |-> late.after \/ ~(run.going /\ instances[k].of = run.number)]
  BY DEF LateRequire
<1>2. PICK d \in Dictionary[instances[k].path] :
        /\ Requires(d, instances[k].of, <<>>)
        /\ late' = [calls |-> late.calls + 1, after |-> late.after \/ ~(run.going /\ instances[k].of = run.number)]
  BY <1>1
<1>3. frames = <<>> /\ UNCHANGED <<Built, run>>
  BY DEF LateRequire
<1>4. instances \in Seq(Instance) /\ Len(instances) \in Nat
  BY DEF SandboxKept, SandboxTyped
<1>5. instances[k] \in Instance /\ instances # <<>>
  BY <1>4
<1>6. instances[k].of \in Runs /\ build.at = "built" /\ instances[k].path \in build.nodesCache
  BY <1>5 DEF Instance, SandboxKept, CachedByPath
<1>7. d \in build.nodesCache
  BY <1>6, DictionaryTyped DEF SandboxKept
<1>8. /\ <<>> \in Seq(ScriptFrame) /\ Len(<<>>) = 0
  OBVIOUS
<1>9. \A j \in 1..Len(instances) :
        ~instances[j].isCompiled => instances[j].path = Entry \/ instances[j].broken
  BY <1>3, <1>8 DEF SandboxKept, PartialInCycle
<1>10. ~late.after' => ~late.after /\ run.going /\ instances[k].of = run.number
  BY <1>2
<1> DEFINE rest == <<>>
<1>11. /\ rest \in Seq(ScriptFrame) /\ \A i \in 1..Len(rest) : rest[i].sandbox \in 1..Len(instances)
       /\ \A i \in 1..Len(rest) : instances[rest[i].sandbox].of = run.number
  BY <1>8
<1>12. Requires(d, instances[k].of, rest)
  BY <1>2
<1> HIDE DEF rest
<1> QED
  BY <1>3, <1>6, <1>7, <1>9, <1>10, <1>11, <1>12, RequiresKeeps

\* A test is executed: the sandboxes before it are of other runs.
LEMMA ExecuteFileKeeps == SandboxKept /\ ExecuteFile => SandboxKept'
<1> SUFFICES ASSUME SandboxKept, ExecuteFile PROVE SandboxKept'
  OBVIOUS
<1> DEFINE r == run.number + 1
           n == Len(instances) + 1
           e == [sandbox |-> n, next |-> 1]
<1>1. /\ build.at = "built" /\ ~run.going /\ run.number < NumRuns /\ frames = <<>>
      /\ run' = [number |-> r, going |-> TRUE] /\ Constructs(Entry, r) /\ frames' = <<e>>
      /\ uses' = [uses EXCEPT ![r] = uses[r] \cup {n}] /\ UNCHANGED <<Built, late>>
  BY DEF ExecuteFile
<1>2. /\ uses \in [Runs -> SUBSET Nat] /\ run \in [number : Nat, going : BOOLEAN] /\ Len(instances) \in Nat
      /\ InRange /\ CachedByPath /\ OfTheRun /\ OneSandbox /\ PartialInCycle /\ build' = build
      /\ Entry \in build.nodesCache /\ Entry \in SourceFiles /\ instances \in Seq(Instance)
  BY <1>1, SandboxAssumption DEF SandboxKept, SandboxTyped, BuildKept, BuildIs, CacheReached, Built
<1>3. r \in Runs /\ r = run.number + 1 /\ run.number \in Nat /\ r \in Nat /\ r <= NumRuns
  BY <1>1, <1>2, SandboxAssumption DEF Runs
<1>4. /\ instances' \in Seq(Instance) /\ Len(instances') = n
      /\ \A k \in 1..Len(instances) : instances'[k] = instances[k]
      /\ instances'[n].path = Entry /\ instances'[n].of = r
      /\ modulesCache' \in [SourceFiles -> Nat]
      /\ \A f \in SourceFiles : modulesCache'[f] = IF f = Entry THEN n ELSE modulesCache[f]
  BY <1>1, <1>2, <1>3, Constructed
<1>5. n \in Nat /\ n = Len(instances) + 1 /\ e.sandbox = n /\ e \in ScriptFrame
  BY <1>2 DEF ScriptFrame
<1>6. run'.number = r /\ run'.going = TRUE /\ run' \in [number : Nat, going : BOOLEAN]
  BY <1>1, <1>3
<1> HIDE DEF r, n, e
<1>7. frames' \in Seq(ScriptFrame) /\ Len(frames') = 1 /\ frames'[1] = e
  BY <1>1, <1>5
<1>8. \A q \in Runs : uses'[q] = IF q = r THEN uses[r] \cup {n} ELSE uses[q]
  BY <1>1, <1>2, <1>3
<1>9. \A q \in Runs : \A k \in uses[q] : k \in 1..Len(instances) /\ k # n /\ instances'[k] = instances[k]
  BY <1>2, <1>4, <1>5 DEF InRange
<1>10. ~late.after => uses[r] = {}
  BY <1>2, <1>3 DEF OfTheRun
<1>11. \A k \in 1..n : k = n \/ k \in 1..Len(instances)
  BY <1>2, <1>5
<1>12. BuildKept'
  BY <1>1, BuildStays DEF SandboxKept
<1>13. SandboxTyped'
  <2>1. uses' \in [Runs -> SUBSET Nat]
    BY <1>1, <1>2, <1>3, <1>5
  <2> QED
    BY <1>3, <1>4, <1>6, <1>7, <2>1 DEF SandboxTyped
<1>14. InRange'
  <2>1. \A f \in SourceFiles : modulesCache'[f] <= n
    <3>1. modulesCache \in [SourceFiles -> Nat]
      BY DEF SandboxKept, SandboxTyped
    <3>2. \A f \in SourceFiles : modulesCache[f] \in Nat /\ modulesCache[f] <= Len(instances)
      BY <1>2, <3>1 DEF InRange
    <3>3. \A f \in SourceFiles : modulesCache'[f] = n \/ modulesCache'[f] = modulesCache[f]
      BY <1>4
    <3> QED
      BY ONLY <1>2, <1>5, <3>2, <3>3
  <2>2. \A i \in 1..Len(frames') : frames'[i].sandbox \in 1..n
    BY <1>2, <1>5, <1>7
  <2>3. \A q \in Runs : uses'[q] \subseteq 1..n
    BY <1>2, <1>5, <1>8 DEF InRange
  <2> QED
    BY <1>4, <2>1, <2>2, <2>3 DEF InRange
<1>15. CachedByPath'
  <2>1. \A f \in SourceFiles : modulesCache[f] # 0 => modulesCache[f] \in 1..Len(instances)
    <3>1. modulesCache \in [SourceFiles -> Nat]
      BY DEF SandboxKept, SandboxTyped
    <3> QED
      BY <1>2, <3>1 DEF InRange
  <2>2. \A f \in SourceFiles : modulesCache'[f] # 0 => instances'[modulesCache'[f]].path = f
    BY <1>2, <1>4, <2>1 DEF CachedByPath
  <2>3. \A k \in 1..n : instances'[k].path \in build.nodesCache
    BY <1>2, <1>4, <1>11 DEF CachedByPath
  <2> QED
    BY <1>1, <1>2, <1>4, <2>2, <2>3 DEF CachedByPath
<1>16. OfTheRun'
  <2> SUFFICES ASSUME ~late.after' PROVE OfTheRun'
    BY DEF OfTheRun
  <2>1. ~late.after /\ late' = late
    BY <1>1
  <2>2. \A f \in SourceFiles : modulesCache[f] = 0
    BY <1>1, <1>2, <2>1 DEF OfTheRun
  <2>3. \A f \in SourceFiles : modulesCache'[f] # 0 => modulesCache'[f] = n
    BY <1>4, <2>2
  <2>4. \A i \in 1..Len(frames') : instances'[frames'[i].sandbox].of = r
    BY <1>4, <1>5, <1>7
  <2>5. \A q \in Runs : q > r => uses'[q] = {}
    <3>1. \A q \in Runs : q > r => q # r /\ q > run.number
      BY <1>3 DEF Runs
    <3> QED
      BY <1>2, <1>8, <2>1, <3>1 DEF OfTheRun
  <2>6. uses'[r] = {n}
    BY <1>3, <1>8, <1>10, <2>1
  <2>7. \A k \in uses'[r] : modulesCache'[instances'[k].path] = k
    BY <1>2, <1>4, <2>6
  <2> QED
    BY <1>3, <1>4, <1>6, <2>1, <2>3, <2>4, <2>5, <2>7 DEF OfTheRun
<1>17. OneSandbox'
  <2> SUFFICES ASSUME ~late.after', NEW q \in Runs, NEW i \in uses'[q], NEW k \in uses'[q]
               PROVE  instances'[i].of = q /\ (instances'[i].path = instances'[k].path => i = k)
    BY DEF OneSandbox
  <2>1. ~late.after
    BY <1>1
  <2>2. CASE q = r
    BY <1>4, <1>8, <1>10, <2>1, <2>2
  <2>3. CASE q # r
    <3>1. i \in uses[q] /\ k \in uses[q]
      BY <1>8, <2>3
    <3> QED
      BY <1>2, <1>9, <2>1, <3>1 DEF OneSandbox
  <2> QED
    BY <2>2, <2>3
<1>18. PartialInCycle'
  <2>1. Len(frames) = 0
    BY <1>1
  <2>2. \A k \in 1..Len(instances) :
          ~instances[k].isCompiled => instances[k].path = Entry \/ instances[k].broken
    BY <1>2, <2>1 DEF PartialInCycle
  <2> QED
    BY <1>4, <1>11, <2>2 DEF PartialInCycle
<1> QED
  BY <1>12, <1>13, <1>14, <1>15, <1>16, <1>17, <1>18 DEF SandboxKept

\* A sandbox changes, but not its path and its run; scripts may have ended.
LEMMA SandboxChanges ==
  ASSUME SandboxKept, UNCHANGED <<Built, modulesCache, uses, run, late>>,
         NEW j \in 1..Len(instances), NEW s \in Instance, s.path = instances[j].path, s.of = instances[j].of,
         instances' = [instances EXCEPT ![j] = s],
         frames' \in Seq(ScriptFrame), \A i \in 1..Len(frames') : i \in 1..Len(frames) /\ frames'[i] = frames[i]
  PROVE  /\ BuildKept' /\ SandboxTyped' /\ InRange' /\ CachedByPath' /\ OfTheRun' /\ OneSandbox'
         /\ Len(instances') = Len(instances)
         /\ \A k \in 1..Len(instances) : instances'[k] = IF k = j THEN s ELSE instances[k]
<1>1. /\ instances \in Seq(Instance) /\ Len(instances) \in Nat /\ modulesCache \in [SourceFiles -> Nat]
      /\ uses \in [Runs -> SUBSET Nat] /\ InRange /\ CachedByPath /\ OfTheRun /\ OneSandbox /\ SandboxTyped
  BY DEF SandboxKept, SandboxTyped
<1>2. /\ instances' \in Seq(Instance) /\ Len(instances') = Len(instances)
      /\ \A k \in 1..Len(instances) : instances'[k] = IF k = j THEN s ELSE instances[k]
  BY <1>1
<1>3. \A k \in 1..Len(instances) : instances'[k].path = instances[k].path /\ instances'[k].of = instances[k].of
  BY <1>2
<1>4. BuildKept' /\ build' = build
  BY BuildStays DEF SandboxKept, Built
<1>5. SandboxTyped' /\ InRange'
  BY <1>1, <1>2 DEF SandboxTyped, InRange
<1>6. \A f \in SourceFiles : modulesCache[f] # 0 => modulesCache[f] \in 1..Len(instances)
  BY <1>1 DEF InRange
<1>7. CachedByPath'
  <2>1. instances # <<>>
    BY <1>1
  <2> QED
    BY <1>1, <1>2, <1>3, <1>4, <1>6, <2>1 DEF CachedByPath
<1>8. OfTheRun'
  <2>1. \A i \in 1..Len(frames') : frames'[i].sandbox \in 1..Len(instances)
    BY <1>1 DEF InRange
  <2>2. run.going /\ run.number \in Runs => \A k \in uses[run.number] : k \in 1..Len(instances)
    BY <1>1 DEF InRange
  <2>3. ASSUME ~late.after, NEW f \in SourceFiles, modulesCache[f] # 0
        PROVE  run.going /\ instances'[modulesCache[f]].of = run.number
    BY <1>1, <1>3, <1>6, <2>3 DEF OfTheRun
  <2>4. ASSUME ~late.after, NEW i \in 1..Len(frames') PROVE run.going /\ instances'[frames'[i].sandbox].of = run.number
    BY <1>1, <1>3, <2>1, <2>4 DEF OfTheRun
  <2>5. ASSUME ~late.after, run.going
        PROVE  run.number \in Runs /\ \A k \in uses[run.number] : modulesCache[instances'[k].path] = k
    BY <1>1, <1>3, <2>2, <2>5 DEF OfTheRun
  <2>6. ~late.after => \A q \in Runs : q > run.number => uses[q] = {}
    BY <1>1 DEF OfTheRun
  <2>7. UNCHANGED <<modulesCache, uses, run, late>>
    BY <1>1
  <2> QED
    BY ONLY <2>3, <2>4, <2>5, <2>6, <2>7 DEF OfTheRun
<1>9. OneSandbox'
  <2>1. \A q \in Runs : \A k \in uses[q] : k \in 1..Len(instances)
    BY <1>1 DEF InRange
  <2> QED
    BY <1>1, <1>3, <2>1 DEF OneSandbox
<1> QED
  BY <1>2, <1>4, <1>5, <1>7, <1>8, <1>9

LEMMA ScriptEndsKeeps == SandboxKept /\ ScriptEnds => SandboxKept'
<1> SUFFICES ASSUME SandboxKept, ScriptEnds PROVE SandboxKept'
  OBVIOUS
<1> DEFINE n == Len(frames)
           top == Last(frames)
           j == top.sandbox
<1>1. frames # <<>> /\ frames' = Front(frames) /\ UNCHANGED <<Built, modulesCache, uses, run, late>>
  BY DEF ScriptEnds
<1> DEFINE o == instances[j]
<1>2. /\ n \in Nat \ {0} /\ top = frames[n] /\ j \in 1..Len(instances) /\ o \in Instance
      /\ Front(frames) \in Seq(ScriptFrame) /\ Len(Front(frames)) = n - 1
      /\ \A i \in 1..(n - 1) : Front(frames)[i] = frames[i]
  BY <1>1, TopOfFrames
<1>3. PICK s \in {Compiled(o, TRUE), Compiled(o, FALSE), NotCompiled(o)} : instances' = [instances EXCEPT ![j] = s]
  BY DEF ScriptEnds
<1>4. s \in Instance /\ s.path = o.path /\ s.of = o.of /\ (s.isCompiled \/ s.broken)
  <2> HIDE DEF o
  <2>1. ASSUME NEW failed \in BOOLEAN
        PROVE  LET t == [o EXCEPT !.isCompiling = FALSE, !.isCompiled = TRUE, !.failed = failed]
               IN t \in Instance /\ t.path = o.path /\ t.of = o.of /\ t.isCompiled = TRUE
    BY <1>2 DEF Instance
  <2>2. LET t == [o EXCEPT !.failed = TRUE, !.broken = TRUE]
        IN t \in Instance /\ t.path = o.path /\ t.of = o.of /\ t.broken = TRUE
    BY <1>2 DEF Instance
  <2>3. CASE s = NotCompiled(o)
    BY <2>2, <2>3 DEF NotCompiled
  <2>4. CASE s = Compiled(o, TRUE)
    BY <2>1, <2>4 DEF Compiled
  <2>5. CASE s = Compiled(o, FALSE)
    BY <2>1, <2>5 DEF Compiled
  <2> QED
    BY <2>3, <2>4, <2>5
<1>5. instances' = [instances EXCEPT ![j] = s]
  BY <1>3
<1>6. \A i \in 1..Len(frames') : i \in 1..Len(frames) /\ i # n /\ frames'[i] = frames[i]
  BY <1>1, <1>2
<1>7. frames' \in Seq(ScriptFrame)
  BY <1>1, <1>2
<1>8. /\ BuildKept' /\ SandboxTyped' /\ InRange' /\ CachedByPath' /\ OfTheRun' /\ OneSandbox'
      /\ Len(instances') = Len(instances)
      /\ \A k \in 1..Len(instances) : instances'[k] = IF k = j THEN s ELSE instances[k]
  <2> HIDE DEF j, n, top
  <2> QED
    BY <1>1, <1>2, <1>4, <1>5, <1>6, <1>7, SandboxChanges
<1>9. PartialInCycle'
  <2> SUFFICES ASSUME NEW k \in 1..Len(instances), ~instances'[k].isCompiled, ~instances'[k].broken
               PROVE  (\E i \in 1..Len(frames') : frames'[i].sandbox = k) \/ instances'[k].path = Entry
    BY <1>8 DEF PartialInCycle
  <2>1. k # j /\ instances'[k] = instances[k]
    BY <1>4, <1>8
  <2>2. CASE instances[k].path = Entry
    BY <2>1, <2>2
  <2>3. CASE instances[k].path # Entry
    <3>1. PICK i \in 1..n : frames[i].sandbox = k
      BY <2>1, <2>3 DEF SandboxKept, PartialInCycle
    <3>2. i # n
      BY <1>2, <2>1, <3>1
    <3>3. i \in 1..Len(frames') /\ frames'[i] = frames[i]
      BY <1>1, <1>2, <3>2
    <3> QED
      BY <3>1, <3>3
  <2> QED
    BY <2>2, <2>3
<1> QED
  BY <1>8, <1>9 DEF SandboxKept

LEMMA EvaluateScriptKeeps == SandboxKept /\ EvaluateScript => SandboxKept'
<1> SUFFICES ASSUME SandboxKept, EvaluateScript PROVE SandboxKept'
  OBVIOUS
<1> DEFINE j == modulesCache[Entry]
<1>0. PICK ends \in BOOLEAN :
        instances' = [instances EXCEPT ![j] = [instances[j] EXCEPT !.isCompiled = ends, !.isCompiling = ~ends]]
  BY DEF EvaluateScript
<1> DEFINE s == [instances[j] EXCEPT !.isCompiled = ends, !.isCompiling = ~ends]
<1>1. /\ frames = <<>> /\ j # 0 /\ instances' = [instances EXCEPT ![j] = s]
      /\ UNCHANGED <<Built, modulesCache, frames, uses, run, late>>
  BY <1>0 DEF EvaluateScript
<1>2. /\ instances \in Seq(Instance) /\ Len(instances) \in Nat /\ Entry \in SourceFiles
      /\ modulesCache \in [SourceFiles -> Nat] /\ InRange /\ CachedByPath
  BY SandboxAssumption DEF SandboxKept, SandboxTyped
<1>3. j \in 1..Len(instances) /\ instances[j].path = Entry
  BY <1>1, <1>2 DEF InRange, CachedByPath
<1>4. s \in Instance /\ s.path = instances[j].path /\ s.of = instances[j].of
  <2> DEFINE o == instances[j]
  <2>1. o \in Instance
    BY <1>2, <1>3
  <2> HIDE DEF o
  <2>2. [o EXCEPT !.isCompiled = ends, !.isCompiling = ~ends] \in Instance
    BY <2>1 DEF Instance
  <2>3. LET t == [o EXCEPT !.isCompiled = ends, !.isCompiling = ~ends] IN t.path = o.path /\ t.of = o.of
    BY <2>1 DEF Instance
  <2> QED
    BY <2>2, <2>3 DEF o
<1> HIDE DEF s, j
<1>5. frames' \in Seq(ScriptFrame) /\ \A i \in 1..Len(frames') : i \in 1..Len(frames) /\ frames'[i] = frames[i]
  BY <1>1 DEF SandboxKept, SandboxTyped
<1>6. /\ BuildKept' /\ SandboxTyped' /\ InRange' /\ CachedByPath' /\ OfTheRun' /\ OneSandbox'
      /\ Len(instances') = Len(instances)
      /\ \A k \in 1..Len(instances) : instances'[k] = IF k = j THEN s ELSE instances[k]
  BY <1>1, <1>3, <1>4, <1>5, SandboxChanges
<1>7. PartialInCycle'
  BY <1>1, <1>3, <1>4, <1>6 DEF SandboxKept, PartialInCycle
<1> QED
  BY <1>6, <1>7 DEF SandboxKept

LEMMA ClearCacheKeeps == SandboxKept /\ ClearCache => SandboxKept'
<1> SUFFICES ASSUME SandboxKept, ClearCache PROVE SandboxKept'
  OBVIOUS
<1>1. /\ frames = <<>> /\ modulesCache' = [f \in SourceFiles |-> 0] /\ UNCHANGED <<Built, instances, frames, uses, late>>
      /\ run' = [run EXCEPT !.going = FALSE]
  BY DEF ClearCache, Cleared
<1>2. /\ run \in [number : Nat, going : BOOLEAN] /\ run.number <= NumRuns /\ Len(instances) \in Nat
  BY DEF SandboxKept, SandboxTyped
<1>3. run' \in [number : Nat, going : BOOLEAN] /\ run'.number = run.number /\ run'.going = FALSE
  BY <1>1, <1>2
<1>4. BuildKept' /\ build' = build
  BY <1>1, BuildStays DEF SandboxKept, Built
<1>5. SandboxTyped'
  BY <1>1, <1>2, <1>3 DEF SandboxKept, SandboxTyped
<1>6. InRange' /\ CachedByPath'
  BY <1>1, <1>2, <1>4 DEF SandboxKept, InRange, CachedByPath
<1>7. OfTheRun'
  <2>1. Len(frames) = 0
    BY <1>1
  <2> QED
    BY <1>1, <1>3, <2>1 DEF SandboxKept, OfTheRun
<1>8. OneSandbox' /\ PartialInCycle'
  BY <1>1 DEF SandboxKept, OneSandbox, PartialInCycle
<1> QED
  BY <1>4, <1>5, <1>6, <1>7, <1>8 DEF SandboxKept

\* Every step keeps the invariant.
LEMMA SandboxSteps == SandboxKept /\ [SandboxNext]_sandboxVars => SandboxKept'
<1> SUFFICES ASSUME SandboxKept, [SandboxNext]_sandboxVars PROVE SandboxKept'
  OBVIOUS
<1>1. CASE SandboxNext
  BY <1>1, BuildStepKeeps, RequiringKeeps, ScriptEndsKeeps, ClearCacheKeeps, ExecuteFileKeeps, LateRequireKeeps,
     EvaluateScriptKeeps DEF SandboxNext, SandboxProgress
<1>2. CASE UNCHANGED sandboxVars
  <2>1. BuildKept' /\ UNCHANGED <<build, instances, modulesCache, frames, uses, run, late>>
    BY <1>2, BuildStays DEF SandboxKept, Built, sandboxVars
  <2> QED
    BY <2>1 DEF SandboxKept, SandboxTyped, InRange, CachedByPath, OfTheRun, OneSandbox, PartialInCycle
<1> QED
  BY <1>1, <1>2

LEMMA SandboxPromises == SandboxKept => DictionaryComplete /\ OneSandbox /\ PartialInCycle
BY DictionaryIs DEF SandboxKept
-----------------------------------------------------------------------------
(* Logger                                                                  *)

\* The runs of the queue, and the state of the server.
RunSet == [entry : LogCalls, retry : 0..MaxRetries, at : {"beforeLog", "onLog", "onError"}]

LinesSet ==
  [queue : Seq(LogCalls), status : {"EMPTY", "RUNNING"}, runs : Seq(RunSet),
   logged : Seq(LogCalls), dropped : SUBSET LogCalls, thrown : SUBSET LogCalls]

\* Every accepted entry of s is in one place.
Placed(s, accepted) ==
  /\ \A i, j \in 1..Len(accepted) : accepted[i] = accepted[j] => i = j
  /\ Len(s.runs) <= 1
  /\ \A i, j \in 1..Len(s.queue) : s.queue[i] = s.queue[j] => i = j
  /\ \A i, j \in 1..Len(s.logged) : s.logged[i] = s.logged[j] => i = j
  /\ \A i \in 1..Len(s.queue), j \in 1..Len(s.logged) : s.queue[i] # s.logged[j]
  /\ \A i \in 1..Len(s.queue), k \in 1..Len(s.runs) : s.queue[i] # s.runs[k].entry
  /\ \A j \in 1..Len(s.logged), k \in 1..Len(s.runs) : s.logged[j] # s.runs[k].entry
  /\ \A i \in 1..Len(s.queue) : s.queue[i] \notin s.dropped \cup s.thrown
  /\ \A j \in 1..Len(s.logged) : s.logged[j] \notin s.dropped \cup s.thrown
  /\ \A k \in 1..Len(s.runs) : s.runs[k].entry \notin s.dropped \cup s.thrown
  /\ \A c \in LogCalls :
       (\E a \in 1..Len(accepted) : accepted[a] = c) <=>
         \/ \E i \in 1..Len(s.queue) : s.queue[i] = c
         \/ \E j \in 1..Len(s.logged) : s.logged[j] = c
         \/ \E k \in 1..Len(s.runs) : s.runs[k].entry = c
         \/ c \in s.dropped \/ c \in s.thrown

\* What is logged was accepted before what is with the plugins, and that before what waits;
\* what waits, and what is logged, is in the order in which it was accepted.
Ordered(s, accepted) ==
  /\ \A i, j \in 1..Len(s.queue) : i < j => Earlier(accepted, s.queue[i], s.queue[j])
  /\ \A i, j \in 1..Len(s.logged) : i < j => Earlier(accepted, s.logged[i], s.logged[j])
  /\ \A i \in 1..Len(s.queue), j \in 1..Len(s.logged) : Earlier(accepted, s.logged[j], s.queue[i])
  /\ \A i \in 1..Len(s.queue), k \in 1..Len(s.runs) :
       Earlier(accepted, s.runs[k].entry, s.queue[i])
  /\ \A j \in 1..Len(s.logged), k \in 1..Len(s.runs) :
       Earlier(accepted, s.logged[j], s.runs[k].entry)

\* The queue is run while it has entries.
Running(s) ==
  /\ s.status = "RUNNING" <=> s.runs # <<>> \/ s.thrown # {}
  /\ s.queue # <<>> => s.status = "RUNNING"

\* The tries an entry has left, and the failures so far.
Counted(s) ==
  \A k \in 1..Len(s.runs) :
    /\ s.runs[k].retry <= numberOfRetries
    /\ failures >= numberOfRetries - s.runs[k].retry + (IF s.runs[k].at = "onError" THEN 1 ELSE 0)

\* What runQueue() makes of s.
QueueRun(s, t, accepted, retry) ==
  /\ t \in LinesSet /\ Placed(t, accepted) /\ Running(t)
  /\ t.dropped = s.dropped /\ t.thrown = s.thrown
  /\ Ordered(s, accepted) => Ordered(t, accepted)
  /\ t.runs = <<>> \/ \E e \in LogCalls :
                        t.runs = <<[entry |-> e, retry |-> retry, at |-> "beforeLog"]>>

\* runQueue() takes the head of the queue.
LEMMA RunQueueKeeps ==
  ASSUME NEW s \in LinesSet, NEW accepted, NEW retry \in 0..MaxRetries, s.runs = <<>>,
         Placed(s, accepted), s.thrown = {}
  PROVE  QueueRun(s, RunQueue(s, retry), accepted, retry)
<1> DEFINE t == RunQueue(s, retry)
<1>1. CASE s.queue = <<>>
  <2>1. t = [s EXCEPT !.status = "EMPTY"]
    BY <1>1 DEF RunQueue
  <2>2. /\ t \in LinesSet /\ t.queue = s.queue /\ t.runs = s.runs /\ t.logged = s.logged
        /\ t.dropped = s.dropped /\ t.thrown = s.thrown /\ t.status = "EMPTY"
    BY <2>1 DEF LinesSet
  <2> HIDE DEF t
  <2>3. Placed(t, accepted)
    BY <2>2 DEF Placed
  <2>4. Ordered(s, accepted) => Ordered(t, accepted)
    BY <2>2 DEF Ordered
  <2>5. Running(t)
    BY <1>1, <2>2 DEF Running
  <2> QED
    BY <2>2, <2>3, <2>4, <2>5 DEF t, QueueRun
<1>2. CASE s.queue # <<>>
  <2> DEFINE e == Head(s.queue)
             r == [entry |-> e, retry |-> retry, at |-> "beforeLog"]
             n == Len(s.queue)
  <2>1. /\ e \in LogCalls /\ e = s.queue[1] /\ n \in Nat /\ 1 \in 1..n
        /\ Tail(s.queue) \in Seq(LogCalls) /\ Len(Tail(s.queue)) = n - 1
        /\ \A i \in 1..(n - 1) : Tail(s.queue)[i] = s.queue[i + 1] /\ i + 1 \in 1..n /\ i + 1 # 1
    BY <1>2 DEF LinesSet
  <2>2. /\ t.queue = Tail(s.queue) /\ t.runs = <<r>> /\ t.logged = s.logged /\ t.status = "RUNNING"
        /\ t.dropped = s.dropped /\ t.thrown = s.thrown /\ t \in LinesSet
    <3>1. t = [s EXCEPT !.queue = Tail(s.queue), !.status = "RUNNING", !.runs = Append(s.runs, r)]
      BY <1>2 DEF RunQueue
    <3>2. Append(s.runs, r) = <<r>>
      OBVIOUS
    <3>3. r \in RunSet /\ <<r>> \in Seq(RunSet)
      BY <2>1 DEF RunSet
    <3> HIDE DEF r, t
    <3> QED
      BY <2>1, <3>1, <3>2, <3>3 DEF LinesSet
  <2>3. Len(t.runs) = 1 /\ t.runs[1].entry = e
    BY <2>2
  <2> HIDE DEF t, e, r
  <2>4. Placed(t, accepted)
    <3>1. \A i \in 1..Len(t.queue) : /\ i + 1 \in 1..n /\ t.queue[i] = s.queue[i + 1]
                                     /\ t.queue[i] # e
      BY <2>1, <2>2 DEF Placed
    <3>2. \A i, j \in 1..Len(t.queue) : t.queue[i] = t.queue[j] => i = j
      BY <2>1, <2>2, <3>1 DEF Placed
    <3>3. \A j \in 1..Len(s.logged) : s.logged[j] # e
      BY <2>1 DEF Placed
    <3>4. e \notin s.dropped \cup s.thrown
      BY <2>1 DEF Placed
    <3>5. \A c \in LogCalls : (\E i \in 1..Len(s.queue) : s.queue[i] = c) <=>
                                c = e \/ \E i \in 1..Len(t.queue) : t.queue[i] = c
      <4> TAKE c \in LogCalls
      <4>1. ASSUME NEW i \in 1..n, s.queue[i] = c, c # e
            PROVE  \E k \in 1..Len(t.queue) : t.queue[k] = c
        <5>1. i - 1 \in 1..(n - 1) /\ (i - 1) + 1 = i
          BY <2>1, <4>1
        <5> QED
          BY <2>1, <2>2, <4>1, <5>1
      <4>2. c = e => \E i \in 1..n : s.queue[i] = c
        BY <2>1
      <4>3. ASSUME NEW i \in 1..Len(t.queue), t.queue[i] = c
            PROVE  \E j \in 1..n : s.queue[j] = c
        BY <3>1, <4>3
      <4> QED
        BY <4>1, <4>2, <4>3
    <3>6. \A c \in LogCalls : (\E k \in 1..Len(t.runs) : t.runs[k].entry = c) <=> c = e
      BY <2>3
    <3>7. \A c \in LogCalls : ~\E k \in 1..Len(s.runs) : s.runs[k].entry = c
      OBVIOUS
    <3>8. \A c \in LogCalls :
            (\E a \in 1..Len(accepted) : accepted[a] = c) <=>
              \/ \E i \in 1..Len(t.queue) : t.queue[i] = c
              \/ \E j \in 1..Len(t.logged) : t.logged[j] = c
              \/ \E k \in 1..Len(t.runs) : t.runs[k].entry = c
              \/ c \in t.dropped \/ c \in t.thrown
      BY <2>2, <3>5, <3>6, <3>7 DEF Placed
    <3>9. /\ \A i \in 1..Len(t.queue), k \in 1..Len(t.runs) : t.queue[i] # t.runs[k].entry
          /\ \A j \in 1..Len(t.logged), k \in 1..Len(t.runs) : t.logged[j] # t.runs[k].entry
          /\ \A k \in 1..Len(t.runs) : t.runs[k].entry \notin t.dropped \cup t.thrown
      BY <2>2, <2>3, <3>1, <3>3, <3>4
    <3>10. /\ \A i \in 1..Len(t.queue), j \in 1..Len(t.logged) : t.queue[i] # t.logged[j]
           /\ \A i \in 1..Len(t.queue) : t.queue[i] \notin t.dropped \cup t.thrown
      BY <2>2, <3>1 DEF Placed
    <3> QED
      BY <2>2, <2>3, <3>2, <3>8, <3>9, <3>10 DEF Placed
  <2>5. ASSUME Ordered(s, accepted) PROVE Ordered(t, accepted)
    <3>1. \A i \in 1..Len(t.queue) : /\ i + 1 \in 1..n /\ 1 < i + 1 /\ t.queue[i] = s.queue[i + 1]
      BY <2>1, <2>2
    <3>2. \A i, j \in 1..Len(t.queue) : i < j => i + 1 < j + 1
      OBVIOUS
    <3> QED
      BY <2>1, <2>2, <2>3, <2>5, <3>1, <3>2 DEF Ordered
  <2>6. Running(t)
    BY <2>2 DEF Running
  <2> QED
    BY <2>1, <2>2, <2>4, <2>5, <2>6 DEF t, r, QueueRun
<1> QED
  BY <1>1, <1>2

\* log() puts an entry behind the others.
LEMMA EntryQueued ==
  ASSUME NEW s \in LinesSet, NEW accepted \in Seq(LogCalls), NEW c \in LogCalls,
         \A a \in 1..Len(accepted) : accepted[a] # c, Placed(s, accepted),
         NEW t, t = [s EXCEPT !.queue = Append(@, c)]
  PROVE  /\ t \in LinesSet /\ t.runs = s.runs /\ t.status = s.status
         /\ t.dropped = s.dropped /\ t.thrown = s.thrown
         /\ Placed(t, Append(accepted, c))
         /\ Ordered(s, accepted) => Ordered(t, Append(accepted, c))
<1> DEFINE n == Len(s.queue)
           m == Len(accepted)
           accepts == Append(accepted, c)
<1>1. s.queue \in Seq(LogCalls) /\ s.logged \in Seq(LogCalls)
  BY DEF LinesSet
<1>2. /\ Append(s.queue, c) \in Seq(LogCalls) /\ Len(Append(s.queue, c)) = n + 1 /\ n \in Nat
      /\ \A i \in 1..n : Append(s.queue, c)[i] = s.queue[i]
      /\ Append(s.queue, c)[n + 1] = c
  BY <1>1, PushFacts
<1>3. /\ t \in LinesSet /\ t.runs = s.runs /\ t.status = s.status /\ t.logged = s.logged
      /\ t.dropped = s.dropped /\ t.thrown = s.thrown /\ t.queue = Append(s.queue, c)
  BY <1>2 DEF LinesSet
<1>4. /\ Len(accepts) = m + 1 /\ m \in Nat /\ accepts[m + 1] = c
      /\ \A a \in 1..m : accepts[a] = accepted[a] /\ a \in 1..(m + 1) /\ a < m + 1
      /\ \A a \in 1..(m + 1) : a \in 1..m \/ a = m + 1
      /\ m + 1 \in 1..(m + 1)
  BY PushFacts
<1> HIDE DEF accepts, m
<1>5. \A i \in 1..Len(t.queue) : (i \in 1..n /\ t.queue[i] = s.queue[i]) \/ (i = n + 1 /\ t.queue[i] = c)
  BY <1>2, <1>3
\* Whatever has a place was accepted.
<1>6. \A d \in LogCalls : (\E i \in 1..Len(s.queue) : s.queue[i] = d)
                          \/ (\E j \in 1..Len(s.logged) : s.logged[j] = d)
                          \/ (\E k \in 1..Len(s.runs) : s.runs[k].entry = d)
                          \/ d \in s.dropped \/ d \in s.thrown
                          => d # c /\ \E a \in 1..m : accepted[a] = d
  BY DEF Placed, m
<1>7. /\ \A i \in 1..Len(s.queue) : s.queue[i] \in LogCalls
      /\ \A j \in 1..Len(s.logged) : s.logged[j] \in LogCalls
      /\ \A k \in 1..Len(s.runs) : s.runs[k].entry \in LogCalls
  <2>1. s.runs \in Seq(RunSet)
    BY DEF LinesSet
  <2>2. \A k \in 1..Len(s.runs) : s.runs[k] \in RunSet
    BY <2>1
  <2> QED
    BY <1>1, <2>2 DEF RunSet
<1>8. /\ \A i \in 1..Len(s.queue) : s.queue[i] # c /\ \E a \in 1..m : accepted[a] = s.queue[i]
      /\ \A j \in 1..Len(s.logged) : s.logged[j] # c /\ \E a \in 1..m : accepted[a] = s.logged[j]
      /\ \A k \in 1..Len(s.runs) : s.runs[k].entry # c /\ \E a \in 1..m : accepted[a] = s.runs[k].entry
      /\ c \notin s.dropped \cup s.thrown
  BY <1>6, <1>7
<1>9. Placed(t, accepts)
  <2>1. \A i, j \in 1..Len(accepts) : accepts[i] = accepts[j] => i = j
    BY <1>4 DEF Placed, m
  <2>2. \A i, j \in 1..Len(t.queue) : t.queue[i] = t.queue[j] => i = j
    BY <1>5, <1>8 DEF Placed
  <2>3. /\ \A i \in 1..Len(t.queue), j \in 1..Len(s.logged) : t.queue[i] # s.logged[j]
        /\ \A i \in 1..Len(t.queue), k \in 1..Len(s.runs) : t.queue[i] # s.runs[k].entry
        /\ \A i \in 1..Len(t.queue) : t.queue[i] \notin s.dropped \cup s.thrown
    BY <1>5, <1>8 DEF Placed
  <2>4. \A d \in LogCalls : (\E a \in 1..Len(accepts) : accepts[a] = d) <=>
                              d = c \/ \E a \in 1..m : accepted[a] = d
    BY <1>4
  <2>5. \A d \in LogCalls : (\E i \in 1..Len(t.queue) : t.queue[i] = d) <=>
                              d = c \/ \E i \in 1..n : s.queue[i] = d
    <3>1. n + 1 \in 1..Len(t.queue) /\ t.queue[n + 1] = c
      BY <1>2, <1>3
    <3>2. \A i \in 1..n : i \in 1..Len(t.queue) /\ t.queue[i] = s.queue[i]
      BY <1>2, <1>3
    <3> QED
      BY <1>5, <3>1, <3>2
  <2>6. \A d \in LogCalls :
          (\E a \in 1..m : accepted[a] = d) <=>
            \/ \E i \in 1..n : s.queue[i] = d
            \/ \E j \in 1..Len(s.logged) : s.logged[j] = d
            \/ \E k \in 1..Len(s.runs) : s.runs[k].entry = d
            \/ d \in s.dropped \/ d \in s.thrown
    BY DEF Placed, m
  <2>7. \A d \in LogCalls :
          (\E a \in 1..Len(accepts) : accepts[a] = d) <=>
            \/ \E i \in 1..Len(t.queue) : t.queue[i] = d
            \/ \E j \in 1..Len(t.logged) : t.logged[j] = d
            \/ \E k \in 1..Len(t.runs) : t.runs[k].entry = d
            \/ d \in t.dropped \/ d \in t.thrown
    BY <1>3, <2>4, <2>5, <2>6
  <2> QED
    BY <1>3, <2>1, <2>2, <2>3, <2>7 DEF Placed
<1>10. ASSUME Ordered(s, accepted) PROVE Ordered(t, accepts)
  <2>1. \A d, e \in LogCalls : Earlier(accepted, d, e) => Earlier(accepts, d, e)
    BY <1>4 DEF Earlier, m
  <2>2. \A d \in LogCalls : (\E a \in 1..m : accepted[a] = d) => Earlier(accepts, d, c)
    BY <1>4 DEF Earlier
  <2>3. \A i, j \in 1..Len(t.queue) : i < j => i \in 1..n /\ (j \in 1..n \/ t.queue[j] = c)
    BY <1>2, <1>3, <1>5
  <2>4. \A i, j \in 1..Len(t.queue) : i < j => Earlier(accepts, t.queue[i], t.queue[j])
    BY <1>2, <1>3, <1>7, <1>8, <1>10, <2>1, <2>2, <2>3 DEF Ordered
  <2>5. \A i, j \in 1..Len(s.logged) : i < j => Earlier(accepts, s.logged[i], s.logged[j])
    BY <1>7, <1>10, <2>1 DEF Ordered
  <2>6. \A i \in 1..Len(t.queue), j \in 1..Len(s.logged) : Earlier(accepts, s.logged[j], t.queue[i])
    BY <1>5, <1>7, <1>8, <1>10, <2>1, <2>2 DEF Ordered
  <2>7. \A i \in 1..Len(t.queue), k \in 1..Len(s.runs) : Earlier(accepts, s.runs[k].entry, t.queue[i])
    BY <1>5, <1>7, <1>8, <1>10, <2>1, <2>2 DEF Ordered
  <2>8. \A j \in 1..Len(s.logged), k \in 1..Len(s.runs) :
          Earlier(accepts, s.logged[j], s.runs[k].entry)
    BY <1>7, <1>10, <2>1 DEF Ordered
  <2> QED
    BY <1>3, <2>4, <2>5, <2>6, <2>7, <2>8 DEF Ordered
<1> QED
  BY <1>3, <1>9, <1>10 DEF accepts

\* The one entry with the plugins leaves them: logged, queued again, dropped or thrown.
LEMMA EntryLeaves ==
  ASSUME NEW s \in LinesSet, NEW accepted, Placed(s, accepted), NEW i \in 1..Len(s.runs)
  PROVE  i = 1 /\ Len(s.runs) = 1 /\ RemoveAt(s.runs, i) = <<>> /\ s.runs[1].entry \in LogCalls
<1>1. s.runs \in Seq(RunSet)
  BY DEF LinesSet
<1>2. i = 1 /\ Len(s.runs) = 1
  <2>1. Len(s.runs) <= 1
    BY DEF Placed
  <2>2. Len(s.runs) \in Nat
    BY <1>1
  <2>3. \A n \in Nat : n <= 1 => \A j \in 1..n : j = 1 /\ n = 1
    OBVIOUS
  <2> QED
    BY <2>1, <2>2, <2>3
<1>3. s.runs[1] \in RunSet
  BY <1>1, <1>2
<1>4. SubSeq(s.runs, 1, 0) = <<>> /\ SubSeq(s.runs, 2, 1) = <<>>
  BY SubSeqEmpty
<1>5. RemoveAt(s.runs, 1) = <<>>
  BY <1>2, <1>4 DEF RemoveAt
<1> QED
  BY <1>2, <1>3, <1>5 DEF RunSet

\* It is logged: behind those accepted before it.
LEMMA EntryLogged ==
  ASSUME NEW s \in LinesSet, NEW t \in LinesSet, NEW accepted, Placed(s, accepted), Len(s.runs) = 1,
         NEW e \in LogCalls, e = s.runs[1].entry,
         t.runs = <<>>, t.queue = s.queue, t.logged = Append(s.logged, e),
         t.dropped = s.dropped, t.thrown = s.thrown
  PROVE  Placed(t, accepted) /\ (Ordered(s, accepted) => Ordered(t, accepted))
<1> DEFINE n == Len(s.logged)
<1>1. s.logged \in Seq(LogCalls)
  BY DEF LinesSet
<1>2. /\ Len(t.logged) = n + 1 /\ n \in Nat /\ t.logged[n + 1] = e
      /\ \A j \in 1..n : t.logged[j] = s.logged[j] /\ j \in 1..(n + 1)
      /\ \A j \in 1..(n + 1) : j \in 1..n \/ j = n + 1
      /\ n + 1 \in 1..(n + 1)
  BY <1>1, PushFacts
<1>3. 1 \in 1..Len(s.runs) /\ \A k \in 1..Len(s.runs) : k = 1
  OBVIOUS
<1>4. /\ \A i \in 1..Len(s.queue) : s.queue[i] # e /\ s.queue[i] \notin s.dropped \cup s.thrown
      /\ \A j \in 1..n : s.logged[j] # e /\ s.logged[j] \notin s.dropped \cup s.thrown
      /\ e \notin s.dropped \cup s.thrown
  BY <1>3 DEF Placed
<1>5. Placed(t, accepted)
  <2>1. \A i, j \in 1..Len(t.logged) : t.logged[i] = t.logged[j] => i = j
    BY <1>2, <1>4 DEF Placed
  <2>2. \A c \in LogCalls : (\E j \in 1..Len(t.logged) : t.logged[j] = c) <=>
                              c = e \/ \E j \in 1..n : s.logged[j] = c
    BY <1>2
  <2>3. \A c \in LogCalls : (\E k \in 1..Len(s.runs) : s.runs[k].entry = c) <=> c = e
    BY <1>3
  <2>4. \A c \in LogCalls :
          (\E a \in 1..Len(accepted) : accepted[a] = c) <=>
            \/ \E i \in 1..Len(t.queue) : t.queue[i] = c
            \/ \E j \in 1..Len(t.logged) : t.logged[j] = c
            \/ \E k \in 1..Len(t.runs) : t.runs[k].entry = c
            \/ c \in t.dropped \/ c \in t.thrown
    <3>1. \A c \in LogCalls : ~\E k \in 1..Len(t.runs) : t.runs[k].entry = c
      OBVIOUS
    <3> QED
      BY <2>2, <2>3, <3>1 DEF Placed
  <2>5. /\ \A i \in 1..Len(t.queue), j \in 1..Len(t.logged) : t.queue[i] # t.logged[j]
        /\ \A j \in 1..Len(t.logged) : t.logged[j] \notin t.dropped \cup t.thrown
    BY <1>2, <1>4 DEF Placed
  <2>6. /\ Len(t.runs) <= 1
        /\ \A i \in 1..Len(t.queue), k \in 1..Len(t.runs) : t.queue[i] # t.runs[k].entry
        /\ \A j \in 1..Len(t.logged), k \in 1..Len(t.runs) : t.logged[j] # t.runs[k].entry
        /\ \A k \in 1..Len(t.runs) : t.runs[k].entry \notin t.dropped \cup t.thrown
    OBVIOUS
  <2> QED
    BY <2>1, <2>4, <2>5, <2>6 DEF Placed
<1>6. ASSUME Ordered(s, accepted) PROVE Ordered(t, accepted)
  <2>1. \A j \in 1..n : Earlier(accepted, s.logged[j], e)
    BY <1>3, <1>6 DEF Ordered
  <2>2. \A i \in 1..Len(s.queue) : Earlier(accepted, e, s.queue[i])
    BY <1>3, <1>6 DEF Ordered
  <2>3. \A i, j \in 1..Len(t.logged) : i < j => i \in 1..n /\ (j \in 1..n \/ j = n + 1)
    BY <1>2
  <2>4. \A i, j \in 1..Len(t.logged) : i < j => Earlier(accepted, t.logged[i], t.logged[j])
    BY <1>2, <1>6, <2>1, <2>3 DEF Ordered
  <2>5. \A i \in 1..Len(t.queue), j \in 1..Len(t.logged) : Earlier(accepted, t.logged[j], t.queue[i])
    BY <1>2, <1>6, <2>2 DEF Ordered
  <2>6. /\ \A i \in 1..Len(t.queue), k \in 1..Len(t.runs) :
             Earlier(accepted, t.runs[k].entry, t.queue[i])
        /\ \A j \in 1..Len(t.logged), k \in 1..Len(t.runs) :
             Earlier(accepted, t.logged[j], t.runs[k].entry)
    OBVIOUS
  <2> QED
    BY <1>6, <2>4, <2>5, <2>6 DEF Ordered
<1> QED
  BY <1>5, <1>6

\* It is queued again: behind the others, so the order is lost.
LEMMA EntryRequeued ==
  ASSUME NEW s \in LinesSet, NEW t \in LinesSet, NEW accepted, Placed(s, accepted), Len(s.runs) = 1,
         NEW e \in LogCalls, e = s.runs[1].entry,
         t.runs = <<>>, t.queue = Append(s.queue, e), t.logged = s.logged,
         t.dropped = s.dropped, t.thrown = s.thrown
  PROVE  Placed(t, accepted)
<1> DEFINE n == Len(s.queue)
<1>1. s.queue \in Seq(LogCalls)
  BY DEF LinesSet
<1>2. /\ Len(t.queue) = n + 1 /\ n \in Nat /\ t.queue[n + 1] = e
      /\ \A j \in 1..n : t.queue[j] = s.queue[j] /\ j \in 1..(n + 1)
      /\ \A j \in 1..(n + 1) : j \in 1..n \/ j = n + 1
      /\ n + 1 \in 1..(n + 1)
  BY <1>1, PushFacts
<1>3. 1 \in 1..Len(s.runs) /\ \A k \in 1..Len(s.runs) : k = 1
  OBVIOUS
<1>4. /\ \A i \in 1..n : s.queue[i] # e /\ s.queue[i] \notin s.dropped \cup s.thrown
      /\ \A j \in 1..Len(s.logged) : s.logged[j] # e
      /\ e \notin s.dropped \cup s.thrown
  BY <1>3 DEF Placed
<1>5. \A i, j \in 1..Len(t.queue) : t.queue[i] = t.queue[j] => i = j
  BY <1>2, <1>4 DEF Placed
<1>6. \A c \in LogCalls : (\E j \in 1..Len(t.queue) : t.queue[j] = c) <=>
                            c = e \/ \E j \in 1..n : s.queue[j] = c
  BY <1>2
<1>7. \A c \in LogCalls : (\E k \in 1..Len(s.runs) : s.runs[k].entry = c) <=> c = e
  BY <1>3
<1>8. \A c \in LogCalls :
        (\E a \in 1..Len(accepted) : accepted[a] = c) <=>
          \/ \E i \in 1..Len(t.queue) : t.queue[i] = c
          \/ \E j \in 1..Len(t.logged) : t.logged[j] = c
          \/ \E k \in 1..Len(t.runs) : t.runs[k].entry = c
          \/ c \in t.dropped \/ c \in t.thrown
  <2>1. \A c \in LogCalls : ~\E k \in 1..Len(t.runs) : t.runs[k].entry = c
    OBVIOUS
  <2> QED
    BY <1>6, <1>7, <2>1 DEF Placed
<1>9. /\ \A i \in 1..Len(t.queue), j \in 1..Len(t.logged) : t.queue[i] # t.logged[j]
      /\ \A i \in 1..Len(t.queue) : t.queue[i] \notin t.dropped \cup t.thrown
  BY <1>2, <1>4 DEF Placed
<1>10. /\ Len(t.runs) <= 1
       /\ \A i \in 1..Len(t.queue), k \in 1..Len(t.runs) : t.queue[i] # t.runs[k].entry
       /\ \A j \in 1..Len(t.logged), k \in 1..Len(t.runs) : t.logged[j] # t.runs[k].entry
       /\ \A k \in 1..Len(t.runs) : t.runs[k].entry \notin t.dropped \cup t.thrown
  OBVIOUS
<1>11. /\ \A i, j \in 1..Len(accepted) : accepted[i] = accepted[j] => i = j
       /\ \A i, j \in 1..Len(t.logged) : t.logged[i] = t.logged[j] => i = j
       /\ \A j \in 1..Len(t.logged) : t.logged[j] \notin t.dropped \cup t.thrown
  BY DEF Placed
<1> HIDE DEF n
<1> QED
  BY <1>5, <1>8, <1>9, <1>10, <1>11 DEF Placed

\* It is dropped or thrown.
LEMMA EntryDropped ==
  ASSUME NEW s \in LinesSet, NEW t \in LinesSet, NEW accepted, Placed(s, accepted), Len(s.runs) = 1,
         NEW e \in LogCalls, e = s.runs[1].entry,
         t.runs = <<>>, t.queue = s.queue, t.logged = s.logged,
         t.dropped \cup t.thrown = s.dropped \cup s.thrown \cup {e}
  PROVE  Placed(t, accepted) /\ (Ordered(s, accepted) => Ordered(t, accepted))
<1>1. 1 \in 1..Len(s.runs) /\ \A k \in 1..Len(s.runs) : k = 1
  OBVIOUS
<1>2. /\ \A i \in 1..Len(t.queue) : t.queue[i] \notin t.dropped \cup t.thrown
      /\ \A j \in 1..Len(t.logged) : t.logged[j] \notin t.dropped \cup t.thrown
  <2>1. /\ \A i \in 1..Len(s.queue) : s.queue[i] \notin s.dropped \cup s.thrown /\ s.queue[i] # e
        /\ \A j \in 1..Len(s.logged) : s.logged[j] \notin s.dropped \cup s.thrown /\ s.logged[j] # e
    BY <1>1 DEF Placed
  <2> QED
    BY <2>1
<1>3. \A c \in LogCalls : (\E k \in 1..Len(s.runs) : s.runs[k].entry = c) <=> c = e
  BY <1>1
<1>4. \A c \in LogCalls :
        (\E a \in 1..Len(accepted) : accepted[a] = c) <=>
          \/ \E i \in 1..Len(t.queue) : t.queue[i] = c
          \/ \E j \in 1..Len(t.logged) : t.logged[j] = c
          \/ \E k \in 1..Len(t.runs) : t.runs[k].entry = c
          \/ c \in t.dropped \/ c \in t.thrown
  <2>1. \A c \in LogCalls : ~\E k \in 1..Len(t.runs) : t.runs[k].entry = c
    OBVIOUS
  <2>2. \A c \in LogCalls : c \in t.dropped \/ c \in t.thrown <=> c \in s.dropped \/ c \in s.thrown \/ c = e
    OBVIOUS
  <2> QED
    BY <1>3, <2>1, <2>2 DEF Placed
<1>5. Placed(t, accepted)
  <2>1. /\ \A i, j \in 1..Len(accepted) : accepted[i] = accepted[j] => i = j
        /\ \A i, j \in 1..Len(t.queue) : t.queue[i] = t.queue[j] => i = j
        /\ \A i, j \in 1..Len(t.logged) : t.logged[i] = t.logged[j] => i = j
        /\ \A i \in 1..Len(t.queue), j \in 1..Len(t.logged) : t.queue[i] # t.logged[j]
    BY DEF Placed
  <2>2. /\ Len(t.runs) <= 1
        /\ \A i \in 1..Len(t.queue), k \in 1..Len(t.runs) : t.queue[i] # t.runs[k].entry
        /\ \A j \in 1..Len(t.logged), k \in 1..Len(t.runs) : t.logged[j] # t.runs[k].entry
        /\ \A k \in 1..Len(t.runs) : t.runs[k].entry \notin t.dropped \cup t.thrown
    OBVIOUS
  <2> QED
    BY <1>2, <1>4, <2>1, <2>2 DEF Placed
<1>6. Ordered(s, accepted) => Ordered(t, accepted)
  BY DEF Ordered
<1> QED
  BY <1>5, <1>6

\* The open steps with a message, and where on the stack steps with it are.
OpenAlike(message) == {d \in LogSteps : StepMessage[d] = message /\ stepCall[d] = "open"}
OnStack(message) == {i \in 1..Len(steps) : StepMessage[steps[i]] = message}

\* The types, for any number of failures.
LoggerTyped ==
  /\ numberOfRetries \in 0..MaxRetries /\ awaited \in BOOLEAN /\ failures \in Nat
  /\ onErrorFailed \in BOOLEAN /\ lines \in LinesSet /\ reported \in Seq(LogCalls)
  /\ steps \in Seq(LogSteps) /\ stepCall \in [LogSteps -> {"new", "open", "over"}]

\* What becomes of entries; an error that nobody handles has ended the run of the queue,
\* and entries are dropped and thrown after more failures than retries, or thrown as the
\* hook of onError has rejected.
EntriesKept ==
  /\ Placed(lines, reported) /\ Running(lines) /\ Counted(lines)
  /\ numberOfRetries = 0 => Ordered(lines, reported)
  /\ lines.thrown # {} => lines.runs = <<>>
  /\ failures <= numberOfRetries => lines.dropped = {} /\ (lines.thrown # {} => onErrorFailed)

\* Steps that are awaited are on the stack once each, while they are open; of steps with
\* one message no more are on it than are open.
StackKept ==
  /\ awaited => /\ \A i, j \in 1..Len(steps) : steps[i] = steps[j] => i = j
                /\ \A i \in 1..Len(steps) : stepCall[steps[i]] = "open"
                /\ \A c \in LogSteps : stepCall[c] = "open" => \E i \in 1..Len(steps) : steps[i] = c
  /\ \A c \in LogSteps :
       Cardinality(OnStack(StepMessage[c])) <= Cardinality(OpenAlike(StepMessage[c]))

\* The inductive invariant of the logger.
LoggerInv == LoggerTyped /\ EntriesKept /\ StackKept

-----------------------------------------------------------------------------

\* It holds at the start.
LEMMA LoggerStarts == LoggerInit => LoggerInv
<1> SUFFICES ASSUME LoggerInit PROVE LoggerInv
  OBVIOUS
<1>1. /\ lines = [queue |-> <<>>, status |-> "EMPTY", runs |-> <<>>, logged |-> <<>>,
                  dropped |-> {}, thrown |-> {}]
      /\ reported = <<>> /\ steps = <<>> /\ failures = 0 /\ onErrorFailed = FALSE
      /\ numberOfRetries \in 0..MaxRetries /\ awaited \in BOOLEAN
      /\ stepCall = [c \in LogSteps |-> "new"]
  BY DEF LoggerInit
<1>2. LoggerTyped
  <2>1. lines \in LinesSet /\ reported \in Seq(LogCalls) /\ steps \in Seq(LogSteps)
    BY <1>1 DEF LinesSet
  <2> QED
    BY <1>1, <2>1 DEF LoggerTyped
<1>3. Placed(lines, reported)
  BY <1>1 DEF Placed
<1>4. Running(lines) /\ Counted(lines) /\ Ordered(lines, reported)
  BY <1>1 DEF Running, Counted, Ordered
<1>5. EntriesKept
  BY <1>1, <1>3, <1>4 DEF EntriesKept
<1>6. \A message : OnStack(message) = {} /\ OpenAlike(message) = {}
  BY <1>1 DEF OnStack, OpenAlike
<1>7. StackKept
  <2>1. \A c \in LogSteps :
          Cardinality(OnStack(StepMessage[c])) <= Cardinality(OpenAlike(StepMessage[c]))
    BY <1>6, FS_EmptySet
  <2> QED
    BY <1>1, <2>1 DEF StackKept
<1> QED
  BY <1>2, <1>5, <1>7 DEF LoggerInv

\* What runQueue() makes of the server keeps the entries, when the entry it has taken may
\* be tried as often as its caller says.
LEMMA QueueIsRun ==
  ASSUME NEW s, NEW retry \in 0..MaxRetries, LoggerTyped,
         UNCHANGED <<numberOfRetries, failures>>,
         QueueRun(s, lines', reported', retry), s.thrown = {},
         retry <= numberOfRetries, failures >= numberOfRetries - retry,
         numberOfRetries = 0 => Ordered(s, reported'),
         failures <= numberOfRetries => s.dropped = {}
  PROVE  EntriesKept' /\ lines' \in LinesSet
<1>1. /\ lines' \in LinesSet /\ Placed(lines', reported') /\ Running(lines')
      /\ lines'.dropped = s.dropped /\ lines'.thrown = {}
      /\ numberOfRetries = 0 => Ordered(lines', reported')
  BY DEF QueueRun
<1>2. lines'.runs = <<>> \/ \E e \in LogCalls :
                              lines'.runs = <<[entry |-> e, retry |-> retry, at |-> "beforeLog"]>>
  BY DEF QueueRun
<1>3. numberOfRetries \in Nat /\ failures \in Nat
  BY DEF LoggerTyped
<1>4. Counted(lines)'
  <2>1. CASE lines'.runs = <<>>
    BY <2>1 DEF Counted
  <2>2. ASSUME NEW e \in LogCalls, lines'.runs = <<[entry |-> e, retry |-> retry, at |-> "beforeLog"]>>
        PROVE  Counted(lines)'
    <3>1. \A k \in 1..Len(lines'.runs) : lines'.runs[k].retry = retry /\ lines'.runs[k].at = "beforeLog"
      BY <2>2
    <3> QED
      BY <1>3, <3>1 DEF Counted
  <2> QED
    BY <1>2, <2>1, <2>2
<1> QED
  BY <1>1, <1>4 DEF EntriesKept

\* A client's entry.
LEMMA ReportKeeps ==
  ASSUME LoggerInv, NEW c \in LogCalls, Report(c)
  PROVE  EntriesKept' /\ LoggerTyped'
<1> USE LoggerAssumption
<1>1. /\ UNCHANGED <<numberOfRetries, awaited, steps, stepCall, failures, onErrorFailed>> /\ lines.thrown = {}
      /\ c \notin ToSet(reported)
  BY DEF Report, loggerModes, faults, Ended
<1>2. LoggerTyped /\ EntriesKept
  BY DEF LoggerInv
<1>3. CASE UNCHANGED <<lines, reported>>
  BY <1>1, <1>2, <1>3 DEF LoggerTyped, EntriesKept, Counted
<1>4. CASE lines' = Log(lines, c) /\ reported' = Append(reported, c)
  <2> DEFINE t == [lines EXCEPT !.queue = Append(@, c)]
  <2>1. lines \in LinesSet /\ reported \in Seq(LogCalls) /\ reported' \in Seq(LogCalls)
    BY <1>2, <1>4 DEF LoggerTyped
  <2>2. \A a \in 1..Len(reported) : reported[a] # c
    BY <1>1, <2>1 DEF ToSet
  <2>3. /\ t \in LinesSet /\ t.runs = lines.runs /\ t.status = lines.status
        /\ t.dropped = lines.dropped /\ t.thrown = lines.thrown
        /\ Placed(t, reported')
        /\ Ordered(lines, reported) => Ordered(t, reported')
    <3>1. Placed(lines, reported)
      BY <1>2 DEF EntriesKept
    <3> QED
      BY <1>4, <2>1, <2>2, <3>1, EntryQueued
  <2>4. lines' = IF lines.status = "RUNNING" THEN t ELSE RunQueue(t, numberOfRetries)
    BY <1>4 DEF Log
  <2> HIDE DEF t
  <2>5. CASE lines.status = "RUNNING"
    <3>1. lines' = t
      BY <2>4, <2>5
    <3>2. Running(lines')
      BY <1>2, <2>3, <2>5, <3>1 DEF Running, EntriesKept
    <3>3. Counted(lines)'
      BY <1>1, <1>2, <2>3, <3>1 DEF Counted, EntriesKept
    <3>4. EntriesKept'
      BY <1>1, <1>2, <2>3, <3>1, <3>2, <3>3 DEF EntriesKept
    <3> QED
      BY <1>1, <1>2, <2>1, <2>3, <3>1, <3>4 DEF LoggerTyped
  <2>6. CASE lines.status # "RUNNING"
    <3>1. lines' = RunQueue(t, numberOfRetries) /\ numberOfRetries \in 0..MaxRetries
      BY <1>2, <2>4, <2>6 DEF LoggerTyped
    <3>2. lines.runs = <<>> /\ t.runs = <<>> /\ t.thrown = {}
      BY <1>2, <2>3, <2>6 DEF Running, EntriesKept
    <3>3. QueueRun(t, lines', reported', numberOfRetries)
      BY <2>3, <3>1, <3>2, RunQueueKeeps
    <3>4. EntriesKept' /\ lines' \in LinesSet
      <4>1. /\ numberOfRetries = 0 => Ordered(t, reported')
            /\ failures <= numberOfRetries => t.dropped = {}
            /\ failures >= numberOfRetries - numberOfRetries /\ numberOfRetries <= numberOfRetries
        BY <1>2, <2>3 DEF EntriesKept, LoggerTyped
      <4> QED
        BY <1>1, <1>2, <3>1, <3>2, <3>3, <4>1, QueueIsRun
    <3> QED
      BY <1>1, <1>2, <2>1, <3>4 DEF LoggerTyped
  <2> QED
    BY <2>5, <2>6
<1> QED
  BY <1>3, <1>4 DEF Report

\* No run of the queue.
LEMMA NoRuns == <<>> \in Seq(RunSet)
OBVIOUS

\* A plugin goes on with the entry, or asks onError: s with the run i at place.
Placing(s, i, place) == [s EXCEPT !.runs[i].at = place]

\* What that leaves alone.
EntryMoved(s, t, accepted, place) ==
  /\ t \in LinesSet /\ Placed(t, accepted) /\ t.thrown = s.thrown /\ t.dropped = s.dropped
  /\ Ordered(s, accepted) => Ordered(t, accepted)
  /\ Running(s) => Running(t)
  /\ Len(t.runs) = 1 /\ t.runs[1].at = place /\ t.runs[1].retry = s.runs[1].retry

\* An entry stays with the plugins.
LEMMA EntryMoves ==
  ASSUME NEW s \in LinesSet, NEW t, NEW accepted, NEW i \in 1..Len(s.runs), Placed(s, accepted),
         NEW place \in {"onLog", "onError"}, t = Placing(s, i, place)
  PROVE  EntryMoved(s, t, accepted, place)
<1>1. i = 1 /\ Len(s.runs) = 1 /\ s.runs[1].entry \in LogCalls
  BY EntryLeaves
<1>2. s.runs \in Seq(RunSet) /\ s.runs[1] \in RunSet
  BY <1>1 DEF LinesSet
<1> DEFINE r == [s.runs[1] EXCEPT !.at = place]
<1>3. r \in RunSet /\ r.entry = s.runs[1].entry /\ r.retry = s.runs[1].retry /\ r.at = place
  BY <1>2 DEF RunSet
<1>4. t = [s EXCEPT !.runs = [s.runs EXCEPT ![1] = r]]
  BY <1>1 DEF Placing
<1> HIDE DEF r
<1>5. [s.runs EXCEPT ![1] = r] \in Seq(RunSet) /\ Len([s.runs EXCEPT ![1] = r]) = 1
      /\ [s.runs EXCEPT ![1] = r][1] = r
  BY <1>1, <1>2, <1>3
<1>6. /\ t \in LinesSet /\ Len(t.runs) = 1 /\ t.runs[1] = r
      /\ t.queue = s.queue /\ t.logged = s.logged /\ t.dropped = s.dropped
      /\ t.thrown = s.thrown /\ t.status = s.status
  BY <1>4, <1>5 DEF LinesSet
<1> HIDE DEF r
<1>7. Len(t.runs) = Len(s.runs) /\ \A k \in 1..Len(s.runs) : t.runs[k].entry = s.runs[k].entry
  BY <1>1, <1>3, <1>6
<1>8. Placed(t, accepted)
  <2>1. /\ \A k, j \in 1..Len(accepted) : accepted[k] = accepted[j] => k = j
        /\ Len(t.runs) <= 1
        /\ \A k, j \in 1..Len(t.queue) : t.queue[k] = t.queue[j] => k = j
        /\ \A k, j \in 1..Len(t.logged) : t.logged[k] = t.logged[j] => k = j
        /\ \A k \in 1..Len(t.queue), j \in 1..Len(t.logged) : t.queue[k] # t.logged[j]
    BY <1>6 DEF Placed
  <2>2. /\ \A h \in 1..Len(t.queue), k \in 1..Len(t.runs) : t.queue[h] # t.runs[k].entry
        /\ \A j \in 1..Len(t.logged), k \in 1..Len(t.runs) : t.logged[j] # t.runs[k].entry
        /\ \A k \in 1..Len(t.runs) : t.runs[k].entry \notin t.dropped \cup t.thrown
    BY <1>6, <1>7 DEF Placed
  <2>3. /\ \A h \in 1..Len(t.queue) : t.queue[h] \notin t.dropped \cup t.thrown
        /\ \A j \in 1..Len(t.logged) : t.logged[j] \notin t.dropped \cup t.thrown
    BY <1>6 DEF Placed
  <2>4. \A c \in LogCalls : (\E k \in 1..Len(t.runs) : t.runs[k].entry = c) <=>
                              (\E k \in 1..Len(s.runs) : s.runs[k].entry = c)
    BY <1>7
  <2>5. \A c \in LogCalls :
          (\E a \in 1..Len(accepted) : accepted[a] = c) <=>
            \/ \E h \in 1..Len(t.queue) : t.queue[h] = c
            \/ \E j \in 1..Len(t.logged) : t.logged[j] = c
            \/ \E k \in 1..Len(t.runs) : t.runs[k].entry = c
            \/ c \in t.dropped \/ c \in t.thrown
    BY <1>6, <2>4 DEF Placed
  <2> QED
    BY <2>1, <2>2, <2>3, <2>5 DEF Placed
<1>9. Ordered(s, accepted) => Ordered(t, accepted)
  BY <1>6, <1>7 DEF Ordered
<1>10. Running(s) => Running(t)
  <2>1. s.runs # <<>> /\ t.runs # <<>>
    BY <1>1, <1>6
  <2> QED
    BY <1>6, <2>1 DEF Running
<1> QED
  BY <1>1, <1>3, <1>6, <1>8, <1>9, <1>10 DEF EntryMoved

\* What the invariant says of the entry that the plugins have.
LEMMA WithPlugins ==
  ASSUME LoggerInv, NEW i \in 1..Len(lines.runs)
  PROVE  /\ LoggerTyped /\ EntriesKept /\ lines \in LinesSet /\ Placed(lines, reported)
         /\ i = 1 /\ Len(lines.runs) = 1 /\ RemoveAt(lines.runs, i) = <<>>
         /\ lines.runs[1].entry \in LogCalls /\ lines.runs[1].retry \in 0..MaxRetries
         /\ lines.runs[1].retry <= numberOfRetries
         /\ failures >= numberOfRetries - lines.runs[1].retry
                          + (IF lines.runs[1].at = "onError" THEN 1 ELSE 0)
         /\ Without(i) \in LinesSet
         /\ Without(i) = [lines EXCEPT !.runs = <<>>]
         /\ lines.thrown = {}
<1>1. LoggerTyped /\ EntriesKept /\ lines \in LinesSet /\ Placed(lines, reported)
  BY DEF LoggerInv, LoggerTyped, EntriesKept
<1>2. /\ i = 1 /\ Len(lines.runs) = 1 /\ RemoveAt(lines.runs, i) = <<>>
      /\ lines.runs[1].entry \in LogCalls
  BY <1>1, EntryLeaves
<1>3. lines.runs \in Seq(RunSet) /\ lines.runs[1] \in RunSet
  BY <1>1, <1>2 DEF LinesSet
<1>4. Counted(lines) /\ 1 \in 1..Len(lines.runs) /\ lines.thrown = {}
  BY <1>1, <1>2 DEF EntriesKept
<1>5. Without(i) = [lines EXCEPT !.runs = <<>>]
  BY <1>2 DEF Without
<1>6. Without(i) \in LinesSet
  BY <1>1, <1>5, NoRuns DEF LinesSet
<1> QED
  BY <1>1, <1>2, <1>3, <1>4, <1>5, <1>6 DEF Counted, RunSet

\* A plugin's hook.
LEMMA HookedKeeps ==
  ASSUME LoggerInv, NEW i \in 1..Len(lines.runs), Hooked(i)
  PROVE  EntriesKept' /\ LoggerTyped'
<1> USE LoggerAssumption
<1> DEFINE e == lines.runs[1].entry
<1>1. UNCHANGED <<numberOfRetries, awaited, steps, stepCall, failures, onErrorFailed, reported>>
  BY DEF Hooked, loggerModes, faults
<1>2. /\ LoggerTyped /\ EntriesKept /\ lines \in LinesSet /\ Placed(lines, reported)
      /\ i = 1 /\ Len(lines.runs) = 1 /\ e \in LogCalls
      /\ lines.runs[1].retry \in 0..MaxRetries /\ lines.runs[1].retry <= numberOfRetries
      /\ failures >= numberOfRetries - lines.runs[1].retry
      /\ Without(i) = [lines EXCEPT !.runs = <<>>] /\ lines.thrown = {}
      /\ numberOfRetries \in 0..MaxRetries /\ failures \in Nat
  BY WithPlugins DEF LoggerTyped
<1>3. CASE lines.runs[i].at = "beforeLog" /\ At(i, "onLog")
  <2>1. lines' = Placing(lines, i, "onLog")
    BY <1>3 DEF At, Placing
  <2>2. /\ lines' \in LinesSet /\ Placed(lines', reported)
        /\ lines'.thrown = lines.thrown /\ lines'.dropped = lines.dropped
        /\ Ordered(lines, reported) => Ordered(lines', reported)
        /\ Running(lines) => Running(lines')
        /\ Len(lines'.runs) = 1 /\ lines'.runs[1].at = "onLog"
        /\ lines'.runs[1].retry = lines.runs[1].retry
    <3>1. EntryMoved(lines, lines', reported, "onLog")
      BY <1>2, <2>1, EntryMoves
    <3> QED
      BY <3>1 DEF EntryMoved
  <2>3. Counted(lines)'
    BY <1>1, <1>2, <2>2 DEF Counted
  <2>4. EntriesKept'
    BY <1>1, <1>2, <2>2, <2>3 DEF EntriesKept
  <2> QED
    BY <1>1, <1>2, <2>2, <2>4 DEF LoggerTyped
<1>4. CASE lines' = RunQueue([Without(i) EXCEPT !.logged = Append(@, lines.runs[i].entry)], numberOfRetries)
  <2> DEFINE t == [lines EXCEPT !.runs = <<>>, !.logged = Append(lines.logged, e)]
  <2>1. lines' = RunQueue(t, numberOfRetries)
    BY <1>2, <1>4 DEF LinesSet
  <2>2. Append(lines.logged, e) \in Seq(LogCalls)
    BY <1>2 DEF LinesSet
  <2>3. /\ t \in LinesSet /\ t.runs = <<>> /\ t.queue = lines.queue
        /\ t.logged = Append(lines.logged, e) /\ t.dropped = lines.dropped /\ t.thrown = lines.thrown
    BY <1>2, <2>2, NoRuns DEF LinesSet
  <2> HIDE DEF t
  <2>4. Placed(t, reported) /\ (Ordered(lines, reported) => Ordered(t, reported))
    BY <1>2, <2>3, EntryLogged
  <2>5. QueueRun(t, lines', reported', numberOfRetries)
    BY <1>1, <1>2, <2>1, <2>3, <2>4, RunQueueKeeps
  <2>6. /\ numberOfRetries = 0 => Ordered(t, reported')
        /\ failures <= numberOfRetries => t.dropped = {}
        /\ failures >= numberOfRetries - numberOfRetries /\ numberOfRetries <= numberOfRetries
    BY <1>1, <1>2, <2>3, <2>4 DEF EntriesKept
  <2>7. EntriesKept' /\ lines' \in LinesSet
    BY <1>1, <1>2, <2>3, <2>5, <2>6, QueueIsRun
  <2> QED
    BY <1>1, <1>2, <2>7 DEF LoggerTyped
<1> QED
  BY <1>3, <1>4 DEF Hooked

\* It rejects.
LEMMA HookFailedKeeps ==
  ASSUME LoggerInv, NEW i \in 1..Len(lines.runs), HookFailed(i)
  PROVE  EntriesKept' /\ LoggerTyped'
<1> USE LoggerAssumption
<1>1. /\ UNCHANGED <<numberOfRetries, awaited, steps, stepCall, reported, onErrorFailed>>
      /\ failures' = failures + 1 /\ lines.runs[i].at \in {"beforeLog", "onLog"}
      /\ lines' = Placing(lines, i, "onError")
  BY DEF HookFailed, loggerModes, At, Placing
<1>2. /\ LoggerTyped /\ EntriesKept /\ lines \in LinesSet /\ Placed(lines, reported)
      /\ i = 1 /\ Len(lines.runs) = 1
      /\ lines.runs[1].retry \in 0..MaxRetries /\ lines.runs[1].retry <= numberOfRetries
      /\ failures >= numberOfRetries - lines.runs[1].retry
      /\ lines.thrown = {}
      /\ numberOfRetries \in 0..MaxRetries /\ failures \in Nat
  BY WithPlugins DEF LoggerTyped
<1>3. /\ lines' \in LinesSet /\ Placed(lines', reported)
      /\ lines'.thrown = lines.thrown /\ lines'.dropped = lines.dropped
      /\ Ordered(lines, reported) => Ordered(lines', reported)
      /\ Running(lines) => Running(lines')
      /\ Len(lines'.runs) = 1 /\ lines'.runs[1].at = "onError"
      /\ lines'.runs[1].retry = lines.runs[1].retry
  <2>1. EntryMoved(lines, lines', reported, "onError")
    BY <1>1, <1>2, EntryMoves
  <2> QED
    BY <2>1 DEF EntryMoved
<1>4. Counted(lines)'
  BY <1>1, <1>2, <1>3 DEF Counted
<1>5. EntriesKept'
  BY <1>1, <1>2, <1>3, <1>4 DEF EntriesKept
<1> QED
  BY <1>1, <1>2, <1>3, <1>5 DEF LoggerTyped

\* After onError.
LEMMA ErrorToldKeeps ==
  ASSUME LoggerInv, NEW i \in 1..Len(lines.runs), ErrorTold(i)
  PROVE  EntriesKept' /\ LoggerTyped'
<1> USE LoggerAssumption
<1> DEFINE e == lines.runs[1].entry
           retry == lines.runs[1].retry
           told == lines' = IF MayRetry(lines.runs[i]) THEN Retried(Without(i), lines.runs[i])
                            ELSE IF shouldSkip
                            THEN RunQueue([Without(i) EXCEPT !.dropped = @ \cup {lines.runs[i].entry}],
                                          numberOfRetries)
                            ELSE Thrown(i)
<1>1. /\ UNCHANGED <<numberOfRetries, awaited, steps, stepCall, failures, reported>>
      /\ lines.runs[i].at = "onError" /\ onErrorFailed' \in BOOLEAN
  <2>1. onErrorFailed \in BOOLEAN
    BY DEF LoggerInv, LoggerTyped
  <2> QED
    BY <2>1 DEF ErrorTold, loggerModes
<1>2. /\ LoggerTyped /\ EntriesKept /\ lines \in LinesSet /\ Placed(lines, reported)
      /\ i = 1 /\ Len(lines.runs) = 1 /\ e \in LogCalls
      /\ retry \in 0..MaxRetries /\ retry <= numberOfRetries
      /\ failures >= numberOfRetries - retry + 1
      /\ Without(i) = [lines EXCEPT !.runs = <<>>] /\ lines.thrown = {}
      /\ numberOfRetries \in 0..MaxRetries /\ failures \in Nat
  BY <1>1, WithPlugins DEF LoggerTyped
<1>3. ASSUME lines' = Thrown(i), failures <= numberOfRetries => onErrorFailed'
      PROVE  EntriesKept' /\ LoggerTyped'
  <2>1. lines' = [lines EXCEPT !.runs = <<>>, !.thrown = lines.thrown \cup {e}]
    BY <1>2, <1>3 DEF Thrown, LinesSet
  <2>2. /\ lines' \in LinesSet /\ lines'.runs = <<>> /\ lines'.queue = lines.queue
        /\ lines'.logged = lines.logged /\ lines'.dropped = lines.dropped
        /\ lines'.thrown = lines.thrown \cup {e} /\ lines'.status = lines.status
        /\ lines'.dropped \cup lines'.thrown = lines.dropped \cup lines.thrown \cup {e}
    BY <1>2, <2>1, NoRuns DEF LinesSet
  <2>3. Placed(lines', reported) /\ (Ordered(lines, reported) => Ordered(lines', reported))
    BY <1>2, <2>2, EntryDropped
  <2>4. Running(lines')
    <3>1. lines.status = "RUNNING"
      BY <1>2 DEF EntriesKept, Running
    <3> QED
      BY <2>2, <3>1 DEF Running
  <2>5. Counted(lines)'
    BY <2>2 DEF Counted
  <2>6. EntriesKept'
    BY <1>1, <1>2, <1>3, <2>2, <2>3, <2>4, <2>5 DEF EntriesKept
  <2> QED
    BY <1>1, <1>2, <2>2, <2>6 DEF LoggerTyped
<1>4. CASE told /\ retry > 0
  <2> DEFINE t == [lines EXCEPT !.runs = <<>>, !.queue = Append(lines.queue, e)]
  <2>1. lines' = RunQueue(t, retry - 1)
    <3>1. MayRetry(lines.runs[i])
      BY <1>2, <1>4 DEF MayRetry
    <3>2. lines' = Retried(Without(i), lines.runs[i])
      BY <1>4, <3>1
    <3> QED
      BY <1>2, <3>2 DEF Retried, LinesSet
  <2>2. Append(lines.queue, e) \in Seq(LogCalls)
    BY <1>2 DEF LinesSet
  <2>3. /\ t \in LinesSet /\ t.runs = <<>> /\ t.queue = Append(lines.queue, e)
        /\ t.logged = lines.logged /\ t.dropped = lines.dropped /\ t.thrown = lines.thrown
    BY <1>2, <2>2, NoRuns DEF LinesSet
  <2> HIDE DEF t
  <2>4. Placed(t, reported)
    BY <1>2, <2>3, EntryRequeued
  <2>5. /\ retry - 1 \in 0..MaxRetries /\ retry - 1 <= numberOfRetries
        /\ failures >= numberOfRetries - (retry - 1)
        /\ numberOfRetries = 0 => Ordered(t, reported')
        /\ failures <= numberOfRetries => t.dropped = {}
    <3> HIDE DEF retry
    <3>1. failures <= numberOfRetries => t.dropped = {}
      BY <1>2, <2>3 DEF EntriesKept
    <3> QED
      BY <1>2, <1>4, <3>1
  <2>6. QueueRun(t, lines', reported', retry - 1)
    BY <1>1, <2>1, <2>3, <1>2, <2>4, <2>5, RunQueueKeeps
  <2>7. EntriesKept' /\ lines' \in LinesSet
    BY <1>1, <1>2, <2>3, <2>5, <2>6, QueueIsRun
  <2> QED
    BY <1>1, <1>2, <2>7 DEF LoggerTyped
<1>5. CASE told /\ retry = 0
  <2>1. ~MayRetry(lines.runs[i]) /\ ~(failures <= numberOfRetries)
    BY <1>2, <1>5 DEF MayRetry
  <2>2. CASE shouldSkip
    <3> DEFINE t == [lines EXCEPT !.runs = <<>>, !.dropped = lines.dropped \cup {e}]
    <3>1. lines' = RunQueue(t, numberOfRetries)
      BY <1>2, <1>5, <2>1, <2>2 DEF LinesSet
    <3>2. /\ t \in LinesSet /\ t.runs = <<>> /\ t.queue = lines.queue
          /\ t.logged = lines.logged /\ t.dropped = lines.dropped \cup {e} /\ t.thrown = lines.thrown
          /\ t.dropped \cup t.thrown = lines.dropped \cup lines.thrown \cup {e}
      BY <1>2, NoRuns DEF LinesSet
    <3> HIDE DEF t
    <3>3. Placed(t, reported) /\ (Ordered(lines, reported) => Ordered(t, reported))
      BY <1>2, <3>2, EntryDropped
    <3>4. QueueRun(t, lines', reported', numberOfRetries)
      BY <1>1, <1>2, <3>1, <3>2, <3>3, RunQueueKeeps
    <3>5. /\ numberOfRetries = 0 => Ordered(t, reported')
          /\ failures <= numberOfRetries => t.dropped = {}
          /\ failures >= numberOfRetries - numberOfRetries /\ numberOfRetries <= numberOfRetries
      BY <1>1, <1>2, <2>1, <3>2, <3>3 DEF EntriesKept
    <3>6. EntriesKept' /\ lines' \in LinesSet
      BY <1>1, <1>2, <3>2, <3>4, <3>5, QueueIsRun
    <3> QED
      BY <1>1, <1>2, <3>6 DEF LoggerTyped
  <2>3. CASE ~shouldSkip
    BY <1>3, <1>5, <2>1, <2>3
  <2> QED
    BY <2>2, <2>3
<1>6. told \/ (lines' = Thrown(i) /\ onErrorFailed' = TRUE)
  BY DEF ErrorTold
<1> QED
  BY <1>2, <1>4, <1>3, <1>5, <1>6

\* A set of indices that is not empty has a greatest one.
LEMMA LastFit ==
  ASSUME NEW n \in Nat, NEW fits \in SUBSET (1..n), fits # {}
  PROVE  \E i \in fits : \A j \in fits : j <= i
<1> DEFINE T == {n - i : i \in fits}
<1>1. T \in SUBSET Nat /\ T # {}
  <2>1. \A i \in fits : n - i \in Nat
    OBVIOUS
  <2>2. T \subseteq Nat
    BY <2>1
  <2>3. \E i \in fits : n - i \in T
    OBVIOUS
  <2> QED
    BY <2>2, <2>3
<1> HIDE DEF T
<1>2. PICK least \in T : \A y \in T : least <= y
  BY <1>1, LeastNumber
<1> USE DEF T
<1>3. PICK i \in fits : least = n - i
  BY <1>2
<1>4. ASSUME NEW j \in fits PROVE j <= i
  <2>1. n - j \in T
    OBVIOUS
  <2>2. n - i <= n - j /\ i \in 1..n /\ j \in 1..n
    BY <1>2, <1>3, <2>1
  <2> QED
    BY <2>2
<1> QED
  BY <1>4

\* endStep() leaves the steps below the last one with the message, or none.
LEMMA PopToFacts ==
  ASSUME steps \in Seq(LogSteps), NEW message
  PROVE  \/ OnStack(message) = {} /\ PopTo(message) = <<>>
         \/ \E k \in OnStack(message) :
              /\ \A j \in OnStack(message) : j <= k
              /\ PopTo(message) \in Seq(LogSteps) /\ Len(PopTo(message)) = k - 1
              /\ \A j \in 1..(k - 1) : PopTo(message)[j] = steps[j]
<1> DEFINE fits == {i \in 1..Len(steps) : StepMessage[steps[i]] = message}
<1>1. OnStack(message) = fits
  BY DEF OnStack
<1>2. CASE fits = {}
  BY <1>1, <1>2 DEF PopTo
<1>3. CASE fits # {}
  <2> DEFINE k == CHOOSE i \in fits : \A j \in fits : j <= i
  <2>1. \E i \in fits : \A j \in fits : j <= i
    <3>1. Len(steps) \in Nat /\ fits \in SUBSET (1..Len(steps))
      OBVIOUS
    <3> HIDE DEF fits
    <3> QED
      BY <1>3, <3>1, LastFit
  <2>2. k \in fits /\ \A j \in fits : j <= k
    BY <2>1
  <2>3. PopTo(message) = SubSeq(steps, 1, k - 1)
    BY <1>3 DEF PopTo
  <2>4. k \in Nat /\ k >= 1 /\ k <= Len(steps) /\ k - 1 \in Int
    BY <2>2
  <2> HIDE DEF k
  <2>5. \A j \in 1..(k - 1) : steps[j] \in LogSteps
    BY <2>4
  <2>6. /\ SubSeq(steps, 1, k - 1) \in Seq(LogSteps)
        /\ Len(SubSeq(steps, 1, k - 1)) = IF 1 <= k - 1 THEN (k - 1) - 1 + 1 ELSE 0
        /\ \A j \in 1..((k - 1) - 1 + 1) : SubSeq(steps, 1, k - 1)[j] = steps[1 + j - 1]
    BY <2>4, <2>5, SubSeqProperties
  <2>7. /\ PopTo(message) \in Seq(LogSteps) /\ Len(PopTo(message)) = k - 1
        /\ \A j \in 1..(k - 1) : PopTo(message)[j] = steps[j]
    BY <2>3, <2>4, <2>6
  <2> HIDE DEF fits
  <2> QED
    BY <1>1, <2>2, <2>7
<1> QED
  BY <1>2, <1>3

\* The sets whose sizes are compared are finite.
LEMMA StackFinite ==
  ASSUME LoggerTyped, NEW message
  PROVE  /\ IsFiniteSet(OnStack(message)) /\ IsFiniteSet(OpenAlike(message))
         /\ Cardinality(OnStack(message)) \in Nat /\ Cardinality(OpenAlike(message)) \in Nat
<1>1. IsFiniteSet(1..Len(steps)) /\ OnStack(message) \in SUBSET (1..Len(steps))
  <2>1. Len(steps) \in Int /\ 1 \in Int
    BY DEF LoggerTyped
  <2> QED
    BY <2>1, FS_Interval DEF OnStack
<1>2. IsFiniteSet(LogSteps) /\ OpenAlike(message) \in SUBSET LogSteps
  BY LoggerAssumption DEF OpenAlike
<1>3. IsFiniteSet(OnStack(message))
  BY <1>1, FS_Subset
<1>4. IsFiniteSet(OpenAlike(message))
  BY <1>2, FS_Subset
<1> QED
  BY <1>3, <1>4, FS_CardinalityType

\* One more step with the message is open, and at most one more is on the stack.
LEMMA OneMoreOpen ==
  ASSUME NEW P, NEW Q, NEW O, IsFiniteSet(P), IsFiniteSet(O), NEW c, c \notin O, NEW k,
         Q \subseteq P \cup {k}, Cardinality(P) <= Cardinality(O)
  PROVE  Cardinality(Q) <= Cardinality(O \cup {c})
<1>1. /\ IsFiniteSet(P \cup {k}) /\ Cardinality(P \cup {k}) <= Cardinality(P) + 1
      /\ Cardinality(P) \in Nat /\ Cardinality(P \cup {k}) \in Nat
  <2>1. /\ IsFiniteSet(P \cup {k})
        /\ Cardinality(P \cup {k}) = IF k \in P THEN Cardinality(P) ELSE Cardinality(P) + 1
    BY FS_AddElement
  <2>2. Cardinality(P) \in Nat
    BY FS_CardinalityType
  <2> QED
    BY <2>1, <2>2
<1>2. Cardinality(O \cup {c}) = Cardinality(O) + 1 /\ Cardinality(O) \in Nat
  BY FS_AddElement, FS_CardinalityType
<1>3. IsFiniteSet(Q) /\ Cardinality(Q) <= Cardinality(P \cup {k})
  BY <1>1, FS_Subset
<1>4. Cardinality(Q) \in Nat
  BY <1>3, FS_CardinalityType
<1> QED
  BY <1>1, <1>2, <1>3, <1>4

\* One is open no longer, and at least one less is on the stack.
LEMMA OneLessOpen ==
  ASSUME NEW P, NEW Q, NEW O, IsFiniteSet(P), IsFiniteSet(O), NEW c \in O, NEW k \in P,
         Q \subseteq P \ {k}, Cardinality(P) <= Cardinality(O)
  PROVE  Cardinality(Q) <= Cardinality(O \ {c})
<1>1. /\ IsFiniteSet(P \ {k}) /\ Cardinality(P \ {k}) = Cardinality(P) - 1
      /\ Cardinality(P) \in Nat /\ Cardinality(P \ {k}) \in Nat
  BY FS_RemoveElement, FS_CardinalityType
<1>2. Cardinality(O \ {c}) = Cardinality(O) - 1 /\ Cardinality(O) \in Nat
  BY FS_RemoveElement, FS_CardinalityType
<1>3. IsFiniteSet(Q) /\ Cardinality(Q) <= Cardinality(P \ {k})
  BY <1>1, FS_Subset
<1>4. Cardinality(Q) \in Nat
  BY <1>3, FS_CardinalityType
<1> QED
  BY <1>1, <1>2, <1>3, <1>4

\* startStep().
LEMMA StartStepKeeps ==
  ASSUME LoggerInv, NEW c \in LogSteps, StartStep(c)
  PROVE  StackKept' /\ LoggerTyped'
<1> DEFINE n == Len(steps)
<1>1. /\ stepCall[c] = "new" /\ steps' = Append(steps, c)
      /\ stepCall' = [stepCall EXCEPT ![c] = "open"]
      /\ UNCHANGED <<numberOfRetries, awaited, lines, reported, failures, onErrorFailed>>
  BY DEF StartStep, loggerModes, faults
<1>2. LoggerTyped /\ StackKept /\ steps \in Seq(LogSteps)
      /\ stepCall \in [LogSteps -> {"new", "open", "over"}]
  BY DEF LoggerInv, LoggerTyped
<1>3. /\ steps' \in Seq(LogSteps) /\ Len(steps') = n + 1 /\ n \in Nat /\ steps'[n + 1] = c
      /\ \A i \in 1..n : steps'[i] = steps[i] /\ i \in 1..(n + 1)
      /\ \A i \in 1..(n + 1) : i \in 1..n \/ i = n + 1
      /\ n + 1 \in 1..(n + 1)
  BY <1>1, <1>2, PushFacts
<1>4. \A d \in LogSteps : stepCall'[d] = IF d = c THEN "open" ELSE stepCall[d]
  BY <1>1, <1>2
<1>5. LoggerTyped'
  BY <1>1, <1>2, <1>3 DEF LoggerTyped
<1> HIDE DEF n
<1>6. ASSUME awaited'
      PROVE  /\ \A i, j \in 1..Len(steps') : steps'[i] = steps'[j] => i = j
             /\ \A i \in 1..Len(steps') : stepCall'[steps'[i]] = "open"
             /\ \A d \in LogSteps : stepCall'[d] = "open" => \E i \in 1..Len(steps') : steps'[i] = d
  <2>1. /\ \A i, j \in 1..n : steps[i] = steps[j] => i = j
        /\ \A i \in 1..n : stepCall[steps[i]] = "open" /\ steps[i] \in LogSteps
        /\ \A d \in LogSteps : stepCall[d] = "open" => \E i \in 1..n : steps[i] = d
    BY <1>1, <1>2, <1>6 DEF StackKept, n
  <2>2. \A i \in 1..n : steps[i] # c
    BY <1>1, <2>1
  <2>3. \A i, j \in 1..Len(steps') : steps'[i] = steps'[j] => i = j
    BY <1>3, <2>1, <2>2
  <2>4. \A i \in 1..Len(steps') : stepCall'[steps'[i]] = "open"
    BY <1>3, <1>4, <2>1
  <2>5. \A d \in LogSteps : stepCall'[d] = "open" => \E i \in 1..Len(steps') : steps'[i] = d
    BY <1>3, <1>4, <2>1
  <2> QED
    BY <2>3, <2>4, <2>5
<1>7. ASSUME NEW message
      PROVE  Cardinality(OnStack(message)) <= Cardinality(OpenAlike(message))
             => (Cardinality(OnStack(message)) <= Cardinality(OpenAlike(message)))'
  <2> SUFFICES ASSUME Cardinality(OnStack(message)) <= Cardinality(OpenAlike(message))
               PROVE  Cardinality(OnStack(message)') <= Cardinality(OpenAlike(message)')
    OBVIOUS
  <2>1. /\ IsFiniteSet(OnStack(message)) /\ IsFiniteSet(OpenAlike(message))
    BY <1>2, StackFinite
  <2>2. CASE StepMessage[c] = message
    <3>1. OnStack(message)' \subseteq OnStack(message) \cup {n + 1}
      BY <1>3 DEF OnStack, n
    <3>2. OpenAlike(message)' = OpenAlike(message) \cup {c} /\ c \notin OpenAlike(message)
      BY <1>1, <1>4, <2>2 DEF OpenAlike
    <3> QED
      BY <2>1, <3>1, <3>2, OneMoreOpen
  <2>3. CASE StepMessage[c] # message
    <3>1. OnStack(message)' = OnStack(message)
      BY <1>3, <2>3 DEF OnStack, n
    <3>2. OpenAlike(message)' = OpenAlike(message)
      BY <1>4, <2>3 DEF OpenAlike
    <3> QED
      BY <3>1, <3>2
  <2> QED
    BY <2>2, <2>3
<1>8. StackKept'
  BY <1>2, <1>6, <1>7 DEF StackKept
<1> QED
  BY <1>5, <1>8

\* endStep().
LEMMA StepEndsKeeps ==
  ASSUME LoggerInv, NEW c \in LogSteps, StepEnds(c)
  PROVE  StackKept' /\ LoggerTyped'
<1> DEFINE n == Len(steps)
           popped == StepMessage[c]
<1>1. /\ stepCall[c] = "open" /\ steps' = PopTo(popped)
      /\ stepCall' = [stepCall EXCEPT ![c] = "over"]
      /\ awaited => steps # <<>> /\ Last(steps) = c
      /\ UNCHANGED <<numberOfRetries, awaited, lines, reported, failures, onErrorFailed>>
  BY DEF StepEnds, loggerModes, faults
<1>2. LoggerTyped /\ StackKept /\ steps \in Seq(LogSteps) /\ n \in Nat
      /\ stepCall \in [LogSteps -> {"new", "open", "over"}]
  BY DEF LoggerInv, LoggerTyped
<1>3. \A d \in LogSteps : stepCall'[d] = IF d = c THEN "over" ELSE stepCall[d]
  BY <1>1, <1>2
<1> HIDE DEF popped
<1>4. \/ OnStack(popped) = {} /\ steps' = <<>>
      \/ \E k \in OnStack(popped) :
           /\ \A j \in OnStack(popped) : j <= k
           /\ steps' \in Seq(LogSteps) /\ Len(steps') = k - 1
           /\ \A j \in 1..(k - 1) : steps'[j] = steps[j]
  BY <1>1, <1>2, PopToFacts
\* What is on the stack was there.
<1>5. /\ steps' \in Seq(LogSteps) /\ Len(steps') \in Nat /\ Len(steps') <= n
      /\ \A j \in 1..Len(steps') : steps'[j] = steps[j] /\ j \in 1..n
  <2>1. CASE steps' = <<>>
    BY <1>2, <2>1
  <2>2. ASSUME NEW k \in OnStack(popped), steps' \in Seq(LogSteps), Len(steps') = k - 1,
               \A j \in 1..(k - 1) : steps'[j] = steps[j]
        PROVE  /\ steps' \in Seq(LogSteps) /\ Len(steps') \in Nat /\ Len(steps') <= n
               /\ \A j \in 1..Len(steps') : steps'[j] = steps[j] /\ j \in 1..n
    <3>1. k \in 1..n
      BY DEF OnStack
    <3> QED
      BY <1>2, <2>2, <3>1
  <2> QED
    BY <1>4, <2>1, <2>2
<1>6. LoggerTyped'
  BY <1>1, <1>2, <1>5 DEF LoggerTyped
<1>7. ASSUME awaited'
      PROVE  /\ \A i, j \in 1..Len(steps') : steps'[i] = steps'[j] => i = j
             /\ \A i \in 1..Len(steps') : stepCall'[steps'[i]] = "open"
             /\ \A d \in LogSteps : stepCall'[d] = "open" => \E i \in 1..Len(steps') : steps'[i] = d
  <2>1. /\ \A i, j \in 1..n : steps[i] = steps[j] => i = j
        /\ \A i \in 1..n : stepCall[steps[i]] = "open" /\ steps[i] \in LogSteps
        /\ \A d \in LogSteps : stepCall[d] = "open" => \E i \in 1..n : steps[i] = d
    BY <1>1, <1>2, <1>7 DEF StackKept
  \* The step that ends is the last one, and the only one that leaves the stack.
  <2>2. n \in 1..n /\ steps[n] = c
    BY <1>1, <1>2, <1>7 DEF Last
  <2>3. n \in OnStack(popped) /\ \A k \in OnStack(popped) : k \in 1..n
    BY <2>2 DEF OnStack, popped
  <2>4. Len(steps') = n - 1
    BY <1>2, <1>4, <2>3
  <2>5. \A i \in 1..(n - 1) : steps[i] # c /\ i \in 1..n
    BY <1>2, <2>1, <2>2
  <2>6. \A i \in 1..n : i \in 1..(n - 1) \/ i = n
    BY <1>2
  <2>7. \A i, j \in 1..Len(steps') : steps'[i] = steps'[j] => i = j
    BY <1>5, <2>1
  <2>8. \A i \in 1..Len(steps') : stepCall'[steps'[i]] = "open"
    BY <1>3, <1>5, <2>1, <2>4, <2>5
  <2>9. ASSUME NEW d \in LogSteps, stepCall'[d] = "open" PROVE \E i \in 1..Len(steps') : steps'[i] = d
    <3>1. d # c /\ stepCall[d] = "open"
      BY <1>3, <2>9
    <3>2. PICK i \in 1..n : steps[i] = d
      BY <2>1, <3>1
    <3>3. i \in 1..Len(steps')
      BY <2>2, <2>4, <2>6, <3>1, <3>2
    <3> QED
      BY <1>5, <3>2, <3>3
  <2> QED
    BY <2>7, <2>8, <2>9
<1>8. ASSUME NEW message
      PROVE  Cardinality(OnStack(message)) <= Cardinality(OpenAlike(message))
             => (Cardinality(OnStack(message)) <= Cardinality(OpenAlike(message)))'
  <2> SUFFICES ASSUME Cardinality(OnStack(message)) <= Cardinality(OpenAlike(message))
               PROVE  Cardinality(OnStack(message)') <= Cardinality(OpenAlike(message)')
    OBVIOUS
  <2>1. /\ IsFiniteSet(OnStack(message)) /\ IsFiniteSet(OpenAlike(message))
        /\ Cardinality(OnStack(message)) \in Nat /\ Cardinality(OpenAlike(message)) \in Nat
    BY <1>2, StackFinite
  <2>2. OnStack(message)' \subseteq OnStack(message)
    BY <1>5 DEF OnStack
  <2>3. CASE popped = message
    <3>1. OpenAlike(message)' = OpenAlike(message) \ {c} /\ c \in OpenAlike(message)
      BY <1>1, <1>3, <2>3 DEF OpenAlike, popped
    <3>2. CASE OnStack(message) = {}
      <4>1. OnStack(message)' = {} /\ Cardinality({}) = 0
        BY <2>2, <3>2, FS_EmptySet
      <4>2. Cardinality(OpenAlike(message) \ {c}) \in Nat
        BY <2>1, FS_RemoveElement, FS_CardinalityType
      <4> QED
        BY <3>1, <4>1, <4>2
    <3>3. ASSUME NEW k \in OnStack(message), Len(steps') = k - 1
          PROVE  Cardinality(OnStack(message)') <= Cardinality(OpenAlike(message)')
      <4>1. k \in 1..n /\ k \notin 1..(k - 1)
        BY DEF OnStack
      <4>2. k \notin OnStack(message)'
        BY <3>3, <4>1 DEF OnStack
      <4>3. OnStack(message)' \subseteq OnStack(message) \ {k}
        BY <2>2, <4>2
      <4> QED
        BY <2>1, <3>1, <4>3, OneLessOpen
    <3> QED
      BY <1>4, <2>3, <3>2, <3>3
  <2>4. CASE popped # message
    <3>1. OpenAlike(message)' = OpenAlike(message)
      BY <1>3, <2>4 DEF OpenAlike, popped
    <3>2. Cardinality(OnStack(message)') <= Cardinality(OnStack(message))
          /\ Cardinality(OnStack(message)') \in Nat
      BY <2>1, <2>2, FS_Subset, FS_CardinalityType
    <3> QED
      BY <2>1, <3>1, <3>2
  <2> QED
    BY <2>3, <2>4
<1>9. StackKept'
  BY <1>2, <1>7, <1>8 DEF StackKept
<1> QED
  BY <1>6, <1>9

\* endAllSteps(), of steps that are not awaited.
LEMMA EndAllStepsKeeps ==
  ASSUME LoggerInv, EndAllSteps
  PROVE  StackKept' /\ LoggerTyped'
<1>1. /\ ~awaited' /\ steps' = <<>>
      /\ UNCHANGED <<numberOfRetries, awaited, lines, reported, failures, onErrorFailed, stepCall>>
  BY DEF EndAllSteps, loggerModes, faults
<1>2. LoggerTyped'
  BY <1>1 DEF LoggerInv, LoggerTyped
<1>3. ASSUME NEW message PROVE (Cardinality(OnStack(message)) <= Cardinality(OpenAlike(message)))'
  <2>1. OnStack(message)' = {} /\ OpenAlike(message)' = OpenAlike(message)
    BY <1>1 DEF OnStack, OpenAlike
  <2>2. Cardinality(OpenAlike(message)) \in Nat /\ Cardinality({}) = 0
    BY StackFinite, FS_EmptySet DEF LoggerInv
  <2> QED
    BY <2>1, <2>2
<1> QED
  BY <1>1, <1>2, <1>3 DEF StackKept

\* The server's entries and the clients' stack have nothing in common.
LEMMA LoggerSteps == LoggerInv /\ [LoggerNext]_loggerVars => LoggerInv'
<1> SUFFICES ASSUME LoggerInv, [LoggerNext]_loggerVars PROVE LoggerInv'
  OBVIOUS
<1>1. ASSUME UNCHANGED <<numberOfRetries, awaited, steps, stepCall>>, EntriesKept', LoggerTyped'
      PROVE  LoggerInv'
  BY <1>1 DEF LoggerInv, StackKept, OnStack, OpenAlike
<1>2. ASSUME UNCHANGED <<numberOfRetries, lines, reported, failures, onErrorFailed>>, StackKept', LoggerTyped'
      PROVE  LoggerInv'
  BY <1>2 DEF LoggerInv, EntriesKept, Counted
<1>3. ASSUME NEW c \in LogCalls, Report(c) PROVE LoggerInv'
  BY <1>1, <1>3, ReportKeeps DEF Report, loggerModes
<1>4. ASSUME NEW i \in 1..Len(lines.runs), Hooked(i) PROVE LoggerInv'
  BY <1>1, <1>4, HookedKeeps DEF Hooked, loggerModes
<1>5. ASSUME NEW i \in 1..Len(lines.runs), HookFailed(i) PROVE LoggerInv'
  BY <1>1, <1>5, HookFailedKeeps DEF HookFailed, loggerModes
<1>6. ASSUME NEW i \in 1..Len(lines.runs), ErrorTold(i) PROVE LoggerInv'
  BY <1>1, <1>6, ErrorToldKeeps DEF ErrorTold, loggerModes
<1>7. ASSUME NEW c \in LogSteps, StartStep(c) PROVE LoggerInv'
  BY <1>2, <1>7, StartStepKeeps DEF StartStep, loggerModes, faults
<1>8. ASSUME NEW c \in LogSteps, StepEnds(c) PROVE LoggerInv'
  BY <1>2, <1>8, StepEndsKeeps DEF StepEnds, loggerModes, faults
<1>9. CASE EndAllSteps
  BY <1>2, <1>9, EndAllStepsKeeps DEF EndAllSteps, loggerModes, faults
<1>10. CASE UNCHANGED loggerVars
  BY <1>10 DEF loggerVars, loggerModes, faults, LoggerInv, LoggerTyped, EntriesKept, Counted, StackKept,
               OnStack, OpenAlike
<1> QED
  BY <1>3, <1>4, <1>5, <1>6, <1>7, <1>8, <1>9, <1>10 DEF LoggerNext, LoggerProgress

\* Two sequences put behind each other.
Behind(a, b, S, d) ==
  /\ d \in Seq(S) /\ Len(d) = Len(a) + Len(b)
  /\ \A i \in 1..Len(a) : d[i] = a[i]
  /\ \A k \in 1..Len(b) : d[Len(a) + k] = b[k]

LEMMA BehindFacts ==
  ASSUME NEW S, NEW a \in Seq(S), NEW b \in Seq(S)
  PROVE  Behind(a, b, S, a \o b)
BY DEF Behind

\* Where an entry is, as LinesKept says it of the sequences put behind each other.
LEMMA PlacedIsKept ==
  ASSUME LoggerTyped, EntriesKept
  PROVE  LinesKept
<1> DEFINE taken == [i \in 1..Len(lines.runs) |-> lines.runs[i].entry]
           held == lines.queue \o taken \o lines.logged
           q == Len(lines.queue)
           m == Len(lines.runs)
           n == Len(lines.logged)
<1>1. /\ lines.queue \in Seq(LogCalls) /\ lines.logged \in Seq(LogCalls) /\ lines.runs \in Seq(RunSet)
      /\ lines.dropped \subseteq LogCalls /\ lines.thrown \subseteq LogCalls
      /\ reported \in Seq(LogCalls)
  BY DEF LoggerTyped, LinesSet
<1>2. Placed(lines, reported) /\ m \in Nat /\ q \in Nat /\ n \in Nat
  BY <1>1 DEF EntriesKept
<1>3. taken \in Seq(LogCalls) /\ Len(taken) = m /\ \A k \in 1..m : taken[k] = lines.runs[k].entry
  <2>1. \A k \in 1..m : lines.runs[k] \in RunSet
    BY <1>1
  <2>2. \A k \in 1..m : lines.runs[k].entry \in LogCalls
    BY <2>1 DEF RunSet
  <2> HIDE DEF m
  <2> QED
    BY <1>2, <2>2 DEF m
<1> HIDE DEF taken
<1>4. /\ held \in Seq(LogCalls) /\ DOMAIN held = 1..(q + m + n)
      /\ \A i \in 1..q : held[i] = lines.queue[i]
      /\ \A k \in 1..m : held[q + k] = taken[k]
      /\ \A j \in 1..n : held[q + m + j] = lines.logged[j]
  <2>1. held = lines.queue \o taken \o lines.logged
    OBVIOUS
  <2>2. Behind(lines.queue, taken, LogCalls, lines.queue \o taken)
    BY <1>1, <1>3, BehindFacts
  <2> DEFINE open == lines.queue \o taken
  <2>3. open \in Seq(LogCalls)
    BY <2>2 DEF Behind
  <2>4. Behind(open, lines.logged, LogCalls, held)
    BY <1>1, <2>1, <2>3, BehindFacts
  <2> HIDE DEF open, held
  <2>5. /\ Len(open) = q + m
        /\ \A i \in 1..q : open[i] = lines.queue[i]
        /\ \A k \in 1..m : open[q + k] = taken[k]
    BY <1>3, <2>2 DEF Behind, open
  <2>6. /\ held \in Seq(LogCalls) /\ Len(held) = Len(open) + n
        /\ \A i \in 1..Len(open) : held[i] = open[i]
        /\ \A j \in 1..n : held[Len(open) + j] = lines.logged[j]
    BY <2>4 DEF Behind
  <2> HIDE DEF q, m, n
  <2>7. /\ \A i \in 1..q : i \in 1..(q + m)
        /\ \A k \in 1..m : q + k \in 1..(q + m)
    BY <1>2
  <2>8. DOMAIN held = 1..Len(held)
    BY <2>6
  <2> QED
    BY <2>5, <2>6, <2>7, <2>8
<1> HIDE DEF held, q, m, n
<1>5. \A i \in DOMAIN held :
        \/ i \in 1..q /\ held[i] = lines.queue[i]
        \/ i - q \in 1..m /\ held[i] = lines.runs[i - q].entry
        \/ i - q - m \in 1..n /\ held[i] = lines.logged[i - q - m]
  <2>1. \A i \in 1..(q + m + n) : \/ i \in 1..q
                                  \/ i - q \in 1..m /\ i = q + (i - q)
                                  \/ i - q - m \in 1..n /\ i = q + m + (i - q - m)
    BY <1>2
  <2> QED
    BY <1>3, <1>4, <2>1
<1>6. /\ \A i \in 1..q : i \in DOMAIN held /\ held[i] = lines.queue[i]
      /\ \A k \in 1..m : q + k \in DOMAIN held /\ held[q + k] = lines.runs[k].entry
      /\ \A j \in 1..n : q + m + j \in DOMAIN held /\ held[q + m + j] = lines.logged[j]
  BY <1>2, <1>3, <1>4
<1>7. IsInjective(held)
  <2>1. \A i, j \in DOMAIN held : held[i] = held[j] => i = j
    <3>1. \A i, j \in 1..m : i = j
      BY <1>2 DEF Placed, m
    <3>2. \A i, j \in DOMAIN held : i \in Int /\ j \in Int
      BY <1>4
    <3>3. \A i, j \in 1..q : lines.queue[i] = lines.queue[j] => i = j
      BY <1>2 DEF Placed, q
    <3>4. \A i, j \in 1..n : lines.logged[i] = lines.logged[j] => i = j
      BY <1>2 DEF Placed, n
    <3>5. /\ \A i \in 1..q, j \in 1..n : lines.queue[i] # lines.logged[j]
          /\ \A i \in 1..q, k \in 1..m : lines.queue[i] # lines.runs[k].entry
          /\ \A j \in 1..n, k \in 1..m : lines.logged[j] # lines.runs[k].entry
      BY <1>2 DEF Placed, q, m, n
    <3> QED
      BY <1>2, <1>5, <3>1, <3>2, <3>3, <3>4, <3>5
  <2> QED
    BY <2>1 DEF IsInjective
<1>8. \A c : c \in ToSet(held) <=> \/ \E i \in 1..q : lines.queue[i] = c
                                   \/ \E j \in 1..n : lines.logged[j] = c
                                   \/ \E k \in 1..m : lines.runs[k].entry = c
  <2>1. ToSet(held) = {held[i] : i \in DOMAIN held}
    BY DEF ToSet
  <2> QED
    BY <1>5, <1>6, <2>1
<1>9. ToSet(held) \cap (lines.dropped \cup lines.thrown) = {}
  BY <1>2, <1>8 DEF Placed, q, m, n
<1>10. ToSet(held) \cup lines.dropped \cup lines.thrown = ToSet(reported)
  <2>1. \A c : c \in ToSet(reported) <=> \E a \in 1..Len(reported) : reported[a] = c
    BY <1>1 DEF ToSet
  <2>2. ToSet(held) \subseteq LogCalls /\ ToSet(reported) \subseteq LogCalls
    <3>1. /\ \A i \in DOMAIN held : held[i] \in LogCalls
          /\ \A a \in 1..Len(reported) : reported[a] \in LogCalls
      <4>1. held \in Seq(LogCalls)
        BY <1>4
      <4> QED
        BY <1>1, <4>1
    <3>2. ToSet(held) = {held[i] : i \in DOMAIN held}
      BY DEF ToSet
    <3> QED
      BY <2>1, <3>1, <3>2
  <2>3. \A c \in LogCalls : c \in ToSet(reported) <=>
                              c \in ToSet(held) \/ c \in lines.dropped \/ c \in lines.thrown
    BY <1>2, <1>8, <2>1 DEF Placed, q, m, n
  <2> QED
    BY <1>1, <2>2, <2>3
<1>11. Len(lines.runs) <= 1 /\ (lines.queue # <<>> => lines.runs # <<>> \/ Ended)
  BY DEF EntriesKept, Placed, Running, Ended
<1>12. numberOfRetries = 0 =>
         \A i, j \in 1..Len(lines.logged) :
           i < j => Earlier(reported, lines.logged[i], lines.logged[j])
  BY DEF EntriesKept, Ordered
<1> QED
  BY <1>7, <1>9, <1>10, <1>11, <1>12 DEF LinesKept, held, taken

\* The invariant of the stack is what StepsOnStack says.
LEMMA StackIsKept ==
  ASSUME LoggerTyped, StackKept
  PROVE  StepsOnStack
<1>1. awaited => ToSet(steps) = {c \in LogSteps : stepCall[c] = "open"}
  <2>1. \A c : c \in ToSet(steps) <=> \E i \in 1..Len(steps) : steps[i] = c
    BY DEF LoggerTyped, ToSet
  <2>2. \A i \in 1..Len(steps) : steps[i] \in LogSteps
    BY DEF LoggerTyped
  <2> QED
    BY <2>1, <2>2 DEF StackKept
<1>2. ASSUME NEW c \in LogSteps
      PROVE  LET alike == {d \in LogSteps : StepMessage[d] = StepMessage[c]}
             IN Cardinality({i \in 1..Len(steps) : steps[i] \in alike})
                  <= Cardinality({d \in alike : stepCall[d] = "open"})
  <2> DEFINE alike == {d \in LogSteps : StepMessage[d] = StepMessage[c]}
  <2>1. {i \in 1..Len(steps) : steps[i] \in alike} = OnStack(StepMessage[c])
    <3>1. \A i \in 1..Len(steps) : steps[i] \in LogSteps
      BY DEF LoggerTyped
    <3> QED
      BY <3>1 DEF OnStack
  <2>2. {d \in alike : stepCall[d] = "open"} = OpenAlike(StepMessage[c])
    BY DEF OpenAlike
  <2> QED
    BY <2>1, <2>2 DEF StackKept
<1> QED
  BY <1>1, <1>2 DEF StepsOnStack

=============================================================================
