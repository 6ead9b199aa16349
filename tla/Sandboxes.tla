-------------------------------- MODULE Sandboxes --------------------------------
(***************************************************************************)
(* A test file and the files it requires: core/dependencies-builder finds   *)
(* them in the main process, core/sandbox executes them in the worker, each  *)
(* in a sandbox of its own that is kept by path until the test has completed. *)
(*                                                                         *)
(* Files may require each other in cycles and fail at any place; whoever     *)
(* required one that fails may catch the error.  Packages and node modules   *)
(* are not bundled and are external, as is what a file does otherwise.       *)
(***************************************************************************)
EXTENDS Naturals, Sequences, FiniteSets, Functions, SequencesExt

CONSTANTS
  SourceFiles,  \* the files of a project
  Entry,        \* the test
  Packages,     \* those that may be packages
  MaxRequires,  \* bound on the calls of require() in a project
  MaxFailures,  \* bound on the scripts that fail
  NumRuns,      \* bound on the times the test is run by one worker
  MaxLate       \* bound on the calls of require() from callbacks of a test

ASSUME SandboxAssumption ==
  /\ IsFiniteSet(SourceFiles) /\ Entry \in SourceFiles \ Packages
  /\ MaxRequires \in Nat /\ MaxFailures \in Nat /\ NumRuns \in Nat /\ MaxLate \in Nat

VARIABLES
  requests,      \* chosen once: the calls of require() in every file, in order
  packages,      \* chosen once: the files that are not bundled
  build,         \* buildNodes(): its calls, nodesCache and the nodes linked so far
  instances,     \* the sandboxes ever created
  modulesCache,  \* by path, 0: none
  frames,        \* the scripts being executed, the innermost last
  uses,          \* by run: the sandboxes that its code got from require()
  run,           \* the runs so far, and whether one is going on
  late           \* calls of require() by callbacks, and whether one came after its run

sandboxVars == <<requests, packages, build, instances, modulesCache, frames, uses, run, late>>

Runs == 1..NumRuns
Frame == [file : SourceFiles, next : Nat]

SandboxTypeOK ==
  /\ requests \in [SourceFiles -> Seq(SourceFiles)] /\ packages \subseteq Packages
  /\ build.at \in {"reading", "built", "rejected"} /\ build.stack \in Seq(Frame)
  /\ build.nodesCache \subseteq SourceFiles /\ build.nodes \in [SourceFiles -> SUBSET SourceFiles]
  /\ instances \in Seq([path : SourceFiles, of : Runs, isCompiling : BOOLEAN, isCompiled : BOOLEAN,
                       failed : BOOLEAN, broken : BOOLEAN])
  /\ modulesCache \in [SourceFiles -> 0..Len(instances)]
  /\ frames \in Seq([sandbox : 1..Len(instances), next : Nat])
  /\ uses \in [Runs -> SUBSET (1..Len(instances))]
  /\ run \in [number : 0..NumRuns, going : BOOLEAN]
  /\ late \in [calls : 0..MaxLate, after : BOOLEAN]

SandboxInit ==
  /\ packages \in SUBSET Packages
  /\ \E g \in [SourceFiles -> SUBSET SourceFiles] :
       /\ \A p \in packages : g[p] = {}
       /\ FoldFunction(LAMBDA S, n : n + Cardinality(S), 0, g) <= MaxRequires
       /\ requests = [f \in SourceFiles |-> SetToSeq(g[f])]
  /\ build = [at |-> "reading", stack |-> <<[file |-> Entry, next |-> 1]>>, nodesCache |-> {Entry},
              nodes |-> [f \in SourceFiles |-> {}]]
  /\ instances = <<>> /\ modulesCache = [f \in SourceFiles |-> 0] /\ frames = <<>>
  /\ uses = [r \in Runs |-> {}] /\ run = [number |-> 0, going |-> FALSE]
  /\ late = [calls |-> 0, after |-> FALSE]

-----------------------------------------------------------------------------
(* dependencies-builder/src/index.ts                                       *)

\* Mutant: a file that is in the cache is not linked again.
Linked_Once(nodes, f, d) == IF d \in build.nodesCache THEN nodes ELSE [nodes EXCEPT ![f] = @ \cup {d}]
Linked(nodes, f, d) == [nodes EXCEPT ![f] = @ \cup {d}]

\* buildNodes() of the innermost call: the next of its dependencies, or its end.
BuildNodes ==
  LET top == Last(build.stack)
      f == top.file
      d == requests[f][top.next]
      goesOn == Append(Front(build.stack), [top EXCEPT !.next = @ + 1])
      linked == [build EXCEPT !.stack = goesOn, !.nodes = Linked(@, f, d)]
  IN /\ build.at = "reading"
     /\ \/ /\ top.next > Len(requests[f])
           /\ build' = [build EXCEPT !.stack = Front(@), !.at = IF Len(build.stack) = 1 THEN "built" ELSE @]
        \/ /\ top.next <= Len(requests[f])
           /\ \/ d \in packages /\ build' = [build EXCEPT !.stack = goesOn]
              \/ d \in build.nodesCache /\ build' = linked
              \* readFile() resolves; the node is in the cache before its own dependencies.
              \/ /\ d \notin packages \cup build.nodesCache
                 /\ build' = [linked EXCEPT !.nodesCache = @ \cup {d},
                                            !.stack = Append(@, [file |-> d, next |-> 1])]
              \/ /\ d \notin packages \cup build.nodesCache
                 /\ build' = [build EXCEPT !.at = "rejected"]
     /\ UNCHANGED <<requests, packages, instances, modulesCache, frames, uses, run, late>>

\* buildDependencyDictionary(): of every file in the cache its dependencies.
Dictionary == [f \in build.nodesCache |-> build.nodes[f]]

-----------------------------------------------------------------------------
(* sandbox.ts                                                              *)

Built == <<requests, packages, build>>

\* The constructor puts the sandbox into the cache, execute() starts its script.
Constructs(path, r) ==
  /\ instances' = Append(instances, [path |-> path, of |-> r, isCompiling |-> TRUE, isCompiled |-> FALSE,
                                     failed |-> FALSE, broken |-> FALSE])
  /\ modulesCache' = [modulesCache EXCEPT ![path] = Len(instances) + 1]

\* executeTest() of the worker: a sandbox for the test.
ExecuteFile ==
  /\ build.at = "built" /\ ~run.going /\ run.number < NumRuns /\ frames = <<>>
  /\ run' = [number |-> run.number + 1, going |-> TRUE]
  /\ Constructs(Entry, run.number + 1)
  /\ frames' = <<[sandbox |-> Len(instances) + 1, next |-> 1]>>
  /\ uses' = [uses EXCEPT ![run.number + 1] = @ \cup {Len(instances) + 1}]
  /\ UNCHANGED <<Built, late>>

\* Mutant: a sandbox is found only when it has been compiled.
Found_Compiled(path) ==
  IF modulesCache[path] # 0 /\ ~instances[modulesCache[path]].isCompiled THEN 0 ELSE modulesCache[path]
Found(path) == modulesCache[path]

\* require() of a file in the dictionary, by code of run r, in a script whose frame goes
\* on with rest: the exports of the sandbox in the cache, as far as they are, or a new one.
Requires(d, r, rest) ==
  IF Found(d) # 0
  THEN /\ uses' = [uses EXCEPT ![r] = @ \cup {Found(d)}] /\ frames' = rest
       /\ UNCHANGED <<instances, modulesCache>>
  ELSE /\ Constructs(d, r) /\ frames' = Append(rest, [sandbox |-> Len(instances) + 1, next |-> 1])
       /\ uses' = [uses EXCEPT ![r] = @ \cup {Len(instances) + 1}]

\* The innermost script goes on to its next require().
Requiring ==
  LET top == Last(frames)
      s == instances[top.sandbox]
      d == requests[s.path][top.next]
      rest == Append(Front(frames), [top EXCEPT !.next = @ + 1])
  IN /\ frames # <<>> /\ top.next <= Len(requests[s.path])
     /\ IF d \in Dictionary[s.path] THEN Requires(d, s.of, rest)
        ELSE frames' = rest /\ UNCHANGED <<instances, modulesCache, uses>>
     /\ UNCHANGED <<Built, run, late>>

\* Mutant: a script that fails stays in compilation.
Compiled_NotFailed(s, failed) ==
  IF failed THEN [s EXCEPT !.failed = TRUE] ELSE [s EXCEPT !.isCompiling = FALSE, !.isCompiled = TRUE]
\* The end of execute(), also of a script that throws.
Compiled(s, failed) == [s EXCEPT !.isCompiling = FALSE, !.isCompiled = TRUE, !.failed = failed]

\* new Script() throws before the try of execute(): the sandbox stays in compilation.
NotCompiled(s) == [s EXCEPT !.failed = TRUE, !.broken = TRUE]

\* The innermost script ends, throws or cannot be compiled: then the one that required it
\* may fail as well, at its next step.
ScriptEnds ==
  LET top == Last(frames)
      s == instances[top.sandbox]
  IN /\ frames # <<>> /\ frames' = Front(frames)
     /\ \/ /\ top.next > Len(requests[s.path])
           /\ instances' = [instances EXCEPT ![top.sandbox] = Compiled(@, FALSE)]
        \/ /\ Cardinality({k \in 1..Len(instances) : instances[k].failed}) < MaxFailures
           /\ \/ instances' = [instances EXCEPT ![top.sandbox] = Compiled(@, TRUE)]
              \/ top.next = 1 /\ instances' = [instances EXCEPT ![top.sandbox] = NotCompiled(@)]
     /\ UNCHANGED <<Built, modulesCache, uses, run, late>>

\* A callback of a run requires a file when no script is being executed; the run may be over.
LateRequire ==
  /\ frames = <<>> /\ late.calls < MaxLate
  /\ \E k \in 1..Len(instances) : \E d \in Dictionary[instances[k].path] :
       /\ Requires(d, instances[k].of, <<>>)
       /\ late' = [calls |-> late.calls + 1,
                   after |-> late.after \/ ~(run.going /\ instances[k].of = run.number)]
  /\ UNCHANGED <<Built, run>>

\* evaluateScript() of the test's sandbox: a script that throws leaves it in compilation.
EvaluateScript ==
  /\ frames = <<>> /\ run.going
  /\ LET k == modulesCache[Entry] IN
     /\ k # 0
     /\ \E ends \in BOOLEAN :
          instances' = [instances EXCEPT ![k] = [@ EXCEPT !.isCompiled = ends, !.isCompiling = ~ends]]
  /\ UNCHANGED <<Built, modulesCache, frames, uses, run, late>>

\* Mutant: the cache is kept.
Cleared_Kept == modulesCache
Cleared == [f \in SourceFiles |-> 0]

\* clearCache(), when the test has completed.
ClearCache ==
  /\ run.going /\ frames = <<>>
  /\ modulesCache' = Cleared /\ run' = [run EXCEPT !.going = FALSE]
  /\ UNCHANGED <<Built, instances, frames, uses, late>>

SandboxProgress == BuildNodes \/ Requiring \/ ScriptEnds \/ ClearCache
SandboxNext == SandboxProgress \/ ExecuteFile \/ LateRequire \/ EvaluateScript
SandboxSpec == SandboxInit /\ [][SandboxNext]_sandboxVars
FairSandboxSpec == SandboxSpec /\ WF_sandboxVars(SandboxProgress)

-----------------------------------------------------------------------------
(* What a test finds                                                       *)

\* What the test reaches through files that are bundled: the least set closed under it.
Closed(S) == \A f \in S : ToSet(requests[f]) \ packages \subseteq S
Reachable == {f \in SourceFiles : \A S \in SUBSET SourceFiles : Entry \in S /\ Closed(S) => f \in S}

\* The dictionary holds exactly the files the test reaches, cycles or not, and of each all
\* that it requires.
DictionaryComplete ==
  build.at = "built" => Dictionary = [f \in Reachable |-> ToSet(requests[f]) \ packages]

\* The code of a run gets one sandbox for each file, which no other run has, however the
\* files require each other or fail, unless a callback of an earlier run came late.
OneSandbox ==
  ~late.after => \A r \in Runs : \A j, k \in uses[r] :
    /\ instances[j].of = r
    /\ instances[j].path = instances[k].path => j = k

\* A file gets the exports of one that has not ended only from a script around it, or when
\* that one could not be compiled (its sandbox stays in the cache) or is the test, which
\* evaluateScript() may have left in compilation.
PartialInCycle ==
  \A k \in 1..Len(instances) : ~instances[k].isCompiled =>
    (\E i \in 1..Len(frames) : frames[i].sandbox = k) \/ instances[k].path = Entry \/ instances[k].broken

\* In the end the files have been read and every script has ended.
SandboxQuiet == build.at # "reading" /\ frames = <<>> /\ ~run.going
=============================================================================
