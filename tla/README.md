# testring in TLA+

[testring](../src/README.md) runs browser tests in parallel: a root process
schedules tests over worker processes, the workers drive browsers through a
browser proxy, and a handful of servers in the root process (file store, HTTP,
logger) serve the workers over node IPC.  Everything is TypeScript on node's
event loop, so nothing is preempted: code between two awaits is atomic, and every
`await`, callback and message is a point where another activity runs.  The models
below take exactly those points as the boundaries of their actions.

Paths below are relative to `src/`.

Contents: [1 Inventory](#1-inventory), [2 Plan](#2-plan), [3 Modules](#3-modules-and-the-code),
[4 Runs](#4-runs), [5 Proofs](#5-proofs), [6 Where code and words differ](#6-where-code-and-words-differ),
[7 Not modelled](#7-not-modelled).

## 1. Inventory

| Component | Source | State it keeps | Operations | Hard part |
|---|---|---|---|---|
| Test run controller | `core/test-run-controller` | queue of tests, worker loops, errors | `runQueue`, `kill`, hooks around every test | several loops over one queue, retries, timeouts, bail, kill during a run |
| Test worker instance | `core/test-worker/src/test-worker-instance.ts` | one child process, pending fork, pending answer | `execute`, `kill`, exit and error handlers | kill or timeout while a fork or a compilation is in flight; a late answer |
| Worker controller, test API, breakpoints | `core/test-worker/src/worker`, `core/api`, `core/async-breakpoints` | breakpoints, the running test, after-run callbacks | `executeTest`, `run`, pause, step, resume, release, complete | a release while the test runs on; broken breakpoints; callbacks that reject |
| Transport | `core/transport` | children, pending sends, listeners | `send`, `broadcast`, close of a child | sends to a process that dies, ids that are prefixes of others |
| File store: lock pool | `core/fs-store/src/utils/LockPool.ts`, `core/utils/src/multi-lock.ts` | permits per worker, wait queue, known request ids | `acquire`, `release`, `clean` | hand-over of a permit to the head of the queue; clean-up of a dead worker |
| File store: permissions of one file | `core/fs-store/src/utils/FilePermissionResolver.ts` | shared locks, access queue, delete queue, state | lock, unlock, access, unlink, clean | who may write or delete while others hold locks |
| File store: server | `core/fs-store/src/fs-store-server.ts` | files, requests | request, release, clear | replies after two queues, refused requests, dead clients |
| File store: file and client | `core/fs-store/src/fs-store-file.ts`, `fs-store-client.ts` | lock ids, the access id, transaction queue, requests by id | lock, unlock, write, transaction, unlink | calls that overlap a transaction of somebody else |
| Browser proxy | `packages/browser-proxy` | pool of workers, command queue, pending commands | `execute`, exit and respawn, `kill` | commands re-sent after a crash, kill racing a crash |
| Browser driver | `packages/plugin-selenium-driver` | session of each applicant | some 150 commands, `end`, expiry, `kill` | a session opened while another call ends it |
| Web application, assertions | `packages/web-application`, `core/async-assert` | log step, breakpoint, main tab, soft errors | some 150 commands in one wrapper, tab commands | commands that overlap, fail, or time out within a step |
| HTTP client and server | `packages/http-api` | request queue, cookies | `get`, `post`, one request at a time | a request nobody answers |
| Logger | `core/logger` | queue of log entries, status, step stack | log, retry, step | retries of a failing plugin, entries reordered, steps that overlap |
| Web socket transport | `packages/client-ws-transport` | socket, queue of unsent messages | connect, send, handshake | order over reconnections |
| Devtool backend | `packages/devtool-backend` | a store for each worker, applications, connections | register, unregister, handshake, dispatch | registrations that arrive together, stale subscribers |
| Dependencies builder, sandbox | `core/dependencies-builder`, `core/sandbox` | the file graph, sandboxes by path | build, execute, require, clear | cycles, failing scripts, late requires |
| Run command | `core/cli` | the servers | start, shutdown | its shutdown is the controller's `kill()` |
| Configuration, plugins, build plugins, element paths, utilities | `core/cli-config`, `core/plugin-api`, `core/pluggable-module`, `core/fs-reader`, `packages/plugin-*`, `packages/element-path`, `core/utils` | nothing that is shared | merge, hook, build a query | sequential |
| Devtool front end, extension | `packages/devtool-frontend`, `packages/devtool-extension` | user interface | | |

How they interact: the run command builds the servers and the test run controller;
the controller calls `execute`/`kill` of worker instances; a worker instance talks
to its child process over the transport; a worker's test calls the file store,
browser proxy and HTTP servers over the same transport; the file store composes one
lock pool (open files of all workers) with one permission resolver per file.

### What makes each component correct

* **Test run controller.**  A test is in one place: in one queue item, or in the
  hands of one loop, or concluded.  It is executed at most `retryCount + 1` times and
  never again once it has a verdict.  A retry pushed by one loop while the others
  leave is still taken.  `this.errors` names exactly the tests given up, also when a loop
  gives one up after the run has settled.  The run settles although a worker may hang under its
  timeout, and no process outlives it but that of a loop a hook has rejected, until `kill()`.
* **Test worker instance.**  There is at most one child process and `this.worker` is
  it.  An execution is answered by the message of its own test.  Every `execute()`
  and every `kill()` settles.  When the loop is over no process is left.
* **Worker controller, breakpoints.**  A test completes with its own verdict, unless the
  `run()` of a file that threw is still going on beside it; its after-run callbacks have been called by then and are not found by the next test;
  what the devtool is told about pauses is what the breakpoints do.
* **Transport.**  A send is settled once, by its acknowledgement, an error or the close
  of its process, and no handler is left behind.
* **Lock pool.**  Permits counted = permits held; never more than the limit; none
  idle beside a waiter; first come, first served.
* **Permissions of one file.**  One writer; no delete under a lock; queued writes and
  deletes get their turn.
* **File store server.**  The two above together: permits follow requests through two
  queues in a row; every request is answered.
* **File store file.**  It writes only with the access of its own call; its lock queue
  holds what the server has granted; its transactions exclude each other.
* **Browser proxy.**  A pending command is with the living child or queued, nowhere else;
  after `kill()` no child is left; a command settles over any number of crashes: of every
  worker that did not fork twice at once, and whose plugin does not refuse to be killed.
* **Browser driver.**  A session open at the server is in the map, so `end` and `kill()`
  find it, unless it was opened beside another call for its applicant.
* **Web application.**  Steps open and close in pairs; a command that has settled asks for
  nothing any more; a failed assertion is heard of once; the main tab exists.
* **HTTP client, logger, sockets.**  One request (entry, message) at a time, in order,
  none lost.
* **Devtool backend.**  An application has the store of its worker, an action reaches its
  owner, a closed page is not told any more.
* **Dependencies builder, sandbox.**  The dictionary holds what the test reaches, also
  through cycles; a run executes each file once and shares nothing with the next run.

`PROJECT.json` lists the hazards behind these sentences, each at its line of the code.

## 2. Plan

Order: what decides about the result of a run first, then what its workers share, then
the processes underneath.

| | Module | Composes | Promises | Status |
|---|---|---|---|---|
| 1 | `TestRunController` | – | implements `TestRun` | checked, proved |
| 2 | `LockPool` | `MultiLock` | accounting, order, no idle permit | checked, proved |
| 3 | `FilePermissionResolver` | `MultiLock` | one writer, deletes wait | checked, proved |
| 4 | `FSStoreServer` | `LockPool`, `FilePermissionResolver` per file | implements `SharedFiles` | checked, proved |
| 5 | `TestWorkerInstance` | the parts of transport and worker controller it meets | one process, own answers, every call settles | checked, proved |
| 6 | `BrowserProxy`, `SeleniumSessions`, `WebApplication`, `BrowserTabs` | in `MCBrowser` | commands, sessions, steps, tabs | checked, proved |
| 7 | `FSStoreFile` | `FilePermissionResolver` | accesses, locks, transactions | checked, proved |
| 8 | `Logger`, `HttpRequests`, `WsTransport`, `DirectTransport` | with 7, 9 and 10 in `MCServices` | order, retries, sends that settle | checked, proved |
| 9 | `TestExecution` | – | verdicts, callbacks, breakpoints | checked, proved |
| 10 | `Devtool`, `Sandboxes` | – | stores and pages; code by path | checked, proved |

Abstract specifications: `TestRun` (exclusive, bounded, final executions) and
`SharedFiles` (lockers, one writer, deleters within a limit).

Every safety property of the passing runs is proved except the types of `browser` and
`services` (`BrowserTypeOK`, `ServicesTypeOK`).

## 3. Modules and the code

Every module writes one action per step between two awaits.  A name is the method's
name where there is one.  What a definition stands for, line by line, is the `map` of
`PROJECT.json`.

**Definitions with an underscore suffix** (`Requeue_NoCount`, `GiveBack_Last`,
`Kill_NoWait` ...) are plausible bugs of the definition they precede.  No
specification uses them; each was put in the place of its definition to see that the
property it aims at is then violated (`mutants` in `PROJECT.json`).

**Variables "chosen once"** (`strays`, `cleaning`, `refusals`, `crashes`, `local`,
`faults`, `debug`, `rejects`, `parallel`, `awaited`, `lockAtStart` ...) are left arbitrary by `Init` and never change.  One run thereby covers
several environments, and a property says with them which environment it is about:
`~strays /\ ~cleaning => ...` is a claim about behaviours in which nobody releases
what he does not hold and nothing is cleaned, beside claims that hold in all of them.

### TestRunController, TestRun

`core/test-run-controller/src/test-run-controller.ts`.

| Model | Code |
|---|---|
| `main` | what `runQueue` awaits: `beforeRun`, `shouldNotExecute`, the loops, `afterRun`; or how it settled |
| `queue` | `testQueue`, items with `test` and `retry` (`retryCount`) |
| `pc[w]`, `cur[w]` | the promise the loop of worker `w` awaits (`executeQueue`, `executeWorker`, `onTestFailed`) and its `queuedTest` |
| `alive` | the workers that own a child process |
| `errors` | `this.errors` |
| `stop`, `killing` | `kill()` and the workers whose `kill()` it awaits |
| `PrepareTests`, `StartWorkers`, `LoopsResolved`, `AfterRun`, `AfterRunError`, `DoNotExecute` | `runQueue`, `prepareTests`, `runChildWorkers`, `runLocalWorker` |
| `TakeTest` ... `LoopKill` | one per promise of `executeWorker`, `onTestFailed`, `executeQueue`; each has the branch taken when the awaited hook rejects (`Failing`) |
| `Timeout`, `TimeoutKill` | the timer of the race with `execute()`, and the `worker.kill()` behind it |
| `Kill`, `WorkerKilled`, `KillFinished` | `kill()` |

A worker instance appears as its two promises: `execute()` is answered at any moment
with success or failure or not at all, `kill()` ends the process and may make a pending
`execute()` resolve as a success, which is what `TestWorkerInstance` does in detail.
Plugins behind hooks are external; a hook answers either way, or rejects when
`Failing` has it.  `beforeRun` may leave any arrangement of any subset of the tests.

`fault` is the error the first rejected loop threw, which `runQueue` adds to the result.
Ghost variables: `planned`, `starts`, `reported`, `verdict`.  No guard reads them; they
let the properties speak about the past.

`TestRun` is the promise: a test is owned by nobody or by one worker; it is executed
only by its owner, at most `MaxTries` times, and a verdict is final.  The refinement
maps the owner of a test to the loop that holds its item.

### MultiLock, LockPool

`core/utils/src/multi-lock.ts` as operators on a record; `LockPool.ts` as actions.  `Rest`
of the module `Queues` is what `remove` and `extract` of `core/utils/src/queue.ts` leave of
a queue.
`acquire` is one step (`Acquire`; `AcquireRejected` for an id in use).  `release` is
`Withdraw` when the request waits, otherwise `GiveBack` (the release of the permit *and*
the hand-over to the head of the queue, one synchronous call) or `GiveBackRefused`.  The
resolution of the waiter's promise is a microtask later: `Notify`.  A request id may be
used again when it is over.

### FilePermissionResolver

`FilePermissionResolver.ts`: the record `fpr` holds the fields of the class, and `held`
which clean-up callbacks are out.  The methods are operators on that record, composed as
the class composes them (`ChkEmpty`, `TryAccess`, `TryDelete` after every change), and the
actions are their calls.  `Release` calls the clean-up callback a request was given,
`ReleaseRefused` the one FSStoreFile calls after a refusal, `CleanWorker`, `CleanAll`,
`Unhook` are the class's `clean` and `unhook` methods.  `DeleteUnderLock` is the step the
class is there to prevent: a delete is granted and somebody has a lock.

### FSStoreServer, SharedFiles

`fs-store-server.ts` over the real pool and the real resolvers: the module instantiates
`LockPool` once and `FilePermissionResolver` for every file and uses their actions and
operators, nothing is modelled twice.  `pc[r]` follows a request through `RequestAction`
(the file name hook), the resolver's queue, the queue hook, the pool (`AskPool`,
`PoolNotify`), the answer (`Reply`), and back through `ReleaseAction` (`ReleaseLock`;
`ReleasePermit` first, then `ReleaseFile`: the order of the code, with the await
between).  `Crash` is the death of a worker, `ClearAction` the message that follows it,
sent in the root's name as the code does.

Clients use an id once and release after the answer, as FSStoreFile does outside
transactions; with `refusals` they also release what they were refused.

`SharedFiles` is the promise about each file: one writer, no delete under a lock, no lock
during a delete, and at most `Limit` writers and deleters over all files.

### TestWorkerInstance

`test-worker-instance.ts` with the parts of `direct-transport.ts` and
`worker-controller.ts` it meets.

| Model | Code |
|---|---|
| `worker`, `queued` | `this.worker` (which process), `this.queuedWorker` |
| `pending` | which test `successTestExecution`/`abortTestExecution` answer |
| `listeners` | the `onceFrom` listeners of `makeExecutionRequest` |
| `request[t]` | how far `makeExecutionRequest` is: fork, compilation, sent |
| `procs`, `running` | the child processes and the tests each of them runs |
| `completions` | `executionComplete` messages under way |
| `kills` | the `kill()` of the loop and that of the controller |
| `client`, `cur` | the loop of the run controller that drives this instance |
| `Reachable` | the process `send()` finds, by `direct-transport.ts` |
| `Complete`, `Finish` | the worker controller's message |
| `ExitAfterKill`, `UnexpectedExit`, `WorkerError` | `workerExitHandler` and the error handler |

`local` covers `test-worker-local.ts`, whose process is the root itself and whose kill
stops nothing.  `overtaken` is a ghost: the tests whose compilation or answer a `kill()`,
or the end of their process, went ahead of.  `Displaced(t)`: the functions that answer `t` were
replaced by those of another test, which only an overtaken one that is sent all the same does.

### BrowserProxy

`packages/browser-proxy` and `core/child-process/src/fork.ts`.

| Model | Code |
|---|---|
| `workersPool`, `lastWorkerIndex`, `applicantWorkerMap` | the fields of `BrowserProxyController`; `GetWorker` is `getWorker` |
| `px.worker[w]` | a `BrowserProxyWorker`: `worker`, `spawnPromise`, `pendingCommandsQueue` (`queue`), `pendingCommandsPool` (`pool`) |
| `px.child[c]` | the child processes with the commands they have got |
| `Ask`, `Execute`, `Send`, `Spawn`, `Connected`, `Resume`, `Pass` | `execute`, `send`, `spawn`, `onProxyConnect`; the fork between `Spawn` and `Connected` is awaited, and so is `spawn` by `execute` until `Resume` |
| `Crash`, `Disconnected` | `onExit`, `onProxyDisconnect`: pending commands go back to the queue and a child is forked |
| `Reply`, `Replied` | `BrowserProxy.onMessage`, in any order, and `onCommandResponse` |
| `KillAll`, `KillWorkers`, `KillCommand`, `KillGoesOn`, `KillRefused`, `AllKilled` | `kill()` of controller and worker; a plugin may refuse, then the worker's `kill()` rejects and the controller waits for no other |
| `AskLocal`, `AskTooLate` | the local worker; commands after `kill()` |

`execute()` looks for a child and then awaits `spawn()`, in every mode: two commands of one turn
of the event loop both find none and fork two.  Outside debug mode a fork ends in the turn in
which it began (`fork.ts` awaits nothing but resolved promises), in debug mode it looks for a port
first and may take as long as it likes or fail.  `TurnOver` holds back the messages, exits and
port searches until the continuations of a turn have run.  `raced` (a ghost) marks a worker that
called `spawn()` while it was forking: the later child takes the place of the earlier one.

### SeleniumSessions

The plugin of the driver: `createClient` in its steps (`FindClient`, `CreateClient`,
`Opened`), `end`, `close`, `emulateDevice`, the expiry check and `kill()`.  The commands
themselves differ only in how often they come back to `createClient`: once, as most, or again
(`Kinds`).  The expiry check (`CheckTimeout`) may run at any moment, beside the calls of any
applicant, as its interval does.  Two ghosts remember for whom a session was opened
(`opener`) and for whom one was opened beside another of his calls (`crossed`).  `kill()` walks over a `Map`: an
applicant that has been deleted and comes back into it is behind the others and is visited
again, hence `visited` loses what `Forget` deletes.

### WebApplication, BrowserTabs

`stepLog`, the wrapper of nearly every method, is modelled await by await (`Call`,
`Initialised`, `OpenStep`, `Goes`, `Resolves`, `Rejected`, `ErrorHandled`, `ClosesAgain`);
a method is the sequence of requests it makes, and the methods with the same sequences
share a definition (`ClickMethods`, `TextMethods` ...).  `Respond` is the controller in the
main process with the proxy behind it, `PageTimeout` the timer of `openPage`,
`CallAssertion` and `AssertHandled` an assertion, hard or soft, with the screenshots of the
application's handlers.

The methods about tabs (1310-1490) depend on what the requests return, so `BrowserTabs`
has them request by request, over a browser whose page may open and close tabs in between.

### TestExecution

`worker-controller.ts`, `run.ts`, `test-api-controller.ts`, `async-breakpoints.ts`: the tests
one process runs.  `breakpoints` and `waiting` are the class `AsyncBreakpoints`; `test[n]`
is the `run()` of a test and what its `runTest()` has heard on the bus; `completion` are the
calls of `completeExecution...()`, each with its own flush of `afterRunCallbacks`.  An
iteration over the list sees what is added to it (`live`), as JavaScript's does.

A file may call `run()` and then throw: `runTest()` rejects at once, its listeners stay on the bus
but call nothing, and `run()` goes on; its end is heard by the `runTest()` of the next test.  `threw`
are the tests whose files did that, `beside` those that began while such a `run()` was going on.

### FSStoreFile

`fs-store-file.ts` and the part of `fs-store-client.ts` that keeps requests, over the real
`FilePermissionResolver` (INSTANCE) and beside another process that writes the same file.
`fileCall` are the calls of methods with the await they are at, `request` is `reqHash`;
`inside` marks a call that found `inTransaction` set by somebody else's transaction and
therefore took no access and no lock, `barged` that a transaction began while another one
was being woken.

### Logger, HttpRequests, WsTransport, DirectTransport

`Logger`: `RunQueue` is `runQueue()` up to its first await, `Hooked`/`HookFailed`/`ErrorTold`
its continuations; `StartStep`, `StepEnds`, `PopTo` the stack of the client.
Whatever it awaits may reject, the hook of `onError` included (`onErrorFailed`).
`HttpRequests`: `Push`, `NextRequest`, `Receive` of the client, `Serve`, `KillServer` of the
server.  An answer is lost (`LosesAnswer`) by a server that was killed, by `beforeError`, by a send that
fails, and by a cookie jar that throws when the listeners are gone.  `WsTransport`: an action for each method and each event of the socket.
`DirectTransport`: `SendDirect`, `MessageResponse`, `ChildClosed` of the main process,
`HandleMessage` of a child.

### Devtool

`devtool-worker-controller.ts` with the web socket server, the reducer of the applications
and the main process's side (`StartServer` ... `KillDevtool`).  A message is looked at when it
arrives and then goes on await by await (`CreateStore`, `HasStore`, `RegisterWebAppId`,
`Dispatch`), so two messages may both find no store; `serial` chooses the behaviours in which
messages do not arrive together.

### Sandboxes

`BuildNodes` walks the graph depth first with its cache, as `buildNodes()` does;
`Dictionary` is what the worker gets.  `frames` is the stack of scripts being executed,
`instances` and `modulesCache` are the sandboxes.  A script ends, throws (`Compiled`: the `finally`
of `execute`), or does not compile (`NotCompiled`: `new Script` is outside the `try`).  `Init` chooses any graph within the bounds,
cycles and self-references included.

### Proof modules

`TestRunControllerProofs`, `LockPoolProofs`, `FilePermissionResolverProofs`,
`FSStoreServerProofs` and `TestWorkerInstanceProofs` hold the theorems of section 5, each
beside the module it extends; `BrowserProofs` and `ServicesProofs` those about the parts of
`MCBrowser` and `MCServices`, under the specification that the runs check.
`ExecutionProofs` has the invariants of `TestExecution`, `Devtool`, `Sandboxes` and `Logger` for
`ServicesProofs`.  These three say in their heads what their invariants consist of.  The facts
about queues as sequences (what `Append`, `Tail` and `Rest` keep: the members, their order,
each once) begin `FilePermissionResolverProofs`; the pool's proofs instantiate them.

### MCBrowser, MCServices

The components in each share no state, so one behaviour is one of one component (`part`)
while the others stay where they began: small state spaces in one run, each explored
completely.

## 4. Runs

| Run | Question | Instance |
|---|---|---|
| `trc` | Is every test in one place, bounded, final, and in the errors exactly when it was given up; does the run settle, everything stop and nothing stay? | 2 tests, one under a timeout; 2 workers; 1 retry; `beforeTestRetry` may reject; a signal at any moment |
| `trc_bail` | The promise as a refinement, when everything may reject, under `bail` and `restartWorker` | 2 tests, 2 workers, 1 retry; every hook and every kill may reject; unusable `workerLimit` |
| `trc_bail_doc` | Does `bail` stop the run? *No.* | 3 tests, 2 workers |
| `pool` | Are permits counted, backed, handed over in order? | 4 requests of 3 workers (one has two), 2 permits |
| `fpr` | One writer, deletes after locks, queues move | 4 requests of 2 workers, one file |
| `fpr_exclusive` | Does a write exclude a delete? *No.* | as `fpr` |
| `fss` | Do pool and resolvers together implement `SharedFiles` and answer? | 3 requests of 2 workers, 2 files, 2 permits |
| `fss_limit_doc` | Is the limit kept when refusals are released? *No.* | 4 requests, 2 files, 1 permit |
| `twi` | One process, own answers, every call settles | 2 tests, 2 forks, loop and controller both kill |
| `twi_kill_doc` | Is a killed execution a success? *No.* | as `twi` |
| `browser` | Is no command lost or left unanswered between a test and its browser? | 3 commands of 2 applicants over 2 workers and 3 children; 2 calls for 2 applicants, `kill()` and 2 sessions of the driver; 2 commands of a test; 2 tab commands over 3 tabs |
| `services` | Are entries, requests, messages, verdicts, files, code and pages kept? | 3 log calls and 3 steps; 3 requests of 2 clients; 3 messages over 3 sockets; 2 sends to 2 processes; 2 tests under 3 devtool messages; 3 calls on a file beside a writer; 3 devtool messages; 3 files, 2 runs |

`browser` and `services` state one property for each group of components, a conjunction of
the named properties of their modules:

| Property | Named parts |
|---|---|
| `ProxyKeeps` | `PendingAtChild`, `NoChildLeft` |
| `DriverKeeps` | `SessionsKept`, `NoSessionLeft` |
| `AppKeeps` | `StepsKept`, `NothingStray`, `AssertionsHeard`, `TabsLeft` |
| `MessagesKept` | `LinesKept`, `FailuresTolerated`, `StepsOnStack`, `OneRequestAtATime`, `WsInOrder`, `OneSocket`, `PendingRegistered`, `ResolvedForAReason` |
| `ExecutionKeeps` | `OwnVerdict`, `AfterRunCalled`, `PauseTold` |
| `FilesKept` | `AccessIsMine`, `LocksMatch`, `OneTransaction` |
| `CodeAndPagesFound` | `AppsFollowWorker`, `ActionsToOwner`, `NoStaleListener`, `DictionaryComplete`, `OneSandbox`, `PartialInCycle` |
| `BrowserAnswers`, `ServicesAnswer` | `<>[]` of each module's `...Quiet` |

The mutants of a conjunction break its parts one by one.

What the properties show is written above each of them in the module.

**Bounds, and why they are enough.**

* Two tests and two workers with one retry are the smallest run in which a test that
  failed in one loop is taken for its retry by the other, in which one loop leaves while
  the other pushes, and in which a worker that is killed takes the next test.
  `trc_bail_doc` needs a third test, so that one is left when the first fails.
* Four requests with two permits leave two waiting, so order matters; one worker with
  two requests lets a stray release hit the permit of another request of the same worker.
  Ids are used again, so the pool's run is not bounded in time.
* Four requests of two workers on one file give every kind a competitor of its own and of
  every other kind, and a queue of two behind a holder.  Each is used once, so these two
  modules stop: `CHECK_DEADLOCK FALSE` in `fpr*.cfg` and `fss*.cfg`.
* `QueuesServed`, `Answered` and the hand-over of writes are claimed of the behaviours in
  which no refusal is released, nothing is cleaned and no worker dies.  In the others they are
  false of the code (section 6).
* Three requests on two files have two on the same file, and with two permits the pool
  and the resolver are both short.  A limit of one permit, where everybody waits for the
  pool, is in `fss_limit_doc` and `pool`'s two permits for four requests.
* Two tests are what a stale answer needs: one that is late and one that gets it.
  `MaxForks` is the number of tests: the instance forks only in `execute()`, so at
  most once per test.  The loop ends, so `twi*.cfg` says `CHECK_DEADLOCK FALSE`.
* `beforeTestRetry` rejects in `trc` because that is the hook which ends a loop when its retry is
  in the queue: the run has settled, the other loop takes the retry, gives the test up and
  pushes its error (`ErrorsMatch`, which is checked there; that under `bail` a test given up fails
  the run is in the theorem `ErrorsAreRight`).  The process of the rejected loop stays until `kill()`
  (`EverythingStops` exempts it and claims the end after a `kill()`).  All hooks reject in
  `trc_bail`, where errors are thrown and never pushed.
* Two applicants, one of whom ends and asks again, meet the creation of a second worker, the
  mapping and its removal; the round robin over a full pool (`NextIndex`) needs a third
  applicant and is in the theorem (`CommandsAreKept`), not in the run.  Two commands of one
  applicant in one turn make the worker fork twice (`raced`).
* Two calls and two applicants have an expiry check beside a call of the same applicant and beside
  one of another; the second session is the one that a forgotten first would hide behind.
* In `browser` and `services` every call is made once.  Two calls of different kinds on one
  object are the smallest interleaving; where a third can slip between two (a transaction
  between one that ends and one that is woken, a message behind one that waits, a request
  behind two) there are three.  Crashes, failures, sockets, devtool messages, late requires
  are bounded by constants named in the modules (`MaxChildren`, `MaxFaults`,
  `MaxConnections`, `MaxDevtool`, `MaxReleases`, `MaxHandshakes`, `MaxLate` ...).  Calls end,
  so both cfgs say `CHECK_DEADLOCK FALSE`.
* The controller never stops silently: `Finished` is its idle state, and deadlock is
  checked for it and for the pool.

`Symmetry` is not used: most runs check liveness, and the others are small.

**Fairness, and why the code justifies it.**

* Every step that is a continuation on node's event loop (`MainStep`, `LoopStep`,
  `ServerStep`, `Notify`, `KillAgain`...) is weakly fair: a settled promise runs.
* Hooks answer or reject, messages between live processes arrive, timers fire, a process
  that got a signal exits.  All of it is the environment the code assumes.
* Clients release what they were granted (`Release`), as FSStoreFile does at the end
  of each of its operations (`releaseAccess`, `release`).  A client that never does blocks
  the others; a write that fails in the file system is such a client, for no `finally`
  releases it, and is left out of the models.
* Nothing makes a test end.  A test without a timeout must answer in `trc` (otherwise the
  code waits for ever, as it should); a test with one need not, its timer is enough.  In
  `twi` no test need end.
* Nothing makes a signal arrive, a worker die, a client ask, a hook reject.
* In `browser` and `services` the calls, crashes, failures, pages and devtool messages are
  not fair; answers, timers and continuations are, as one weakly fair disjunction.  As
  every call is made once, that is enough: no disjunct can be repeated for ever, so each that
  stays enabled is taken.  The liveness is `<>[]Quiet`, where `Quiet` says that nobody waits
  except for what its comment names: a lost answer, a crash during `kill()`, a worker that
  forked twice at once, a breakpoint that is set, a failed write.  `ExecuteSettles` of `twi` claims an
  answer of every `execute()`, whether it forks or finds a living worker, but that of an overtaken
  test and of a test whose answering functions such a one has replaced (section 6).

Only weak fairness is used anywhere.

## 5. Proofs

| Theorem | States, for all values of the constants |
|---|---|
| `TestRunControllerProofs!TypeCorrect` | the scheduler's state keeps its shape |
| `...!OnePlaceHolds` | a test is in one item, or in one loop's hands, or concluded |
| `...!AttemptsAreBounded` | at most `RetryCount + 1` executions |
| `...!VerdictsAreFinal` | no execution and no other verdict after a verdict |
| `...!SchedulerImplementsTestRun` | `Spec` implements `TestRun` |
| `...!PassesWereReported` | a test passes only if its worker said so |
| `...!NothingIsLeftOver` | loops that end leave no test and no process |
| `...!ErrorsAreRight` | the errors name every test given up, once, and no other; under `bail` such a test fails the run |
| `...!PassedIsNotRerun` | no execution after a success, unless the hook after it may reject |
| `LockPoolProofs!PermitsAreAccounted` | the pool counts exactly the holders |
| `...!NoPermitIdles` | nobody waits beside a free permit |
| `...!ServedFirstComeFirst` | permits are given in the order of the requests |
| `...!PermitsAreBacked` | never more permits counted than held, never more than the limit, also with `clean()` and stray releases |
| `FilePermissionResolverProofs!OneWriterAtOnce` | one request has the access |
| `...!LocksAreCounted` | the locks counted are those held |
| `...!DeletesWaitForLocks` | no delete is granted under a lock |
| `FSStoreServerProofs!TypeCorrect` | the server's state keeps its shape |
| `...!PermitsAreFollowed` | the permits of a worker are those of its granted requests |
| `...!WritesAreTakenInTurn` | one request writes a file |
| `...!StoreImplementsSharedFiles` | `Spec` implements `SharedFiles` |
| `TestWorkerInstanceProofs!TypeCorrect` | the instance's state keeps its shape |
| `...!OneProcessHolds` | one child process at most, and it is `this.worker` |
| `...!NothingIsLeft` | no process when the loop is over |
| `...!TestsStayApart` | one test runs at a time and is settled by its own message |
| `BrowserProofs!CommandsAreKept` | a pending command is with the child of its worker or queued for the next; no child outlives `kill()`: of workers that did not fork twice at once, and when no plugin refuses to be killed |
| `...!SessionsAreKept` | a session that is open is in the map; `kill()` leaves only those whose creation it raced with; except for applicants who had a session opened beside another of their calls |
| `...!AppIsKept` | `AppKeeps`: log steps in pairs, nothing stray, assertions heard, the tabs left open |
| `ServicesProofs!MessagesAreKept` | `MessagesKept`: entries of the log, steps, requests, messages of the socket, sends |
| `...!ExecutionIsKept` | `ExecutionKeeps`: a test has its own verdict unless the `run()` of a file that threw went on beside it; its callback called, pauses told |
| `...!CodeAndPagesAreFound` | `CodeAndPagesFound`: stores, owners and subscribers of the devtool; the dictionary and the sandboxes |
| `...!FilesAreKept` | `FilesKept`: a file object writes with an access of its own, has the locks the server knows, runs one transaction at a time |

The assumptions are those the modules declare: `ControllerAssumption` (finitely many
tests, none of them named like the other causes of an error, a positive limit, a retry
count), `PoolAssumption`, `ResolverAssumption` and `StoreAssumption` (finitely many requests,
each of one client), `InstanceAssumption`, `ProxyAssumption` (finitely many commands,
each of one applicant, a positive limit), `SessionsAssumption` (finitely many calls and applicants,
of these one at least), `HttpAssumption` (each
request has a client), `LoggerAssumption` (finitely many steps), `FileAssumption` (finitely many calls, each of one process, none with the id
of the lock at the start), `DevtoolAssumption` (each
application has a worker, "none" names neither), `SandboxAssumption` (finitely many files, the
entry no package).  `WorkerLimit`, `RetryCount`,
`MaxLockCount`, the number of tests, files, clients, requests, forks, commands, children,
sessions, entries, messages, stores, runs and sandboxes, the retries of the logger and `Failing` are arbitrary.

**The controller.**  `IInv == Typed /\ OnePlace /\ AttemptsOK`.  `OnePlace` is not
inductive alone: a loop that waits for the retry delay puts its item back, so the item
must be a proper one (`CurOK`), and the queue is filled when nothing has happened
to any test yet (`NotStarted`).  `AttemptsBounded` needs that the counter of an item
counts the executions of its test (`AttemptsOK`): at most `retry` in the queue, at most
`retry + 1` in a loop's hands; a loop that requeues has checked `retry < RetryCount`.  The
proof takes the steps of a loop through a common shape (`Moves`): the loop goes from one
label to another and a test gets its verdict only as it leaves the loop's hands.
The refinement then follows: `OnePlace` makes the owner of a test unique, so every
step maps to one of `TestRun`'s or to a stutter.

What the result says needs more: `ResultInv` follows a test from the answer of its worker
to the result.  `Heard` and `Believed` say that only a test reported as done is on its way to
`passed`; `Reaped` that a loop past its `worker.kill()` has no process; `Located` that a planned
test without a verdict is in the queue or in a loop's hands, and `Attended` that somebody is
left to take it: a loop that pushes a retry looks at the queue again before it ends, so a
queue that is not empty has a loop that will come back to it, whichever loops have left.
`Recorded` ties the errors to the verdicts in both directions, an error being pushed in the same step
as the verdict (or thrown, under `bail`, by a loop that has then rejected or is about to), and `Tolerated` says where a success may still be turned into a failure.

**The pool.**  `PoolInv` says, where nothing is cleaned, that the queue holds exactly
the pending requests, each once (`Pending`), and that somebody waits only when the limit is
reached (`Full`); and, where nobody releases what he does not hold, that the
counters are the numbers of holders (`Counted`).  Both parts need each other in the
hand-over: the permit that `release` frees is taken at once in the name of the head of the
queue, which therefore must not hold one already.

`PermitsBacked` is about all behaviours, stray releases and `clean()` included: a permit is
counted only when a request gets it and is uncounted no later than the request is over.

**The resolver.**  The invariant is stated about the record the methods work on, and each
method has a lemma that says what it keeps or restores.  `Sound` holds whatever the callers do:
who waits is in one queue, once, and holds nothing; one access is out exactly while
`accessing` says so; a free file has no lock.  `Backed` says that no more locks are counted
than held.  `Steady` holds while callers release what they hold and nothing else: the locks are
exactly counted (`Counts`), the state is `locked` while there are locks and deleted while there
are deletes, so `canBeDeleted` tells the truth (`Guarded`), and a write waits only for a write or
a deleted file (`HandedOver`).  `DeleteWaitsForLocks` is then a fact about one step.

**The file store.**  What the resolvers and the pool keep is taken from their own proofs, which
are instantiated.  The store's part ties the point a request has reached to what the resolver
of its file says of it (`At`) and to the pool's answer (`AtPool`): a file is granted from
`onQueue` to `releaseFile`, the permit from `permit` to `release`, and a request is in no file but
its own.  From there `WritesInTurn` is `Sound` of one file, `PermitsFollowRequests` the pool's
`Counted`, and every step maps to one of `SharedFiles` or to a stutter: an answer (`Reply`) is the
step that uses the file, and the permits counted bound the users.  `SharedFiles` is claimed of
the behaviours without released refusals and crashes; the others are mapped to a store that
nobody uses, for there the code does otherwise (`fss_limit_doc`, section 6).

**The worker instance.**  `Single` says that a live process is `this.worker` and that no
fork is under way then.  That is what `initWorker` tests before it forks, and what `kill()`
keeps by clearing `this.worker` only after the exit.  `Tidy` adds that a last `kill()` that is
done has found, or left, neither a worker nor a fork.  `TestsApart` follows from `Asked`,
`Turns` and `Places`: the message of completion names no test and everybody listens, so the
answer is right only because a single `execute()` is unsettled whenever a message is under way;
everything that settles a test without its message (exit, kill, error) also ends what ran, or
puts the test into `overtaken`.

**The browser.**  A worker of the proxy is described while it has not raced (`Calm`): one child at
most is alive or on its way, and it is `this.worker` or what `spawnPromise` stands for; the pool of
pending commands is that child's inbox; what is queued waits for a fork.  The lemmas say of each method
what it keeps of one worker, whoever the others are, because a method changes one worker, its
children and a command (`Changes`).  That `kill()` leaves no child needs to know where the children
are: `InUse` before it (the owner of each is in the pool that `kill()` walks over), `Met` after it (the
kill command of each has been sent, waits for the fork of that child or was refused), `Caught` when
it ends.

`SessionsKept` needs what a call knows between its awaits (`Knows`): nothing is in the map when
`remote()` answers, what is forgotten has been closed, `emulateDevice()` deletes the session in the
map.  An end that overlaps a new session of its applicant would forget it; then a call was under
way when that session was opened, and the applicant is `crossed`.  An expiry check is such a call
like any other.  In `kill()`, whose calls nobody awaits, it is true because no call creates a
session any more for an applicant that `kill()` has reached (`Visits`).  `Visits` failed at first, and
not in the proof: the model kept an applicant as visited that had been deleted from the map, while
the `Map` iterator of the code visits it again when it comes back.  The model was corrected.

`AppKeeps` has two parts.  A command and the inner command it awaits share one log: `PairIs` says what
the two may be doing beside each other, so nothing of a settled one goes on, and `LogOk` knows of
every command of a test that awaits its commands whether its step is open (`StepsKept`).  A
command on tabs is a list of requests that it makes one after the other; `Going` says for each
place of each list which tabs are open, which is current, what the command knows and what is
left to do.  `WholePrograms` shows that the lists of `BrowserTabs` are those places from the first on.

**The services.**  A step of `MCServices` is a step of one part, so each part has an invariant of
its own.  The logger's says place by place where an entry is (`Placed`) and, without retries,
what was accepted before what (`Ordered`); `Running` (the status is that of the one run)
excludes a second run, and `Counted` gives every try that is lost a failure that has
happened, perhaps of another entry: so no more failures than retries drop nothing.  Of the
stack, `StackKept`: `endStep()` takes one step with its message at least, or everything.  The
client's `InTurn` is `OneRequestAtATime` with the delay after a request included; it needs the
queue to be that of the waiting requests in their order (`InQueue`) and to be empty while it
does not run (`OneUnderway`).  `WsInOrder` and `OneSocket` are inductive with the types;
`PendingRegistered` and `ResolvedForAReason` need that the registry holds the processes whose
exit has not been handled (`Written`).

The tests of `TestExecution` run one after the other (`TestsInTurn`): one that starts finds
all before it completed, so whatever ends is the end of the only test that has not completed.
Without the devtool that is all `OwnVerdict` needs (`OnItsOwn`: no breakpoint is set, nobody
waits, and a completion has the status of the end that was heard); only a file that threw after it
called `run()` has completed while its `run()` goes on, and a test that begins then is `beside` it.  With the devtool a test may be
released under way and complete twice, and a broken breakpoint leaves callbacks behind;
`CallbacksKept` is about what is undisturbed: the one callback is in the list until a
flush has taken it, then in that flush, then called.  `PauseTold` holds of every change of
the pause alike, with `AtSet`: who waits does so at a breakpoint that is set.

In `Devtool` one invariant is about all messages, however they overlap: a store is of one
worker, whoever holds it, the worker, an application or a message on its way (`OneOwner`).  The rest
holds while messages are handled one at a time: a message then carries the store that its worker
has (`StoreOfWorker`), so what it attaches or dispatches is not another worker's.  An application
registers once (`RegisteredOnce`).  `NoStaleListener` is `SubscribedOnce`: a connection that shook
hands at most once listens to the one store it will be taken from.  That a store is shown where
an action is sent was not stated by `ActionsToOwner` at first; it is now.

In `Sandboxes`, `buildNodes()` returns at a file that is in its cache, so a node may be incomplete
while the walk is under way; `BuildKept` says which: those on the stack, which have what has been
read so far.  Everything else in the cache is complete, and the cache holds no file that the
entry does not reach (`CacheReached`); when the stack is empty the dictionary is the closure.  `OfTheRun`
is why a second run does not meet the sandboxes of the first: they were cleared, unless a
callback came late.

The file object is proved over the resolver's theorems, instantiated for one file (`ServerIs`, with
what this client makes of it: who waits waits for an access or a deletion, and nothing is
refused before a deletion was granted).  Its own part ties three views of one id: what the server
holds for it, what the client has been told (`RequestIs`), and the place of the call that asked
(`FileCallIs`).  `fileState.accessId` and the lock queue only have ids that were answered
(`KnownIds`), so what is released is held; with that and the counting of locks, `LocksMatch` is
inductive.  `AccessIsMine` is not: a call that overwrites `accessId` would release another's access.
`AccessFreed` says that without an overlap the release is of the call's own access, and that no other
call is at work while it is on its way.  `OneTransaction` needs to say who is next
(`OneActive`): a transaction that has left the queue is the only one, and between the end of one and the
start of the next the flag `enterTransaction` is down while the woken one has not come yet, which is
when another may barge in (`barged`, which the property exempts).  The proof needs calls that
are finite and of one process each, and ids that cannot be taken for that of the lock made at the start;
`FileAssumption` says so now, as the random ids of `ensureRequestId()` do in the code.

**Queues.**  What `remove` leaves of a queue (`Rest`) is a recursive function over its
positions.  `RestFacts` shows what it keeps by an induction made with sets of numbers, over the
least element that the library's `WFMin` gives every set of naturals; the library's induction
theorems, which take an operator as a parameter, cannot be used with these provers.

**Only model-checked.**  Liveness (`RunEnds`, `WaiterAnswered`, `QueuesServed`,
`Answered`, `CallsEnd`, `BrowserAnswers`, `ServicesAnswer`): TLAPS has no
proof rules here for fairness and `ENABLED`.  `BailStopsStarting`, `ExclusiveAccess` and the
other statements of the `_doc` runs are false.  Not proved are the types of all parts of the two
composed runs (`BrowserTypeOK`, `ServicesTypeOK`), of which the theorems prove what they need.

## 6. Where code and words differ

Shown by a run that violates what is written:

* `trc_bail_doc`: `docs/config.md:126` and `core/cli/src/index.ts:24` say that bail shuts
  down after the first failure; only the failing loop stops, the others take further tests
  even after the run has settled.
* `fpr_exclusive`: `fs-store-file.ts:177` speaks of an exclusive access right; a write on a
  file nobody has locked leaves the state `free`, so a delete is granted during the write.
* `fss_limit_doc`: `LockPool.ts:2` promises a maximum of locks at once; releasing a refused
  access gives back the permit of another request of the same worker.
* `twi_kill_doc`: a functional test says that an execution succeeds when its process is
  killed; a `kill()` that ends during the compilation makes it reject.

Met while modelling, without a run of their own:

* Deletes asked for while another delete is under way are granted at once, not one after
  the other (`tryDelete` accepts the state `deleting`).
* Releasing a refused lock, or a clean-up, makes a file under deletion `free` again
  (`chkEmpty` looks at locks and accesses only).  It is then locked and may be deleted
  under that lock, against `FilePermissionResolver.ts:10`; and `unlock` calls `chkEmpty`, never
  `tryAccess`, so a write may stay in the queue although nobody writes and nobody deletes.
  Hence the conditions of `DeleteWaitsForLocks`, `LocksCounted`, `QueuesServed` and of the
  mapping to `SharedFiles`.
* `releaseAllWorkerActions` of a dead worker is sent by the root process, in the root's
  name; what the dead worker had stays taken.  No property claims that files become free.
* `LockPool.clean(worker)` frees permits and wakes nobody.  It has no caller outside tests.
* `unhookAccess` and `unhookUnlink` keep the given request and drop other workers'.
* A fork that rejects stays in `queuedWorker`: later `execute()` and `kill()` reject.
* Worker instance: a test that a `kill()` has overtaken is sent to the next process all the same,
  and its functions then replace those of the next test, which neither its message nor a later
  `kill()` answers (`Displaced`).
* Run controller: a loop that a hook rejects ends without `worker.kill()`; its process stays until
  the controller's `kill()`.
* Browser proxy: two commands of one turn fork two children (188 checks what 146 awaits), of which
  the later one replaces the earlier, whose answers are dropped (`raced`); `kill()` waits for ever
  when the child dies before it answers; a plugin that refuses to be killed keeps its child, and the
  controller clears its pool without waiting for the other workers (`NoChildLeft`); commands that are
  pending when the controller is killed are never settled (`ProxyQuiet`).
* Web application: a failed command ends its step twice (2003 follows the `catch` at 1996), and
  the second time, its step being gone, `endStep` pops all steps, also the test's own; two
  commands that are not awaited both open a step; a screenshot that fails after a failed
  command ends the process; an assertion that holds is a failure when its screenshot fails.
* Tabs: closing the main tab beside others leaves `mainTabID` behind (`TabsLeft` excludes it).
* Driver: a session that is opened while another call of its applicant is under way may be
  forgotten and stay open: one of two that are opened together, or one that is opened while an `end()`,
  the expiry check's included, waits to delete the applicant from the map (`crossed`).
* Logger: an entry's retries are those of whatever entry is next, so `LinesKept` promises an
  order only without retries; the error of an entry without retries is an unhandled rejection,
  and so is that of an `onError` hook, whatever retries are left.
* HTTP: after a `kill()` of the server, a plugin that fails in `beforeError`, a send of the answer that
  fails (it is logged only) or a cookie jar that throws (its listeners are gone by then), the request
  is never settled and the client's queue stops for ever (`unanswered`).
* Web sockets: `close()` of a connecting socket is an error and connects again; a message that
  cannot be serialized blocks those behind it; the first handshake response settles all.
* Transport: the exit of `proxy-12` resolves the pending sends of `proxy-123` (`freed`).
* Worker controller: `breakStack` leaves the rejected breakpoint in the map, and later flushes
  call nothing; a callback that rejects is called again after the next test; a test released
  twice completes twice; after a release the old test runs on and its bus events settle the
  next one; so does the `run()` of a file that throws after it has called it (`beside`).
* File: `startTransaction` does not look again when it is woken; a call that overlaps somebody
  else's transaction acts inside it and may release or replace its ids; `unlockAll` leaves
  the ids in the queue, and a later `unlock` waits for ever; `waitForUnlock` marks the file as
  deleted in the resolver; a write that fails keeps its access.
* Devtool: messages that arrive together make two stores for a worker; a second handshake on a
  connection leaves the first one's subscription, and a dispatch after the connection has closed
  throws; the reducer keeps the application that leaves and drops the others
  (`web-applications-reducer.ts:38`); messages before `initMessagesProxy` are lost.
* Sandbox: a script that threw counts as compiled and its partial exports are handed out; one that
  does not compile, and a test whose `evaluateScript()` threw, stay in compilation for ever; a
  callback that requires a file after its run leaves the old run's sandbox for the next test.

## 7. Not modelled

* `core/async-assert/src/promisedAssert.ts` (1821 lines) and the other interface files: types
  without behaviour.
* `packages/element-path`: it builds the text of a query, one name after the other; its
  correctness is that of wording.
* Configuration, plugin loading, the hook mechanism itself: sequential, before anything runs
  concurrently.  A hook appears in the modules that call it as an answer or a failure.
* The file reader, babel and file-name plugins, the serialization of messages: conversions.
* The devtool's front end, extension, code editor, http routes and its other reducers: user
  interface.
* `stopAllSessions` of the driver under `workerLimit: 'local'`, which asks `end()` again for
  applicants whose `end()` has failed, and how the processes of a local server are killed; a test
  that calls `run()` more than once, a proxy plugin that cannot be initialised, plugin queues of the file store
  other than the default pool.
* Permits and transactions together: a test that nests writes in as many transactions as
  there are permits waits for ever; the nesting is the test's own.
* Formatting, debug flags and inspector ports, file contents and names, the compilation itself
  (it ends or fails), environment variables.
* `node`'s delivery of messages: in order between two processes, lost only when the
  receiver has ended.
