------------------------------ MODULE FSStoreServer ------------------------------
(***************************************************************************)
(* The file store: core/fs-store/src/fs-store-server.ts with the clients   *)
(* of fs-store-client.ts and fs-store-file.ts.  The server composes one    *)
(* FilePermissionResolver per file with one LockPool for all files.        *)
(*                                                                         *)
(* A handler of the server awaits plugin hooks (the file name, the queue)  *)
(* and the pool, so the handlers of different requests interleave freely:  *)
(* pc[r] is the point that the request r has reached, in its client, in    *)
(* its RequestAction or in its ReleaseAction.  The time a message travels  *)
(* is part of the point before it.                                         *)
(***************************************************************************)
EXTENDS Integers, Sequences, FiniteSets, Functions

CONSTANTS
  Clients,        \* the workers
  Requests,       \* the request ids; each is used once
  Client,         \* the worker of each request
  Files, File,    \* the files, and the file of each request
  MaxLockCount    \* config.maxWriteThreadCount

ASSUME StoreAssumption ==
  /\ IsFiniteSet(Requests)
  /\ Client \in [Requests -> Clients]
  /\ File \in [Requests -> Files]
  /\ MaxLockCount \in Nat

VARIABLES
  refusals,     \* chosen once: clients release what they were refused, as
                \* FSStoreFile does
  crashes,      \* chosen once: workers may die
  pc,           \* how far each request has come
  kind,         \* what it asks for
  files,        \* this.files: the permission resolver of each file
  poolLock, requestQue, requests, answer,    \* the LockPool
  dead          \* the workers that have died

poolVars == <<poolLock, requestQue, requests, answer>>
usage == <<refusals, crashes>>
vars == <<usage, pc, kind, files, poolVars, dead>>

\* A released refusal is a release of a request without a permit.
Pool == INSTANCE LockPool WITH strays <- refusals, cleaning <- crashes
Resolver(f) == INSTANCE FilePermissionResolver WITH fpr <- files[f], cleaning <- crashes

Points ==
  {"idle", "request", "queued", "onQueue", "permit", "granted", "refused",
   "release", "releaseQueue", "releaseFile", "over"}

TypeOK ==
  /\ refusals \in BOOLEAN /\ crashes \in BOOLEAN
  /\ pc \in [Requests -> Points]
  /\ kind \in [Requests -> {"none", "lock", "access", "unlink"}]
  /\ \A f \in Files : Resolver(f)!TypeOK
  /\ Pool!TypeOK
  /\ dead \subseteq Clients

Init ==
  /\ refusals \in BOOLEAN /\ crashes \in BOOLEAN
  /\ pc = [r \in Requests |-> "idle"]
  /\ kind = [r \in Requests |-> "none"]
  /\ files = [f \in Files |-> Resolver(f)!New]
  /\ Pool!Init
  /\ dead = {}

Alive(r) == Client[r] \notin dead

\* Where a request stands after a call of the resolver of its file that may
\* have granted it something: the callback of an access or a delete goes on to
\* the pool.
Reached(what) ==
  CASE what = "lock" -> "granted"
    [] what = "access" -> "onQueue"
    [] what = "unlink" -> "onQueue"
    [] what = "refused" -> "refused"
    [] what = "queued" -> "queued"

\* The resolver of f becomes new; requests it has granted move on, r goes to at.
Resolve(f, new, r, at) ==
  /\ files' = [files EXCEPT ![f] = new]
  /\ pc' = [q \in Requests |->
              IF q = r THEN at
              ELSE IF pc[q] = "queued" /\ new.held[q] \in {"access", "unlink"}
              THEN "onQueue" ELSE pc[q]]

-----------------------------------------------------------------------------
\* getLock, getAccess, getUnlink of the client.
Ask(r) ==
  /\ pc[r] = "idle" /\ Alive(r)
  /\ \E k \in {"lock", "access", "unlink"} : kind' = [kind EXCEPT ![r] = k]
  /\ pc' = [pc EXCEPT ![r] = "request"]
  /\ UNCHANGED <<usage, files, poolVars, dead>>

\* RequestAction after the file name is known, up to the resolver's callback.
RequestAction(r) ==
  /\ pc[r] = "request"
  /\ LET f == File[r]
         new == CASE kind[r] = "lock" -> Resolver(f)!Lock(files[f], r)
                  [] kind[r] = "access" -> Resolver(f)!HookAccess(files[f], r)
                  [] kind[r] = "unlink" -> Resolver(f)!HookUnlink(files[f], r)
     IN Resolve(f, new, r, Reached(new.held[r]))
  /\ UNCHANGED <<usage, kind, poolVars, dead>>

\* Mutant: the reply is sent without asking the pool.
AskPool_Skipped(r) ==
  /\ pc[r] = "onQueue"
  /\ pc' = [pc EXCEPT ![r] = "granted"]
  /\ UNCHANGED <<usage, kind, files, poolVars, dead>>

\* The callback of an access or a delete: the queue hook has answered with the
\* default pool, which is asked for a permit.
AskPool(r) ==
  /\ pc[r] = "onQueue"
  /\ Pool!Acquire(r)
  /\ pc' = [pc EXCEPT ![r] = "permit"]
  /\ UNCHANGED <<usage, kind, files, dead>>

\* The microtask of LockPool.release.
PoolNotify(r) == Pool!Notify(r) /\ UNCHANGED <<usage, pc, kind, files, dead>>

\* acquire() has resolved with true: the answer is OK.  ("no access" is for a
\* request withdrawn while it waits; FSStoreFile releases after the answer only.)
Reply(r) ==
  /\ pc[r] = "permit" /\ answer[r] = "granted"
  /\ pc' = [pc EXCEPT ![r] = "granted"]
  /\ UNCHANGED <<usage, kind, files, poolVars, dead>>

\* The client releases what it was told of; FSStoreFile does not look at the
\* status and releases a refusal as well.
Release(r) ==
  /\ Alive(r)
  /\ pc[r] \in {"granted"} \cup (IF refusals THEN {"refused"} ELSE {})
  /\ pc' = [pc EXCEPT ![r] = "release"]
  /\ UNCHANGED <<usage, kind, files, poolVars, dead>>

\* ReleaseAction of a lock: its clean-up callback, or, when there is none,
\* unlock() in the worker's name.
ReleaseLock(r) ==
  /\ pc[r] = "release" /\ kind[r] = "lock"
  /\ LET f == File[r]
         new == IF files[f].held[r] = "lock"
                THEN Resolver(f)!LockReleased(files[f], r)
                ELSE Resolver(f)!Unlock(Resolver(f)!Tell(files[f], r, "over"), Client[r])
     IN Resolve(f, new, r, "over")
  /\ UNCHANGED <<usage, kind, poolVars, dead>>

\* ReleaseAction of an access or a delete asks for the queue first.
ReleaseAction(r) ==
  /\ pc[r] = "release" /\ kind[r] # "lock"
  /\ pc' = [pc EXCEPT ![r] = "releaseQueue"]
  /\ UNCHANGED <<usage, kind, files, poolVars, dead>>

\* Mutant: the permit is not given back.
ReleasePermit_Kept(r) ==
  /\ pc[r] = "releaseQueue"
  /\ pc' = [pc EXCEPT ![r] = "releaseFile"]
  /\ UNCHANGED <<usage, kind, files, poolVars, dead>>

\* The permit goes back to the pool; a refused access has none and takes one of
\* its worker's.
ReleasePermit(r) ==
  /\ pc[r] = "releaseQueue"
  /\ Pool!Release(r)
  /\ pc' = [pc EXCEPT ![r] = "releaseFile"]
  /\ UNCHANGED <<usage, kind, files, dead>>

\* Mutant: the clean-up callback of the file is not called.
ReleaseFile_NoCleanUp(r) ==
  /\ pc[r] = "releaseFile"
  /\ pc' = [pc EXCEPT ![r] = "over"]
  /\ UNCHANGED <<usage, kind, files, poolVars, dead>>

\* After the await the answer is sent and the clean-up callback called, if there
\* is one: the next writer or deleter of the file is granted.
ReleaseFile(r) ==
  /\ pc[r] = "releaseFile"
  /\ LET f == File[r]
         new == CASE files[f].held[r] = "access" -> Resolver(f)!AccessReleased(files[f], r)
                  [] files[f].held[r] = "unlink" -> Resolver(f)!UnlinkReleased(files[f], r)
                  [] OTHER -> files[f]
     IN Resolve(f, new, r, "over")
  /\ UNCHANGED <<usage, kind, poolVars, dead>>

\* A worker dies: its requests stay where they are, also in the server.
Crash(w) ==
  /\ crashes /\ w \notin dead
  /\ dead' = dead \cup {w}
  /\ UNCHANGED <<usage, pc, kind, files, poolVars>>

\* releaseAllWorkerActions is called in the root process, so ClearAction cleans
\* in the name of the root process, which holds nothing: all that happens is
\* that every resolver normalises its state.
ClearAction ==
  /\ dead # {}
  /\ files' = [f \in Files |-> Resolver(f)!ChkEmpty(files[f])]
  /\ pc' = [q \in Requests |->
              IF pc[q] = "queued" /\ files'[File[q]].held[q] \in {"access", "unlink"}
              THEN "onQueue" ELSE pc[q]]
  /\ UNCHANGED <<usage, kind, poolVars, dead>>

ServerStep(r) ==
  \/ RequestAction(r) \/ AskPool(r) \/ PoolNotify(r) \/ Reply(r)
  \/ ReleaseLock(r) \/ ReleaseAction(r) \/ ReleasePermit(r) \/ ReleaseFile(r)

Next ==
  \/ \E r \in Requests : Ask(r) \/ Release(r) \/ ServerStep(r)
  \/ \E w \in Clients : Crash(w)
  \/ ClearAction

Spec == Init /\ [][Next]_vars

\* The server's handlers go on, hooks answer and clients release what they have.
FairSpec ==
  Spec /\ \A r \in Requests : WF_vars(ServerStep(r)) /\ WF_vars(Release(r))
-----------------------------------------------------------------------------
(* What the file store promises                                            *)

\* The requests whose clients may touch the file: told, and not yet released.
Using(k) == {r \in Requests : pc[r] = "granted" /\ kind[r] = k}

\* The requests that a permit was taken for and not given back.
Permitted ==
  {r \in Requests : \/ pc[r] = "permit" /\ answer[r] \in {"handed", "granted"}
                    \/ pc[r] \in {"granted", "release", "releaseQueue"} /\ kind[r] # "lock"}

\* The pool counts one permit for each of them, whatever order the handlers of
\* requests and releases run in, and whoever dies.
PermitsFollowRequests ==
  ~refusals => \A w \in Clients :
    poolLock.hash[w] = Cardinality({r \in Permitted : Client[r] = w})

\* "manage pool of locks from different sources with max locks amount at once":
\* never more clients write or delete at once than the limit allows.
WriteLimit ==
  MaxLockCount > 0 => Cardinality(Using("access") \cup Using("unlink")) <= MaxLockCount

\* While nobody dies or releases a refusal, nobody waits for a write unless the file
\* is deleted or somebody has the write whose release is still to come.
WriteHandedOver ==
  ~refusals /\ ~crashes => \A f \in Files : files[f].access # <<>> =>
    \/ Resolver(f)!IsDeleted(files[f])
    \/ \E r \in Requests :
         File[r] = f /\ kind[r] = "access" /\ pc[r] \notin {"idle", "request", "queued", "over"}

\* Two clients never write one file at once, whoever releases, is refused or dies.
OneWriterPerFile == \A r, q \in Using("access") : File[r] = File[q] => r = q

\* Writes of a file go from one client to the next: never two at once, and none is waiting
\* for nobody (the releases of accesses in ReleaseAction).
WritesInTurn == OneWriterPerFile /\ WriteHandedOver

\* A file is written by one client at a time, not deleted while it is locked and
\* not locked while it is deleted, within the limit: in the behaviours in which no
\* worker dies and no refusal is released; the others map to an abstract store that
\* nobody uses.  (ClearAction makes a file that is being deleted "free" again.)
UsingFile(k, f) ==
  IF refusals \/ crashes THEN {} ELSE {r \in Using(k) : File[r] = f}
Shared == INSTANCE SharedFiles WITH
  Agents <- Requests, Limit <- MaxLockCount,
  lockers <- [f \in Files |-> UsingFile("lock", f)],
  writers <- [f \in Files |-> UsingFile("access", f)],
  deleters <- [f \in Files |-> UsingFile("unlink", f)]

ImplementsSharedFiles == Shared!Spec

\* As long as no worker dies and no refusal is released, every request is answered
\* through both queues when clients release what they were given; a write may find
\* the file deleted.
Answered ==
  \A r \in Requests : ~refusals /\ ~crashes /\ pc[r] = "request" ~>
    \/ pc[r] \in {"granted", "refused"}
    \/ kind[r] = "access" /\ Resolver(File[r])!IsDeleted(files[File[r]])
=============================================================================
