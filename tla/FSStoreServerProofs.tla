--------------------------- MODULE FSStoreServerProofs ---------------------------
(***************************************************************************)
(* Proofs about FSStoreServer for any workers, requests, files and limit.  *)
(*                                                                         *)
(* What the resolvers and the pool keep is taken from their own proofs,    *)
(* instantiated here.  The server's part of the invariant, Stages, ties    *)
(* the point a request has reached to what the resolver of its file says   *)
(* of it and to the pool's answer; it is what the promises about the       *)
(* clients (told and not yet released) rest on.                            *)
(***************************************************************************)
EXTENDS FSStoreServer, FiniteSetTheorems, TLAPS

\* The resolvers' methods are operators on a record, the same for every file.
RP == INSTANCE FilePermissionResolverProofs WITH fpr <- files, cleaning <- crashes
PP == INSTANCE LockPoolProofs WITH strays <- refusals, cleaning <- crashes

\* The library's operators are the same in every instance.
LEMMA SameSets ==
  /\ \A S : RP!IsFiniteSet(S) <=> IsFiniteSet(S)
  /\ \A S : PP!IsFiniteSet(S) <=> IsFiniteSet(S)
  /\ \A S : PP!Cardinality(S) = Cardinality(S)
<1>1. \A S : RP!IsFiniteSet(S) <=> IsFiniteSet(S)
  BY DEF RP!IsFiniteSet, IsFiniteSet
<1>2. \A S : PP!IsFiniteSet(S) <=> IsFiniteSet(S)
  BY DEF PP!IsFiniteSet, IsFiniteSet
<1>3. \A S : PP!Cardinality(S) = Cardinality(S)
  BY DEF PP!Cardinality, Cardinality
<1> QED
  BY <1>1, <1>2, <1>3

LEMMA StoreFacts ==
  /\ IsFiniteSet(Requests) /\ Client \in [Requests -> Clients]
  /\ File \in [Requests -> Files] /\ MaxLockCount \in Nat
  /\ RP!ResolverConstants /\ PP!PoolConstants
BY StoreAssumption, SameSets DEF RP!ResolverConstants, PP!PoolConstants

-----------------------------------------------------------------------------
(* The methods of the resolver of a file are those the proofs are about.   *)

LEMMA SameTries ==
  ASSUME NEW f \in Files, NEW x
  PROVE  /\ Resolver(f)!IsDeleted(x) = RP!IsDeleted(x)
         /\ Resolver(f)!TryDelete(x) = RP!TryDelete(x)
<1>1. Resolver(f)!IsDeleted(x) = RP!IsDeleted(x)
  BY DEF Resolver!IsDeleted, RP!IsDeleted
<1>2. Resolver(f)!CanBeDeleted(x) = RP!CanBeDeleted(x)
  BY DEF Resolver!CanBeDeleted, RP!CanBeDeleted
<1> QED
  BY <1>1, <1>2 DEF Resolver!TryDelete, RP!TryDelete

LEMMA SameChkEmpty ==
  ASSUME NEW f \in Files, NEW x
  PROVE  Resolver(f)!ChkEmpty(x) = RP!ChkEmpty(x)
BY SameTries DEF Resolver!ChkEmpty, RP!ChkEmpty

LEMMA SameTryAccess ==
  ASSUME NEW f \in Files, NEW x
  PROVE  Resolver(f)!TryAccess(x) = RP!TryAccess(x)
BY SameTries, SameChkEmpty DEF Resolver!TryAccess, RP!TryAccess

LEMMA SameMethods ==
  ASSUME NEW f \in Files, NEW x, NEW r \in Requests
  PROVE  /\ Resolver(f)!Lock(x, r) = RP!Lock(x, r)
         /\ Resolver(f)!HookAccess(x, r) = RP!HookAccess(x, r)
         /\ Resolver(f)!HookUnlink(x, r) = RP!HookUnlink(x, r)
         /\ Resolver(f)!LockReleased(x, r) = RP!LockReleased(x, r)
         /\ Resolver(f)!AccessReleased(x, r) = RP!AccessReleased(x, r)
         /\ Resolver(f)!UnlinkReleased(x, r) = RP!UnlinkReleased(x, r)
         /\ Resolver(f)!Unlock(Resolver(f)!Tell(x, r, "over"), Client[r])
              = RP!Unlock(RP!Tell(x, r, "over"), Client[r])
         /\ Resolver(f)!New = RP!New
         /\ Resolver(f)!Resolvers = RP!Resolvers
<1>1. \A y, what : Resolver(f)!Tell(y, r, what) = RP!Tell(y, r, what)
  BY DEF Resolver!Tell, RP!Tell
<1>2. \A y : Resolver(f)!Unlock(y, Client[r]) = RP!Unlock(y, Client[r])
  BY SameChkEmpty
     DEF Resolver!Unlock, RP!Unlock, Resolver!Locks!CanRelease, RP!Locks!CanRelease,
         Resolver!Locks!Released, RP!Locks!Released
<1>3. Resolver(f)!Lock(x, r) = RP!Lock(x, r)
  BY <1>1, SameTries
     DEF Resolver!Lock, RP!Lock, Resolver!Locks!Acquired, RP!Locks!Acquired
<1>4. Resolver(f)!HookAccess(x, r) = RP!HookAccess(x, r)
  BY <1>1, SameTries, SameTryAccess DEF Resolver!HookAccess, RP!HookAccess
<1>5. Resolver(f)!HookUnlink(x, r) = RP!HookUnlink(x, r)
  BY <1>1, SameTries DEF Resolver!HookUnlink, RP!HookUnlink
<1>6. Resolver(f)!LockReleased(x, r) = RP!LockReleased(x, r)
  BY <1>1, <1>2 DEF Resolver!LockReleased, RP!LockReleased
<1>7. Resolver(f)!AccessReleased(x, r) = RP!AccessReleased(x, r)
  BY <1>1, SameTryAccess DEF Resolver!AccessReleased, RP!AccessReleased
<1>8. Resolver(f)!UnlinkReleased(x, r) = RP!UnlinkReleased(x, r)
  BY <1>1, SameTries DEF Resolver!UnlinkReleased, RP!UnlinkReleased
<1>9. Resolver(f)!New = RP!New
  BY DEF Resolver!New, RP!New, Resolver!Locks!NoLocks, RP!Locks!NoLocks
<1>10. Resolver(f)!Resolvers = RP!Resolvers
  BY DEF Resolver!Resolvers, RP!Resolvers, Resolver!Locks!MultiLocks, RP!Locks!MultiLocks,
         Resolver!States, RP!States, Resolver!Held, RP!Held
<1> QED
  BY <1>1, <1>2, <1>3, <1>4, <1>5, <1>6, <1>7, <1>8, <1>9, <1>10

\* And the operations of the pool are those of the pool's proofs.
LEMMA SamePool ==
  ASSUME NEW r \in Requests
  PROVE  /\ Pool!Acquire(r) <=> PP!Acquire(r)
         /\ Pool!Notify(r) <=> PP!Notify(r)
         /\ Pool!Release(r) <=> PP!Release(r)
         /\ Pool!Init <=> PP!Init
         /\ Pool!TypeOK <=> PP!TypeOK
<1>1. \A l : Pool!Lock!CanAcquire(l, MaxLockCount) <=> PP!Lock!CanAcquire(l, MaxLockCount)
  BY DEF Pool!Lock!CanAcquire, PP!Lock!CanAcquire
<1>2. \A l, w : /\ Pool!Lock!Acquired(l, w) = PP!Lock!Acquired(l, w)
                /\ Pool!Lock!Released(l, w) = PP!Lock!Released(l, w)
                /\ Pool!Lock!CanRelease(l, w) <=> PP!Lock!CanRelease(l, w)
  BY DEF Pool!Lock!Acquired, PP!Lock!Acquired, Pool!Lock!Released, PP!Lock!Released,
         Pool!Lock!CanRelease, PP!Lock!CanRelease
<1>3. \A q, l, queue, told, how :
        Pool!AcquireAction(q, l, queue, told, how) <=> PP!AcquireAction(q, l, queue, told, how)
  BY <1>1, <1>2 DEF Pool!AcquireAction, PP!AcquireAction
<1>4. Pool!Waiting(r) <=> PP!Waiting(r)
  BY DEF Pool!Waiting, PP!Waiting, Pool!Range, PP!Range
<1>5. Pool!Acquire(r) <=> PP!Acquire(r)
  BY <1>3 DEF Pool!Acquire, PP!Acquire, Pool!usage, PP!usage
<1>6. Pool!Notify(r) <=> PP!Notify(r)
  BY DEF Pool!Notify, PP!Notify, Pool!usage, PP!usage
<1>7. Pool!Withdraw(r) <=> PP!Withdraw(r)
  BY DEF Pool!Withdraw, PP!Withdraw, Pool!Without, PP!Without, Pool!usage, PP!usage
<1>8. Pool!GiveBack(r) <=> PP!GiveBack(r)
  BY <1>2, <1>3, <1>4 DEF Pool!GiveBack, PP!GiveBack, Pool!usage, PP!usage
<1>9. Pool!GiveBackRefused(r) <=> PP!GiveBackRefused(r)
  BY <1>2, <1>4 DEF Pool!GiveBackRefused, PP!GiveBackRefused, Pool!usage, PP!usage
<1>10. Pool!Release(r) <=> PP!Release(r)
  BY <1>7, <1>8, <1>9 DEF Pool!Release, PP!Release
<1>11. Pool!Init <=> PP!Init
  BY DEF Pool!Init, PP!Init, Pool!Lock!NoLocks, PP!Lock!NoLocks
<1>12. Pool!TypeOK <=> PP!TypeOK
  BY DEF Pool!TypeOK, PP!TypeOK, Pool!Lock!MultiLocks, PP!Lock!MultiLocks,
         Pool!Answers, PP!Answers
<1> QED
  BY <1>5, <1>6, <1>10, <1>11, <1>12

-----------------------------------------------------------------------------
(* The invariant.                                                          *)

Kinds == {"none", "lock", "access", "unlink"}

\* What the resolver says of a request that has come to a point.
At(point, k, h) ==
  /\ point = "idle" <=> k = "none"
  /\ point \in {"idle", "request"} => h = "new"
  /\ point = "queued" => h = "queued"
  /\ point \in {"onQueue", "permit", "granted"} => h = k
  /\ point = "refused" => h = "refused"
  /\ point \in {"release", "releaseQueue", "releaseFile"} =>
       h = k \/ (refusals /\ h = "refused")
  /\ point = "over" => h \in {"over", "refused"}
  /\ point \in {"queued", "onQueue", "permit", "releaseQueue", "releaseFile"} => k # "lock"

\* What the pool has told it.
AtPool(point, k, a) ==
  /\ point \in {"idle", "request", "queued", "onQueue", "refused", "releaseFile", "over"}
       => a = "none"
  /\ k = "lock" => a = "none"
  /\ point = "permit" => a \in {"waiting", "handed", "granted"}
  /\ point \in {"granted", "release", "releaseQueue"} /\ k # "lock" =>
       a = "granted" \/ (refusals /\ a = "none")

\* Requests are at their points in the resolver of their file and new in the others,
\* and they wait in the queue of what they ask for.
FilesInv ==
  /\ files \in [Files -> RP!Resolvers]
  /\ pc \in [Requests -> Points] /\ kind \in [Requests -> Kinds]
  /\ \A f \in Files : RP!Sound(files[f])
  /\ \A f \in Files, q \in Requests :
       /\ RP!In(q, files[f].access) => kind[q] = "access"
       /\ RP!In(q, files[f].del) => kind[q] = "unlink"
  /\ \A q \in Requests, f \in Files : f # File[q] => files[f].held[q] = "new"
  /\ \A q \in Requests : At(pc[q], kind[q], files[File[q]].held[q])

Calm == ~refusals /\ ~crashes

SteadyInv == Calm => \A f \in Files : RP!Steady(files[f])

PoolInv ==
  /\ PP!QueueInv
  /\ ~refusals => PP!Counted(poolLock, answer)
  /\ \A q \in Requests : AtPool(pc[q], kind[q], answer[q])

StoreInv ==
  /\ refusals \in BOOLEAN /\ crashes \in BOOLEAN
  /\ dead \subseteq Clients /\ (dead # {} => crashes)
  /\ FilesInv /\ SteadyInv /\ PoolInv

-----------------------------------------------------------------------------
(* The resolvers' side.                                                    *)

\* Whoever is in a queue of a resolver is queued there, so it has asked that file.
LEMMA QueuedHere ==
  ASSUME FilesInv, NEW f \in Files, NEW q \in Requests,
         RP!In(q, files[f].access) \/ RP!In(q, files[f].del)
  PROVE  files[f].held[q] = "queued" /\ File[q] = f /\ pc[q] = "queued"
<1>1. RP!Queued(files[f])
  BY DEF FilesInv, RP!Sound
<1>2. files[f].held[q] = "queued"
  BY <1>1 DEF RP!Queued, RP!WaitsOnce, RP!In
<1>3. File[q] = f
  BY <1>2 DEF FilesInv
<1>4. pc[q] \in Points /\ kind[q] \in Kinds /\ At(pc[q], kind[q], "queued")
  BY <1>2, <1>3 DEF FilesInv
<1> QED
  BY <1>2, <1>3, <1>4 DEF At, Points, Kinds

\* A call of a resolver: its caller moves to a point that fits, and so does everybody
\* whom the call has granted something.
LEMMA ResolveKeeps ==
  ASSUME FilesInv, NEW r \in Requests, NEW new, NEW at \in Points, NEW what,
         Resolve(File[r], new, r, at), UNCHANGED <<kind, refusals>>,
         RP!Sound(new), RP!Calls(files[File[r]], new, r, what),
         "access" \in what => kind[r] = "access",
         "unlink" \in what => kind[r] = "unlink",
         At(at, kind[r], new.held[r])
  PROVE  FilesInv'
<1> DEFINE f == File[r]
           old == files[f]
<1>1. /\ f \in Files /\ files \in [Files -> RP!Resolvers] /\ new \in RP!Resolvers
      /\ pc \in [Requests -> Points] /\ kind \in [Requests -> Kinds]
  BY StoreFacts DEF FilesInv, RP!Sound, RP!Queued
<1>2. /\ files' = [files EXCEPT ![f] = new] /\ kind' = kind
      /\ pc' = [q \in Requests |->
              IF q = r THEN at
              ELSE IF pc[q] = "queued" /\ new.held[q] \in {"access", "unlink"}
              THEN "onQueue" ELSE pc[q]]
  BY DEF Resolve
<1>3. /\ files' \in [Files -> RP!Resolvers] /\ files'[f] = new
      /\ \A g \in Files \ {f} : files'[g] = files[g]
  BY <1>1, <1>2
<1>4. pc' \in [Requests -> Points]
  BY <1>1, <1>2 DEF Points
<1>5. \A g \in Files : RP!Sound(files'[g])
  BY <1>3 DEF FilesInv
<1> HIDE DEF f
<1>6. \A g \in Files, q \in Requests :
        /\ RP!In(q, files'[g].access) => kind'[q] = "access"
        /\ RP!In(q, files'[g].del) => kind'[q] = "unlink"
  <2> SUFFICES ASSUME NEW g \in Files, NEW q \in Requests
               PROVE  /\ RP!In(q, files'[g].access) => kind[q] = "access"
                      /\ RP!In(q, files'[g].del) => kind[q] = "unlink"
    BY <1>2
  <2>1. CASE g # f
    BY <1>3, <2>1 DEF FilesInv
  <2>2. CASE g = f
    <3>1. /\ RP!In(q, new.access) => RP!In(q, old.access) \/ (q = r /\ "access" \in what)
          /\ RP!In(q, new.del) => RP!In(q, old.del) \/ (q = r /\ "unlink" \in what)
      BY DEF RP!Calls, f
    <3> QED
      BY <1>1, <1>3, <2>2, <3>1 DEF FilesInv
  <2> QED
    BY <2>1, <2>2
<1>7. ASSUME NEW q \in Requests \ {r}, new.held[q] # old.held[q]
      PROVE  /\ old.held[q] = "queued" /\ File[q] = f /\ pc[q] = "queued"
             /\ new.held[q] = kind[q] /\ kind[q] \in {"access", "unlink"}
  <2>1. \/ RP!In(q, old.access) /\ new.held[q] = "access"
        \/ RP!In(q, old.del) /\ new.held[q] = "unlink"
    BY <1>7 DEF RP!Calls, f
  <2>2. old.held[q] = "queued" /\ File[q] = f /\ pc[q] = "queued"
    BY <1>1, <2>1, QueuedHere
  <2> QED
    BY <1>1, <2>1, <2>2 DEF FilesInv
<1>8. \A q \in Requests, g \in Files : g # File[q] => files'[g].held[q] = "new"
  <2> SUFFICES ASSUME NEW q \in Requests, NEW g \in Files, g # File[q]
               PROVE  files'[g].held[q] = "new"
    OBVIOUS
  <2>1. files[g].held[q] = "new"
    BY DEF FilesInv
  <2>2. CASE g # f
    BY <1>3, <2>1, <2>2
  <2>3. CASE g = f
    <3>1. q # r /\ File[q] # f
      BY <2>3 DEF f
    <3> QED
      BY <1>3, <1>7, <2>1, <2>3, <3>1
  <2> QED
    BY <2>2, <2>3
<1>9. ASSUME NEW q \in Requests
      PROVE  At(pc'[q], kind'[q], files'[File[q]].held[q])
  <2>1. At(pc[q], kind[q], files[File[q]].held[q]) /\ File[q] \in Files
    BY StoreFacts DEF FilesInv
  <2>2. CASE q = r
    BY <1>2, <1>3, <2>2 DEF f
  <2>3. CASE q # r /\ File[q] # f
    <3>1. files[f].held[q] = "new"
      BY <1>1, <2>3 DEF FilesInv
    <3>2. new.held[q] = "new"
      BY <1>7, <2>3, <3>1
    <3> QED
      BY <1>2, <1>3, <2>1, <2>3, <3>2
  <2>4. CASE q # r /\ File[q] = f /\ new.held[q] = old.held[q]
    <3>1. pc[q] = "queued" => new.held[q] = "queued"
      BY <2>1, <2>4 DEF At
    <3> QED
      BY <1>2, <1>3, <2>1, <2>4, <3>1
  <2>5. CASE q # r /\ File[q] = f /\ new.held[q] # old.held[q]
    <3>1. /\ pc[q] = "queued" /\ new.held[q] = kind[q] /\ kind[q] \in {"access", "unlink"}
      BY <1>7, <2>5
    <3>2. pc'[q] = "onQueue" /\ files'[File[q]].held[q] = kind[q] /\ kind'[q] = kind[q]
      BY <1>2, <1>3, <2>5, <3>1
    <3> QED
      BY <3>1, <3>2 DEF At
  <2> QED
    BY <2>2, <2>3, <2>4, <2>5
<1>10. \A q \in Requests : (At(pc[q], kind[q], files[File[q]].held[q]))'
  BY <1>9 DEF At
<1> QED
  BY <1>1, <1>2, <1>3, <1>4, <1>5, <1>6, <1>8, <1>10 DEF FilesInv

\* A step of r that calls no resolver.
LEMMA MoveKeeps ==
  ASSUME FilesInv, NEW r \in Requests, NEW at \in Points, NEW k \in Kinds,
         pc' = [pc EXCEPT ![r] = at], kind' = [kind EXCEPT ![r] = k],
         UNCHANGED <<files, refusals>>,
         k = kind[r] \/ pc[r] = "idle", At(at, k, files[File[r]].held[r])
  PROVE  FilesInv'
<1>1. /\ files \in [Files -> RP!Resolvers] /\ pc \in [Requests -> Points]
      /\ kind \in [Requests -> Kinds]
  BY DEF FilesInv
<1>2. /\ pc' \in [Requests -> Points] /\ kind' \in [Requests -> Kinds]
      /\ pc'[r] = at /\ kind'[r] = k
      /\ \A q \in Requests \ {r} : pc'[q] = pc[q] /\ kind'[q] = kind[q]
  BY <1>1
<1>3. ASSUME NEW f \in Files, NEW q \in Requests
      PROVE  /\ RP!In(q, files'[f].access) => kind'[q] = "access"
             /\ RP!In(q, files'[f].del) => kind'[q] = "unlink"
  <2>1. /\ RP!In(q, files[f].access) => kind[q] = "access"
        /\ RP!In(q, files[f].del) => kind[q] = "unlink"
    BY DEF FilesInv
  <2>2. q = r /\ pc[r] = "idle" => ~RP!In(q, files[f].access) /\ ~RP!In(q, files[f].del)
    BY QueuedHere
  <2> QED
    BY <1>2, <2>1, <2>2
<1>4. \A q \in Requests : (At(pc[q], kind[q], files[File[q]].held[q]))'
  <2>1. \A q \in Requests : At(pc'[q], kind'[q], files[File[q]].held[q])
    BY <1>2 DEF FilesInv
  <2> QED
    BY <2>1 DEF At
<1> QED
  BY <1>1, <1>2, <1>3, <1>4 DEF FilesInv

\* The resolver of f becomes new, the others stay.
LEMMA SteadyKept ==
  ASSUME FilesInv, SteadyInv, NEW f \in Files, NEW new, UNCHANGED usage,
         files' = [files EXCEPT ![f] = new], Calm => RP!Steady(new)
  PROVE  SteadyInv'
<1>1. files \in [Files -> RP!Resolvers]
  BY DEF FilesInv
<1>2. /\ files'[f] = new /\ \A g \in Files \ {f} : files'[g] = files[g]
      /\ (Calm' <=> Calm)
  BY <1>1 DEF usage, Calm
<1> QED
  BY <1>2 DEF SteadyInv

\* RequestAction: the three methods that grant, queue or refuse.
LEMMA RequestActionKeeps ==
  ASSUME FilesInv, SteadyInv, NEW r \in Requests, RequestAction(r)
  PROVE  /\ FilesInv' /\ SteadyInv'
         /\ pc'[r] \in {"granted", "onQueue", "queued", "refused"}
         /\ pc'[r] = "granted" => kind[r] = "lock"
         /\ \A q \in Requests \ {r} : pc'[q] = pc[q] \/ (pc[q] = "queued" /\ pc'[q] = "onQueue")
<1> DEFINE f == File[r]
           old == files[f]
<1>1. /\ f \in Files /\ pc[r] = "request" /\ kind[r] \in Kinds \ {"none"}
      /\ RP!Sound(old) /\ old.held[r] = "new"
      /\ Calm => RP!Steady(old)
  BY StoreFacts DEF RequestAction, FilesInv, SteadyInv, At
<1>2. UNCHANGED <<kind, refusals>> /\ UNCHANGED usage
  BY DEF RequestAction, usage
<1>3. ASSUME NEW new, NEW what, Resolve(f, new, r, Reached(new.held[r])),
             RP!Sound(new), RP!Calls(old, new, r, what), Calm => RP!Steady(new),
             what \in {{"lock", "refused"}, {"queued", "access", "refused"},
                       {"queued", "unlink"}},
             "lock" \in what => kind[r] = "lock",
             "access" \in what => kind[r] = "access",
             "unlink" \in what => kind[r] = "unlink"
      PROVE  /\ FilesInv' /\ SteadyInv'
             /\ pc'[r] \in {"granted", "onQueue", "queued", "refused"}
             /\ pc'[r] = "granted" => kind[r] = "lock"
             /\ \A q \in Requests \ {r} :
                  pc'[q] = pc[q] \/ (pc[q] = "queued" /\ pc'[q] = "onQueue")
  <2>1. new.held[r] \in what
    BY <1>3 DEF RP!Calls
  <2>2. new.held[r] \in {"lock", "access", "unlink", "refused", "queued"}
    BY <1>3, <2>1
  <2>3. /\ Reached(new.held[r]) \in Points
        /\ At(Reached(new.held[r]), kind[r], new.held[r])
    BY <1>1, <1>3, <2>1, <2>2 DEF Reached, Points, At, Kinds
  <2>4. FilesInv'
    BY <1>2, <1>3, <2>3, ResolveKeeps
  <2>5. SteadyInv'
    BY <1>1, <1>2, <1>3, SteadyKept DEF Resolve
  <2>6. /\ pc'[r] = Reached(new.held[r])
        /\ \A q \in Requests \ {r} :
             pc'[q] = pc[q] \/ (pc[q] = "queued" /\ pc'[q] = "onQueue")
    BY <1>3 DEF Resolve
  <2>7. /\ Reached(new.held[r]) \in {"granted", "onQueue", "queued", "refused"}
        /\ Reached(new.held[r]) = "granted" => kind[r] = "lock"
    BY <1>3, <2>1, <2>2 DEF Reached
  <2> QED
    BY <2>4, <2>5, <2>6, <2>7
<1>4. CASE kind[r] = "lock"
  <2> DEFINE new == RP!Lock(old, r)
  <2>1. Resolve(f, new, r, Reached(new.held[r]))
    BY <1>1, <1>4, SameMethods DEF RequestAction
  <2>2. /\ RP!Sound(new) /\ RP!Calls(old, new, r, {"lock", "refused"})
        /\ RP!Steady(old) => RP!Steady(new)
    BY <1>1, StoreFacts, RP!LockKeeps
  <2> HIDE DEF new
  <2> QED
    BY <1>1, <1>3, <1>4, <2>1, <2>2
<1>5. CASE kind[r] = "access"
  <2> DEFINE new == RP!HookAccess(old, r)
  <2>1. Resolve(f, new, r, Reached(new.held[r]))
    BY <1>1, <1>5, SameMethods DEF RequestAction
  <2>2. /\ RP!Sound(new) /\ RP!Calls(old, new, r, {"queued", "access", "refused"})
        /\ RP!Steady(old) => RP!Steady(new)
    BY <1>1, StoreFacts, RP!HookAccessKeeps
  <2> HIDE DEF new
  <2> QED
    BY <1>1, <1>3, <1>5, <2>1, <2>2
<1>6. CASE kind[r] = "unlink"
  <2> DEFINE new == RP!HookUnlink(old, r)
  <2>1. Resolve(f, new, r, Reached(new.held[r]))
    BY <1>1, <1>6, SameMethods DEF RequestAction
  <2>2. /\ RP!Sound(new) /\ RP!Calls(old, new, r, {"queued", "unlink"})
        /\ RP!Steady(old) => RP!Steady(new)
    BY <1>1, StoreFacts, RP!HookUnlinkKeeps
  <2> HIDE DEF new
  <2> QED
    BY <1>1, <1>3, <1>6, <2>1, <2>2
<1> QED
  BY <1>1, <1>4, <1>5, <1>6 DEF Kinds

\* A release that ends at "over": the resolver's new record is told that r is over.
LEMMA EndKeeps ==
  ASSUME FilesInv, SteadyInv, NEW r \in Requests, NEW new, UNCHANGED <<usage, kind>>,
         pc[r] \in {"release", "releaseFile"},
         Resolve(File[r], new, r, "over"), RP!Sound(new),
         RP!Calls(files[File[r]], new, r, {"over"}), Calm => RP!Steady(new)
  PROVE  FilesInv' /\ SteadyInv'
<1>1. File[r] \in Files /\ kind[r] # "none" /\ UNCHANGED <<kind, refusals>>
  BY StoreFacts DEF FilesInv, At, usage
<1>2. "over" \in Points /\ At("over", kind[r], new.held[r])
  BY <1>1 DEF Points, At, RP!Calls
<1>3. FilesInv'
  BY <1>1, <1>2, ResolveKeeps
<1>4. SteadyInv'
  BY <1>1, SteadyKept DEF Resolve
<1> QED
  BY <1>3, <1>4

\* ReleaseAction of a lock.
LEMMA ReleaseLockKeeps ==
  ASSUME FilesInv, SteadyInv, NEW r \in Requests, ReleaseLock(r)
  PROVE  FilesInv' /\ SteadyInv'
<1> DEFINE f == File[r]
           old == files[f]
<1>1. /\ f \in Files /\ pc[r] = "release" /\ kind[r] = "lock" /\ RP!Sound(old)
      /\ old.held[r] = "lock" \/ (refusals /\ old.held[r] = "refused")
      /\ Calm => RP!Steady(old) /\ old.held[r] = "lock"
      /\ UNCHANGED <<usage, kind>>
  BY StoreFacts DEF ReleaseLock, FilesInv, SteadyInv, At, Calm, usage
<1>2. CASE old.held[r] = "lock"
  <2> DEFINE new == RP!LockReleased(old, r)
  <2>1. Resolve(f, new, r, "over")
    BY <1>1, <1>2, SameMethods DEF ReleaseLock
  <2>2. /\ RP!Sound(new) /\ RP!Calls(old, new, r, {"over"})
        /\ RP!Steady(old) => RP!Steady(new)
    BY <1>1, <1>2, StoreFacts, RP!LockReleasedKeeps
  <2> HIDE DEF new
  <2> QED
    BY <1>1, <2>1, <2>2, EndKeeps
<1>3. CASE old.held[r] = "refused"
  <2> DEFINE new == RP!Unlock(RP!Tell(old, r, "over"), Client[r])
  <2>1. Resolve(f, new, r, "over")
    BY <1>1, <1>3, SameMethods DEF ReleaseLock
  <2>2. RP!Sound(new) /\ RP!Calls(old, new, r, {"over"})
    BY <1>1, <1>3, StoreFacts, RP!RefusalReleasedKeeps
  <2> HIDE DEF new
  <2> QED
    BY <1>1, <1>3, <2>1, <2>2, EndKeeps
<1> QED
  BY <1>1, <1>2, <1>3

\* ReleaseAction of an access or a delete, after the permit.
LEMMA ReleaseFileKeeps ==
  ASSUME FilesInv, SteadyInv, NEW r \in Requests, ReleaseFile(r)
  PROVE  FilesInv' /\ SteadyInv'
<1> DEFINE f == File[r]
           old == files[f]
<1>1. /\ f \in Files /\ pc[r] = "releaseFile" /\ RP!Sound(old)
      /\ kind[r] \in {"access", "unlink"}
      /\ old.held[r] = kind[r] \/ (refusals /\ old.held[r] = "refused")
      /\ Calm => RP!Steady(old)
      /\ UNCHANGED <<usage, kind>>
  BY StoreFacts DEF ReleaseFile, FilesInv, SteadyInv, At, Kinds, usage
<1>2. CASE old.held[r] = "access"
  <2> DEFINE new == RP!AccessReleased(old, r)
  <2>1. Resolve(f, new, r, "over")
    BY <1>1, <1>2, SameMethods DEF ReleaseFile
  <2>2. /\ RP!Sound(new) /\ RP!Calls(old, new, r, {"over"})
        /\ RP!Steady(old) => RP!Steady(new)
    BY <1>1, <1>2, StoreFacts, RP!AccessReleasedKeeps
  <2> HIDE DEF new
  <2> QED
    BY <1>1, <2>1, <2>2, EndKeeps
<1>3. CASE old.held[r] = "unlink"
  <2> DEFINE new == RP!UnlinkReleased(old, r)
  <2>1. Resolve(f, new, r, "over")
    BY <1>1, <1>3, SameMethods DEF ReleaseFile
  <2>2. /\ RP!Sound(new) /\ RP!Calls(old, new, r, {"over"})
        /\ RP!Steady(old) => RP!Steady(new)
    BY <1>1, <1>3, StoreFacts, RP!UnlinkReleasedKeeps
  <2> HIDE DEF new
  <2> QED
    BY <1>1, <2>1, <2>2, EndKeeps
<1>4. CASE old.held[r] = "refused"
  <2>1. Resolve(f, old, r, "over")
    BY <1>1, <1>4 DEF ReleaseFile
  <2>2. RP!Calls(old, old, r, {"refused"}) /\ At("over", kind[r], old.held[r])
    BY <1>1, <1>4 DEF RP!Calls, At
  <2>3. "over" \in Points /\ UNCHANGED <<kind, refusals>>
    BY <1>1 DEF Points, usage
  <2>4. FilesInv'
    BY <1>1, <2>1, <2>2, <2>3, ResolveKeeps
  <2>5. SteadyInv'
    BY <1>1, <2>1, SteadyKept DEF Resolve
  <2> QED
    BY <2>4, <2>5
<1> QED
  BY <1>1, <1>2, <1>3, <1>4

\* ClearAction: every resolver normalises its state, and may grant deletes.
LEMMA ClearActionKeeps ==
  ASSUME FilesInv, ClearAction
  PROVE  FilesInv'
<1>1. /\ files' = [f \in Files |-> RP!ChkEmpty(files[f])]
      /\ pc' = [q \in Requests |->
              IF pc[q] = "queued" /\ files'[File[q]].held[q] \in {"access", "unlink"}
              THEN "onQueue" ELSE pc[q]]
      /\ UNCHANGED <<refusals, kind>>
  BY SameChkEmpty DEF ClearAction, usage
<1>2. /\ files \in [Files -> RP!Resolvers]
      /\ pc \in [Requests -> Points] /\ kind \in [Requests -> Kinds]
  BY DEF FilesInv
<1>3. ASSUME NEW f \in Files
      PROVE  /\ RP!Sound(files'[f]) /\ files'[f] \in RP!Resolvers
             /\ RP!Grants(files[f], files'[f])
  <2>1. RP!Queued(files[f])
    BY DEF FilesInv, RP!Sound
  <2>2. RP!Sound(RP!ChkEmpty(files[f])) /\ RP!Grants(files[f], RP!ChkEmpty(files[f]))
    BY <2>1, StoreFacts, RP!ChkEmptyKeeps
  <2>3. files'[f] = RP!ChkEmpty(files[f])
    BY <1>1
  <2> QED
    BY <2>2, <2>3 DEF RP!Sound, RP!Queued
<1>4. files' \in [Files -> RP!Resolvers] /\ pc' \in [Requests -> Points]
      /\ kind' \in [Requests -> Kinds]
  BY <1>1, <1>2, <1>3 DEF Points
<1>5. \A f \in Files, q \in Requests :
        /\ RP!In(q, files'[f].access) => kind'[q] = "access"
        /\ RP!In(q, files'[f].del) => kind'[q] = "unlink"
  BY <1>1, <1>3 DEF RP!Grants, FilesInv
<1>6. ASSUME NEW f \in Files, NEW q \in Requests, files'[f].held[q] # files[f].held[q]
      PROVE  /\ File[q] = f /\ pc[q] = "queued"
             /\ files'[f].held[q] = kind[q] /\ kind[q] \in {"access", "unlink"}
  <2>1. \/ RP!In(q, files[f].access) /\ files'[f].held[q] = "access"
        \/ RP!In(q, files[f].del) /\ files'[f].held[q] = "unlink"
    BY <1>3, <1>6 DEF RP!Grants
  <2>2. File[q] = f /\ pc[q] = "queued"
    BY <2>1, QueuedHere
  <2> QED
    BY <2>1, <2>2 DEF FilesInv
<1>7. \A q \in Requests, f \in Files : f # File[q] => files'[f].held[q] = "new"
  BY <1>6 DEF FilesInv
<1>8. ASSUME NEW q \in Requests
      PROVE  At(pc'[q], kind'[q], files'[File[q]].held[q])
  <2> DEFINE f == File[q]
  <2>1. At(pc[q], kind[q], files[f].held[q]) /\ f \in Files
    BY StoreFacts DEF FilesInv
  <2> HIDE DEF f
  <2>2. CASE files'[f].held[q] = files[f].held[q]
    <3>1. pc[q] = "queued" => files'[f].held[q] = "queued"
      BY <2>1, <2>2 DEF At
    <3> QED
      BY <1>1, <2>1, <2>2, <3>1 DEF f
  <2>3. CASE files'[f].held[q] # files[f].held[q]
    <3>1. /\ pc[q] = "queued"
          /\ files'[f].held[q] = kind[q] /\ kind[q] \in {"access", "unlink"}
      BY <1>6, <2>1, <2>3
    <3>2. pc'[q] = "onQueue" /\ kind'[q] = kind[q]
      BY <1>1, <3>1 DEF f
    <3> QED
      BY <3>1, <3>2 DEF At, f
  <2> QED
    BY <2>2, <2>3
<1>9. \A q \in Requests : (At(pc[q], kind[q], files[File[q]].held[q]))'
  BY <1>1, <1>8 DEF At
<1> QED
  BY <1>3, <1>4, <1>5, <1>7, <1>9 DEF FilesInv

-----------------------------------------------------------------------------
(* The pool's side.                                                        *)

LEMMA PoolUntouched ==
  ASSUME PoolInv, UNCHANGED <<poolVars, refusals>>,
         \A q \in Requests : AtPool(pc'[q], kind'[q], answer[q])
  PROVE  PoolInv'
<1>1. PP!QueueInv'
  BY DEF PoolInv, poolVars, PP!QueueInv, PP!Typed, PP!Full, PP!Pending
<1>2. ~refusals' => PP!Counted(poolLock', answer')
  BY DEF PoolInv, poolVars
<1>3. \A q \in Requests : AtPool(pc[q], kind[q], answer[q])'
  BY DEF AtPool, poolVars
<1> QED
  BY <1>1, <1>2, <1>3 DEF PoolInv

\* The callback of an access or a delete asks for a permit.
LEMMA AskPoolKeeps ==
  ASSUME FilesInv, PoolInv, NEW r \in Requests, AskPool(r)
  PROVE  PoolInv'
<1>1. /\ PP!QueueInv /\ PP!Acquire(r) /\ pc[r] = "onQueue" /\ kind[r] # "lock"
      /\ pc' = [pc EXCEPT ![r] = "permit"] /\ pc \in [Requests -> Points]
      /\ UNCHANGED <<kind, refusals>>
  BY SamePool DEF AskPool, PoolInv, FilesInv, At, usage
<1>2. PP!QueueInv' /\ (PP!Counted(poolLock, answer) => PP!Counted(poolLock', answer'))
  BY <1>1, StoreFacts, PP!AcquireKeeps
<1>3. /\ answer'[r] \in {"waiting", "granted"}
      /\ \A q \in Requests \ {r} : answer'[q] = answer[q]
  BY <1>1, StoreFacts, PP!AcquireTells
<1>4. \A q \in Requests : AtPool(pc'[q], kind'[q], answer'[q])
  BY <1>1, <1>3 DEF PoolInv, AtPool
<1>5. \A q \in Requests : AtPool(pc[q], kind[q], answer[q])'
  BY <1>1, <1>4 DEF AtPool
<1> QED
  BY <1>1, <1>2, <1>5 DEF PoolInv

LEMMA PoolNotifyKeeps ==
  ASSUME PoolInv, NEW r \in Requests, PoolNotify(r)
  PROVE  PoolInv'
<1>1. PP!QueueInv /\ PP!Notify(r) /\ UNCHANGED <<pc, kind, refusals>>
  BY SamePool DEF PoolNotify, PoolInv, usage
<1>2. PP!QueueInv' /\ (PP!Counted(poolLock, answer) => PP!Counted(poolLock', answer'))
  BY <1>1, StoreFacts, PP!NotifyKeeps
<1>3. /\ answer[r] = "handed" /\ answer'[r] = "granted"
      /\ \A q \in Requests \ {r} : answer'[q] = answer[q]
  BY <1>1, StoreFacts, PP!NotifyTells
<1>4. \A q \in Requests : AtPool(pc[q], kind[q], answer'[q])
  BY <1>3 DEF PoolInv, AtPool
<1>5. \A q \in Requests : AtPool(pc[q], kind[q], answer[q])'
  BY <1>1, <1>4 DEF AtPool
<1> QED
  BY <1>1, <1>2, <1>5 DEF PoolInv

\* A permit goes back, and may go on to a request that waits for one.
LEMMA ReleasePermitKeeps ==
  ASSUME FilesInv, PoolInv, NEW r \in Requests, ReleasePermit(r)
  PROVE  PoolInv'
<1>1. /\ PP!QueueInv /\ PP!Release(r) /\ pc[r] = "releaseQueue" /\ kind[r] # "lock"
      /\ pc' = [pc EXCEPT ![r] = "releaseFile"] /\ pc \in [Requests -> Points]
      /\ UNCHANGED <<kind, refusals>>
  BY SamePool DEF ReleasePermit, PoolInv, FilesInv, At, usage
<1>2. answer[r] = "granted" \/ (refusals /\ answer[r] = "none")
  BY <1>1 DEF PoolInv, AtPool
<1>3. /\ answer'[r] = "none"
      /\ \A q \in Requests \ {r} : answer'[q] = answer[q]
           \/ (answer[q] = "waiting" /\ answer'[q] \in {"waiting", "handed"})
      /\ PP!GiveBack(r) \/ PP!GiveBackRefused(r)
  BY <1>1, <1>2, StoreFacts, PP!ReleaseTells
<1>4. PP!QueueInv' /\ (~refusals => PP!Counted(poolLock', answer'))
  <2>1. CASE PP!GiveBack(r)
    BY <1>1, <1>2, <2>1, StoreFacts, PP!GiveBackKeeps DEF PoolInv
  <2>2. CASE PP!GiveBackRefused(r)
    BY <1>1, <1>2, <2>2, StoreFacts, PP!GiveBackRefusedKeeps DEF PoolInv
  <2> QED
    BY <1>3, <2>1, <2>2
<1>5. \A q \in Requests : AtPool(pc'[q], kind'[q], answer'[q])
  BY <1>1, <1>3 DEF PoolInv, AtPool
<1>6. \A q \in Requests : AtPool(pc[q], kind[q], answer[q])'
  BY <1>1, <1>5 DEF AtPool
<1> QED
  BY <1>1, <1>4, <1>6 DEF PoolInv

-----------------------------------------------------------------------------
(* The invariant is inductive.                                             *)

LEMMA StoreInit == Init => StoreInv
<1> SUFFICES ASSUME Init PROVE StoreInv
  OBVIOUS
<1>1. /\ files = [f \in Files |-> RP!New] /\ pc = [r \in Requests |-> "idle"]
      /\ kind = [r \in Requests |-> "none"] /\ PP!Init
      /\ refusals \in BOOLEAN /\ crashes \in BOOLEAN /\ dead = {}
  <2>1. \A f \in Files : Resolver(f)!New = RP!New
    BY DEF Resolver!New, RP!New, Resolver!Locks!NoLocks, RP!Locks!NoLocks
  <2>2. Pool!Init => PP!Init
    BY DEF Pool!Init, PP!Init, Pool!Lock!NoLocks, PP!Lock!NoLocks
  <2> QED
    BY <2>1, <2>2 DEF Init
<1>2. RP!Sound(RP!New) /\ RP!Steady(RP!New)
  BY StoreFacts, RP!NewIsSound
<1>3. RP!New \in RP!Resolvers /\ RP!New.access = <<>> /\ RP!New.del = <<>>
      /\ \A r \in Requests : RP!New.held[r] = "new"
  BY <1>2 DEF RP!Sound, RP!Queued, RP!New
<1>4. \A q : ~RP!In(q, RP!New.access) /\ ~RP!In(q, RP!New.del)
  BY <1>3 DEF RP!In
<1>5. FilesInv
  <2>1. files \in [Files -> RP!Resolvers] /\ \A f \in Files : files[f] = RP!New
    BY <1>1, <1>3
  <2>2. \A r \in Requests : File[r] \in Files
    BY StoreFacts
  <2> QED
    BY <1>1, <1>2, <1>3, <1>4, <2>1, <2>2 DEF FilesInv, At, Points, Kinds
<1>6. SteadyInv
  BY <1>1, <1>2 DEF SteadyInv
<1>7. PP!QueueInv /\ PP!Counted(poolLock, answer)
  BY <1>1, StoreFacts, PP!PoolInit
<1>8. PoolInv
  BY <1>1, <1>7 DEF PoolInv, AtPool, PP!Init
<1> QED
  BY <1>1, <1>5, <1>6, <1>8 DEF StoreInv

\* A step that changes no resolver.
LEMMA SteadySame ==
  ASSUME SteadyInv, UNCHANGED <<usage, files>>
  PROVE  SteadyInv'
BY DEF SteadyInv, Calm, usage

\* A step that changes neither points nor resolvers.
LEMMA FilesSame ==
  ASSUME FilesInv, UNCHANGED <<usage, files, pc, kind>>
  PROVE  FilesInv'
<1>1. \A q \in Requests : At(pc[q], kind[q], files[File[q]].held[q])'
  <2>1. \A q \in Requests : At(pc[q], kind[q], files[File[q]].held[q])
    BY DEF FilesInv
  <2> QED
    BY <2>1 DEF At, usage
<1> QED
  BY <1>1 DEF FilesInv

\* The steps of r that move its point only, on the side of the files.
LEMMA PointMoves ==
  ASSUME FilesInv, SteadyInv, NEW r \in Requests, NEW at \in Points,
         pc' = [pc EXCEPT ![r] = at], UNCHANGED <<usage, files, kind>>,
         At(at, kind[r], files[File[r]].held[r])
  PROVE  FilesInv' /\ SteadyInv'
<1>1. kind[r] \in Kinds /\ kind' = [kind EXCEPT ![r] = kind[r]]
      /\ UNCHANGED <<files, refusals>>
  BY DEF FilesInv, usage
<1>2. FilesInv'
  BY <1>1, MoveKeeps
<1> QED
  BY <1>2, SteadySame

LEMMA StoreNext == StoreInv /\ [Next]_vars => StoreInv'
<1> SUFFICES ASSUME StoreInv, [Next]_vars
             PROVE  StoreInv'
  OBVIOUS
<1>1. /\ FilesInv /\ SteadyInv /\ PoolInv /\ refusals \in BOOLEAN /\ crashes \in BOOLEAN
      /\ dead \subseteq Clients /\ (dead # {} => crashes)
      /\ pc \in [Requests -> Points] /\ kind \in [Requests -> Kinds]
      /\ \A q \in Requests : At(pc[q], kind[q], files[File[q]].held[q])
      /\ \A q \in Requests : AtPool(pc[q], kind[q], answer[q])
  BY DEF StoreInv, FilesInv, PoolInv
<1>2. ASSUME FilesInv', SteadyInv', PoolInv', UNCHANGED <<usage, dead>>
      PROVE  StoreInv'
  BY <1>1, <1>2 DEF StoreInv, usage
<1>3. ASSUME NEW r \in Requests, Ask(r)
      PROVE  StoreInv'
  <2>1. PICK k \in {"lock", "access", "unlink"} : kind' = [kind EXCEPT ![r] = k]
    BY <1>3 DEF Ask
  <2>2. /\ pc[r] = "idle" /\ pc' = [pc EXCEPT ![r] = "request"]
        /\ UNCHANGED <<usage, files, poolVars, dead>> /\ UNCHANGED <<files, refusals>>
    BY <1>3 DEF Ask, usage
  <2>3. /\ "request" \in Points /\ k \in Kinds
        /\ At("request", k, files[File[r]].held[r])
    BY <1>1, <2>1, <2>2 DEF Points, Kinds, At
  <2>4. FilesInv' /\ SteadyInv'
    BY <1>1, <2>1, <2>2, <2>3, MoveKeeps, SteadySame
  <2>5. \A q \in Requests : AtPool(pc'[q], kind'[q], answer[q])
    BY <1>1, <2>1, <2>2 DEF AtPool
  <2> QED
    BY <1>1, <1>2, <2>2, <2>4, <2>5, PoolUntouched
<1>4. ASSUME NEW r \in Requests, RequestAction(r)
      PROVE  StoreInv'
  <2>1. /\ FilesInv' /\ SteadyInv'
        /\ pc'[r] \in {"granted", "onQueue", "queued", "refused"}
        /\ pc'[r] = "granted" => kind[r] = "lock"
        /\ \A q \in Requests \ {r} : pc'[q] = pc[q] \/ (pc[q] = "queued" /\ pc'[q] = "onQueue")
    BY <1>1, <1>4, RequestActionKeeps
  <2>2. pc[r] = "request" /\ UNCHANGED <<usage, kind, poolVars, dead>>
        /\ UNCHANGED <<poolVars, refusals>>
    BY <1>4 DEF RequestAction, usage
  <2>3. \A q \in Requests : AtPool(pc'[q], kind'[q], answer[q])
    BY <1>1, <2>1, <2>2 DEF AtPool
  <2> QED
    BY <1>1, <1>2, <2>1, <2>2, <2>3, PoolUntouched
<1>5. ASSUME NEW r \in Requests, AskPool(r)
      PROVE  StoreInv'
  <2>1. /\ pc[r] = "onQueue" /\ pc' = [pc EXCEPT ![r] = "permit"]
        /\ UNCHANGED <<usage, files, kind>> /\ UNCHANGED <<usage, dead>>
    BY <1>5 DEF AskPool
  <2>2. "permit" \in Points /\ At("permit", kind[r], files[File[r]].held[r])
    BY <1>1, <2>1 DEF Points, At
  <2> QED
    BY <1>1, <1>2, <1>5, <2>1, <2>2, PointMoves, AskPoolKeeps
<1>6. ASSUME NEW r \in Requests, PoolNotify(r)
      PROVE  StoreInv'
  <2>1. UNCHANGED <<usage, files, pc, kind>> /\ UNCHANGED <<usage, dead>>
        /\ UNCHANGED <<usage, files>>
    BY <1>6 DEF PoolNotify
  <2> QED
    BY <1>1, <1>2, <1>6, <2>1, FilesSame, SteadySame, PoolNotifyKeeps
<1>7. ASSUME NEW r \in Requests, Reply(r)
      PROVE  StoreInv'
  <2>1. /\ pc[r] = "permit" /\ answer[r] = "granted" /\ pc' = [pc EXCEPT ![r] = "granted"]
        /\ UNCHANGED <<usage, files, kind>> /\ UNCHANGED <<poolVars, refusals>>
        /\ UNCHANGED <<usage, dead>>
    BY <1>7 DEF Reply, usage
  <2>2. "granted" \in Points /\ At("granted", kind[r], files[File[r]].held[r])
    BY <1>1, <2>1 DEF Points, At
  <2>3. \A q \in Requests : AtPool(pc'[q], kind'[q], answer[q])
    BY <1>1, <2>1 DEF AtPool
  <2> QED
    BY <1>1, <1>2, <2>1, <2>2, <2>3, PointMoves, PoolUntouched
<1>8. ASSUME NEW r \in Requests, Release(r)
      PROVE  StoreInv'
  <2>1. /\ pc[r] = "granted" \/ (refusals /\ pc[r] = "refused")
        /\ pc' = [pc EXCEPT ![r] = "release"]
        /\ UNCHANGED <<usage, files, kind>> /\ UNCHANGED <<poolVars, refusals>>
        /\ UNCHANGED <<usage, dead>>
    BY <1>8 DEF Release, usage
  <2>2. "release" \in Points /\ At("release", kind[r], files[File[r]].held[r])
    BY <1>1, <2>1 DEF Points, At
  <2>3. \A q \in Requests : AtPool(pc'[q], kind'[q], answer[q])
    BY <1>1, <2>1 DEF AtPool
  <2> QED
    BY <1>1, <1>2, <2>1, <2>2, <2>3, PointMoves, PoolUntouched
<1>9. ASSUME NEW r \in Requests, ReleaseLock(r)
      PROVE  StoreInv'
  <2>1. FilesInv' /\ SteadyInv'
    BY <1>1, <1>9, ReleaseLockKeeps
  <2>2. /\ kind[r] = "lock" /\ UNCHANGED <<usage, kind, poolVars, dead>>
        /\ UNCHANGED <<poolVars, refusals>> /\ pc'[r] = "over"
        /\ \A q \in Requests \ {r} : pc'[q] = pc[q] \/ (pc[q] = "queued" /\ pc'[q] = "onQueue")
    BY <1>9 DEF ReleaseLock, Resolve, usage
  <2>3. \A q \in Requests : AtPool(pc'[q], kind'[q], answer[q])
    BY <1>1, <2>2 DEF AtPool
  <2> QED
    BY <1>1, <1>2, <2>1, <2>2, <2>3, PoolUntouched
<1>10. ASSUME NEW r \in Requests, ReleaseAction(r)
       PROVE  StoreInv'
  <2>1. /\ pc[r] = "release" /\ kind[r] # "lock" /\ pc' = [pc EXCEPT ![r] = "releaseQueue"]
        /\ UNCHANGED <<usage, files, kind>> /\ UNCHANGED <<poolVars, refusals>>
        /\ UNCHANGED <<usage, dead>>
    BY <1>10 DEF ReleaseAction, usage
  <2>2. "releaseQueue" \in Points /\ At("releaseQueue", kind[r], files[File[r]].held[r])
    BY <1>1, <2>1 DEF Points, At
  <2>3. \A q \in Requests : AtPool(pc'[q], kind'[q], answer[q])
    BY <1>1, <2>1 DEF AtPool
  <2> QED
    BY <1>1, <1>2, <2>1, <2>2, <2>3, PointMoves, PoolUntouched
<1>11. ASSUME NEW r \in Requests, ReleasePermit(r)
       PROVE  StoreInv'
  <2>1. /\ pc[r] = "releaseQueue" /\ pc' = [pc EXCEPT ![r] = "releaseFile"]
        /\ UNCHANGED <<usage, files, kind>> /\ UNCHANGED <<usage, dead>>
    BY <1>11 DEF ReleasePermit
  <2>2. "releaseFile" \in Points /\ At("releaseFile", kind[r], files[File[r]].held[r])
    BY <1>1, <2>1 DEF Points, At
  <2> QED
    BY <1>1, <1>2, <1>11, <2>1, <2>2, PointMoves, ReleasePermitKeeps
<1>12. ASSUME NEW r \in Requests, ReleaseFile(r)
       PROVE  StoreInv'
  <2>1. FilesInv' /\ SteadyInv'
    BY <1>1, <1>12, ReleaseFileKeeps
  <2>2. /\ pc[r] = "releaseFile" /\ UNCHANGED <<usage, kind, poolVars, dead>>
        /\ UNCHANGED <<poolVars, refusals>> /\ pc'[r] = "over"
        /\ \A q \in Requests \ {r} : pc'[q] = pc[q] \/ (pc[q] = "queued" /\ pc'[q] = "onQueue")
    BY <1>12 DEF ReleaseFile, Resolve, usage
  <2>3. \A q \in Requests : AtPool(pc'[q], kind'[q], answer[q])
    BY <1>1, <2>2 DEF AtPool
  <2> QED
    BY <1>1, <1>2, <2>1, <2>2, <2>3, PoolUntouched
<1>13. ASSUME NEW w \in Clients, Crash(w)
       PROVE  StoreInv'
  <2>1. /\ crashes /\ dead' = dead \cup {w} /\ UNCHANGED <<usage, files, pc, kind>>
        /\ UNCHANGED <<poolVars, refusals>> /\ UNCHANGED <<usage, files>>
    BY <1>13 DEF Crash, usage
  <2>2. FilesInv' /\ SteadyInv'
    BY <1>1, <2>1, FilesSame, SteadySame
  <2>3. \A q \in Requests : AtPool(pc'[q], kind'[q], answer[q])
    BY <1>1, <2>1
  <2>4. PoolInv'
    BY <1>1, <2>1, <2>3, PoolUntouched
  <2> QED
    BY <1>1, <2>1, <2>2, <2>4 DEF StoreInv, usage
<1>14. CASE ClearAction
  <2>1. /\ UNCHANGED <<poolVars, refusals>> /\ UNCHANGED <<usage, dead>> /\ kind' = kind
        /\ \A q \in Requests : pc'[q] = pc[q] \/ (pc[q] = "queued" /\ pc'[q] = "onQueue")
        /\ crashes /\ UNCHANGED crashes
    BY <1>1, <1>14 DEF ClearAction, usage
  <2>2. SteadyInv'
    BY <2>1 DEF SteadyInv, Calm
  <2>3. \A q \in Requests : AtPool(pc'[q], kind'[q], answer[q])
    BY <1>1, <2>1 DEF AtPool
  <2> QED
    BY <1>1, <1>2, <1>14, <2>1, <2>2, <2>3, ClearActionKeeps, PoolUntouched
<1>15. CASE UNCHANGED vars
  <2>1. /\ UNCHANGED <<usage, files, pc, kind>> /\ UNCHANGED <<poolVars, refusals>>
        /\ UNCHANGED <<usage, files>> /\ UNCHANGED <<usage, dead>>
    BY <1>15 DEF vars, usage
  <2>2. \A q \in Requests : AtPool(pc'[q], kind'[q], answer[q])
    BY <1>1, <2>1
  <2> QED
    BY <1>1, <1>2, <2>1, <2>2, FilesSame, SteadySame, PoolUntouched
<1> QED
  BY <1>3, <1>4, <1>5, <1>6, <1>7, <1>8, <1>9, <1>10, <1>11, <1>12, <1>13, <1>14, <1>15
     DEF Next, ServerStep

LEMMA StoreInvariant == Spec => []StoreInv
BY StoreInit, StoreNext, PTL DEF Spec

-----------------------------------------------------------------------------
(* What the file store promises.                                           *)

\* Requests, resolvers and the pool keep their shapes.
THEOREM TypeCorrect == Spec => []TypeOK
<1>1. StoreInv => TypeOK
  <2> SUFFICES ASSUME StoreInv PROVE TypeOK
    OBVIOUS
  <2>1. \A f \in Files : Resolver(f)!Resolvers = RP!Resolvers
    BY DEF Resolver!Resolvers, RP!Resolvers, Resolver!Locks!MultiLocks, RP!Locks!MultiLocks,
           Resolver!States, RP!States, Resolver!Held, RP!Held
  <2>2. \A f \in Files : Resolver(f)!TypeOK
    BY <2>1 DEF StoreInv, FilesInv, Resolver!TypeOK
  <2>3. PP!Typed /\ refusals \in BOOLEAN /\ crashes \in BOOLEAN
    BY DEF StoreInv, PoolInv, PP!QueueInv
  <2>4. Pool!TypeOK
    BY <2>3 DEF PP!Typed, Pool!TypeOK, Pool!Lock!MultiLocks, PP!Lock!MultiLocks,
                Pool!Answers, PP!Answers
  <2> QED
    BY <2>2, <2>3, <2>4 DEF TypeOK, StoreInv, FilesInv, Kinds
<1> QED
  BY <1>1, StoreInvariant, PTL

\* ReleaseAction gives back one permit for each that RequestAction took, and no other,
\* in whatever order the handlers run and whoever dies.
THEOREM PermitsAreFollowed == Spec => []PermitsFollowRequests
<1>1. StoreInv => PermitsFollowRequests
  <2> SUFFICES ASSUME StoreInv, ~refusals, NEW w \in Clients
               PROVE  poolLock.hash[w] = Cardinality({r \in Permitted : Client[r] = w})
    BY DEF PermitsFollowRequests
  <2>1. ASSUME NEW r \in Requests
        PROVE  r \in Permitted <=> answer[r] \in {"handed", "granted"}
    <3>1. /\ pc[r] \in Points /\ kind[r] \in Kinds
          /\ At(pc[r], kind[r], files[File[r]].held[r]) /\ AtPool(pc[r], kind[r], answer[r])
      BY DEF StoreInv, FilesInv, PoolInv
    <3> QED
      BY <3>1 DEF Permitted, Points, At, AtPool
  <2>2. Permitted \subseteq Requests
    BY DEF Permitted
  <2>3. {r \in Permitted : Client[r] = w} = PP!HoldingOf(answer, w)
    BY <2>1, <2>2 DEF PP!HoldingOf
  <2>4. poolLock.hash[w] = PP!Cardinality(PP!HoldingOf(answer, w))
    BY DEF StoreInv, PoolInv, PP!Counted
  <2> QED
    BY <2>3, <2>4, SameSets
<1> QED
  BY <1>1, StoreInvariant, PTL

\* One client at a time is told that it may write a file; and nobody waits for a write
\* that nobody has, while clients behave.
THEOREM WritesAreTakenInTurn == Spec => []WritesInTurn
<1>1. StoreInv => OneWriterPerFile
  <2> SUFFICES ASSUME StoreInv, NEW r \in Requests, NEW q \in Requests,
                      pc[r] = "granted" /\ kind[r] = "access",
                      pc[q] = "granted" /\ kind[q] = "access", File[r] = File[q]
               PROVE  r = q
    BY DEF OneWriterPerFile, Using
  <2>1. /\ files[File[r]].held[r] = "access" /\ files[File[r]].held[q] = "access"
        /\ RP!Sound(files[File[r]])
    BY StoreFacts DEF StoreInv, FilesInv, At
  <2> QED
    BY <2>1 DEF RP!Sound, RP!Queued, RP!OneAccess
<1>2. StoreInv => WriteHandedOver
  <2> SUFFICES ASSUME StoreInv, ~refusals, ~crashes, NEW f \in Files,
                      files[f].access # <<>>, ~Resolver(f)!IsDeleted(files[f])
               PROVE  \E r \in Requests :
                        /\ File[r] = f /\ kind[r] = "access"
                        /\ pc[r] \notin {"idle", "request", "queued", "over"}
    BY DEF WriteHandedOver
  <2>1. RP!Sound(files[f]) /\ RP!Steady(files[f])
    BY DEF StoreInv, FilesInv, SteadyInv, Calm
  <2>2. files[f].accessing
    BY <2>1, SameTries DEF RP!Steady, RP!HandedOver
  <2>3. PICK r \in Requests : files[f].held[r] = "access"
    BY <2>1, <2>2 DEF RP!Sound, RP!Queued, RP!OneAccess
  <2>4. File[r] = f
    BY <2>3 DEF StoreInv, FilesInv
  <2>5. pc[r] \in Points /\ kind[r] \in Kinds /\ At(pc[r], kind[r], "access")
    BY <2>3, <2>4 DEF StoreInv, FilesInv
  <2> QED
    BY <2>4, <2>5 DEF Points, At
<1>3. StoreInv => WritesInTurn
  BY <1>1, <1>2 DEF WritesInTurn
<1> QED
  BY <1>3, StoreInvariant, PTL

-----------------------------------------------------------------------------
(* The store implements SharedFiles.                                       *)

\* The requests whose clients use a file, as functions of points and kinds.
InUse(points, kinds, k, f) ==
  {r \in Requests : points[r] = "granted" /\ kinds[r] = k /\ File[r] = f}

InUseOf(points, kinds, k) == [f \in Files |-> InUse(points, kinds, k, f)]

LEMMA UsingIsInUse ==
  /\ Calm => \A k, f : UsingFile(k, f) = InUse(pc, kind, k, f)
  /\ ~Calm => \A k, f : UsingFile(k, f) = {}
BY DEF UsingFile, Using, InUse, Calm

\* A request is told that it may use its file.
LEMMA InUseGains ==
  ASSUME NEW p \in [Requests -> Points], NEW n \in [Requests -> Points],
         NEW kd \in [Requests -> Kinds], NEW r \in Requests, n[r] = "granted",
         \A q \in Requests \ {r} : n[q] = "granted" <=> p[q] = "granted"
  PROVE  \A k \in Kinds : InUseOf(n, kd, k) =
           IF k = kd[r] THEN [InUseOf(p, kd, k) EXCEPT ![File[r]] = @ \cup {r}]
           ELSE InUseOf(p, kd, k)
<1>1. File[r] \in Files /\ kd[r] \in Kinds
  BY StoreFacts
<1>2. \A f \in Files : InUse(n, kd, kd[r], f) =
        IF f = File[r] THEN InUse(p, kd, kd[r], f) \cup {r} ELSE InUse(p, kd, kd[r], f)
  BY <1>1 DEF InUse
<1>3. \A k \in Kinds \ {kd[r]}, f \in Files : InUse(n, kd, k, f) = InUse(p, kd, k, f)
  <2> SUFFICES ASSUME NEW k \in Kinds \ {kd[r]}, NEW f \in Files
               PROVE  InUse(n, kd, k, f) = InUse(p, kd, k, f)
    OBVIOUS
  <2> QED
    BY DEF InUse
<1> QED
  BY <1>1, <1>2, <1>3 DEF InUseOf

\* A request releases what it was told of.
LEMMA InUseLoses ==
  ASSUME NEW p \in [Requests -> Points], NEW n \in [Requests -> Points],
         NEW kd \in [Requests -> Kinds], NEW r \in Requests, n[r] # "granted",
         \A q \in Requests \ {r} : n[q] = "granted" <=> p[q] = "granted"
  PROVE  \A k \in Kinds : InUseOf(n, kd, k) =
           [InUseOf(p, kd, k) EXCEPT ![File[r]] = @ \ {r}]
<1>1. File[r] \in Files
  BY StoreFacts
<1>2. \A k \in Kinds, f \in Files : InUse(n, kd, k, f) =
        IF f = File[r] THEN InUse(p, kd, k, f) \ {r} ELSE InUse(p, kd, k, f)
  BY <1>1 DEF InUse
<1> QED
  BY <1>1, <1>2 DEF InUseOf

\* Nobody is told and nobody releases.
LEMMA InUseSame ==
  ASSUME NEW p, NEW n, NEW kd, NEW kn,
         \A q \in Requests : n[q] = "granted" <=> p[q] = "granted",
         \A q \in Requests : p[q] = "granted" => kn[q] = kd[q]
  PROVE  \A k : InUseOf(n, kn, k) = InUseOf(p, kd, k)
<1>1. \A k, f : InUse(n, kn, k, f) = InUse(p, kd, k, f)
  BY DEF InUse
<1> QED
  BY <1>1 DEF InUseOf

\* Whoever has been told of a permit has one, so there is room for one that gets it.
LEMMA RoomForOne ==
  ASSUME StoreInv, Calm, NEW r \in Requests, pc[r] = "permit", answer[r] = "granted"
  PROVE  LET work == UNION {InUse(pc, kind, "access", f) \cup InUse(pc, kind, "unlink", f)
                              : f \in Files}
         IN MaxLockCount = 0 \/ Cardinality(work) < MaxLockCount
<1> DEFINE work == UNION {InUse(pc, kind, "access", f) \cup InUse(pc, kind, "unlink", f)
                            : f \in Files}
           hold == PP!Holding(answer)
<1>1. \A q \in Requests : AtPool(pc[q], kind[q], answer[q])
  BY DEF StoreInv, PoolInv
<1>2. work \subseteq hold \ {r}
  BY <1>1 DEF InUse, AtPool, PP!Holding, Calm
<1>3. r \in hold /\ hold \subseteq Requests
  BY DEF PP!Holding
<1>4. /\ poolLock.length = Cardinality(hold)
      /\ MaxLockCount # 0 => poolLock.length <= MaxLockCount
  BY SameSets DEF StoreInv, PoolInv, Calm, PP!Counted, PP!QueueInv, PP!Full
<1> HIDE DEF work, hold
<1>5. IsFiniteSet(hold) /\ IsFiniteSet(hold \ {r})
  BY <1>3, StoreFacts, FS_Subset
<1>6. Cardinality(hold \ {r}) = Cardinality(hold) - 1
  BY <1>3, <1>5, FS_RemoveElement
<1>7. Cardinality(work) <= Cardinality(hold \ {r}) /\ IsFiniteSet(work)
  BY <1>2, <1>5, FS_Subset
<1>8. /\ Cardinality(hold) \in Nat /\ Cardinality(hold \ {r}) \in Nat
      /\ Cardinality(work) \in Nat /\ MaxLockCount \in Nat
  BY <1>5, <1>7, FS_CardinalityType, StoreFacts
<1>9. MaxLockCount = 0 \/ Cardinality(work) < MaxLockCount
  BY <1>4, <1>6, <1>7, <1>8
<1> QED
  BY <1>9 DEF work

\* Nobody deletes a file that somebody has locked.
LEMMA LockOrDelete ==
  ASSUME StoreInv, Calm, NEW r \in Requests, NEW q \in Requests, File[r] = File[q],
         files[File[r]].held[r] = "lock"
  PROVE  files[File[r]].held[q] # "unlink" /\ files[File[r]].state = "locked"
<1>1. RP!Guarded(files[File[r]])
  BY StoreFacts DEF StoreInv, SteadyInv, RP!Steady
<1>2. r \in RP!With(files[File[r]].held, "lock")
  BY DEF RP!With
<1>3. files[File[r]].held[q] = "unlink" => q \in RP!With(files[File[r]].held, "unlink")
  BY DEF RP!With
<1> QED
  BY <1>1, <1>2, <1>3 DEF RP!Guarded, RP!IsDeleted

LEMMA LockOrDeleteAfter ==
  ASSUME StoreInv', Calm', NEW r \in Requests, NEW q \in Requests, File[r] = File[q],
         (files[File[r]].held[r] = "lock")'
  PROVE  (files[File[r]].held[q] # "unlink")'
<1>1. RP!Guarded(files'[File[r]])
  BY StoreFacts DEF StoreInv, SteadyInv, RP!Steady
<1>2. r \in RP!With(files'[File[r]].held, "lock")
  BY DEF RP!With
<1>3. files'[File[r]].held[q] = "unlink" => q \in RP!With(files'[File[r]].held, "unlink")
  BY DEF RP!With
<1> QED
  BY <1>1, <1>2, <1>3 DEF RP!Guarded, RP!IsDeleted

\* What the three variables of SharedFiles are mapped to.
Lockers == [f \in Files |-> UsingFile("lock", f)]
Writers == [f \in Files |-> UsingFile("access", f)]
Deleters == [f \in Files |-> UsingFile("unlink", f)]

\* The mapping before and after a step in which nobody dies or releases a refusal.
LEMMA MappedStep ==
  ASSUME Calm, Calm'
  PROVE  /\ Lockers = InUseOf(pc, kind, "lock") /\ Lockers' = InUseOf(pc', kind', "lock")
         /\ Writers = InUseOf(pc, kind, "access") /\ Writers' = InUseOf(pc', kind', "access")
         /\ Deleters = InUseOf(pc, kind, "unlink")
         /\ Deleters' = InUseOf(pc', kind', "unlink")
BY DEF UsingFile, Using, InUse, InUseOf, Calm, Lockers, Writers, Deleters

\* The actions of SharedFiles, in terms of the mapping.
LEMMA SharedSteps ==
  ASSUME NEW f \in Files, NEW a \in Requests
  PROVE  /\ /\ Deleters[f] = {}
            /\ Lockers' = [Lockers EXCEPT ![f] = @ \cup {a}]
            /\ Writers' = Writers /\ Deleters' = Deleters
            => Shared!Lock(f, a)
         /\ /\ Writers[f] = {} /\ Shared!Room
            /\ Writers' = [Writers EXCEPT ![f] = {a}]
            /\ Lockers' = Lockers /\ Deleters' = Deleters
            => Shared!Write(f, a)
         /\ /\ Lockers[f] = {} /\ Shared!Room
            /\ Deleters' = [Deleters EXCEPT ![f] = @ \cup {a}]
            /\ Lockers' = Lockers /\ Writers' = Writers
            => Shared!Delete(f, a)
         /\ /\ a \in Lockers[f] \cup Writers[f] \cup Deleters[f]
            /\ Lockers' = [Lockers EXCEPT ![f] = @ \ {a}]
            /\ Writers' = [Writers EXCEPT ![f] = @ \ {a}]
            /\ Deleters' = [Deleters EXCEPT ![f] = @ \ {a}]
            => Shared!Leave(f, a)
BY DEF Shared!Lock, Shared!Write, Shared!Delete, Shared!Leave, Lockers, Writers, Deleters

\* A client is told that it may use its file: RequestAction of a lock, or Reply.
LEMMA TellingMaps ==
  ASSUME StoreInv, StoreInv', Calm, Calm', kind' = kind, NEW r \in Requests,
         pc[r] # "granted", pc'[r] = "granted",
         \A q \in Requests \ {r} : pc'[q] = "granted" <=> pc[q] = "granted",
         kind[r] # "lock" => pc[r] = "permit" /\ answer[r] = "granted"
  PROVE  Shared!Next
<1> DEFINE f == File[r]
           n == pc'
<1>1. /\ f \in Files /\ pc \in [Requests -> Points] /\ n \in [Requests -> Points]
      /\ kind \in [Requests -> Kinds]
  BY StoreFacts DEF StoreInv, FilesInv
<1>2. /\ InUseOf(n, kind, kind[r]) =
           [InUseOf(pc, kind, kind[r]) EXCEPT ![f] = @ \cup {r}]
      /\ \A k \in Kinds \ {kind[r]} : InUseOf(n, kind, k) = InUseOf(pc, kind, k)
  <2>1. \A k \in Kinds : InUseOf(n, kind, k) =
          IF k = kind[r] THEN [InUseOf(pc, kind, k) EXCEPT ![f] = @ \cup {r}]
          ELSE InUseOf(pc, kind, k)
    BY <1>1, InUseGains
  <2>2. kind[r] \in Kinds
    BY <1>1
  <2> HIDE DEF n, f
  <2> QED
    BY <2>1, <2>2
<1>3. "lock" \in Kinds /\ "access" \in Kinds /\ "unlink" \in Kinds
  BY DEF Kinds
<1>4. /\ At(pc[r], kind[r], files[f].held[r]) /\ kind[r] \in Kinds
      /\ At(pc'[r], kind[r], files'[f].held[r])
  BY <1>1, StoreFacts DEF StoreInv, FilesInv, At
<1>5. kind[r] # "none" /\ files'[f].held[r] = kind[r]
  BY <1>4 DEF At
<1>6. \A q \in Requests : pc[q] = "granted" => files[File[q]].held[q] = kind[q]
  BY DEF StoreInv, FilesInv, At
<1>7. \A q \in Requests : pc'[q] = "granted" => files'[File[q]].held[q] = kind[q]
  BY DEF StoreInv, FilesInv, At
<1>8. /\ Lockers[f] = InUse(pc, kind, "lock", f) /\ Writers[f] = InUse(pc, kind, "access", f)
      /\ Deleters[f] = InUse(pc, kind, "unlink", f)
  BY <1>1, MappedStep DEF InUseOf
<1>9. CASE kind[r] = "lock"
  <2>1. InUse(pc, kind, "unlink", f) = {}
    <3> SUFFICES ASSUME NEW q \in Requests, pc[q] = "granted", kind[q] = "unlink", File[q] = f
                 PROVE  FALSE
      BY DEF InUse
    <3>1. pc'[q] = "granted" /\ q # r
      BY <1>9
    <3>2. files'[f].held[q] = "unlink"
      BY <1>7, <3>1
    <3>3. (files[File[r]].held[r] = "lock")'
      BY <1>5, <1>9
    <3>4. (files[File[r]].held[q] # "unlink")'
      BY <3>3, LockOrDeleteAfter
    <3> QED
      BY <3>2, <3>4
  <2>2. Lockers' = [Lockers EXCEPT ![f] = @ \cup {r}]
    BY <1>2, <1>9, MappedStep
  <2>3. Writers' = Writers /\ Deleters' = Deleters
    BY <1>2, <1>3, <1>9, MappedStep
  <2> QED
    BY <1>1, <1>8, <2>1, <2>2, <2>3, SharedSteps DEF Shared!Next
<1>10. CASE kind[r] # "lock"
  <2>1. Shared!Room
    <3>1. Shared!AtWork = UNION {InUse(pc, kind, "access", g) \cup InUse(pc, kind, "unlink", g)
                                   : g \in Files}
      BY UsingIsInUse DEF Shared!AtWork
    <3>2. \A S : Shared!Cardinality(S) = Cardinality(S)
      BY DEF Shared!Cardinality, Cardinality
    <3> QED
      BY <1>10, <3>1, <3>2, RoomForOne DEF Shared!Room
  <2>2. CASE kind[r] = "access"
    <3>1. InUse(pc, kind, "access", f) = {}
      <4> SUFFICES ASSUME NEW q \in Requests, pc[q] = "granted", kind[q] = "access",
                          File[q] = f
                   PROVE  FALSE
        BY DEF InUse
      <4>1. files'[f].held[q] = "access" /\ files'[f].held[r] = "access" /\ q # r
        BY <1>5, <1>7, <2>2
      <4>2. RP!Sound(files'[f])
        BY <1>1 DEF StoreInv, FilesInv
      <4> QED
        BY <4>1, <4>2 DEF RP!Sound, RP!Queued, RP!OneAccess
    <3>2. Writers' = [Writers EXCEPT ![f] = {r}]
      <4>1. Writers' = [Writers EXCEPT ![f] = Writers[f] \cup {r}]
        BY <1>2, <2>2, MappedStep
      <4> QED
        BY <1>8, <3>1, <4>1
    <3>3. Lockers' = Lockers /\ Deleters' = Deleters
      BY <1>2, <1>3, <2>2, MappedStep
    <3> QED
      BY <1>1, <1>8, <2>1, <3>1, <3>2, <3>3, SharedSteps DEF Shared!Next
  <2>3. CASE kind[r] = "unlink"
    <3>1. InUse(pc, kind, "lock", f) = {}
      <4> SUFFICES ASSUME NEW q \in Requests, pc[q] = "granted", kind[q] = "lock", File[q] = f
                   PROVE  FALSE
        BY DEF InUse
      <4>1. files[f].held[q] = "lock" /\ files[f].held[r] = "unlink"
        BY <1>4, <1>6, <1>10, <2>3 DEF At
      <4> QED
        BY <4>1, LockOrDelete
    <3>2. Deleters' = [Deleters EXCEPT ![f] = @ \cup {r}]
      BY <1>2, <2>3, MappedStep
    <3>3. Lockers' = Lockers /\ Writers' = Writers
      BY <1>2, <1>3, <2>3, MappedStep
    <3> QED
      BY <1>1, <1>8, <2>1, <3>1, <3>2, <3>3, SharedSteps DEF Shared!Next
  <2> QED
    BY <1>4, <1>5, <1>10, <2>2, <2>3 DEF Kinds
<1> QED
  BY <1>9, <1>10

\* A client releases what it was told of.
LEMMA ReleasingMaps ==
  ASSUME StoreInv, StoreInv', Calm, Calm', kind' = kind, NEW r \in Requests,
         pc[r] = "granted", pc'[r] # "granted",
         \A q \in Requests \ {r} : pc'[q] = pc[q]
  PROVE  Shared!Next
<1> DEFINE f == File[r]
<1>1. /\ f \in Files /\ pc \in [Requests -> Points] /\ pc' \in [Requests -> Points]
      /\ kind \in [Requests -> Kinds]
  BY StoreFacts DEF StoreInv, FilesInv
<1>2. \A k \in Kinds : InUseOf(pc', kind, k) = [InUseOf(pc, kind, k) EXCEPT ![f] = @ \ {r}]
  BY <1>1, InUseLoses
<1>3. "lock" \in Kinds /\ "access" \in Kinds /\ "unlink" \in Kinds
  BY DEF Kinds
<1>4. kind[r] \in {"lock", "access", "unlink"}
  <2>1. At(pc[r], kind[r], files[f].held[r]) /\ kind[r] \in Kinds
    BY <1>1 DEF StoreInv, FilesInv
  <2> QED
    BY <2>1 DEF At, Kinds
<1>5. r \in Lockers[f] \cup Writers[f] \cup Deleters[f]
  BY <1>1, <1>4, MappedStep DEF InUse, InUseOf
<1>6. /\ Lockers' = [Lockers EXCEPT ![f] = @ \ {r}]
      /\ Writers' = [Writers EXCEPT ![f] = @ \ {r}]
      /\ Deleters' = [Deleters EXCEPT ![f] = @ \ {r}]
  BY <1>2, <1>3, MappedStep
<1> QED
  BY <1>1, <1>5, <1>6, SharedSteps DEF Shared!Next

\* Nobody is told and nobody releases: the clients' use of the files is what it was.
LEMMA OthersMap ==
  ASSUME Calm, Calm',
         \A q \in Requests : pc'[q] = "granted" <=> pc[q] = "granted",
         \A q \in Requests : pc[q] = "granted" => kind'[q] = kind[q]
  PROVE  UNCHANGED Shared!vars
<1>1. \A k : InUseOf(pc', kind', k) = InUseOf(pc, kind, k)
  BY InUseSame
<1>2. Lockers' = Lockers /\ Writers' = Writers /\ Deleters' = Deleters
  BY <1>1, MappedStep
<1> QED
  BY <1>2 DEF Shared!vars, Lockers, Writers, Deleters

\* When somebody may die or release a refusal, the abstract store is used by nobody.
LEMMA WildMaps ==
  ASSUME ~Calm, UNCHANGED usage
  PROVE  UNCHANGED Shared!vars
<1>1. \A k, f : UsingFile(k, f) = {} /\ UsingFile(k, f)' = {}
  BY DEF UsingFile, Calm, usage
<1> QED
  BY <1>1 DEF Shared!vars

\* Every step of the store is a step of SharedFiles, or none.
LEMMA StepsMap ==
  ASSUME StoreInv, StoreInv', [Next]_vars
  PROVE  [Shared!Next]_(Shared!vars)
<1>1. UNCHANGED usage
  BY DEF Next, ServerStep, vars, Ask, RequestAction, AskPool, PoolNotify, Reply, Release,
         ReleaseLock, ReleaseAction, ReleasePermit, ReleaseFile, Crash, ClearAction
<1>2. CASE ~Calm
  BY <1>1, <1>2, WildMaps
<1>3. CASE Calm
  <2>1. Calm'
    BY <1>1, <1>3 DEF Calm, usage
  <2>2. pc \in [Requests -> Points] /\ kind \in [Requests -> Kinds]
    BY DEF StoreInv, FilesInv
  <2>3. ASSUME NEW r \in Requests, Ask(r)
        PROVE  UNCHANGED Shared!vars
    <3>1. /\ pc[r] = "idle" /\ pc' = [pc EXCEPT ![r] = "request"]
          /\ \A q \in Requests \ {r} : kind'[q] = kind[q]
      BY <2>2, <2>3 DEF Ask
    <3> QED
      BY <1>3, <2>1, <2>2, <3>1, OthersMap
  <2>4. ASSUME NEW r \in Requests, RequestAction(r)
        PROVE  Shared!Next \/ UNCHANGED Shared!vars
    <3>1. /\ pc[r] = "request" /\ kind' = kind
          /\ \A q \in Requests \ {r} : pc'[q] = pc[q] \/ (pc[q] = "queued" /\ pc'[q] = "onQueue")
      BY <2>2, <2>4 DEF RequestAction, Resolve
    <3>2. \A q \in Requests \ {r} : pc'[q] = "granted" <=> pc[q] = "granted"
      BY <3>1
    <3>3. CASE pc'[r] = "granted"
      <4>1. (At(pc[r], kind[r], files[File[r]].held[r]) /\ AtPool(pc[r], kind[r], answer[r]))'
        BY DEF StoreInv, FilesInv, PoolInv
      <4>2. AtPool(pc[r], kind[r], answer[r]) /\ answer'[r] = answer[r]
        BY <2>4 DEF StoreInv, PoolInv, RequestAction, poolVars
      <4>3. kind[r] = "lock"
        BY <1>3, <2>1, <3>1, <3>3, <4>1, <4>2 DEF AtPool, Calm
      <4> QED
        BY <1>3, <2>1, <3>1, <3>2, <3>3, <4>3, TellingMaps
    <3>4. CASE pc'[r] # "granted"
      BY <1>3, <2>1, <3>1, <3>2, <3>4, OthersMap
    <3> QED
      BY <3>3, <3>4
  <2>5. ASSUME NEW r \in Requests, Reply(r)
        PROVE  Shared!Next
    <3>1. /\ pc[r] = "permit" /\ answer[r] = "granted" /\ kind' = kind
          /\ pc' = [pc EXCEPT ![r] = "granted"]
      BY <2>5 DEF Reply
    <3> QED
      BY <1>3, <2>1, <2>2, <3>1, TellingMaps
  <2>6. ASSUME NEW r \in Requests, Release(r)
        PROVE  Shared!Next
    <3>1. pc[r] = "granted" /\ kind' = kind /\ pc' = [pc EXCEPT ![r] = "release"]
      BY <1>3, <2>6 DEF Release, Calm
    <3> QED
      BY <1>3, <2>1, <2>2, <3>1, ReleasingMaps
  <2>7. ASSUME NEW r \in Requests,
               AskPool(r) \/ PoolNotify(r) \/ ReleaseAction(r) \/ ReleasePermit(r)
        PROVE  UNCHANGED Shared!vars
    <3>1. /\ kind' = kind
          /\ \A q \in Requests : pc'[q] = "granted" <=> pc[q] = "granted"
      BY <2>2, <2>7 DEF AskPool, PoolNotify, ReleaseAction, ReleasePermit
    <3> QED
      BY <1>3, <2>1, <3>1, OthersMap
  <2>8. ASSUME NEW r \in Requests, ReleaseLock(r) \/ ReleaseFile(r)
        PROVE  UNCHANGED Shared!vars
    <3>1. /\ pc[r] \in {"release", "releaseFile"} /\ kind' = kind /\ pc'[r] = "over"
          /\ \A q \in Requests \ {r} : pc'[q] = pc[q] \/ (pc[q] = "queued" /\ pc'[q] = "onQueue")
      BY <2>2, <2>8 DEF ReleaseLock, ReleaseFile, Resolve
    <3>2. \A q \in Requests : pc'[q] = "granted" <=> pc[q] = "granted"
      BY <3>1
    <3> QED
      BY <1>3, <2>1, <3>1, <3>2, OthersMap
  <2>9. CASE UNCHANGED vars
    BY <1>3, <2>1, <2>9, OthersMap DEF vars
  <2>10. ~ClearAction /\ \A w \in Clients : ~Crash(w)
    BY <1>3 DEF StoreInv, Calm, ClearAction, Crash
  <2> QED
    BY <2>3, <2>4, <2>5, <2>6, <2>7, <2>8, <2>9, <2>10 DEF Next, ServerStep
<1> QED
  BY <1>2, <1>3

\* Behind its messages and queues the file store is SharedFiles, as long as no worker dies
\* and no refusal is released: one writer of a file at a time, within the limit, and no
\* lock of a file that is being deleted.
THEOREM StoreImplementsSharedFiles == Spec => ImplementsSharedFiles
<1>1. Init => Shared!Init
  <2> SUFFICES ASSUME Init PROVE Shared!Init
    OBVIOUS
  <2>1. \A k, f : UsingFile(k, f) = {}
    BY DEF Init, UsingFile, Using
  <2> QED
    BY <2>1 DEF Shared!Init
<1>2. StoreInv /\ StoreInv' /\ [Next]_vars => [Shared!Next]_(Shared!vars)
  BY StepsMap
<1> QED
  BY <1>1, <1>2, StoreInvariant, PTL DEF Spec, ImplementsSharedFiles, Shared!Spec
=============================================================================
