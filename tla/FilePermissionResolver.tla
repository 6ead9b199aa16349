------------------------- MODULE FilePermissionResolver -------------------------
(***************************************************************************)
(* core/fs-store/src/utils/FilePermissionResolver.ts: who may lock, write  *)
(* and delete one file.  Locks are shared and keep the file from being     *)
(* deleted, accesses (writes) are granted one at a time in order, deletes  *)
(* wait until the file is free.                                            *)
(*                                                                         *)
(* A grant is a callback that gets a clean-up callback of its own; "held"  *)
(* records which clean-up callbacks the callers still hold.  The operators *)
(* on the record f are the class's methods, the actions their calls; every *)
(* call is synchronous, hence one step.  The file store's callbacks are    *)
(* async functions: they never call back into the resolver while it runs.  *)
(***************************************************************************)
EXTENDS Integers, Sequences, FiniteSets, Functions, Queues

CONSTANTS
  Clients,     \* the workers
  Requests,    \* the request ids; each is used once
  Client       \* the worker each request id belongs to

ResolverConstants ==
  /\ IsFiniteSet(Requests)
  /\ Client \in [Requests -> Clients]

ASSUME ResolverAssumption == ResolverConstants

VARIABLES
  refusals,    \* chosen once: clients release the locks they were refused
  cleaning,    \* chosen once: requests are cleaned or unhooked
  fpr          \* the resolver and the callbacks it has handed out

usage == <<refusals, cleaning>>
vars == <<usage, fpr>>

Locks == INSTANCE MultiLock WITH Owners <- Clients

States == {"locked", "access", "free", "deleting", "deleted"}

\* "new": not yet asked; "queued": waits in a queue, or was dropped from it;
\* "refused": told that it cannot be; "over": its clean-up callback was called.
Held == {"new", "queued", "refused", "lock", "access", "unlink", "over"}

Resolvers ==
  [multiLock : Locks!MultiLocks,
   access : Seq(Requests), accessing : BOOLEAN,
   del : Seq(Requests), state : States, held : [Requests -> Held]]

TypeOK == refusals \in BOOLEAN /\ cleaning \in BOOLEAN /\ fpr \in Resolvers

New ==
  [multiLock |-> Locks!NoLocks, access |-> <<>>, accessing |-> FALSE, del |-> <<>>,
   state |-> "free", held |-> [r \in Requests |-> "new"]]

Init == refusals \in BOOLEAN /\ cleaning \in BOOLEAN /\ fpr = New

-----------------------------------------------------------------------------
(* The methods                                                             *)

IsDeleted(f) == f.state \in {"deleting", "deleted"}

\* Mutant: a delete is granted whatever the state.
CanBeDeleted_Always(f) == TRUE

CanBeDeleted(f) == f.state \in {"free", "deleting", "deleted"}

\* tryDelete: the head of the delete queue is granted, if the state allows it;
\* one that is granted while another is deleting is granted too.
TryDelete(f) ==
  IF CanBeDeleted(f) /\ f.del # <<>>
  THEN [f EXCEPT !.state = IF IsDeleted(f) THEN @ ELSE "deleting",
                 !.del = Tail(@),
                 !.held = [@ EXCEPT ![Head(f.del)] = "unlink"]]
  ELSE f

\* Mutant: the file counts as free while somebody has a lock.
ChkEmpty_IgnoresLocks(f) ==
  IF f.access = <<>> /\ ~f.accessing THEN TryDelete([f EXCEPT !.state = "free"]) ELSE f

\* chkEmpty: the state that follows from locks, queue and access.
ChkEmpty(f) ==
  IF f.multiLock.length = 0 /\ f.access = <<>>
  THEN IF f.accessing THEN [f EXCEPT !.state = "access"]
                      ELSE TryDelete([f EXCEPT !.state = "free"])
  ELSE [f EXCEPT !.state = IF f.multiLock.length # 0 THEN "locked" ELSE @]

\* Mutant: an access is granted beside another.
TryAccess_Shared(f) ==
  IF IsDeleted(f) THEN f
  ELSE IF f.access # <<>>
  THEN [f EXCEPT !.access = Tail(@), !.accessing = TRUE,
                 !.held = [@ EXCEPT ![Head(f.access)] = "access"]]
  ELSE ChkEmpty(f)

\* tryAccess: the head of the access queue is granted when nobody writes.
TryAccess(f) ==
  IF IsDeleted(f) \/ f.accessing THEN f
  ELSE IF f.access # <<>>
  THEN [f EXCEPT !.access = Tail(@), !.accessing = TRUE,
                 !.held = [@ EXCEPT ![Head(f.access)] = "access"]]
  ELSE ChkEmpty(f)

Tell(f, r, what) == [f EXCEPT !.held = [@ EXCEPT ![r] = what]]

\* Mutant: a lock does not change the state.
Lock_NoState(f, r) ==
  IF IsDeleted(f) THEN Tell(f, r, "refused")
  ELSE [Tell(f, r, "lock") EXCEPT !.multiLock = Locks!Acquired(@, Client[r])]

\* lock(): granted at once, unless the file is being deleted.
Lock(f, r) ==
  IF IsDeleted(f) THEN Tell(f, r, "refused")
  ELSE [Tell(f, r, "lock") EXCEPT
          !.multiLock = Locks!Acquired(@, Client[r]), !.state = "locked"]

\* unlock(): one lock of the worker less, if it has any.
Unlock(f, w) ==
  ChkEmpty([f EXCEPT !.multiLock =
              IF Locks!CanRelease(@, w) THEN Locks!Released(@, w) ELSE @])

\* hookAccess()
HookAccess(f, r) ==
  IF IsDeleted(f) THEN Tell(f, r, "refused")
  ELSE TryAccess([Tell(f, r, "queued") EXCEPT !.access = Append(@, r)])

\* hookUnlink()
HookUnlink(f, r) == TryDelete([Tell(f, r, "queued") EXCEPT !.del = Append(@, r)])

\* The clean-up callback of a lock.
LockReleased(f, r) == Unlock(Tell(f, r, "over"), Client[r])

\* Mutant: the next access in the queue is not tried.
AccessReleased_NoNext(f, r) == [Tell(f, r, "over") EXCEPT !.accessing = FALSE]

\* The clean-up callback of an access.
AccessReleased(f, r) == TryAccess([Tell(f, r, "over") EXCEPT !.accessing = FALSE])

\* Mutant: the next delete in the queue is not tried.
UnlinkReleased_NoNext(f, r) == [Tell(f, r, "over") EXCEPT !.state = "deleted"]

\* The clean-up callback of a delete.
UnlinkReleased(f, r) == TryDelete([Tell(f, r, "over") EXCEPT !.state = "deleted"])

NotOf(w, queue) == Rest(queue, {q \in Requests : Client[q] # w})

\* Mutant: cleaning the accesses of a worker lets the next one in.
CleanAccess_Resets(f, w) ==
  TryAccess([f EXCEPT !.access = NotOf(w, @), !.accessing = FALSE])

\* cleanAccess(worker): only the queue; an access that was granted stays, and
\* nothing is tried.
CleanAccess(f, w) == [f EXCEPT !.access = NotOf(w, @)]

\* cleanLock(worker)
CleanLock(f, w) == ChkEmpty([f EXCEPT !.multiLock = Locks!Cleaned(@, w)])

\* cleanUnlink(worker): only the queue.
CleanUnlink(f, w) == [f EXCEPT !.del = NotOf(w, @)]

\* The same three without a worker: everything goes.
CleanAccessAll(f) == [f EXCEPT !.access = <<>>]
CleanLockAll(f) == ChkEmpty([f EXCEPT !.multiLock = Locks!NoLocks])
CleanUnlinkAll(f) == [f EXCEPT !.del = <<>>]

\* unhookAccess and unhookUnlink keep the requests of the same worker or id.
Kept(r, queue) == Rest(queue, {q \in Requests : Client[q] = Client[r] \/ q = r})
UnhookAccess(f, r) ==
  IF IsDeleted(f) THEN f ELSE TryAccess([f EXCEPT !.access = Kept(r, @)])
UnhookUnlink(f, r) == TryAccess([f EXCEPT !.del = Kept(r, @)])

-----------------------------------------------------------------------------
(* The calls                                                               *)

\* A client asks once under every id.
Ask(r) ==
  /\ fpr.held[r] = "new"
  /\ \/ fpr' = Lock(fpr, r)
     \/ fpr' = HookAccess(fpr, r)
     \/ fpr' = HookUnlink(fpr, r)
  /\ UNCHANGED usage

\* The holder of a clean-up callback calls it.
Release(r) ==
  /\ \/ fpr.held[r] = "lock" /\ fpr' = LockReleased(fpr, r)
     \/ fpr.held[r] = "access" /\ fpr' = AccessReleased(fpr, r)
     \/ fpr.held[r] = "unlink" /\ fpr' = UnlinkReleased(fpr, r)
  /\ UNCHANGED usage

\* FSStoreFile calls back and releases a lock it was refused as if it had it;
\* the server finds no clean-up callback and calls unlock() itself.
ReleaseRefused(r) ==
  /\ refusals
  /\ fpr.held[r] = "refused"
  /\ fpr' = Unlock(Tell(fpr, r, "over"), Client[r])
  /\ UNCHANGED usage

CleanWorker(w) ==
  /\ cleaning
  /\ \/ fpr' = CleanAccess(fpr, w)
     \/ fpr' = CleanLock(fpr, w)
     \/ fpr' = CleanUnlink(fpr, w)
  /\ UNCHANGED usage

CleanAll ==
  /\ cleaning
  /\ \/ fpr' = CleanAccessAll(fpr)
     \/ fpr' = CleanLockAll(fpr)
     \/ fpr' = CleanUnlinkAll(fpr)
  /\ UNCHANGED usage

Unhook(r) ==
  /\ cleaning
  /\ \/ fpr' = UnhookAccess(fpr, r)
     \/ fpr' = UnhookUnlink(fpr, r)
  /\ UNCHANGED usage

Next ==
  \/ \E r \in Requests : Ask(r) \/ Release(r) \/ ReleaseRefused(r) \/ Unhook(r)
  \/ \E w \in Clients : CleanWorker(w)
  \/ CleanAll

Spec == Init /\ [][Next]_vars

\* Whoever was granted something releases it; nobody need ask.
FairSpec == Spec /\ \A r \in Requests : WF_vars(Release(r))
-----------------------------------------------------------------------------
(* What the resolver promises                                              *)

HoldersOf(what) == {r \in Requests : fpr.held[r] = what}

\* "access (write/append) - can be performed only by one agent at the time": one
\* clean-up callback of an access is out, exactly when "accessing" says so.
OneWriter ==
  /\ \A r, q \in HoldersOf("access") : r = q
  /\ fpr.accessing <=> HoldersOf("access") # {}

\* The counted locks are the locks held, and while there are any the state says
\* so, through any order of locks, accesses and deletes (chkEmpty, tryAccess).
LockedWhileHeld ==
  ~refusals /\ ~cleaning =>
    /\ \A w \in Clients :
         fpr.multiLock.hash[w] = Cardinality({r \in HoldersOf("lock") : Client[r] = w})
    /\ HoldersOf("lock") # {} => fpr.state = "locked"

DeleteUnderLock ==
  \E r, q \in Requests :
    fpr.held[r] # "unlink" /\ fpr'.held[r] = "unlink" /\ fpr'.held[q] = "lock"

\* A delete is granted only when nobody has a lock, while callers release what they
\* hold and nothing else (canBeDeleted, chkEmpty).
DeleteWaitsForLocks == [][~refusals /\ ~cleaning => ~DeleteUnderLock]_vars

\* Whatever is released, refused or cleaned: no more locks are counted than are
\* held, and a file that counts as free has no lock.
LocksBacked ==
  /\ \A w \in Clients : fpr.multiLock.hash[w]
       <= Cardinality({r \in HoldersOf("lock") : Client[r] = w})
  /\ fpr.state = "free" => fpr.multiLock.length = 0

\* The count of the locks and the state agree with the locks held, in both directions as
\* far as the callers behave.
LocksCounted == LocksBacked /\ LockedWhileHeld

\* "ensure we get exclusive access right for a file" (fs-store-file.ts): nobody
\* deletes the file while somebody writes it.
ExclusiveAccess == HoldersOf("access") = {} \/ HoldersOf("unlink") = {}

\* While callers behave a queued write is granted, unless the file is deleted first.
AccessServed ==
  \A r \in Requests :
    ~refusals /\ ~cleaning /\ r \in Range(fpr.access)
      ~> fpr.held[r] = "access" \/ IsDeleted(fpr)

\* While callers behave a queued delete is granted once those that hold locks and
\* accesses let go.
UnlinkServed ==
  \A r \in Requests :
    ~refusals /\ ~cleaning /\ r \in Range(fpr.del) ~> fpr.held[r] = "unlink"

\* Nobody stays in a queue of the resolver: writes and deletes are granted in the end.
QueuesServed == AccessServed /\ UnlinkServed
=============================================================================
