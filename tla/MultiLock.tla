------------------------------- MODULE MultiLock -------------------------------
(***************************************************************************)
(* core/utils/src/multi-lock.ts: counted locks of many owners under one    *)
(* limit, where 0 stands for no limit.  A MultiLock is a value here; its   *)
(* users (LockPool, FilePermissionResolver) keep it in a variable.         *)
(***************************************************************************)
EXTENDS Integers

CONSTANT Owners     \* the ids locks are counted for

\* A count is never negative; that lockLength stays the sum of the counts is a
\* property of the methods, checked where they are used.
MultiLocks == [hash : [Owners -> Nat], length : Int]

NoLocks == [hash |-> [id \in Owners |-> 0], length |-> 0]

\* Mutant: one lock over the limit.
CanAcquire_OffByOne(lock, limit) == limit = 0 \/ lock.length <= limit

\* acquire(id) answers true; otherwise it changes nothing.
CanAcquire(lock, limit) == limit = 0 \/ lock.length < limit

Acquired(lock, id) ==
  [hash |-> [lock.hash EXCEPT ![id] = @ + 1], length |-> lock.length + 1]

\* Mutant: the count of the owner is not looked at.
CanRelease_Unchecked(lock, id) == lock.length > 0

\* release(id) answers true; otherwise it changes nothing.
CanRelease(lock, id) == lock.hash[id] > 0

Released(lock, id) ==
  [hash |-> [lock.hash EXCEPT ![id] = @ - 1], length |-> lock.length - 1]

\* clean(id): every lock of one owner at once.
Cleaned(lock, id) ==
  [hash |-> [lock.hash EXCEPT ![id] = 0], length |-> lock.length - lock.hash[id]]
=============================================================================
