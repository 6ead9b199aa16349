-------------------------------- MODULE LockPool --------------------------------
(***************************************************************************)
(* core/fs-store/src/utils/LockPool.ts: the pool of write permits the file *)
(* store shares between all workers and all files.  acquire() takes a      *)
(* permit or waits in a queue; release() gives one back and hands it to    *)
(* the head of the queue; clean() forgets the permits of a worker.         *)
(*                                                                         *)
(* A request id belongs to one client and is drawn at random               *)
(* (fs-store-client.ts, generateUniqId), so Client is a fixed function.  A *)
(* request that is over may be made again: the next one of that client.    *)
(***************************************************************************)
EXTENDS Integers, Sequences, FiniteSets, Functions, Queues

CONSTANTS
  Clients,        \* the workers that use the pool
  Requests,       \* the request ids
  Client,         \* the worker each request id belongs to
  MaxLockCount    \* the constructor's maxLockCount, 0 for no limit

PoolConstants ==
  /\ IsFiniteSet(Requests)
  /\ Client \in [Requests -> Clients]
  /\ MaxLockCount \in Nat

ASSUME PoolAssumption == PoolConstants

VARIABLES
  strays,      \* chosen once: release() is also called for a request that holds
               \* no permit and waits for none
  cleaning,    \* chosen once: clean() is called
  poolLock,    \* the permits taken, per worker and in all
  requestQue,  \* the requests that wait for a permit
  requests,    \* the request ids that may not be used again yet
  answer       \* what the promise of each request's acquire() has told

usage == <<strays, cleaning>>
vars == <<usage, poolLock, requestQue, requests, answer>>

Lock == INSTANCE MultiLock WITH Owners <- Clients

\* "handed": the permit is taken in the request's name, its notifier is called
\* in a later microtask.
Answers == {"none", "waiting", "handed", "granted", "denied"}

TypeOK ==
  /\ strays \in BOOLEAN /\ cleaning \in BOOLEAN
  /\ poolLock \in Lock!MultiLocks
  /\ requestQue \in Seq(Requests)
  /\ requests \subseteq Requests
  /\ answer \in [Requests -> Answers]

Init ==
  /\ strays \in BOOLEAN /\ cleaning \in BOOLEAN
  /\ poolLock = Lock!NoLocks
  /\ requestQue = <<>>
  /\ requests = {}
  /\ answer = [r \in Requests |-> "none"]

Waiting(r) == r \in Range(requestQue)

\* The queue without its i-th element.
Without(queue, i) == SubSeq(queue, 1, i - 1) \o SubSeq(queue, i + 1, Len(queue))

-----------------------------------------------------------------------------
\* acquireAction for r, on the lock and the queue it finds: a free permit is
\* taken at once, told as "how", and otherwise r waits at the end of the queue.
AcquireAction(r, lock, queue, told, how) ==
  IF Lock!CanAcquire(lock, MaxLockCount)
  THEN /\ poolLock' = Lock!Acquired(lock, Client[r])
       /\ requestQue' = queue
       /\ answer' = [told EXCEPT ![r] = how]
  ELSE /\ poolLock' = lock
       /\ requestQue' = Append(queue, r)
       /\ answer' = [told EXCEPT ![r] = "waiting"]

\* acquire(worker, r) of a request id that is not in use.
Acquire(r) ==
  /\ answer[r] \in {"none", "denied"}
  /\ r \notin requests
  /\ requests' = requests \cup {r}
  /\ AcquireAction(r, poolLock, requestQue, answer, "granted")
  /\ UNCHANGED usage

\* "Repeating requestId": nothing changes.
AcquireRejected(r) == r \in requests /\ UNCHANGED vars

\* Mutant: a request that still waits is not taken out of the queue.
Withdraw_Kept(r) ==
  /\ Waiting(r)
  /\ answer' = [answer EXCEPT ![r] = "denied"]
  /\ UNCHANGED <<usage, poolLock, requestQue, requests>>

\* release() of a request that still waits: it leaves the queue, in which it is
\* once, and its promise resolves to false; its id stays in "requests".
Withdraw(r) ==
  /\ \E i \in DOMAIN requestQue :
       requestQue[i] = r /\ requestQue' = Without(requestQue, i)
  /\ answer' = [answer EXCEPT ![r] = "denied"]
  /\ UNCHANGED <<usage, poolLock, requests>>

\* Mutant: the permit goes back to the pool and nobody in the queue is told.
GiveBack_NoHandOver(r) ==
  /\ ~Waiting(r)
  /\ Lock!CanRelease(poolLock, Client[r])
  /\ requests' = requests \ {r}
  /\ poolLock' = Lock!Released(poolLock, Client[r])
  /\ answer' = [answer EXCEPT ![r] = "none"]
  /\ UNCHANGED <<usage, requestQue>>

\* Mutant: the permit is handed to the request that came last.
GiveBack_Last(r) ==
  /\ ~Waiting(r)
  /\ Lock!CanRelease(poolLock, Client[r])
  /\ requests' = requests \ {r}
  /\ UNCHANGED usage
  /\ LET freed == Lock!Released(poolLock, Client[r])
         told == [answer EXCEPT ![r] = "none"]
     IN IF requestQue = <<>>
        THEN poolLock' = freed /\ answer' = told /\ UNCHANGED requestQue
        ELSE AcquireAction(requestQue[Len(requestQue)], freed,
                           SubSeq(requestQue, 1, Len(requestQue) - 1), told, "handed")

\* Mutant: the permit is handed over without being taken back first.
GiveBack_Twice(r) ==
  /\ ~Waiting(r)
  /\ Lock!CanRelease(poolLock, Client[r])
  /\ requests' = requests \ {r}
  /\ UNCHANGED usage
  /\ LET freed == Lock!Released(poolLock, Client[r])
         told == [answer EXCEPT ![r] = "none"]
     IN IF requestQue = <<>>
        THEN poolLock' = freed /\ answer' = told /\ UNCHANGED requestQue
        ELSE /\ poolLock' = poolLock
             /\ requestQue' = Tail(requestQue)
             /\ answer' = [told EXCEPT ![Head(requestQue)] = "handed"]

\* release() of a permit of r's worker, whichever of its requests took it: the
\* head of the queue gets the permit before anybody else can ask for it.
GiveBack(r) ==
  /\ ~Waiting(r)
  /\ Lock!CanRelease(poolLock, Client[r])
  /\ requests' = requests \ {r}
  /\ UNCHANGED usage
  /\ LET freed == Lock!Released(poolLock, Client[r])
         told == [answer EXCEPT ![r] = "none"]
     IN IF requestQue = <<>>
        THEN poolLock' = freed /\ answer' = told /\ UNCHANGED requestQue
        ELSE AcquireAction(Head(requestQue), freed, Tail(requestQue), told, "handed")

\* release() when r's worker has no permit at all answers false.
GiveBackRefused(r) ==
  /\ ~Waiting(r)
  /\ ~Lock!CanRelease(poolLock, Client[r])
  /\ answer' = [answer EXCEPT ![r] = "none"]
  /\ UNCHANGED <<usage, poolLock, requestQue, requests>>

\* release(worker, r): the callers the pool has release what they have asked for.
Release(r) ==
  /\ strays \/ answer[r] \in {"waiting", "handed", "granted"}
  /\ \/ Withdraw(r)
     \/ GiveBack(r)
     \/ GiveBackRefused(r)

\* The microtask after the hand-over resolves the promise of the waiting request.
Notify(r) ==
  /\ answer[r] = "handed"
  /\ answer' = [answer EXCEPT ![r] = "granted"]
  /\ UNCHANGED <<usage, poolLock, requestQue, requests>>

\* clean(worker): its permits are free again and its waiting requests answered
\* with false.  Nobody else in the queue is told of the free permits.
Clean(w) ==
  /\ cleaning
  /\ poolLock' = Lock!Cleaned(poolLock, w)
  /\ requestQue' = Rest(requestQue, {q \in Requests : Client[q] # w})
  /\ answer' = [r \in Requests |-> IF Waiting(r) /\ Client[r] = w THEN "denied"
                                   ELSE answer[r]]
  /\ UNCHANGED <<usage, requests>>

\* clean(): the same for every worker at once.
CleanAll ==
  /\ cleaning
  /\ poolLock' = Lock!NoLocks
  /\ requestQue' = <<>>
  /\ answer' = [r \in Requests |-> IF Waiting(r) THEN "denied" ELSE answer[r]]
  /\ UNCHANGED <<usage, requests>>

Next ==
  \/ \E r \in Requests : Acquire(r) \/ AcquireRejected(r) \/ Release(r) \/ Notify(r)
  \/ \E w \in Clients : Clean(w)
  \/ CleanAll

Spec == Init /\ [][Next]_vars

(***************************************************************************)
(* A client that was granted a permit releases it when its write is over,  *)
(* and microtasks run.                                                     *)
(***************************************************************************)
FairSpec ==
  /\ Spec
  /\ \A r \in Requests :
       WF_vars(Notify(r)) /\ WF_vars(answer[r] = "granted" /\ Release(r))
-----------------------------------------------------------------------------
(* What the pool promises                                                  *)

\* The requests that have a permit and have not released it.
Holders == {r \in Requests : answer[r] \in {"handed", "granted"}}
HoldersOf(w) == {r \in Holders : Client[r] = w}

\* Every permit counted for a worker is held by one of its requests, and the
\* total is never over the limit: no permit leaks, however callers release.
PermitsBacked ==
  /\ \A w \in Clients : 0 <= poolLock.hash[w] /\ poolLock.hash[w] <= Cardinality(HoldersOf(w))
  /\ MaxLockCount > 0 => poolLock.length <= MaxLockCount

\* When callers release only what they asked for and nothing is cleaned, the
\* pool counts exactly the requests that hold a permit (multi-lock.ts counts
\* per worker, LockPool.release hands the permit of one worker to another).
PermitsAccounted ==
  ~strays /\ ~cleaning =>
    /\ poolLock.length = Cardinality(Holders)
    /\ \A w \in Clients : poolLock.hash[w] = Cardinality(HoldersOf(w))

\* Nobody waits beside a free permit: the hand-over in release() loses no permit
\* and wakes somebody for each one.  (clean() wakes nobody.)
NoIdlePermit ==
  ~cleaning /\ requestQue # <<>> => poolLock.length = MaxLockCount

\* Without clean() permits are given in the order of the requests: a waiting request gets one
\* only as the head of the queue, a new one only when nobody waits.
FirstComeFirstServed ==
  [][~cleaning => \A r \in Requests : r \notin Holders /\ r \in Holders' =>
       \/ answer[r] = "waiting" /\ r = Head(requestQue)
       \/ answer[r] # "waiting" /\ requestQue = <<>>]_vars

\* A waiting request is answered, when those that hold permits release them; a
\* stray release takes nobody's turn.  (After clean() the queue may stand still.)
WaiterAnswered ==
  \A r \in Requests : ~cleaning /\ answer[r] = "waiting" ~> answer[r] # "waiting"
=============================================================================
