----------------------------- MODULE LockPoolProofs -----------------------------
(***************************************************************************)
(* Proofs about LockPool for any number of clients, requests and permits,  *)
(* in the behaviours in which clean() is not called.                       *)
(* The inductive invariant has two parts.  QueueInv, without clean(): the  *)
(* queue holds the pending requests and is not empty only when every       *)
(* permit is taken.  Counted, without stray releases as well: the counts   *)
(* of the lock are the cardinalities of the sets of holders.               *)
(***************************************************************************)
EXTENDS LockPool, FiniteSetTheorems, TLAPS

\* The facts about queues are those of the other user of them; they are about
\* sequences, whatever stands for the state of a file.
Queue == INSTANCE FilePermissionResolverProofs WITH refusals <- strays, fpr <- poolLock

LEMMA RestIsTheSame ==
  /\ Queue!ResolverConstants
  /\ \A s, kept : Rest(s, kept) = Queue!Rest(s, kept)
<1>1. IsFiniteSet(Requests) => Queue!IsFiniteSet(Requests)
  BY DEF IsFiniteSet, Queue!IsFiniteSet
<1>2. Queue!ResolverConstants
  BY <1>1, PoolAssumption DEF PoolConstants, Queue!ResolverConstants
<1>3. \A s, kept : Rest(s, kept) = Queue!Rest(s, kept)
  BY DEF Rest, Queue!Rest
<1> QED
  BY <1>2, <1>3

\* The holders that a given assignment of answers says there are.
Holding(a) == {q \in Requests : a[q] \in {"handed", "granted"}}
HoldingOf(a, w) == {q \in Requests : a[q] \in {"handed", "granted"} /\ Client[q] = w}

\* The lock counts exactly the holders.
Counted(lock, a) ==
  /\ lock.length = Cardinality(Holding(a))
  /\ \A w \in Clients : lock.hash[w] = Cardinality(HoldingOf(a, w))

\* The queue holds the pending requests, each once.
Pending(queue, a) ==
  /\ \A q \in Requests : a[q] = "waiting" <=> q \in Range(queue)
  /\ \A i, j \in DOMAIN queue : queue[i] = queue[j] => i = j

\* The limit is kept, and reached when somebody waits.
Full(lock, queue) ==
  /\ MaxLockCount # 0 => lock.length <= MaxLockCount
  /\ queue # <<>> => MaxLockCount # 0 /\ lock.length = MaxLockCount

Typed ==
  /\ poolLock \in Lock!MultiLocks
  /\ requestQue \in Seq(Requests)
  /\ requests \subseteq Requests
  /\ answer \in [Requests -> Answers]

QueueInv ==
  /\ Typed
  /\ Pending(requestQue, answer)
  /\ Full(poolLock, requestQue)

LEMMA PoolFacts ==
  /\ IsFiniteSet(Requests) /\ Client \in [Requests -> Clients] /\ MaxLockCount \in Nat
BY PoolAssumption DEF PoolConstants

-----------------------------------------------------------------------------
LEMMA ConcatFacts ==
  ASSUME NEW S, NEW s \in Seq(S), NEW t \in Seq(S)
  PROVE  s \o t \in Seq(S) /\ Len(s \o t) = Len(s) + Len(t)
OBVIOUS

LEMMA WithoutFacts ==
  ASSUME NEW S, NEW s \in Seq(S), NEW i \in DOMAIN s
  PROVE  /\ Without(s, i) \in Seq(S)
         /\ DOMAIN s = 1..Len(s) /\ Len(s) \in Nat
         /\ DOMAIN Without(s, i) = 1..(Len(s) - 1)
         /\ \A j \in DOMAIN Without(s, i) :
              Without(s, i)[j] = IF j < i THEN s[j] ELSE s[j + 1]
<1>1. DOMAIN s = 1..Len(s) /\ Len(s) \in Nat /\ i \in 1..Len(s)
  OBVIOUS
<1> DEFINE front == SubSeq(s, 1, i - 1)
           back == SubSeq(s, i + 1, Len(s))
<1>2. /\ front \in Seq(S) /\ Len(front) = i - 1
      /\ \A j \in 1..(i - 1) : front[j] = s[j]
  BY <1>1
<1>3. /\ back \in Seq(S) /\ Len(back) = Len(s) - i
      /\ \A j \in 1..(Len(s) - i) : back[j] = s[i + j]
  BY <1>1
<1> HIDE DEF front, back
<1>4. Without(s, i) = front \o back
  BY DEF Without, front, back
<1>5. /\ front \o back \in Seq(S)
      /\ DOMAIN (front \o back) = 1..(Len(s) - 1)
  <2>1. front \in Seq(S) /\ back \in Seq(S)
    BY <1>2, <1>3
  <2>2. front \o back \in Seq(S) /\ Len(front \o back) = Len(front) + Len(back)
    BY <2>1, ConcatFacts
  <2>3. Len(front \o back) = Len(s) - 1
    BY <2>2, <1>1, <1>2, <1>3
  <2> QED
    BY <2>2, <2>3
<1>6. ASSUME NEW j \in 1..(Len(s) - 1)
      PROVE  (front \o back)[j] = IF j < i THEN s[j] ELSE s[j + 1]
  <2>1. CASE j < i
    BY <2>1, <1>1, <1>2, <1>3
  <2>2. CASE j >= i
    <3>1. (front \o back)[j] = back[j - (i - 1)]
      BY <2>2, <1>1, <1>2, <1>3
    <3>2. j - (i - 1) \in 1..(Len(s) - i) /\ i + (j - (i - 1)) = j + 1
      BY <2>2, <1>1
    <3>3. back[j - (i - 1)] = s[i + (j - (i - 1))]
      BY <3>2, <1>3
    <3> QED
      BY <2>2, <3>1, <3>2, <3>3, <1>1
  <2>3. j < i \/ j >= i
    BY <1>1
  <2> QED
    BY <2>1, <2>2, <2>3
<1> QED
  BY <1>1, <1>4, <1>5, <1>6

\* A queue of pending requests with one of them taken out at i.
LEMMA PendingWithout ==
  ASSUME NEW queue \in Seq(Requests), NEW a \in [Requests -> Answers],
         Pending(queue, a), NEW i \in DOMAIN queue,
         NEW how \in Answers \ {"waiting"}
  PROVE  Pending(Without(queue, i), [a EXCEPT ![queue[i]] = how])
<1> DEFINE rest == Without(queue, i)
           b == [a EXCEPT ![queue[i]] = how]
<1>1. /\ DOMAIN queue = 1..Len(queue) /\ Len(queue) \in Nat
      /\ DOMAIN rest = 1..(Len(queue) - 1)
      /\ \A j \in DOMAIN rest : rest[j] = IF j < i THEN queue[j] ELSE queue[j + 1]
  BY WithoutFacts
<1> HIDE DEF rest
<1>2. \A j, k \in DOMAIN rest : rest[j] = rest[k] => j = k
  BY <1>1 DEF Pending
<1>3. \A j \in DOMAIN rest : rest[j] # queue[i] /\ rest[j] \in Range(queue)
  BY <1>1 DEF Pending, Range
<1>4. \A j \in DOMAIN queue : j # i => queue[j] \in Range(rest)
  <2> SUFFICES ASSUME NEW j \in DOMAIN queue, j # i PROVE queue[j] \in Range(rest)
    OBVIOUS
  <2>1. CASE j < i
    BY <2>1, <1>1 DEF Range
  <2>2. CASE j > i
    <3>1. j - 1 \in DOMAIN rest /\ rest[j - 1] = queue[j]
      BY <2>2, <1>1
    <3> QED
      BY <3>1 DEF Range
  <2> QED
    BY <2>1, <2>2, <1>1
<1>5. ASSUME NEW q \in Requests PROVE b[q] = "waiting" <=> q \in Range(rest)
  <2>1. queue[i] \in Requests
    OBVIOUS
  <2>2. CASE q = queue[i]
    BY <2>1, <2>2, <1>3 DEF Range
  <2>3. CASE q # queue[i]
    <3>1. b[q] = a[q]
      BY <2>3
    <3>2. q \in Range(queue) <=> q \in Range(rest)
      BY <2>3, <1>3, <1>4 DEF Range
    <3> QED
      BY <3>1, <3>2 DEF Pending
  <2> QED
    BY <2>2, <2>3
<1> QED
  BY <1>2, <1>5 DEF Pending, rest

\* The same for the head of the queue.
LEMMA PendingTail ==
  ASSUME NEW queue \in Seq(Requests), queue # <<>>,
         NEW a \in [Requests -> Answers], Pending(queue, a),
         NEW how \in Answers \ {"waiting"}
  PROVE  Pending(Tail(queue), [a EXCEPT ![Head(queue)] = how])
<1>1. 1 \in DOMAIN queue /\ Head(queue) = queue[1]
  BY Queue!ShiftFacts
<1>2. Tail(queue) = Without(queue, 1)
  BY <1>1 DEF Without
<1> QED
  BY <1>1, <1>2, PendingWithout

\* A request that is not waiting gets another answer than "waiting".
LEMMA PendingSame ==
  ASSUME NEW queue \in Seq(Requests), NEW a \in [Requests -> Answers],
         Pending(queue, a), NEW r \in Requests, a[r] # "waiting",
         NEW how \in Answers \ {"waiting"}
  PROVE  Pending(queue, [a EXCEPT ![r] = how])
BY DEF Pending

\* A request joins the queue.
LEMMA PendingAppend ==
  ASSUME NEW queue \in Seq(Requests), NEW a \in [Requests -> Answers],
         Pending(queue, a), NEW r \in Requests, a[r] # "waiting"
  PROVE  Pending(Append(queue, r), [a EXCEPT ![r] = "waiting"])
<1>1. /\ DOMAIN queue = 1..Len(queue) /\ Len(queue) \in Nat
      /\ DOMAIN Append(queue, r) = 1..(Len(queue) + 1)
      /\ \A i \in DOMAIN queue : Append(queue, r)[i] = queue[i]
      /\ Append(queue, r)[Len(queue) + 1] = r
  BY Queue!PushFacts
<1>2. r \notin Range(queue)
  BY DEF Pending
<1>3. Range(Append(queue, r)) = Range(queue) \cup {r}
  BY <1>1 DEF Range
<1>4. \A i, j \in DOMAIN Append(queue, r) :
        Append(queue, r)[i] = Append(queue, r)[j] => i = j
  BY <1>1, <1>2 DEF Pending, Range
<1> QED
  BY <1>2, <1>3, <1>4 DEF Pending

-----------------------------------------------------------------------------
LEMMA HoldingFinite ==
  ASSUME NEW a, NEW w
  PROVE  /\ IsFiniteSet(Holding(a)) /\ IsFiniteSet(HoldingOf(a, w))
         /\ Cardinality(Holding(a)) \in Nat /\ Cardinality(HoldingOf(a, w)) \in Nat
<1>1. Holding(a) \subseteq Requests /\ HoldingOf(a, w) \subseteq Requests
  BY DEF Holding, HoldingOf
<1>2. IsFiniteSet(Holding(a)) /\ IsFiniteSet(HoldingOf(a, w))
  BY <1>1, FS_Subset, PoolFacts
<1> QED
  BY <1>2, FS_CardinalityType

\* Counting one more holder keeps the lock in step.
LEMMA CountedAcquired ==
  ASSUME NEW lock \in Lock!MultiLocks, NEW a \in [Requests -> Answers],
         Counted(lock, a), NEW r \in Requests, r \notin Holding(a),
         NEW how \in {"handed", "granted"}
  PROVE  Counted(Lock!Acquired(lock, Client[r]), [a EXCEPT ![r] = how])
<1> DEFINE b == [a EXCEPT ![r] = how]
           new == Lock!Acquired(lock, Client[r])
<1>1. Holding(b) = Holding(a) \cup {r}
  BY DEF Holding
<1>2. Cardinality(Holding(b)) = Cardinality(Holding(a)) + 1
  BY <1>1, HoldingFinite, FS_AddElement
<1>3. new.length = lock.length + 1
      /\ \A w \in Clients : new.hash[w] = IF w = Client[r] THEN lock.hash[w] + 1
                                                          ELSE lock.hash[w]
  BY PoolFacts DEF Lock!Acquired, Lock!MultiLocks
<1>4. ASSUME NEW w \in Clients PROVE new.hash[w] = Cardinality(HoldingOf(b, w))
  <2>1. CASE w = Client[r]
    <3>1. HoldingOf(b, w) = HoldingOf(a, w) \cup {r} /\ r \notin HoldingOf(a, w)
      BY <2>1 DEF HoldingOf, Holding
    <3>2. Cardinality(HoldingOf(b, w)) = Cardinality(HoldingOf(a, w)) + 1
      BY <3>1, HoldingFinite, FS_AddElement
    <3> QED
      BY <2>1, <3>2, <1>3 DEF Counted
  <2>2. CASE w # Client[r]
    <3>1. HoldingOf(b, w) = HoldingOf(a, w)
      BY <2>2 DEF HoldingOf
    <3> QED
      BY <2>2, <3>1, <1>3 DEF Counted
  <2> QED
    BY <2>1, <2>2
<1> QED
  BY <1>2, <1>3, <1>4 DEF Counted

\* And so does one holder less.
LEMMA CountedReleased ==
  ASSUME NEW lock \in Lock!MultiLocks, NEW a \in [Requests -> Answers],
         Counted(lock, a), NEW r \in Requests, r \in Holding(a),
         NEW how \in Answers \ {"handed", "granted"}
  PROVE  /\ Counted(Lock!Released(lock, Client[r]), [a EXCEPT ![r] = how])
         /\ lock.hash[Client[r]] > 0
<1> DEFINE b == [a EXCEPT ![r] = how]
           new == Lock!Released(lock, Client[r])
<1>1. Holding(b) = Holding(a) \ {r}
  BY DEF Holding
<1>2. Cardinality(Holding(b)) = Cardinality(Holding(a)) - 1
  BY <1>1, HoldingFinite, FS_RemoveElement
<1>3. new.length = lock.length - 1
      /\ \A w \in Clients : new.hash[w] = IF w = Client[r] THEN lock.hash[w] - 1
                                                          ELSE lock.hash[w]
  BY PoolFacts DEF Lock!Released, Lock!MultiLocks
<1>4. ASSUME NEW w \in Clients PROVE new.hash[w] = Cardinality(HoldingOf(b, w))
  <2>1. CASE w = Client[r]
    <3>1. HoldingOf(b, w) = HoldingOf(a, w) \ {r} /\ r \in HoldingOf(a, w)
      BY <2>1 DEF HoldingOf, Holding
    <3>2. Cardinality(HoldingOf(b, w)) = Cardinality(HoldingOf(a, w)) - 1
      BY <3>1, HoldingFinite, FS_RemoveElement
    <3> QED
      BY <2>1, <3>2, <1>3 DEF Counted
  <2>2. CASE w # Client[r]
    <3>1. HoldingOf(b, w) = HoldingOf(a, w)
      BY <2>2 DEF HoldingOf
    <3> QED
      BY <2>2, <3>1, <1>3 DEF Counted
  <2> QED
    BY <2>1, <2>2
<1>5. Client[r] \in Clients /\ r \in HoldingOf(a, Client[r])
  BY PoolFacts DEF HoldingOf, Holding
<1>6. Cardinality(HoldingOf(a, Client[r])) # 0
  BY <1>5, HoldingFinite, FS_EmptySet
<1>7. lock.hash[Client[r]] > 0
  BY <1>5, <1>6, HoldingFinite DEF Counted
<1> QED
  BY <1>2, <1>3, <1>4, <1>7 DEF Counted

\* Answers that agree on who holds a permit count the same.
LEMMA CountedSame ==
  ASSUME NEW lock, NEW a \in [Requests -> Answers], NEW b \in [Requests -> Answers],
         Counted(lock, a),
         \A q \in Requests : a[q] \in {"handed", "granted"} <=> b[q] \in {"handed", "granted"}
  PROVE  Counted(lock, b)
<1>1. Holding(a) = Holding(b) /\ \A w \in Clients : HoldingOf(a, w) = HoldingOf(b, w)
  BY DEF Holding, HoldingOf
<1> QED
  BY <1>1 DEF Counted

-----------------------------------------------------------------------------
\* acquireAction keeps the invariant, from any lock with at most one permit free
\* while somebody waits.
LEMMA AcquireActionKeeps ==
  ASSUME NEW r \in Requests, NEW lock \in Lock!MultiLocks,
         NEW queue \in Seq(Requests), NEW told \in [Requests -> Answers],
         NEW how \in {"handed", "granted"},
         Pending(queue, told), told[r] = "none" \/ told[r] = "denied",
         MaxLockCount # 0 => lock.length <= MaxLockCount,
         queue # <<>> => MaxLockCount # 0 /\ lock.length >= MaxLockCount - 1,
         requests' \subseteq Requests,
         AcquireAction(r, lock, queue, told, how)
  PROVE  QueueInv' /\ (Counted(lock, told) => Counted(poolLock', answer'))
<1>1. r \notin Holding(told) /\ told[r] # "waiting"
  BY DEF Holding
<1>2. lock.length \in Int /\ MaxLockCount \in Nat /\ Client[r] \in Clients
  BY PoolFacts DEF Lock!MultiLocks
<1>3. CASE Lock!CanAcquire(lock, MaxLockCount)
  <2>1. /\ poolLock' = Lock!Acquired(lock, Client[r])
        /\ requestQue' = queue
        /\ answer' = [told EXCEPT ![r] = how]
    BY <1>3 DEF AcquireAction
  <2>2. poolLock' \in Lock!MultiLocks /\ poolLock'.length = lock.length + 1
    BY <2>1, <1>2 DEF Lock!MultiLocks, Lock!Acquired
  <2>3. answer' \in [Requests -> Answers]
    BY <2>1 DEF Answers
  <2>4. Counted(lock, told) => Counted(poolLock', answer')
    BY <2>1, <1>1, CountedAcquired
  <2>5. Pending(requestQue', answer')
    <3>1. how \in Answers \ {"waiting"}
      BY DEF Answers
    <3> QED
      BY <2>1, <1>1, <3>1, PendingSame
  <2>6. MaxLockCount = 0 \/ lock.length < MaxLockCount
    BY <1>3 DEF Lock!CanAcquire
  <2>7. Full(poolLock', requestQue')
    BY <2>1, <2>2, <2>6, <1>2 DEF Full
  <2> QED
    BY <2>1, <2>2, <2>3, <2>4, <2>5, <2>7 DEF QueueInv, Typed
<1>4. CASE ~Lock!CanAcquire(lock, MaxLockCount)
  <2>1. /\ poolLock' = lock
        /\ requestQue' = Append(queue, r)
        /\ answer' = [told EXCEPT ![r] = "waiting"]
    BY <1>4 DEF AcquireAction
  <2>2. requestQue' \in Seq(Requests) /\ requestQue' # <<>>
    BY <2>1, Queue!PushFacts
  <2>3. answer' \in [Requests -> Answers]
    BY <2>1 DEF Answers
  <2>4. Counted(lock, told) => Counted(poolLock', answer')
    BY <2>1, <2>3, <1>1, CountedSame DEF Holding
  <2>5. Pending(requestQue', answer')
    BY <2>1, <1>1, PendingAppend
  <2>6. MaxLockCount # 0 /\ lock.length >= MaxLockCount
    BY <1>4, <1>2 DEF Lock!CanAcquire
  <2>7. Full(poolLock', requestQue')
    BY <2>1, <2>6, <1>2 DEF Full
  <2> QED
    BY <2>1, <2>2, <2>3, <2>4, <2>5, <2>7 DEF QueueInv, Typed
<1> QED
  BY <1>3, <1>4

LEMMA PoolInit == Init => QueueInv /\ Counted(poolLock, answer)
<1> SUFFICES ASSUME Init PROVE QueueInv /\ Counted(poolLock, answer)
  OBVIOUS
<1>1. Typed
  BY DEF Init, Typed, Answers, Lock!NoLocks, Lock!MultiLocks
<1>2. Holding(answer) = {} /\ \A w \in Clients : HoldingOf(answer, w) = {}
  BY DEF Init, Holding, HoldingOf
<1>3. Counted(poolLock, answer)
  BY <1>2, FS_EmptySet DEF Init, Counted, Lock!NoLocks
<1>4. Pending(requestQue, answer) /\ Full(poolLock, requestQue)
  BY PoolFacts DEF Init, Pending, Full, Range, Lock!NoLocks
<1> QED
  BY <1>1, <1>3, <1>4 DEF QueueInv

LEMMA AcquireKeeps ==
  ASSUME QueueInv, NEW r \in Requests, Acquire(r)
  PROVE  QueueInv' /\ (Counted(poolLock, answer) => Counted(poolLock', answer'))
<1>1. /\ poolLock \in Lock!MultiLocks /\ requestQue \in Seq(Requests)
      /\ answer \in [Requests -> Answers] /\ requests' \subseteq Requests
  BY DEF QueueInv, Typed, Acquire
<1>2. /\ Pending(requestQue, answer)
      /\ answer[r] = "none" \/ answer[r] = "denied"
      /\ AcquireAction(r, poolLock, requestQue, answer, "granted")
  BY DEF QueueInv, Acquire
<1>3. /\ MaxLockCount # 0 => poolLock.length <= MaxLockCount
      /\ requestQue # <<>> => MaxLockCount # 0 /\ poolLock.length >= MaxLockCount - 1
  BY <1>1, PoolFacts DEF QueueInv, Full, Lock!MultiLocks
<1> QED
  BY <1>1, <1>2, <1>3, AcquireActionKeeps

LEMMA WithdrawKeeps ==
  ASSUME QueueInv, NEW r \in Requests, Withdraw(r)
  PROVE  QueueInv' /\ (Counted(poolLock, answer) => Counted(poolLock', answer'))
<1>1. PICK i \in DOMAIN requestQue :
        requestQue[i] = r /\ requestQue' = Without(requestQue, i)
  BY DEF Withdraw
<1>2. /\ requestQue \in Seq(Requests) /\ answer \in [Requests -> Answers]
      /\ Pending(requestQue, answer)
  BY DEF QueueInv, Typed
<1>3. answer' = [answer EXCEPT ![r] = "denied"] /\ UNCHANGED <<poolLock, requests>>
  BY DEF Withdraw
<1>4. "denied" \in Answers \ {"waiting"}
  BY DEF Answers
<1>5. Pending(requestQue', answer')
  BY <1>1, <1>2, <1>3, <1>4, PendingWithout
<1>6. requestQue' \in Seq(Requests) /\ answer' \in [Requests -> Answers]
  BY <1>1, <1>2, <1>3, <1>4, WithoutFacts
<1>7. answer[r] = "waiting"
  BY <1>1, <1>2 DEF Pending, Range
<1>8. Counted(poolLock, answer) => Counted(poolLock', answer')
  <2>1. \A q \in Requests : answer[q] \in {"handed", "granted"}
                          <=> answer'[q] \in {"handed", "granted"}
    BY <1>2, <1>3, <1>7
  <2> QED
    BY <2>1, <1>2, <1>3, <1>6, CountedSame
<1>9. Full(poolLock', requestQue')
  <2>1. requestQue # <<>>
    BY <1>1, <1>2
  <2> QED
    BY <2>1, <1>3 DEF QueueInv, Full
<1> QED
  BY <1>3, <1>5, <1>6, <1>8, <1>9 DEF QueueInv, Typed

LEMMA GiveBackKeeps ==
  ASSUME QueueInv, NEW r \in Requests, GiveBack(r)
  PROVE  /\ QueueInv'
         /\ Counted(poolLock, answer) /\ answer[r] \in {"waiting", "handed", "granted"}
            => Counted(poolLock', answer')
<1> DEFINE freed == Lock!Released(poolLock, Client[r])
           told == [answer EXCEPT ![r] = "none"]
<1>1. /\ poolLock \in Lock!MultiLocks /\ requestQue \in Seq(Requests)
      /\ answer \in [Requests -> Answers] /\ requests' \subseteq Requests
  BY DEF QueueInv, Typed, GiveBack
<1>2. Pending(requestQue, answer) /\ Full(poolLock, requestQue)
  BY DEF QueueInv
<1>3. /\ answer[r] # "waiting"
      /\ answer[r] \in {"waiting", "handed", "granted"} => r \in Holding(answer)
  BY <1>2 DEF GiveBack, Waiting, Pending, Holding
<1>4. /\ "none" \in Answers \ {"handed", "granted"} /\ "none" \in Answers \ {"waiting"}
      /\ "none" \in Answers
  BY DEF Answers
<1>5. /\ Counted(poolLock, answer) /\ answer[r] \in {"waiting", "handed", "granted"}
           => Counted(freed, told)
      /\ poolLock.hash[Client[r]] > 0
  <2>1. poolLock.hash[Client[r]] > 0
    BY DEF GiveBack, Lock!CanRelease
  <2> QED
    BY <2>1, <1>1, <1>3, <1>4, CountedReleased
<1>6. Pending(requestQue, told)
  BY <1>1, <1>2, <1>3, <1>4, PendingSame
<1>7. told \in [Requests -> Answers]
  BY <1>1, <1>4
<1>8. freed \in Lock!MultiLocks /\ freed.length = poolLock.length - 1
  BY <1>1, <1>5, PoolFacts DEF Lock!MultiLocks, Lock!Released
<1>9. /\ MaxLockCount # 0 => freed.length <= MaxLockCount
      /\ requestQue # <<>> => MaxLockCount # 0 /\ freed.length = MaxLockCount - 1
  BY <1>1, <1>2, <1>8, PoolFacts DEF Full, Lock!MultiLocks
<1>10. CASE requestQue = <<>>
  <2>1. poolLock' = freed /\ answer' = told /\ requestQue' = requestQue
    BY <1>10 DEF GiveBack
  <2>2. Full(poolLock', requestQue')
    BY <2>1, <1>9, <1>10 DEF Full
  <2> QED
    BY <2>1, <2>2, <1>1, <1>5, <1>6, <1>7, <1>8 DEF QueueInv, Typed
<1>11. CASE requestQue # <<>>
  <2> DEFINE h == Head(requestQue)
             told2 == [told EXCEPT ![h] = "none"]
  <2>1. AcquireAction(h, freed, Tail(requestQue), told, "handed")
    BY <1>11 DEF GiveBack
  <2>2. h \in Requests /\ Tail(requestQue) \in Seq(Requests) /\ h \in Range(requestQue)
    BY <1>1, <1>11, Queue!ShiftFacts DEF Range
  <2>3. told[h] = "waiting"
    BY <2>2, <1>6 DEF Pending
  <2>4. Pending(Tail(requestQue), told2)
    BY <1>1, <1>4, <1>6, <1>7, <1>11, PendingTail
  <2>5. told2 \in [Requests -> Answers] /\ told2[h] = "none"
    BY <1>4, <1>7, <2>2
  <2>6. Counted(freed, told) => Counted(freed, told2)
    <3>1. \A q \in Requests : told[q] \in {"handed", "granted"}
                            <=> told2[q] \in {"handed", "granted"}
      BY <2>3, <1>7
    <3> QED
      BY <3>1, <1>7, <2>5, CountedSame
  <2>7. AcquireAction(h, freed, Tail(requestQue), told2, "handed")
    <3>1. \A how \in Answers : [told EXCEPT ![h] = how] = [told2 EXCEPT ![h] = how]
      BY <1>7, <2>2
    <3>2. "handed" \in Answers /\ "waiting" \in Answers
      BY DEF Answers
    <3> QED
      BY <2>1, <3>1, <3>2 DEF AcquireAction
  <2>8. Tail(requestQue) # <<>> => MaxLockCount # 0 /\ freed.length >= MaxLockCount - 1
    BY <1>8, <1>9, <1>11, PoolFacts DEF Lock!MultiLocks
  <2> HIDE DEF h, told2, freed, told
  <2>9. QueueInv' /\ (Counted(freed, told2) => Counted(poolLock', answer'))
    BY <2>2, <2>4, <2>5, <2>7, <2>8, <1>1, <1>8, <1>9, AcquireActionKeeps
  <2> QED
    BY <2>6, <2>9, <1>5
<1> QED
  BY <1>10, <1>11

LEMMA NotifyKeeps ==
  ASSUME QueueInv, NEW r \in Requests, Notify(r)
  PROVE  QueueInv' /\ (Counted(poolLock, answer) => Counted(poolLock', answer'))
<1>1. /\ requestQue \in Seq(Requests) /\ answer \in [Requests -> Answers]
      /\ Pending(requestQue, answer)
  BY DEF QueueInv, Typed
<1>2. /\ answer[r] = "handed" /\ answer' = [answer EXCEPT ![r] = "granted"]
      /\ poolLock' = poolLock /\ requestQue' = requestQue /\ requests' = requests
  BY DEF Notify
<1>3. "granted" \in Answers \ {"waiting"}
  BY DEF Answers
<1>4. answer' \in [Requests -> Answers]
  BY <1>1, <1>2, <1>3
<1>5. Pending(requestQue', answer')
  BY <1>1, <1>2, <1>3, PendingSame
<1>6. Counted(poolLock, answer) => Counted(poolLock', answer')
  <2>1. \A q \in Requests : answer[q] \in {"handed", "granted"}
                          <=> answer'[q] \in {"handed", "granted"}
    BY <1>1, <1>2
  <2>2. Counted(poolLock, answer) => Counted(poolLock, answer')
    BY <2>1, <1>1, <1>4, CountedSame
  <2> QED
    BY <2>2, <1>2
<1>7. QueueInv'
  BY <1>2, <1>4, <1>5 DEF QueueInv, Typed, Full
<1> QED
  BY <1>6, <1>7

\* A refused release changes nothing that counts, and a holder's release is not
\* refused: the lock knows its worker.
LEMMA GiveBackRefusedKeeps ==
  ASSUME QueueInv, NEW r \in Requests, GiveBackRefused(r)
  PROVE  /\ QueueInv'
         /\ ~(Counted(poolLock, answer) /\ answer[r] \in {"waiting", "handed", "granted"})
<1>1. /\ poolLock \in Lock!MultiLocks /\ answer \in [Requests -> Answers]
      /\ requestQue \in Seq(Requests) /\ Pending(requestQue, answer)
  BY DEF QueueInv, Typed
<1>2. "none" \in Answers \ {"handed", "granted"} /\ "none" \in Answers \ {"waiting"}
  BY DEF Answers
<1>3. answer[r] # "waiting" /\ answer' = [answer EXCEPT ![r] = "none"]
  BY <1>1 DEF GiveBackRefused, Waiting, Pending
<1>4. Pending(requestQue', answer')
  <2>1. Pending(requestQue, [answer EXCEPT ![r] = "none"])
    BY <1>1, <1>2, <1>3, PendingSame
  <2> QED
    BY <2>1, <1>3 DEF GiveBackRefused
<1>5. QueueInv'
  BY <1>2, <1>3, <1>4 DEF GiveBackRefused, QueueInv, Typed, Full
<1>6. ASSUME Counted(poolLock, answer), answer[r] \in {"waiting", "handed", "granted"}
      PROVE  FALSE
  <2>1. r \in Holding(answer)
    BY <1>3, <1>6 DEF Holding
  <2>2. poolLock.hash[Client[r]] > 0
    BY <2>1, <1>1, <1>2, <1>6, CountedReleased
  <2> QED
    BY <2>2 DEF GiveBackRefused, Lock!CanRelease
<1> QED
  BY <1>5, <1>6

LEMMA PoolNext ==
  ASSUME ~cleaning, QueueInv, [Next]_vars
  PROVE  QueueInv' /\ (~strays /\ Counted(poolLock, answer) => Counted(poolLock', answer'))
<1>1. CASE UNCHANGED vars
  BY <1>1 DEF vars, QueueInv, Typed, Full
<1>2. CASE \E r \in Requests : Acquire(r)
  BY <1>2, AcquireKeeps
<1>3. ASSUME NEW r \in Requests, Release(r)
      PROVE  QueueInv' /\ (~strays /\ Counted(poolLock, answer) => Counted(poolLock', answer'))
  <2>1. ~strays => answer[r] \in {"waiting", "handed", "granted"}
    BY <1>3 DEF Release
  <2>2. CASE Withdraw(r)
    BY <2>2, WithdrawKeeps
  <2>3. CASE GiveBack(r)
    BY <2>1, <2>3, GiveBackKeeps
  <2>4. CASE GiveBackRefused(r)
    BY <2>1, <2>4, GiveBackRefusedKeeps
  <2> QED
    BY <1>3, <2>2, <2>3, <2>4 DEF Release
<1>4. CASE \E r \in Requests : Notify(r)
  BY <1>4, NotifyKeeps
<1>5. CASE \E r \in Requests : AcquireRejected(r)
  BY <1>5, <1>1 DEF AcquireRejected
<1> QED
  BY <1>1, <1>2, <1>3, <1>4, <1>5 DEF Next, Clean, CleanAll

\* How the pool is used never changes.
LEMMA UsageFixed == [Next]_vars => strays' = strays /\ cleaning' = cleaning
BY DEF Next, Acquire, AcquireRejected, Release, Withdraw, GiveBack, GiveBackRefused,
       Notify, Clean, CleanAll, vars, usage

PoolInv ==
  /\ ~cleaning => QueueInv
  /\ ~cleaning /\ ~strays => Counted(poolLock, answer)

LEMMA PoolInvariant == Spec => []PoolInv
<1>1. Init => PoolInv
  BY PoolInit DEF PoolInv
<1>2. PoolInv /\ [Next]_vars => PoolInv'
  BY PoolNext, UsageFixed DEF PoolInv
<1> QED
  BY <1>1, <1>2, PTL DEF Spec

\* The pool counts exactly the requests that hold a permit (MultiLock counts per
\* worker while release() moves permits between workers).
THEOREM PermitsAreAccounted == Spec => []PermitsAccounted
<1>1. PoolInv => PermitsAccounted
  BY DEF PoolInv, Counted, Holding, HoldingOf, PermitsAccounted, Holders, HoldersOf
<1> QED
  BY <1>1, PoolInvariant, PTL

\* Nobody waits beside a free permit: release() hands every permit it frees to
\* the head of the queue, also when it was called for somebody else's permit.
THEOREM NoPermitIdles == Spec => []NoIdlePermit
<1>1. PoolInv => NoIdlePermit
  BY DEF PoolInv, QueueInv, Full, NoIdlePermit
<1> QED
  BY <1>1, PoolInvariant, PTL

\* A step that gives a permit to q gives it to the head of the queue, or to a
\* newcomer that finds the queue empty.
LEMMA ServedInOrder ==
  ASSUME ~cleaning, QueueInv, [Next]_vars,
         NEW q \in Requests, q \notin Holders, q \in Holders'
  PROVE  \/ answer[q] = "waiting" /\ q = Head(requestQue)
         \/ answer[q] # "waiting" /\ requestQue = <<>>
<1>1. /\ poolLock \in Lock!MultiLocks /\ requestQue \in Seq(Requests)
      /\ answer \in [Requests -> Answers]
      /\ Pending(requestQue, answer) /\ Full(poolLock, requestQue)
  BY DEF QueueInv, Typed
<1>2. answer[q] \notin {"handed", "granted"} /\ answer'[q] \in {"handed", "granted"}
  BY DEF Holders
<1>3. ASSUME NEW r \in Requests, Acquire(r)
      PROVE  \/ answer[q] = "waiting" /\ q = Head(requestQue)
             \/ answer[q] # "waiting" /\ requestQue = <<>>
  <2>1. AcquireAction(r, poolLock, requestQue, answer, "granted")
        /\ answer[r] # "waiting"
    BY <1>3 DEF Acquire
  <2>2. q = r /\ Lock!CanAcquire(poolLock, MaxLockCount)
    BY <2>1, <1>1, <1>2 DEF AcquireAction
  <2>3. requestQue = <<>>
    BY <2>2, <1>1, PoolFacts DEF Full, Lock!CanAcquire, Lock!MultiLocks
  <2> QED
    BY <2>1, <2>2, <2>3
<1>4. ASSUME NEW r \in Requests, Withdraw(r) PROVE FALSE
  BY <1>4, <1>1, <1>2 DEF Withdraw
<1>5. ASSUME NEW r \in Requests, GiveBack(r)
      PROVE  answer[q] = "waiting" /\ q = Head(requestQue)
  <2> DEFINE freed == Lock!Released(poolLock, Client[r])
             told == [answer EXCEPT ![r] = "none"]
  <2>1. told[q] \notin {"handed", "granted"}
    BY <1>1, <1>2
  <2>2. requestQue # <<>>
    BY <1>5, <1>2, <2>1 DEF GiveBack
  <2>3. AcquireAction(Head(requestQue), freed, Tail(requestQue), told, "handed")
    BY <1>5, <2>2 DEF GiveBack
  <2>4. q = Head(requestQue)
    BY <1>1, <1>2, <2>1, <2>3 DEF AcquireAction
  <2>5. q \in Range(requestQue)
    BY <1>1, <2>2, <2>4, Queue!ShiftFacts DEF Range
  <2> QED
    BY <1>1, <2>4, <2>5 DEF Pending
<1>6. ASSUME NEW r \in Requests, GiveBackRefused(r) PROVE FALSE
  BY <1>6, <1>1, <1>2 DEF GiveBackRefused
<1>7. ASSUME NEW r \in Requests, Notify(r) PROVE FALSE
  BY <1>7, <1>1, <1>2 DEF Notify
<1>8. ~UNCHANGED vars
  BY <1>2 DEF vars
<1> QED
  BY <1>3, <1>4, <1>5, <1>6, <1>7, <1>8
  DEF Next, Release, AcquireRejected, Clean, CleanAll

\* Permits are given in the order of the requests.
THEOREM ServedFirstComeFirst == Spec => FirstComeFirstServed
<1>1. PoolInv /\ [Next]_vars =>
        [~cleaning => \A r \in Requests : r \notin Holders /\ r \in Holders' =>
           \/ answer[r] = "waiting" /\ r = Head(requestQue)
           \/ answer[r] # "waiting" /\ requestQue = <<>>]_vars
  BY ServedInOrder DEF PoolInv
<1> QED
  BY <1>1, PoolInvariant, PTL DEF Spec, FirstComeFirstServed
-----------------------------------------------------------------------------
(* Stray releases and clean() included: no more permits are counted than    *)
(* are held.  Of the queue only Pending is left: clean() may leave somebody *)
(* waiting beside a free permit.                                            *)

\* No worker has more permits counted than its requests hold.
Backed(lock, a) ==
  \A w \in Clients : lock.hash[w] <= Cardinality(HoldingOf(a, w))

WithinLimit(lock) == MaxLockCount # 0 => lock.length <= MaxLockCount

BackedInv ==
  /\ Typed
  /\ Pending(requestQue, answer)
  /\ WithinLimit(poolLock)
  /\ Backed(poolLock, answer)

LEMMA BackedAcquired ==
  ASSUME NEW lock \in Lock!MultiLocks, NEW a \in [Requests -> Answers],
         Backed(lock, a), NEW r \in Requests, r \notin Holding(a),
         NEW how \in {"handed", "granted"}
  PROVE  Backed(Lock!Acquired(lock, Client[r]), [a EXCEPT ![r] = how])
<1> DEFINE b == [a EXCEPT ![r] = how]
           new == Lock!Acquired(lock, Client[r])
<1>1. \A w \in Clients : new.hash[w] = IF w = Client[r] THEN lock.hash[w] + 1
                                                       ELSE lock.hash[w]
  BY PoolFacts DEF Lock!Acquired, Lock!MultiLocks
<1>2. ASSUME NEW w \in Clients PROVE new.hash[w] <= Cardinality(HoldingOf(b, w))
  <2>1. lock.hash[w] <= Cardinality(HoldingOf(a, w)) /\ lock.hash[w] \in Nat
    BY DEF Backed, Lock!MultiLocks
  <2>2. CASE w = Client[r]
    <3>1. HoldingOf(b, w) = HoldingOf(a, w) \cup {r} /\ r \notin HoldingOf(a, w)
      BY <2>2 DEF HoldingOf, Holding
    <3>2. Cardinality(HoldingOf(b, w)) = Cardinality(HoldingOf(a, w)) + 1
      BY <3>1, HoldingFinite, FS_AddElement
    <3> QED
      BY <1>1, <2>1, <2>2, <3>2, HoldingFinite
  <2>3. CASE w # Client[r]
    <3>1. HoldingOf(b, w) = HoldingOf(a, w)
      BY <2>3 DEF HoldingOf
    <3> QED
      BY <1>1, <2>1, <2>3, <3>1
  <2> QED
    BY <2>2, <2>3
<1> QED
  BY <1>2 DEF Backed

\* A request lets go: of a permit counted for its worker, or of none.
LEMMA BackedReleased ==
  ASSUME NEW lock \in Lock!MultiLocks, NEW a \in [Requests -> Answers],
         Backed(lock, a), NEW r \in Requests, NEW how \in Answers \ {"handed", "granted"}
  PROVE  /\ lock.hash[Client[r]] > 0 =>
              Backed(Lock!Released(lock, Client[r]), [a EXCEPT ![r] = how])
         /\ lock.hash[Client[r]] = 0 \/ r \notin Holding(a) =>
              Backed(lock, [a EXCEPT ![r] = how])
<1> DEFINE b == [a EXCEPT ![r] = how]
           new == Lock!Released(lock, Client[r])
<1>1. \A w \in Clients : new.hash[w] = IF w = Client[r] THEN lock.hash[w] - 1
                                                       ELSE lock.hash[w]
  BY PoolFacts DEF Lock!Released, Lock!MultiLocks
<1>2. \A w \in Clients : /\ lock.hash[w] <= Cardinality(HoldingOf(a, w))
                         /\ lock.hash[w] \in Nat
                         /\ Cardinality(HoldingOf(a, w)) \in Nat
                         /\ Cardinality(HoldingOf(b, w)) \in Nat
  BY HoldingFinite DEF Backed, Lock!MultiLocks
<1>3. ASSUME NEW w \in Clients
      PROVE  /\ w # Client[r] => Cardinality(HoldingOf(b, w)) = Cardinality(HoldingOf(a, w))
             /\ Cardinality(HoldingOf(b, w)) >= Cardinality(HoldingOf(a, w)) - 1
             /\ r \notin Holding(a) =>
                  Cardinality(HoldingOf(b, w)) = Cardinality(HoldingOf(a, w))
  <2>1. CASE r \in HoldingOf(a, w)
    <3>1. HoldingOf(b, w) = HoldingOf(a, w) \ {r} /\ w = Client[r] /\ r \in Holding(a)
      BY <2>1 DEF HoldingOf, Holding
    <3>2. Cardinality(HoldingOf(b, w)) = Cardinality(HoldingOf(a, w)) - 1
      <4> HIDE DEF b
      <4> QED
        BY <2>1, <3>1, HoldingFinite, FS_RemoveElement
    <3> QED
      BY <3>1, <3>2, HoldingFinite
  <2>2. CASE r \notin HoldingOf(a, w)
    <3>1. HoldingOf(b, w) = HoldingOf(a, w)
      BY <2>2 DEF HoldingOf
    <3> QED
      BY <3>1, HoldingFinite
  <2> QED
    BY <2>1, <2>2
<1> HIDE DEF b, new
<1>4. lock.hash[Client[r]] > 0 => Backed(new, b)
  BY <1>1, <1>2, <1>3 DEF Backed
<1>5. ASSUME lock.hash[Client[r]] = 0 \/ r \notin Holding(a) PROVE Backed(lock, b)
  <2> SUFFICES ASSUME NEW w \in Clients PROVE lock.hash[w] <= Cardinality(HoldingOf(b, w))
    BY DEF Backed
  <2>1. CASE w # Client[r] \/ r \notin Holding(a)
    BY <1>2, <1>3, <2>1
  <2>2. CASE w = Client[r] /\ lock.hash[w] = 0
    BY <1>2, <2>2
  <2> QED
    BY <1>5, <2>1, <2>2
<1> QED
  BY <1>4, <1>5 DEF b, new

LEMMA BackedSame ==
  ASSUME NEW lock, NEW a \in [Requests -> Answers], NEW b \in [Requests -> Answers],
         Backed(lock, a),
         \A q \in Requests : a[q] \in {"handed", "granted"} <=> b[q] \in {"handed", "granted"}
  PROVE  Backed(lock, b)
<1>1. \A w \in Clients : HoldingOf(a, w) = HoldingOf(b, w)
  BY DEF HoldingOf
<1> QED
  BY <1>1 DEF Backed

LEMMA AcquireActionBacked ==
  ASSUME NEW r \in Requests, NEW lock \in Lock!MultiLocks,
         NEW queue \in Seq(Requests), NEW told \in [Requests -> Answers],
         NEW how \in {"handed", "granted"},
         Pending(queue, told), told[r] = "none" \/ told[r] = "denied",
         WithinLimit(lock), Backed(lock, told),
         requests' \subseteq Requests,
         AcquireAction(r, lock, queue, told, how)
  PROVE  BackedInv'
<1>1. r \notin Holding(told) /\ told[r] # "waiting"
  BY DEF Holding
<1>2. lock.length \in Int /\ MaxLockCount \in Nat /\ Client[r] \in Clients
  BY PoolFacts DEF Lock!MultiLocks
<1>3. CASE Lock!CanAcquire(lock, MaxLockCount)
  <2>1. /\ poolLock' = Lock!Acquired(lock, Client[r])
        /\ requestQue' = queue
        /\ answer' = [told EXCEPT ![r] = how]
    BY <1>3 DEF AcquireAction
  <2>2. poolLock' \in Lock!MultiLocks /\ poolLock'.length = lock.length + 1
    BY <2>1, <1>2 DEF Lock!MultiLocks, Lock!Acquired
  <2>3. answer' \in [Requests -> Answers]
    BY <2>1 DEF Answers
  <2>4. Backed(poolLock', answer')
    BY <2>1, <1>1, BackedAcquired
  <2>5. Pending(requestQue', answer')
    <3>1. how \in Answers \ {"waiting"}
      BY DEF Answers
    <3> QED
      BY <2>1, <1>1, <3>1, PendingSame
  <2>6. WithinLimit(poolLock')
    <3>1. MaxLockCount = 0 \/ lock.length < MaxLockCount
      BY <1>3 DEF Lock!CanAcquire
    <3> QED
      BY <2>2, <3>1, <1>2 DEF WithinLimit
  <2> QED
    BY <2>1, <2>2, <2>3, <2>4, <2>5, <2>6 DEF BackedInv, Typed
<1>4. CASE ~Lock!CanAcquire(lock, MaxLockCount)
  <2>1. /\ poolLock' = lock
        /\ requestQue' = Append(queue, r)
        /\ answer' = [told EXCEPT ![r] = "waiting"]
    BY <1>4 DEF AcquireAction
  <2>2. requestQue' \in Seq(Requests)
    BY <2>1, Queue!PushFacts
  <2>3. answer' \in [Requests -> Answers]
    BY <2>1 DEF Answers
  <2>4. Backed(poolLock', answer')
    BY <2>1, <2>3, <1>1, BackedSame DEF Holding
  <2>5. Pending(requestQue', answer')
    BY <2>1, <1>1, PendingAppend
  <2> QED
    BY <2>1, <2>2, <2>3, <2>4, <2>5 DEF BackedInv, Typed, WithinLimit
<1> QED
  BY <1>3, <1>4

LEMMA BackedInit == Init => BackedInv
<1> SUFFICES ASSUME Init PROVE BackedInv
  OBVIOUS
<1>1. QueueInv /\ Counted(poolLock, answer)
  BY PoolInit
<1>2. poolLock \in Lock!MultiLocks
  BY <1>1 DEF QueueInv, Typed
<1>3. Backed(poolLock, answer)
  <2> SUFFICES ASSUME NEW w \in Clients
               PROVE  poolLock.hash[w] <= Cardinality(HoldingOf(answer, w))
    BY DEF Backed
  <2>1. poolLock.hash[w] = Cardinality(HoldingOf(answer, w))
    BY <1>1 DEF Counted
  <2> QED
    BY <2>1, HoldingFinite
<1> QED
  BY <1>1, <1>3 DEF BackedInv, QueueInv, Full, WithinLimit

\* release() hands over or gives back, whoever asked for it.
LEMMA GiveBackBacked ==
  ASSUME BackedInv, NEW r \in Requests, GiveBack(r)
  PROVE  BackedInv'
<1> DEFINE freed == Lock!Released(poolLock, Client[r])
           told == [answer EXCEPT ![r] = "none"]
<1>1. /\ poolLock \in Lock!MultiLocks /\ requestQue \in Seq(Requests)
      /\ answer \in [Requests -> Answers] /\ requests' \subseteq Requests
      /\ Pending(requestQue, answer) /\ WithinLimit(poolLock)
      /\ Backed(poolLock, answer)
  BY DEF BackedInv, Typed, GiveBack
<1>2. answer[r] # "waiting" /\ poolLock.hash[Client[r]] > 0
  BY <1>1 DEF GiveBack, Waiting, Pending, Lock!CanRelease
<1>3. "none" \in Answers \ {"handed", "granted"} /\ "none" \in Answers \ {"waiting"}
  BY DEF Answers
<1>4. told \in [Requests -> Answers]
  BY <1>1, <1>3
<1>5. Backed(freed, told)
  BY <1>1, <1>2, <1>3, BackedReleased
<1>6. Pending(requestQue, told)
  BY <1>1, <1>2, <1>3, PendingSame
<1>7. freed \in Lock!MultiLocks /\ freed.length = poolLock.length - 1
  BY <1>1, <1>2, PoolFacts DEF Lock!MultiLocks, Lock!Released
<1>8. WithinLimit(freed)
  BY <1>1, <1>7, PoolFacts DEF WithinLimit, Lock!MultiLocks
<1>9. CASE requestQue = <<>>
  <2>1. poolLock' = freed /\ answer' = told /\ requestQue' = requestQue
    BY <1>9 DEF GiveBack
  <2> QED
    BY <2>1, <1>1, <1>4, <1>5, <1>6, <1>7, <1>8 DEF BackedInv, Typed
<1>10. CASE requestQue # <<>>
  <2> DEFINE h == Head(requestQue)
             told2 == [told EXCEPT ![h] = "none"]
  <2>1. AcquireAction(h, freed, Tail(requestQue), told, "handed")
    BY <1>10 DEF GiveBack
  <2>2. h \in Requests /\ Tail(requestQue) \in Seq(Requests) /\ h \in Range(requestQue)
    BY <1>1, <1>10, Queue!ShiftFacts DEF Range
  <2>3. told[h] = "waiting"
    BY <2>2, <1>6 DEF Pending
  <2>4. Pending(Tail(requestQue), told2)
    BY <1>1, <1>3, <1>4, <1>6, <1>10, PendingTail
  <2>5. told2 \in [Requests -> Answers] /\ told2[h] = "none"
    BY <1>3, <1>4, <2>2
  <2>6. Backed(freed, told2)
    <3>1. \A q \in Requests : told[q] \in {"handed", "granted"}
                            <=> told2[q] \in {"handed", "granted"}
      BY <2>3, <1>4
    <3> QED
      BY <3>1, <1>4, <1>5, <2>5, BackedSame
  <2>7. AcquireAction(h, freed, Tail(requestQue), told2, "handed")
    <3>1. \A how \in Answers : [told EXCEPT ![h] = how] = [told2 EXCEPT ![h] = how]
      BY <1>4, <2>2
    <3>2. "handed" \in Answers /\ "waiting" \in Answers
      BY DEF Answers
    <3> QED
      BY <2>1, <3>1, <3>2 DEF AcquireAction
  <2> HIDE DEF h, told2, freed, told
  <2> QED
    BY <2>2, <2>4, <2>5, <2>6, <2>7, <1>1, <1>7, <1>8, AcquireActionBacked
<1> QED
  BY <1>9, <1>10

\* clean(worker): the waiting requests of others stay as they are.
LEMMA CleanBacked ==
  ASSUME BackedInv, NEW w \in Clients, Clean(w)
  PROVE  BackedInv'
<1> DEFINE kept == {q \in Requests : Client[q] # w}
<1>1. /\ poolLock \in Lock!MultiLocks /\ requestQue \in Seq(Requests)
      /\ answer \in [Requests -> Answers] /\ requests' = requests
      /\ Pending(requestQue, answer) /\ WithinLimit(poolLock)
      /\ Backed(poolLock, answer) /\ requests \subseteq Requests
  BY DEF BackedInv, Typed, Clean
<1>2. /\ poolLock' = Lock!Cleaned(poolLock, w)
      /\ requestQue' = Rest(requestQue, kept)
      /\ answer' = [q \in Requests |-> IF Waiting(q) /\ Client[q] = w THEN "denied"
                                       ELSE answer[q]]
  BY DEF Clean
<1>3. answer' \in [Requests -> Answers]
  BY <1>1, <1>2 DEF Answers
<1>4. /\ poolLock' \in Lock!MultiLocks
      /\ poolLock'.length <= poolLock.length
      /\ poolLock.length \in Int /\ poolLock'.length \in Int
      /\ \A v \in Clients : poolLock'.hash[v] = IF v = w THEN 0 ELSE poolLock.hash[v]
  BY <1>1, <1>2 DEF Lock!MultiLocks, Lock!Cleaned
<1>5. requestQue' \in Seq(Requests)
  <2>1. Rest(requestQue, kept) = Queue!Rest(requestQue, kept)
    BY RestIsTheSame
  <2>2. Queue!Rest(requestQue, kept) \in Seq(Requests)
    <3> HIDE DEF kept
    <3> QED
      BY <1>1, RestIsTheSame, Queue!RestFacts
  <2> QED
    BY <1>2, <2>1, <2>2
<1>6. Pending(requestQue', answer')
  <2>1. /\ \A i \in DOMAIN requestQue' :
             \E k \in DOMAIN requestQue : requestQue'[i] = requestQue[k] /\ requestQue[k] \in kept
        /\ \A k \in DOMAIN requestQue : requestQue[k] \in kept =>
             \E i \in DOMAIN requestQue' : requestQue'[i] = requestQue[k]
        /\ (\A k, l \in DOMAIN requestQue : requestQue[k] = requestQue[l] => k = l) =>
              \A i, j \in DOMAIN requestQue' : requestQue'[i] = requestQue'[j] => i = j
    <3> DEFINE rest == Rest(requestQue, kept)
    <3>1. /\ \A i \in DOMAIN rest :
               \E k \in DOMAIN requestQue : rest[i] = requestQue[k] /\ requestQue[k] \in kept
          /\ \A k \in DOMAIN requestQue : requestQue[k] \in kept =>
               \E i \in DOMAIN rest : rest[i] = requestQue[k]
          /\ (\A k, l \in DOMAIN requestQue : requestQue[k] = requestQue[l] => k = l) =>
                \A i, j \in DOMAIN rest : rest[i] = rest[j] => i = j
      <4> HIDE DEF kept
      <4> QED
        <5> HIDE DEF rest
        <5>1. rest = Queue!Rest(requestQue, kept)
          BY RestIsTheSame DEF rest
        <5>2. Queue!ResolverConstants
          BY RestIsTheSame
        <5> QED
          BY <1>1, <5>1, <5>2, Queue!RestFacts
    <3> HIDE DEF kept, rest
    <3>2. requestQue' = rest
      BY <1>2 DEF rest
    <3> QED
      BY <3>1, <3>2
  <2>2. \A i, j \in DOMAIN requestQue' : requestQue'[i] = requestQue'[j] => i = j
    BY <1>1, <2>1 DEF Pending
  <2>3. ASSUME NEW q \in Requests
        PROVE  answer'[q] = "waiting" <=> q \in Range(requestQue')
    <3>1. answer[q] = "waiting" <=> q \in Range(requestQue)
      BY <1>1 DEF Pending
    <3>2. q \in Range(requestQue') <=> q \in Range(requestQue) /\ q \in kept
      BY <2>1 DEF Range
    <3>3. answer'[q] = "waiting" <=> answer[q] = "waiting" /\ Client[q] # w
      BY <1>2, <3>1 DEF Waiting
    <3> QED
      BY <3>1, <3>2, <3>3
  <2> QED
    BY <2>2, <2>3 DEF Pending
<1>7. Backed(poolLock', answer')
  <2>1. \A q \in Requests : answer[q] \in {"handed", "granted"}
                          <=> answer'[q] \in {"handed", "granted"}
    BY <1>1, <1>2 DEF Pending, Waiting
  <2>2. Backed(poolLock, answer')
    BY <1>1, <1>3, <2>1, BackedSame
  <2>3. ASSUME NEW v \in Clients
        PROVE  poolLock'.hash[v] <= Cardinality(HoldingOf(answer', v))
    BY <1>4, <2>2, HoldingFinite DEF Backed
  <2> QED
    BY <2>3 DEF Backed
<1>8. WithinLimit(poolLock')
  BY <1>1, <1>4, PoolFacts DEF WithinLimit
<1> QED
  BY <1>1, <1>3, <1>4, <1>5, <1>6, <1>7, <1>8 DEF BackedInv, Typed

LEMMA CleanAllBacked == ASSUME BackedInv, CleanAll PROVE BackedInv'
<1>1. /\ requestQue \in Seq(Requests) /\ answer \in [Requests -> Answers]
      /\ Pending(requestQue, answer) /\ requests \subseteq Requests
      /\ requests' = requests
      /\ poolLock' = Lock!NoLocks /\ requestQue' = <<>>
      /\ answer' = [q \in Requests |-> IF Waiting(q) THEN "denied" ELSE answer[q]]
  BY DEF BackedInv, Typed, CleanAll
<1>2. answer' \in [Requests -> Answers]
  BY <1>1 DEF Answers
<1>3. /\ poolLock' \in Lock!MultiLocks /\ poolLock'.length = 0
      /\ \A v \in Clients : poolLock'.hash[v] = 0
  BY <1>1 DEF Lock!NoLocks, Lock!MultiLocks
<1>4. Pending(requestQue', answer')
  BY <1>1, <1>2 DEF Pending, Range, Waiting
<1>5. Backed(poolLock', answer')
  BY <1>3, HoldingFinite DEF Backed
<1>6. WithinLimit(poolLock')
  BY <1>3, PoolFacts DEF WithinLimit
<1>7. requestQue' \in Seq(Requests)
  BY <1>1
<1> QED
  BY <1>1, <1>2, <1>3, <1>4, <1>5, <1>6, <1>7 DEF BackedInv, Typed

LEMMA BackedNext == BackedInv /\ [Next]_vars => BackedInv'
<1> SUFFICES ASSUME BackedInv, [Next]_vars PROVE BackedInv'
  OBVIOUS
<1>0. /\ poolLock \in Lock!MultiLocks /\ requestQue \in Seq(Requests)
      /\ answer \in [Requests -> Answers] /\ requests \subseteq Requests
      /\ Pending(requestQue, answer) /\ WithinLimit(poolLock)
      /\ Backed(poolLock, answer)
  BY DEF BackedInv, Typed
<1>1. CASE UNCHANGED vars
  BY <1>1 DEF vars, BackedInv, Typed
<1>2. ASSUME NEW r \in Requests, Acquire(r) PROVE BackedInv'
  <2>1. /\ answer[r] = "none" \/ answer[r] = "denied"
        /\ AcquireAction(r, poolLock, requestQue, answer, "granted")
        /\ requests' \subseteq Requests
    BY <1>0, <1>2 DEF Acquire
  <2> QED
    BY <1>0, <2>1, AcquireActionBacked
<1>3. ASSUME NEW r \in Requests, Withdraw(r) PROVE BackedInv'
  <2>1. PICK i \in DOMAIN requestQue :
          requestQue[i] = r /\ requestQue' = Without(requestQue, i)
    BY <1>3 DEF Withdraw
  <2>2. answer' = [answer EXCEPT ![r] = "denied"] /\ UNCHANGED <<poolLock, requests>>
    BY <1>3 DEF Withdraw
  <2>3. "denied" \in Answers \ {"waiting"} /\ "denied" \in Answers \ {"handed", "granted"}
    BY DEF Answers
  <2>4. Pending(requestQue', answer')
    BY <1>0, <2>1, <2>2, <2>3, PendingWithout
  <2>5. requestQue' \in Seq(Requests) /\ answer' \in [Requests -> Answers]
    BY <1>0, <2>1, <2>2, <2>3, WithoutFacts
  <2>6. r \notin Holding(answer)
    BY <1>0, <2>1 DEF Pending, Range, Holding
  <2>7. Backed(poolLock, answer')
    BY <1>0, <2>2, <2>3, <2>6, BackedReleased
  <2> QED
    BY <1>0, <2>2, <2>4, <2>5, <2>7 DEF BackedInv, Typed
<1>4. ASSUME NEW r \in Requests, GiveBack(r) PROVE BackedInv'
  BY <1>4, GiveBackBacked
<1>5. ASSUME NEW r \in Requests, GiveBackRefused(r) PROVE BackedInv'
  <2>1. /\ answer' = [answer EXCEPT ![r] = "none"] /\ answer[r] # "waiting"
        /\ UNCHANGED <<poolLock, requestQue, requests>>
    BY <1>0, <1>5 DEF GiveBackRefused, Waiting, Pending
  <2>2. "none" \in Answers \ {"waiting"} /\ "none" \in Answers \ {"handed", "granted"}
    BY DEF Answers
  <2>3. poolLock.hash[Client[r]] = 0
    <3>1. poolLock.hash[Client[r]] \in Nat
      BY <1>0, PoolFacts DEF Lock!MultiLocks
    <3> QED
      BY <1>5, <3>1 DEF GiveBackRefused, Lock!CanRelease
  <2>4. Backed(poolLock, answer')
    BY <1>0, <2>1, <2>2, <2>3, BackedReleased
  <2>5. Pending(requestQue', answer')
    <3>1. Pending(requestQue, [answer EXCEPT ![r] = "none"])
      BY <1>0, <2>1, <2>2, PendingSame
    <3> QED
      BY <2>1, <3>1
  <2> QED
    BY <1>0, <2>1, <2>2, <2>4, <2>5 DEF BackedInv, Typed
<1>6. ASSUME NEW r \in Requests, Notify(r) PROVE BackedInv'
  <2>1. /\ answer[r] = "handed" /\ answer' = [answer EXCEPT ![r] = "granted"]
        /\ UNCHANGED <<poolLock, requestQue, requests>>
    BY <1>6 DEF Notify
  <2>2. "granted" \in Answers \ {"waiting"}
    BY DEF Answers
  <2>3. answer' \in [Requests -> Answers]
    BY <1>0, <2>1, <2>2
  <2>4. \A q \in Requests : answer[q] \in {"handed", "granted"}
                          <=> answer'[q] \in {"handed", "granted"}
    BY <1>0, <2>1
  <2>5. Backed(poolLock, answer')
    BY <1>0, <2>3, <2>4, BackedSame
  <2>6. Pending(requestQue, answer')
    BY <1>0, <2>1, <2>2, PendingSame
  <2> QED
    BY <1>0, <2>1, <2>3, <2>5, <2>6 DEF BackedInv, Typed
<1>7. ASSUME NEW w \in Clients, Clean(w) PROVE BackedInv'
  BY <1>7, CleanBacked
<1>8. CASE CleanAll
  BY <1>8, CleanAllBacked
<1>9. CASE \E r \in Requests : AcquireRejected(r)
  BY <1>1, <1>9 DEF AcquireRejected
<1> QED
  BY <1>1, <1>2, <1>3, <1>4, <1>5, <1>6, <1>7, <1>8, <1>9 DEF Next, Release

LEMMA BackedInvariant == Spec => []BackedInv
BY BackedInit, BackedNext, PTL DEF Spec

\* Whatever is released, withdrawn or cleaned, and by whom: no worker has a permit
\* counted that none of its requests holds, and the limit is kept.
THEOREM PermitsAreBacked == Spec => []PermitsBacked
<1>1. BackedInv => PermitsBacked
  <2> SUFFICES ASSUME BackedInv PROVE PermitsBacked
    OBVIOUS
  <2>1. \A w \in Clients : HoldingOf(answer, w) = HoldersOf(w)
    BY DEF HoldingOf, HoldersOf, Holders
  <2>2. \A w \in Clients : poolLock.hash[w] \in Nat
    BY DEF BackedInv, Typed, Lock!MultiLocks
  <2> QED
    BY <2>1, <2>2, PoolFacts DEF BackedInv, Backed, WithinLimit, PermitsBacked
<1> QED
  BY <1>1, BackedInvariant, PTL

-----------------------------------------------------------------------------
(* What the calls tell their callers, for those who use the pool.          *)

\* acquire() tells nobody but its caller.
LEMMA AcquireTells ==
  ASSUME QueueInv, NEW r \in Requests, Acquire(r)
  PROVE  /\ answer' \in [Requests -> Answers] /\ answer'[r] \in {"waiting", "granted"}
         /\ \A q \in Requests \ {r} : answer'[q] = answer[q]
BY DEF QueueInv, Typed, Acquire, AcquireAction, Answers

\* The microtask of a hand-over.
LEMMA NotifyTells ==
  ASSUME QueueInv, NEW r \in Requests, Notify(r)
  PROVE  /\ answer' \in [Requests -> Answers]
         /\ answer[r] = "handed" /\ answer'[r] = "granted"
         /\ \A q \in Requests \ {r} : answer'[q] = answer[q]
BY DEF QueueInv, Typed, Notify, Answers

\* release() of a request that does not wait: it has nothing any more, and one that
\* waits may have got a permit.
LEMMA ReleaseTells ==
  ASSUME QueueInv, NEW r \in Requests, answer[r] # "waiting", Release(r)
  PROVE  /\ answer' \in [Requests -> Answers] /\ answer'[r] = "none"
         /\ \A q \in Requests \ {r} : answer'[q] = answer[q]
              \/ (answer[q] = "waiting" /\ answer'[q] \in {"waiting", "handed"})
         /\ GiveBack(r) \/ GiveBackRefused(r)
<1>1. /\ requestQue \in Seq(Requests) /\ answer \in [Requests -> Answers]
      /\ Pending(requestQue, answer)
  BY DEF QueueInv, Typed
<1>2. ~Withdraw(r)
  BY <1>1 DEF Withdraw, Pending, Range
<1>3. GiveBack(r) \/ GiveBackRefused(r)
  BY <1>2 DEF Release
<1> DEFINE told == [answer EXCEPT ![r] = "none"]
<1>4. /\ told \in [Requests -> Answers] /\ told[r] = "none"
      /\ \A q \in Requests \ {r} : told[q] = answer[q]
  BY <1>1 DEF Answers
<1>5. \/ answer' = told
      \/ /\ requestQue # <<>>
         /\ \E how \in {"handed", "waiting"} : answer' = [told EXCEPT ![Head(requestQue)] = how]
  BY <1>3 DEF GiveBack, GiveBackRefused, AcquireAction
<1>6. CASE answer' = told
  BY <1>3, <1>4, <1>6
<1>7. ASSUME requestQue # <<>>, NEW how \in {"handed", "waiting"},
             answer' = [told EXCEPT ![Head(requestQue)] = how]
      PROVE  /\ answer' \in [Requests -> Answers] /\ answer'[r] = "none"
             /\ \A q \in Requests \ {r} : answer'[q] = answer[q]
                  \/ (answer[q] = "waiting" /\ answer'[q] \in {"waiting", "handed"})
  <2> DEFINE h == Head(requestQue)
  <2>1. h \in Requests /\ h \in Range(requestQue)
    BY <1>1, <1>7, Queue!ShiftFacts DEF Range
  <2>2. answer[h] = "waiting" /\ h # r
    BY <1>1, <2>1 DEF Pending
  <2> HIDE DEF h, told
  <2>3. answer' = [told EXCEPT ![h] = how] /\ how \in Answers
    BY <1>7 DEF h, Answers
  <2> QED
    BY <1>4, <2>1, <2>2, <2>3
<1> QED
  BY <1>3, <1>5, <1>6, <1>7
=============================================================================
