---------------------- MODULE FilePermissionResolverProofs ----------------------
(***************************************************************************)
(* Proofs about FilePermissionResolver for any workers and requests.       *)
(*                                                                         *)
(* The methods are operators on a record, so the invariant is stated about *)
(* a record, and each method gets a lemma that says which parts of it the  *)
(* method keeps or restores.  Queued: whoever waits is in one queue, once, *)
(* and holds nothing; one access is held exactly while "accessing".        *)
(* Sound adds that a free file has no lock.  Backed and Counts compare the *)
(* locks counted with the locks held.  Guarded is what the state says of   *)
(* the holders: locked while there are locks, deleted while there are      *)
(* deletes.  It is what makes deletes wait for locks, and it holds only    *)
(* when callers release what they hold and nothing else.                   *)
(***************************************************************************)
EXTENDS FilePermissionResolver, FiniteSetTheorems, WellFoundedInduction, TLAPS

(* Queues: facts that the proofs of the lock pool use as well.  The one that *)
(* needs an argument is RestFacts, about the filter of Queue.remove and      *)
(* Queue.extract: a recursive function over the positions of a queue.  The   *)
(* induction is made with sets of numbers, on top of the least element that  *)
(* the library proves every such set to have.                                *)

\* Every set of naturals that is not empty has a least element.
LEMMA LeastNumber ==
  ASSUME NEW T \in SUBSET Nat, T # {}
  PROVE  \E x \in T : \A y \in T : x <= y
<1> DEFINE R == {p \in Nat \X Nat : p[1] < p[2]}
<1>1. IsWellFoundedOn(R, Nat)
  BY NatLessThanWellFounded DEF OpToRel
<1>2. \E x \in T : \A y \in T : ~ (<<y, x>> \in R)
  <2> HIDE DEF R
  <2> QED
    BY <1>1, WFMin, Zenon
<1>3. PICK x \in T : \A y \in T : ~ (<<y, x>> \in R)
  BY <1>2
<1>4. ASSUME NEW y \in T PROVE x <= y
  <2>1. x \in Nat /\ y \in Nat /\ <<y, x>> \notin R
    BY <1>3
  <2> QED
    BY <2>1
<1> QED
  BY <1>4

\* Induction over the naturals, for a property given as the set it defines.
LEMMA SetInduction ==
  ASSUME NEW T, 0 \in T, \A n \in Nat : n \in T => n + 1 \in T
  PROVE  Nat \subseteq T
<1> SUFFICES ASSUME Nat \ T # {} PROVE FALSE
  OBVIOUS
<1>1. PICK x \in Nat \ T : \A y \in Nat \ T : x <= y
  BY LeastNumber
<1>2. x # 0 /\ x - 1 \in Nat /\ ~(x <= x - 1)
  BY <1>1
<1>3. x - 1 \in T
  BY <1>1, <1>2
<1>4. (x - 1) + 1 \in T /\ (x - 1) + 1 = x
  BY <1>2, <1>3
<1> QED
  BY <1>1, <1>4

-----------------------------------------------------------------------------
\* What push and shift do to a queue, element by element.
LEMMA PushFacts ==
  ASSUME NEW S, NEW s \in Seq(S), NEW e \in S
  PROVE  /\ Append(s, e) \in Seq(S) /\ Append(s, e) # <<>>
         /\ DOMAIN s = 1..Len(s) /\ Len(s) \in Nat
         /\ Len(Append(s, e)) = Len(s) + 1
         /\ DOMAIN Append(s, e) = 1..(Len(s) + 1)
         /\ \A i \in DOMAIN s : Append(s, e)[i] = s[i]
         /\ Append(s, e)[Len(s) + 1] = e
OBVIOUS

LEMMA ShiftFacts ==
  ASSUME NEW S, NEW s \in Seq(S), s # <<>>
  PROVE  /\ Head(s) \in S /\ Head(s) = s[1] /\ 1 \in DOMAIN s
         /\ Tail(s) \in Seq(S)
         /\ DOMAIN s = 1..Len(s) /\ Len(s) \in Nat
         /\ DOMAIN Tail(s) = 1..(Len(s) - 1)
         /\ \A i \in DOMAIN Tail(s) : Tail(s)[i] = s[i + 1]
OBVIOUS

LEMMA ElementFacts ==
  ASSUME NEW S, NEW s \in Seq(S)
  PROVE  /\ DOMAIN s = 1..Len(s) /\ Len(s) \in Nat
         /\ \A i \in DOMAIN s : s[i] \in S
OBVIOUS

-----------------------------------------------------------------------------
\* One step of the filter, on the positions up to n.
Filters(g, s, kept, n) ==
  \A i \in 0..n : g[i] = IF i = 0 THEN <<>>
                         ELSE IF s[i] \in kept THEN Append(g[i - 1], s[i])
                         ELSE g[i - 1]

\* The function that filters is defined for every number of positions.
LEMMA FilterExists ==
  ASSUME NEW S, NEW s \in Seq(S), NEW kept
  PROVE  \A n \in Nat : n <= Len(s) =>
           \E g \in [0..n -> Seq(S)] : Filters(g, s, kept, n)
<1> DEFINE T == {n \in Nat : n <= Len(s) =>
                   \E g \in [0..n -> Seq(S)] : Filters(g, s, kept, n)}
<1>1. 0 \in T
  <2> DEFINE g == [i \in 0..0 |-> <<>>]
  <2>1. g \in [0..0 -> Seq(S)] /\ Filters(g, s, kept, 0)
    BY DEF Filters
  <2> QED
    BY <2>1
<1>2. ASSUME NEW n \in Nat, n \in T PROVE n + 1 \in T
  <2> SUFFICES ASSUME n + 1 <= Len(s)
               PROVE  \E h \in [0..(n + 1) -> Seq(S)] : Filters(h, s, kept, n + 1)
    OBVIOUS
  <2>1. n <= Len(s) /\ s[n + 1] \in S
    BY ElementFacts
  <2>2. PICK g \in [0..n -> Seq(S)] : Filters(g, s, kept, n)
    BY <1>2, <2>1
  <2> DEFINE last == IF s[n + 1] \in kept THEN Append(g[n], s[n + 1]) ELSE g[n]
             h == [i \in 0..(n + 1) |-> IF i = n + 1 THEN last ELSE g[i]]
  <2>3. g[n] \in Seq(S)
    BY <2>2
  <2>4. last \in Seq(S)
    BY <2>1, <2>3, PushFacts
  <2> HIDE DEF last
  <2>5. h \in [0..(n + 1) -> Seq(S)]
    BY <2>2, <2>4
  <2>6. Filters(h, s, kept, n + 1)
    <3> SUFFICES ASSUME NEW i \in 0..(n + 1)
                 PROVE  h[i] = IF i = 0 THEN <<>>
                               ELSE IF s[i] \in kept THEN Append(h[i - 1], s[i])
                               ELSE h[i - 1]
      BY DEF Filters
    <3>1. CASE i = n + 1
      <4>1. h[i] = last /\ h[i - 1] = g[n] /\ i # 0
        BY <3>1
      <4> QED
        BY <3>1, <4>1 DEF last
    <3>2. CASE i \in 0..n
      <4>1. h[i] = g[i] /\ (i # 0 => h[i - 1] = g[i - 1])
        BY <3>2
      <4> QED
        BY <2>2, <3>2, <4>1 DEF Filters
    <3> QED
      BY <3>1, <3>2
  <2> QED
    BY <2>5, <2>6
<1> HIDE DEF T
<1>3. Nat \subseteq T
  BY <1>1, <1>2, SetInduction
<1> QED
  BY <1>3 DEF T

\* e says where the elements of the rest r come from among the first n of s.
Places(e, r, s, kept, n) ==
  /\ e \in [DOMAIN r -> 1..n]
  /\ \A i, j \in DOMAIN r : i < j => e[i] < e[j]
  /\ \A i \in DOMAIN r : r[i] = s[e[i]] /\ s[e[i]] \in kept
  /\ \A k \in 1..n : s[k] \in kept => \E i \in DOMAIN r : e[i] = k

\* An element that is kept, or is not, at the end of what was filtered so far.
LEMMA PlacesStep ==
  ASSUME NEW S, NEW s \in Seq(S), NEW kept, NEW n \in Nat, n + 1 <= Len(s),
         NEW r \in Seq(S), NEW e, Places(e, r, s, kept, n)
  PROVE  /\ s[n + 1] \in kept =>
              \E d : Places(d, Append(r, s[n + 1]), s, kept, n + 1)
         /\ s[n + 1] \notin kept => Places(e, r, s, kept, n + 1)
<1>1. s[n + 1] \in S
  BY ElementFacts
<1>2. ASSUME s[n + 1] \in kept
      PROVE  \E d : Places(d, Append(r, s[n + 1]), s, kept, n + 1)
  <2> DEFINE q == Append(r, s[n + 1])
             d == [i \in DOMAIN q |-> IF i = Len(r) + 1 THEN n + 1 ELSE e[i]]
  <2>1. /\ DOMAIN q = 1..(Len(r) + 1) /\ DOMAIN r = 1..Len(r) /\ Len(r) \in Nat
        /\ \A i \in DOMAIN r : q[i] = r[i]
        /\ q[Len(r) + 1] = s[n + 1]
    BY <1>1, PushFacts
  <2> HIDE DEF q
  <2>2. \A i \in DOMAIN q : i = Len(r) + 1 \/ i \in DOMAIN r
    BY <2>1
  <2>3. \A i \in DOMAIN r : d[i] = e[i] /\ d[i] \in 1..n
    BY <2>1 DEF Places
  <2>4. d[Len(r) + 1] = n + 1
    BY <2>1
  <2>5. d \in [DOMAIN q -> 1..(n + 1)]
    <3>1. \A i \in DOMAIN q : d[i] \in 1..(n + 1)
      <4> HIDE DEF d
      <4> QED
        BY <2>2, <2>3, <2>4
    <3> QED
      BY <3>1
  <2> HIDE DEF d
  <2>6. \A i, j \in DOMAIN q : i < j => d[i] < d[j]
    <3> SUFFICES ASSUME NEW i \in DOMAIN q, NEW j \in DOMAIN q, i < j
                 PROVE  d[i] < d[j]
      OBVIOUS
    <3>1. i \in DOMAIN r
      BY <2>1
    <3>2. CASE j = Len(r) + 1
      BY <2>3, <2>4, <3>1, <3>2
    <3>3. CASE j \in DOMAIN r
      BY <2>3, <3>1, <3>3 DEF Places
    <3> QED
      BY <2>2, <3>2, <3>3
  <2>7. \A i \in DOMAIN q : q[i] = s[d[i]] /\ s[d[i]] \in kept
    BY <1>2, <2>1, <2>2, <2>3, <2>4 DEF Places
  <2>8. \A k \in 1..(n + 1) : s[k] \in kept => \E i \in DOMAIN q : d[i] = k
    <3> SUFFICES ASSUME NEW k \in 1..(n + 1), s[k] \in kept
                 PROVE  \E i \in DOMAIN q : d[i] = k
      OBVIOUS
    <3>1. CASE k = n + 1
      BY <2>1, <2>4, <3>1
    <3>2. CASE k \in 1..n
      <4>1. PICK i \in DOMAIN r : e[i] = k
        BY <3>2 DEF Places
      <4> QED
        BY <2>1, <2>3, <4>1
    <3> QED
      BY <3>1, <3>2
  <2>9. Places(d, q, s, kept, n + 1)
    BY <2>5, <2>6, <2>7, <2>8 DEF Places
  <2> QED
    BY <2>9 DEF q
<1>3. ASSUME s[n + 1] \notin kept PROVE Places(e, r, s, kept, n + 1)
  <2>1. e \in [DOMAIN r -> 1..(n + 1)]
    BY DEF Places
  <2>2. \A k \in 1..(n + 1) : s[k] \in kept => \E i \in DOMAIN r : e[i] = k
    <3> SUFFICES ASSUME NEW k \in 1..(n + 1), s[k] \in kept
                 PROVE  \E i \in DOMAIN r : e[i] = k
      OBVIOUS
    <3>1. k \in 1..n
      BY <1>3
    <3> QED
      BY <3>1 DEF Places
  <2> QED
    BY <2>1, <2>2 DEF Places
<1> QED
  BY <1>2, <1>3

\* What remove() and extract() leave: the elements to keep, all of them and no
\* others, in the order of the queue.
LEMMA RestPlaces ==
  ASSUME NEW S, NEW s \in Seq(S), NEW kept
  PROVE  /\ Rest(s, kept) \in Seq(S)
         /\ \E e : Places(e, Rest(s, kept), s, kept, Len(s))
<1> DEFINE Eqn(f) == f = [i \in 0..Len(s) |->
                            IF i = 0 THEN <<>>
                            ELSE IF s[i] \in kept THEN Append(f[i - 1], s[i])
                            ELSE f[i - 1]]
           rest == CHOOSE f : Eqn(f)
<1>1. Len(s) \in Nat
  BY ElementFacts
<1>2. Eqn(rest)
  <2>1. PICK g \in [0..Len(s) -> Seq(S)] : Filters(g, s, kept, Len(s))
    <3> HIDE DEF rest, Eqn
    <3>1. Len(s) <= Len(s)
      BY <1>1
    <3> QED
      BY <1>1, <3>1, FilterExists, Zenon
  <2>2. Eqn(g)
    BY <2>1 DEF Filters
  <2> HIDE DEF Eqn
  <2>3. \E f : Eqn(f)
    BY <2>2, Zenon
  <2> QED
    BY <2>3, Zenon
<1>3. Rest(s, kept) = rest[Len(s)]
  BY Zenon DEF Rest
<1> HIDE DEF rest
<1> DEFINE T == {n \in Nat : n <= Len(s) =>
                   rest[n] \in Seq(S) /\ \E e : Places(e, rest[n], s, kept, n)}
<1>4. 0 \in T
  <2>1. rest[0] = <<>>
    BY <1>1, <1>2
  <2>2. Places(<<>>, <<>>, s, kept, 0)
    BY DEF Places
  <2>3. \E e : Places(e, rest[0], s, kept, 0)
    BY <2>1, <2>2
  <2>4. rest[0] \in Seq(S)
    BY <2>1
  <2> QED
    BY <2>3, <2>4, Zenon
<1>5. ASSUME NEW n \in Nat, n \in T PROVE n + 1 \in T
  <2> SUFFICES ASSUME n + 1 <= Len(s)
               PROVE  /\ rest[n + 1] \in Seq(S)
                      /\ \E e : Places(e, rest[n + 1], s, kept, n + 1)
    OBVIOUS
  <2>1. n <= Len(s) /\ s[n + 1] \in S
    BY <1>1, ElementFacts
  <2>2. rest[n] \in Seq(S)
    BY <1>5, <2>1
  <2>3. PICK e : Places(e, rest[n], s, kept, n)
    BY <1>5, <2>1
  <2>4. rest[n + 1] = IF s[n + 1] \in kept THEN Append(rest[n], s[n + 1]) ELSE rest[n]
    <3>1. n + 1 \in 0..Len(s) /\ n + 1 # 0 /\ (n + 1) - 1 = n
      BY <1>1
    <3> QED
      BY <1>2, <3>1
  <2>5. rest[n + 1] \in Seq(S)
    BY <2>1, <2>2, <2>4, PushFacts
  <2>6. \E d : Places(d, rest[n + 1], s, kept, n + 1)
    BY <2>2, <2>3, <2>4, PlacesStep
  <2> QED
    BY <2>5, <2>6
<1>6. Nat \subseteq T
  <2> HIDE DEF T
  <2> QED
    BY <1>4, <1>5, SetInduction
<1> QED
  BY <1>1, <1>3, <1>6

\* The same for its users: the rest has the kept elements, each as often as the
\* queue has it.
LEMMA RestFacts ==
  ASSUME NEW S, NEW s \in Seq(S), NEW kept
  PROVE  /\ Rest(s, kept) \in Seq(S)
         /\ \A i \in DOMAIN Rest(s, kept) :
              \E k \in DOMAIN s : Rest(s, kept)[i] = s[k] /\ s[k] \in kept
         /\ \A k \in DOMAIN s : s[k] \in kept =>
              \E i \in DOMAIN Rest(s, kept) : Rest(s, kept)[i] = s[k]
         /\ (\A k, l \in DOMAIN s : s[k] = s[l] => k = l) =>
              \A i, j \in DOMAIN Rest(s, kept) :
                Rest(s, kept)[i] = Rest(s, kept)[j] => i = j
<1> DEFINE r == Rest(s, kept)
<1>1. r \in Seq(S)
  BY RestPlaces
<1>2. PICK e : Places(e, r, s, kept, Len(s))
  BY RestPlaces
<1> HIDE DEF r
<1>3. /\ DOMAIN s = 1..Len(s) /\ Len(s) \in Nat
      /\ DOMAIN r = 1..Len(r) /\ Len(r) \in Nat
  BY <1>1, ElementFacts
<1>4. \A i \in DOMAIN r : e[i] \in DOMAIN s /\ r[i] = s[e[i]] /\ s[e[i]] \in kept
  BY <1>2, <1>3 DEF Places
<1>5. \A k \in DOMAIN s : s[k] \in kept => \E i \in DOMAIN r : r[i] = s[k]
  BY <1>2, <1>3, <1>4 DEF Places
<1>6. ASSUME \A k, l \in DOMAIN s : s[k] = s[l] => k = l,
             NEW i \in DOMAIN r, NEW j \in DOMAIN r, r[i] = r[j]
      PROVE  i = j
  <2>1. e[i] = e[j]
    BY <1>4, <1>6
  <2>2. ~(i < j) /\ ~(j < i)
    BY <1>2, <1>3, <2>1, <1>4 DEF Places
  <2> QED
    BY <1>3, <2>2
<1> QED
  BY <1>1, <1>4, <1>5, <1>6 DEF r

-----------------------------------------------------------------------------
(* What the state of a file says of the callbacks                            *)

\* Who has been granted what, in an assignment of callbacks.
With(held, what) == {r \in Requests : held[r] = what}
LockersOf(held, w) == {r \in Requests : held[r] = "lock" /\ Client[r] = w}

WaitsOnce(held, queue) ==
  /\ \A i \in DOMAIN queue : held[queue[i]] = "queued"
  /\ \A i, j \in DOMAIN queue : queue[i] = queue[j] => i = j

Disjoint(queue, other) ==
  \A i \in DOMAIN queue, j \in DOMAIN other : queue[i] # other[j]

\* One access is out, exactly while "accessing" says so.
OneAccess(held, accessing) ==
  /\ \A r, q \in Requests : held[r] = "access" /\ held[q] = "access" => r = q
  /\ accessing <=> \E r \in Requests : held[r] = "access"

Queued(f) ==
  /\ f \in Resolvers
  /\ WaitsOnce(f.held, f.access) /\ WaitsOnce(f.held, f.del)
  /\ Disjoint(f.access, f.del)
  /\ OneAccess(f.held, f.accessing)

FreeUnlocked(f) == f.state = "free" => f.multiLock.length = 0

Sound(f) == Queued(f) /\ FreeUnlocked(f)

Backed(lock, held) ==
  \A w \in Clients : lock.hash[w] <= Cardinality(LockersOf(held, w))

Counts(lock, held) ==
  /\ lock.length = Cardinality(With(held, "lock"))
  /\ \A w \in Clients : lock.hash[w] = Cardinality(LockersOf(held, w))

Guarded(f) ==
  /\ With(f.held, "lock") # {} => f.state = "locked"
  /\ With(f.held, "unlink") # {} => IsDeleted(f)

\* Nobody waits for a write of a file that nobody writes and nobody deletes.
HandedOver(f) == f.access # <<>> => IsDeleted(f) \/ f.accessing

-----------------------------------------------------------------------------
LEMMA ResolverFacts == IsFiniteSet(Requests) /\ Client \in [Requests -> Clients]
BY ResolverAssumption DEF ResolverConstants

LEMMA FieldTypes ==
  ASSUME NEW f \in Resolvers
  PROVE  /\ f.multiLock \in Locks!MultiLocks
         /\ f.access \in Seq(Requests) /\ f.del \in Seq(Requests)
         /\ f.accessing \in BOOLEAN /\ f.state \in States
         /\ f.held \in [Requests -> Held]
BY DEF Resolvers

\* What the exceptions of the methods do to a record, field by field.
LEMMA Fields ==
  ASSUME NEW f \in Resolvers
  PROVE  /\ \A m : LET g == [f EXCEPT !.multiLock = m]
                   IN /\ g.multiLock = m /\ g.access = f.access /\ g.del = f.del
                      /\ g.accessing = f.accessing /\ g.state = f.state /\ g.held = f.held
                      /\ m \in Locks!MultiLocks => g \in Resolvers
         /\ \A s : LET g == [f EXCEPT !.state = s]
                   IN /\ g.multiLock = f.multiLock /\ g.access = f.access /\ g.del = f.del
                      /\ g.accessing = f.accessing /\ g.state = s /\ g.held = f.held
                      /\ s \in States => g \in Resolvers
         /\ \A q : LET g == [f EXCEPT !.access = q]
                   IN /\ g.multiLock = f.multiLock /\ g.access = q /\ g.del = f.del
                      /\ g.accessing = f.accessing /\ g.state = f.state /\ g.held = f.held
                      /\ q \in Seq(Requests) => g \in Resolvers
         /\ \A q : LET g == [f EXCEPT !.del = q]
                   IN /\ g.multiLock = f.multiLock /\ g.access = f.access /\ g.del = q
                      /\ g.accessing = f.accessing /\ g.state = f.state /\ g.held = f.held
                      /\ q \in Seq(Requests) => g \in Resolvers
         /\ \A b : LET g == [f EXCEPT !.accessing = b]
                   IN /\ g.multiLock = f.multiLock /\ g.access = f.access /\ g.del = f.del
                      /\ g.accessing = b /\ g.state = f.state /\ g.held = f.held
                      /\ b \in BOOLEAN => g \in Resolvers
         /\ \A h : LET g == [f EXCEPT !.held = h]
                   IN /\ g.multiLock = f.multiLock /\ g.access = f.access /\ g.del = f.del
                      /\ g.accessing = f.accessing /\ g.state = f.state /\ g.held = h
                      /\ h \in [Requests -> Held] => g \in Resolvers
BY DEF Resolvers

\* A client is told something.
LEMMA TellFields ==
  ASSUME NEW f \in Resolvers, NEW r \in Requests, NEW what \in Held
  PROVE  LET g == Tell(f, r, what)
         IN /\ g \in Resolvers
            /\ g.multiLock = f.multiLock /\ g.access = f.access /\ g.del = f.del
            /\ g.accessing = f.accessing /\ g.state = f.state
            /\ g.held = [f.held EXCEPT ![r] = what]
            /\ g.held[r] = what
            /\ \A q \in Requests \ {r} : g.held[q] = f.held[q]
<1> DEFINE h == [f.held EXCEPT ![r] = what]
<1>1. h \in [Requests -> Held] /\ h[r] = what
      /\ \A q \in Requests \ {r} : h[q] = f.held[q]
  BY FieldTypes
<1> HIDE DEF h
<1>2. [f EXCEPT !.held = h] \in Resolvers
  BY <1>1, Fields
<1> QED
  BY <1>1, <1>2, Fields DEF Tell, h

-----------------------------------------------------------------------------
(* What each part of the invariant depends on.                             *)

\* Telling somebody who does not wait keeps the others waiting once.
LEMMA WaitsOnceTold ==
  ASSUME NEW held \in [Requests -> Held], NEW queue \in Seq(Requests),
         WaitsOnce(held, queue), NEW r \in Requests, NEW what,
         \A i \in DOMAIN queue : queue[i] # r
  PROVE  WaitsOnce([held EXCEPT ![r] = what], queue)
<1>1. \A i \in DOMAIN queue : queue[i] \in Requests
  BY ElementFacts
<1> QED
  BY <1>1 DEF WaitsOnce

\* Somebody who waits is in no queue that he waits for twice: the tail of a queue
\* has the others.
LEMMA WaitsOnceTail ==
  ASSUME NEW held \in [Requests -> Held], NEW queue \in Seq(Requests), queue # <<>>,
         WaitsOnce(held, queue)
  PROVE  /\ Head(queue) \in Requests /\ held[Head(queue)] = "queued"
         /\ Tail(queue) \in Seq(Requests) /\ WaitsOnce(held, Tail(queue))
         /\ \A i \in DOMAIN Tail(queue) : Tail(queue)[i] # Head(queue)
         /\ \A i \in DOMAIN Tail(queue) : \E k \in DOMAIN queue : Tail(queue)[i] = queue[k]
         /\ \E k \in DOMAIN queue : Head(queue) = queue[k]
<1> DEFINE tail == Tail(queue)
<1>1. /\ Head(queue) \in Requests /\ Head(queue) = queue[1] /\ 1 \in DOMAIN queue
      /\ tail \in Seq(Requests)
      /\ DOMAIN queue = 1..Len(queue) /\ Len(queue) \in Nat
      /\ DOMAIN tail = 1..(Len(queue) - 1)
      /\ \A i \in DOMAIN tail : tail[i] = queue[i + 1]
  BY ShiftFacts
<1> HIDE DEF tail
<1>2. \A i \in DOMAIN tail : i + 1 \in DOMAIN queue /\ i + 1 # 1
  BY <1>1
<1>3. WaitsOnce(held, tail)
  <2>1. \A i \in DOMAIN tail : held[tail[i]] = "queued"
    BY <1>1, <1>2 DEF WaitsOnce
  <2>2. ASSUME NEW i \in DOMAIN tail, NEW j \in DOMAIN tail, tail[i] = tail[j]
        PROVE  i = j
    <3>1. i + 1 = j + 1
      BY <1>1, <1>2, <2>2 DEF WaitsOnce
    <3> QED
      BY <3>1, <1>1
  <2> QED
    BY <2>1, <2>2 DEF WaitsOnce
<1>4. \A i \in DOMAIN tail : tail[i] # Head(queue)
  BY <1>1, <1>2 DEF WaitsOnce
<1>5. \A i \in DOMAIN tail : \E k \in DOMAIN queue : tail[i] = queue[k]
  BY <1>1, <1>2
<1>6. held[Head(queue)] = "queued" /\ \E k \in DOMAIN queue : Head(queue) = queue[k]
  BY <1>1 DEF WaitsOnce
<1> QED
  BY <1>1, <1>3, <1>4, <1>5, <1>6 DEF tail

\* A request joins a queue.
LEMMA WaitsOnceAppend ==
  ASSUME NEW held \in [Requests -> Held], NEW queue \in Seq(Requests),
         WaitsOnce(held, queue), NEW r \in Requests, held[r] = "queued",
         \A i \in DOMAIN queue : queue[i] # r
  PROVE  /\ Append(queue, r) \in Seq(Requests) /\ WaitsOnce(held, Append(queue, r))
         /\ \A i \in DOMAIN Append(queue, r) :
              Append(queue, r)[i] = r \/ \E k \in DOMAIN queue : Append(queue, r)[i] = queue[k]
<1> DEFINE new == Append(queue, r)
<1>1. /\ new \in Seq(Requests)
      /\ DOMAIN queue = 1..Len(queue) /\ Len(queue) \in Nat
      /\ DOMAIN new = 1..(Len(queue) + 1)
      /\ \A i \in DOMAIN queue : new[i] = queue[i]
      /\ new[Len(queue) + 1] = r
  BY PushFacts
<1> HIDE DEF new
<1>2. \A i \in DOMAIN new : i = Len(queue) + 1 \/ i \in DOMAIN queue
  BY <1>1
<1>3. WaitsOnce(held, new)
  BY <1>1, <1>2 DEF WaitsOnce
<1> QED
  BY <1>1, <1>2, <1>3 DEF new

\* What a filter leaves of a queue.
LEMMA WaitsOnceRest ==
  ASSUME NEW held \in [Requests -> Held], NEW queue \in Seq(Requests),
         WaitsOnce(held, queue), NEW kept
  PROVE  /\ Rest(queue, kept) \in Seq(Requests) /\ WaitsOnce(held, Rest(queue, kept))
         /\ \A i \in DOMAIN Rest(queue, kept) :
              \E k \in DOMAIN queue : Rest(queue, kept)[i] = queue[k]
<1> DEFINE rest == Rest(queue, kept)
<1>1. /\ rest \in Seq(Requests)
      /\ \A i \in DOMAIN rest : \E k \in DOMAIN queue : rest[i] = queue[k] /\ queue[k] \in kept
      /\ (\A k, l \in DOMAIN queue : queue[k] = queue[l] => k = l) =>
              \A i, j \in DOMAIN rest : rest[i] = rest[j] => i = j
  BY RestFacts
<1> HIDE DEF rest
<1>2. WaitsOnce(held, rest)
  BY <1>1 DEF WaitsOnce
<1> QED
  BY <1>1, <1>2 DEF rest

\* A queue all of whose elements another one has is as disjoint from a third.
LEMMA DisjointFrom ==
  ASSUME NEW queue, NEW new, NEW other, Disjoint(queue, other),
         \A i \in DOMAIN new : \E k \in DOMAIN queue : new[i] = queue[k]
  PROVE  Disjoint(new, other) /\ Disjoint(other, new)
BY DEF Disjoint

LEMMA DisjointSym == ASSUME NEW q, NEW o, Disjoint(q, o) PROVE Disjoint(o, q)
BY DEF Disjoint

\* Telling somebody who neither held nor gets an access.
LEMMA OneAccessTold ==
  ASSUME NEW held \in [Requests -> Held], NEW accessing \in BOOLEAN,
         OneAccess(held, accessing), NEW r \in Requests,
         held[r] # "access", NEW what \in Held \ {"access"}
  PROVE  OneAccess([held EXCEPT ![r] = what], accessing)
<1> DEFINE h == [held EXCEPT ![r] = what]
<1>1. \A q \in Requests : h[q] = "access" <=> held[q] = "access"
  OBVIOUS
<1> HIDE DEF h
<1>2. OneAccess(h, accessing)
  BY <1>1 DEF OneAccess
<1> QED
  BY <1>2 DEF h

-----------------------------------------------------------------------------
(* The locks counted and the locks held.                                   *)

LEMMA LockersFinite ==
  ASSUME NEW held, NEW w
  PROVE  /\ IsFiniteSet(LockersOf(held, w)) /\ Cardinality(LockersOf(held, w)) \in Nat
         /\ IsFiniteSet(With(held, "lock")) /\ Cardinality(With(held, "lock")) \in Nat
<1>1. LockersOf(held, w) \subseteq Requests /\ With(held, "lock") \subseteq Requests
  BY DEF LockersOf, With
<1>2. IsFiniteSet(LockersOf(held, w)) /\ IsFiniteSet(With(held, "lock"))
  BY <1>1, FS_Subset, ResolverFacts
<1> QED
  BY <1>2, FS_CardinalityType

\* Only who holds a lock counts.
LEMMA LockersSame ==
  ASSUME NEW lock, NEW held \in [Requests -> Held], NEW h \in [Requests -> Held],
         \A q \in Requests : h[q] = "lock" <=> held[q] = "lock"
  PROVE  /\ Backed(lock, held) => Backed(lock, h)
         /\ Counts(lock, held) => Counts(lock, h)
         /\ With(h, "lock") = With(held, "lock")
<1>1. With(h, "lock") = With(held, "lock")
      /\ \A w \in Clients : LockersOf(h, w) = LockersOf(held, w)
  BY DEF With, LockersOf
<1> QED
  BY <1>1 DEF Backed, Counts

\* The locks held after one more is granted, or one is let go.
LEMMA LockersChange ==
  ASSUME NEW held \in [Requests -> Held], NEW r \in Requests
  PROVE  /\ held[r] # "lock" =>
              LET h == [held EXCEPT ![r] = "lock"]
              IN /\ Cardinality(With(h, "lock")) = Cardinality(With(held, "lock")) + 1
                 /\ \A w \in Clients : Cardinality(LockersOf(h, w)) =
                      Cardinality(LockersOf(held, w)) + IF w = Client[r] THEN 1 ELSE 0
         /\ held[r] = "lock" =>
              LET h == [held EXCEPT ![r] = "over"]
              IN /\ Cardinality(With(h, "lock")) = Cardinality(With(held, "lock")) - 1
                 /\ \A w \in Clients : Cardinality(LockersOf(h, w)) =
                      Cardinality(LockersOf(held, w)) - IF w = Client[r] THEN 1 ELSE 0
                 /\ Cardinality(LockersOf(held, Client[r])) > 0
                 /\ Cardinality(With(held, "lock")) > 0
<1>1. ASSUME held[r] # "lock"
      PROVE  LET h == [held EXCEPT ![r] = "lock"]
             IN /\ Cardinality(With(h, "lock")) = Cardinality(With(held, "lock")) + 1
                /\ \A w \in Clients : Cardinality(LockersOf(h, w)) =
                     Cardinality(LockersOf(held, w)) + IF w = Client[r] THEN 1 ELSE 0
  <2> DEFINE h == [held EXCEPT ![r] = "lock"]
  <2>1. With(h, "lock") = With(held, "lock") \cup {r} /\ r \notin With(held, "lock")
    BY <1>1 DEF With
  <2>2. \A w \in Clients :
          IF w = Client[r]
          THEN LockersOf(h, w) = LockersOf(held, w) \cup {r} /\ r \notin LockersOf(held, w)
          ELSE LockersOf(h, w) = LockersOf(held, w)
    BY <1>1 DEF LockersOf
  <2> HIDE DEF h
  <2>3. Cardinality(With(h, "lock")) = Cardinality(With(held, "lock")) + 1
    BY <2>1, LockersFinite, FS_AddElement
  <2>4. ASSUME NEW w \in Clients
        PROVE  Cardinality(LockersOf(h, w)) =
                 Cardinality(LockersOf(held, w)) + IF w = Client[r] THEN 1 ELSE 0
    <3>1. CASE w = Client[r]
      BY <2>2, <3>1, LockersFinite, FS_AddElement
    <3>2. CASE w # Client[r]
      BY <2>2, <3>2, LockersFinite
    <3> QED
      BY <3>1, <3>2
  <2> QED
    BY <2>3, <2>4 DEF h
<1>2. ASSUME held[r] = "lock"
      PROVE  LET h == [held EXCEPT ![r] = "over"]
             IN /\ Cardinality(With(h, "lock")) = Cardinality(With(held, "lock")) - 1
                /\ \A w \in Clients : Cardinality(LockersOf(h, w)) =
                     Cardinality(LockersOf(held, w)) - IF w = Client[r] THEN 1 ELSE 0
                /\ Cardinality(LockersOf(held, Client[r])) > 0
                /\ Cardinality(With(held, "lock")) > 0
  <2> DEFINE h == [held EXCEPT ![r] = "over"]
  <2>1. With(h, "lock") = With(held, "lock") \ {r} /\ r \in With(held, "lock")
    BY <1>2 DEF With
  <2>2. \A w \in Clients :
          IF w = Client[r]
          THEN LockersOf(h, w) = LockersOf(held, w) \ {r} /\ r \in LockersOf(held, w)
          ELSE LockersOf(h, w) = LockersOf(held, w)
    BY <1>2 DEF LockersOf
  <2> HIDE DEF h
  <2>3. Cardinality(With(h, "lock")) = Cardinality(With(held, "lock")) - 1
    BY <2>1, LockersFinite, FS_RemoveElement
  <2>4. ASSUME NEW w \in Clients
        PROVE  Cardinality(LockersOf(h, w)) =
                 Cardinality(LockersOf(held, w)) - IF w = Client[r] THEN 1 ELSE 0
    <3>1. CASE w = Client[r]
      BY <2>2, <3>1, LockersFinite, FS_RemoveElement
    <3>2. CASE w # Client[r]
      BY <2>2, <3>2, LockersFinite
    <3> QED
      BY <3>1, <3>2
  <2>5. r \in LockersOf(held, Client[r])
    BY <1>2 DEF LockersOf
  <2>6. Cardinality(LockersOf(held, Client[r])) # 0 /\ Cardinality(With(held, "lock")) # 0
    BY <2>1, <2>5, LockersFinite, FS_EmptySet
  <2>7. Cardinality(LockersOf(held, Client[r])) > 0 /\ Cardinality(With(held, "lock")) > 0
    BY <2>6, LockersFinite
  <2> QED
    BY <2>3, <2>4, <2>7 DEF h
<1> QED
  BY <1>1, <1>2

-----------------------------------------------------------------------------
(* The methods, one lemma for each.                                        *)

\* From f to g only requests that wait are told anything: that they have what they
\* wait for.  Nobody joins a queue.
In(r, queue) == \E i \in DOMAIN queue : queue[i] = r

Grants(f, g) ==
  /\ \A q \in Requests : g.held[q] # f.held[q] =>
       \/ In(q, f.access) /\ g.held[q] = "access"
       \/ In(q, f.del) /\ g.held[q] = "unlink"
  /\ \A q : In(q, g.access) => In(q, f.access)
  /\ \A q : In(q, g.del) => In(q, f.del)

\* A grant is no lock.
LEMMA GrantsNoLock ==
  ASSUME NEW f, NEW g, Queued(f), Queued(g), Grants(f, g)
  PROVE  \A q \in Requests : g.held[q] = "lock" <=> f.held[q] = "lock"
BY DEF Grants, Queued, WaitsOnce, In

\* tryDelete()
LEMMA TryDeleteKeeps ==
  ASSUME NEW f, Queued(f)
  PROVE  LET g == TryDelete(f)
         IN /\ Queued(g)
            /\ FreeUnlocked(f) => FreeUnlocked(g)
            /\ Guarded(f) => Guarded(g)
            /\ HandedOver(f) => HandedOver(g)
            /\ g.multiLock = f.multiLock /\ g.access = f.access /\ g.accessing = f.accessing
            /\ Grants(f, g)
<1>1. CASE ~(CanBeDeleted(f) /\ f.del # <<>>)
  <2>1. TryDelete(f) = f
    BY <1>1 DEF TryDelete
  <2> QED
    BY <2>1 DEF Grants
<1>2. CASE CanBeDeleted(f) /\ f.del # <<>>
  <2> DEFINE s == IF IsDeleted(f) THEN f.state ELSE "deleting"
             h == [f.held EXCEPT ![Head(f.del)] = "unlink"]
             g == [f EXCEPT !.state = s, !.del = Tail(f.del), !.held = h]
  <2>1. TryDelete(f) = g
    BY <1>2 DEF TryDelete
  <2>2. /\ f \in Resolvers /\ f.access \in Seq(Requests) /\ f.del \in Seq(Requests)
        /\ f.held \in [Requests -> Held] /\ f.state \in States /\ f.accessing \in BOOLEAN
        /\ WaitsOnce(f.held, f.access) /\ WaitsOnce(f.held, f.del)
        /\ Disjoint(f.access, f.del) /\ OneAccess(f.held, f.accessing)
    BY FieldTypes DEF Queued
  <2>3. /\ Head(f.del) \in Requests /\ f.held[Head(f.del)] = "queued"
        /\ Tail(f.del) \in Seq(Requests) /\ WaitsOnce(f.held, Tail(f.del))
        /\ \A i \in DOMAIN Tail(f.del) : Tail(f.del)[i] # Head(f.del)
        /\ \A i \in DOMAIN Tail(f.del) : \E k \in DOMAIN f.del : Tail(f.del)[i] = f.del[k]
        /\ \E k \in DOMAIN f.del : Head(f.del) = f.del[k]
    BY <1>2, <2>2, WaitsOnceTail
  <2>4. h \in [Requests -> Held] /\ h[Head(f.del)] = "unlink"
        /\ \A q \in Requests \ {Head(f.del)} : h[q] = f.held[q]
    BY <2>2, <2>3 DEF Held
  <2>5. WaitsOnce(h, Tail(f.del))
    BY <2>2, <2>3, WaitsOnceTold
  <2>6. WaitsOnce(h, f.access)
    <3>1. \A i \in DOMAIN f.access : f.access[i] # Head(f.del)
      BY <2>2, <2>3 DEF Disjoint
    <3> QED
      BY <2>2, <2>3, <3>1, WaitsOnceTold
  <2>7. Disjoint(f.access, Tail(f.del))
    <3>1. Disjoint(f.del, f.access)
      BY <2>2, DisjointSym
    <3> QED
      BY <2>3, <3>1, DisjointFrom
  <2>8. OneAccess(h, f.accessing)
    BY <2>2, <2>3, OneAccessTold DEF Held
  <2>9. s \in {"deleting", "deleted"} /\ s \in States
    BY DEF IsDeleted, States
  <2> HIDE DEF s, h
  <2>10. /\ g \in Resolvers /\ g.multiLock = f.multiLock /\ g.access = f.access
         /\ g.accessing = f.accessing /\ g.state = s /\ g.del = Tail(f.del) /\ g.held = h
    BY <2>2, <2>3, <2>4, <2>9 DEF Resolvers
  <2> HIDE DEF g
  <2>11. Queued(g)
    BY <2>5, <2>6, <2>7, <2>8, <2>10 DEF Queued
  <2>12. Grants(f, g)
    BY <2>3, <2>4, <2>10 DEF Grants, In
  <2>13. IsDeleted(g) /\ FreeUnlocked(g)
    BY <2>9, <2>10 DEF IsDeleted, FreeUnlocked
  <2>14. Guarded(f) => Guarded(g)
    <3>1. f.state # "locked"
      BY <1>2 DEF CanBeDeleted
    <3>2. With(g.held, "lock") = With(f.held, "lock")
      BY <2>11, <2>12, GrantsNoLock DEF With
    <3> QED
      BY <2>13, <3>1, <3>2 DEF Guarded
  <2> QED
    BY <2>1, <2>10, <2>11, <2>12, <2>13, <2>14 DEF HandedOver
<1> QED
  BY <1>1, <1>2

\* A record with another state is as queued as before.
LEMMA StateQueued ==
  ASSUME NEW f, Queued(f), NEW s \in States
  PROVE  LET g == [f EXCEPT !.state = s]
         IN /\ Queued(g) /\ g.state = s /\ g.multiLock = f.multiLock /\ g.access = f.access
            /\ g.accessing = f.accessing /\ g.held = f.held /\ g.del = f.del
BY Fields DEF Queued

\* chkEmpty(), from any state: a free file has no lock afterwards, and the state is
\* right again when the counts are and nobody deletes.
LEMMA ChkEmptyKeeps ==
  ASSUME NEW f, Queued(f)
  PROVE  LET g == ChkEmpty(f)
         IN /\ Sound(g)
            /\ g.multiLock = f.multiLock /\ g.access = f.access /\ g.accessing = f.accessing
            /\ Grants(f, g)
            /\ Counts(f.multiLock, f.held) /\ With(f.held, "unlink") = {} => Guarded(g)
<1>1. f.multiLock.length \in Int /\ f \in Resolvers
  BY FieldTypes DEF Queued, Locks!MultiLocks
<1>2. Counts(f.multiLock, f.held) =>
        (With(f.held, "lock") = {} <=> f.multiLock.length = 0)
  BY LockersFinite, FS_EmptySet DEF Counts
<1>3. CASE f.multiLock.length = 0 /\ f.access = <<>> /\ f.accessing
  <2>1. ChkEmpty(f) = [f EXCEPT !.state = "access"] /\ "access" \in States
    BY <1>3 DEF ChkEmpty, States
  <2> DEFINE g == [f EXCEPT !.state = "access"]
  <2>2. /\ Queued(g) /\ g.state = "access" /\ g.multiLock = f.multiLock
        /\ g.access = f.access /\ g.accessing = f.accessing /\ g.held = f.held /\ g.del = f.del
    BY <2>1, StateQueued
  <2> HIDE DEF g
  <2>3. Sound(g) /\ Grants(f, g)
    BY <2>2 DEF Sound, FreeUnlocked, Grants
  <2>4. Counts(f.multiLock, f.held) /\ With(f.held, "unlink") = {} => Guarded(g)
    BY <1>2, <1>3, <2>2 DEF Guarded
  <2> QED
    BY <2>1, <2>2, <2>3, <2>4 DEF g
<1>4. CASE f.multiLock.length = 0 /\ f.access = <<>> /\ ~f.accessing
  <2> DEFINE e == [f EXCEPT !.state = "free"]
             g == TryDelete(e)
  <2>1. ChkEmpty(f) = g /\ "free" \in States
    BY <1>4 DEF ChkEmpty, States
  <2>2. /\ Queued(e) /\ e.state = "free" /\ e.multiLock = f.multiLock
        /\ e.access = f.access /\ e.accessing = f.accessing /\ e.held = f.held /\ e.del = f.del
    BY <2>1, StateQueued
  <2> HIDE DEF e
  <2>3. FreeUnlocked(e)
    BY <1>4, <2>2 DEF FreeUnlocked
  <2>4. /\ Queued(g) /\ FreeUnlocked(g) /\ (Guarded(e) => Guarded(g))
        /\ g.multiLock = f.multiLock /\ g.access = f.access /\ g.accessing = f.accessing
        /\ Grants(e, g)
    BY <2>2, <2>3, TryDeleteKeeps
  <2>5. Counts(f.multiLock, f.held) /\ With(f.held, "unlink") = {} => Guarded(e)
    BY <1>2, <1>4, <2>2 DEF Guarded
  <2> HIDE DEF g
  <2>6. Grants(f, g)
    BY <2>2, <2>4 DEF Grants
  <2> QED
    BY <2>1, <2>4, <2>5, <2>6 DEF Sound
<1>5. CASE ~(f.multiLock.length = 0 /\ f.access = <<>>)
  <2> DEFINE s == IF f.multiLock.length # 0 THEN "locked" ELSE f.state
             g == [f EXCEPT !.state = s]
  <2>1. ChkEmpty(f) = g
    BY <1>5 DEF ChkEmpty
  <2>2. s \in States
    BY <1>1, FieldTypes DEF States
  <2>3. /\ Queued(g) /\ g.state = s /\ g.multiLock = f.multiLock
        /\ g.access = f.access /\ g.accessing = f.accessing /\ g.held = f.held /\ g.del = f.del
    BY <2>2, StateQueued
  <2> HIDE DEF g
  <2>4. Sound(g) /\ Grants(f, g)
    BY <2>3 DEF Sound, FreeUnlocked, Grants
  <2>5. Counts(f.multiLock, f.held) /\ With(f.held, "unlink") = {} => Guarded(g)
    BY <1>2, <2>3 DEF Guarded
  <2> QED
    BY <2>1, <2>3, <2>4, <2>5
<1> QED
  BY <1>1, <1>3, <1>4, <1>5

\* tryAccess(): whatever it is called on, nobody is left to wait for nobody.
LEMMA TryAccessKeeps ==
  ASSUME NEW f, Sound(f)
  PROVE  LET g == TryAccess(f)
         IN /\ Sound(g) /\ HandedOver(g)
            /\ g.multiLock = f.multiLock
            /\ Grants(f, g)
            /\ Counts(f.multiLock, f.held) /\ Guarded(f) => Guarded(g)
<1>1. CASE IsDeleted(f) \/ f.accessing
  <2>1. TryAccess(f) = f
    BY <1>1 DEF TryAccess
  <2> QED
    BY <1>1, <2>1 DEF HandedOver, Grants
<1>2. CASE ~(IsDeleted(f) \/ f.accessing) /\ f.access # <<>>
  <2> DEFINE h == [f.held EXCEPT ![Head(f.access)] = "access"]
             g == [f EXCEPT !.access = Tail(f.access), !.accessing = TRUE, !.held = h]
  <2>1. TryAccess(f) = g
    BY <1>2 DEF TryAccess
  <2>2. /\ f \in Resolvers /\ f.access \in Seq(Requests) /\ f.del \in Seq(Requests)
        /\ f.held \in [Requests -> Held]
        /\ WaitsOnce(f.held, f.access) /\ WaitsOnce(f.held, f.del)
        /\ Disjoint(f.access, f.del) /\ OneAccess(f.held, f.accessing)
    BY FieldTypes DEF Sound, Queued
  <2>3. /\ Head(f.access) \in Requests /\ f.held[Head(f.access)] = "queued"
        /\ Tail(f.access) \in Seq(Requests) /\ WaitsOnce(f.held, Tail(f.access))
        /\ \A i \in DOMAIN Tail(f.access) : Tail(f.access)[i] # Head(f.access)
        /\ \A i \in DOMAIN Tail(f.access) :
             \E k \in DOMAIN f.access : Tail(f.access)[i] = f.access[k]
        /\ \E k \in DOMAIN f.access : Head(f.access) = f.access[k]
    BY <1>2, <2>2, WaitsOnceTail
  <2>4. h \in [Requests -> Held] /\ h[Head(f.access)] = "access"
        /\ \A q \in Requests \ {Head(f.access)} : h[q] = f.held[q]
    BY <2>2, <2>3 DEF Held
  <2>5. WaitsOnce(h, Tail(f.access))
    BY <2>2, <2>3, WaitsOnceTold
  <2>6. WaitsOnce(h, f.del)
    <3>1. \A i \in DOMAIN f.del : f.del[i] # Head(f.access)
      BY <2>2, <2>3 DEF Disjoint
    <3> QED
      BY <2>2, <2>3, <3>1, WaitsOnceTold
  <2>7. Disjoint(Tail(f.access), f.del)
    BY <2>2, <2>3, DisjointFrom
  <2>8. OneAccess(h, TRUE)
    BY <1>2, <2>2, <2>3, <2>4 DEF OneAccess
  <2> HIDE DEF h
  <2>9. /\ g \in Resolvers /\ g.multiLock = f.multiLock /\ g.access = Tail(f.access)
        /\ g.accessing = TRUE /\ g.state = f.state /\ g.del = f.del /\ g.held = h
    BY <2>2, <2>3, <2>4 DEF Resolvers
  <2> HIDE DEF g
  <2>10. Sound(g)
    BY <2>5, <2>6, <2>7, <2>8, <2>9 DEF Sound, Queued, FreeUnlocked
  <2>11. Grants(f, g)
    BY <2>3, <2>4, <2>9 DEF Grants, In
  <2>12. Guarded(f) => Guarded(g)
    <3>1. /\ With(g.held, "lock") = With(f.held, "lock")
          /\ With(g.held, "unlink") = With(f.held, "unlink")
      BY <2>3, <2>4, <2>9 DEF With
    <3> QED
      BY <2>9, <3>1 DEF Guarded, IsDeleted
  <2> QED
    BY <2>1, <2>9, <2>10, <2>11, <2>12 DEF HandedOver
<1>3. CASE ~(IsDeleted(f) \/ f.accessing) /\ f.access = <<>>
  <2> DEFINE g == ChkEmpty(f)
  <2>1. TryAccess(f) = g
    BY <1>3 DEF TryAccess
  <2>2. /\ Sound(g) /\ g.multiLock = f.multiLock /\ g.access = f.access
        /\ Grants(f, g)
        /\ Counts(f.multiLock, f.held) /\ With(f.held, "unlink") = {} => Guarded(g)
    BY ChkEmptyKeeps DEF Sound
  <2> HIDE DEF g
  <2>3. Guarded(f) => With(f.held, "unlink") = {}
    BY <1>3 DEF Guarded
  <2> QED
    BY <1>3, <2>1, <2>2, <2>3 DEF HandedOver, Grants
<1> QED
  BY <1>1, <1>2, <1>3

-----------------------------------------------------------------------------
(* The calls, in terms of the methods above.                               *)

\* What holds while callers release what they hold and nothing else.
Steady(f) == Counts(f.multiLock, f.held) /\ Guarded(f) /\ HandedOver(f)

\* From f to g the request r is told something of "what"; the others that wait may
\* be told that they have what they wait for.
Calls(f, g, r, what) ==
  /\ g.held[r] \in what
  /\ \A q \in Requests \ {r} : g.held[q] # f.held[q] =>
       \/ In(q, f.access) /\ g.held[q] = "access"
       \/ In(q, f.del) /\ g.held[q] = "unlink"
  /\ \A q : In(q, g.access) => In(q, f.access) \/ (q = r /\ "access" \in what)
  /\ \A q : In(q, g.del) => In(q, f.del) \/ (q = r /\ "unlink" \in what)

\* A request that does not wait is told something.
LEMMA TellKeeps ==
  ASSUME NEW f, Queued(f), NEW r \in Requests, f.held[r] \notin {"queued", "access"},
         NEW what \in Held \ {"access"}
  PROVE  LET g == Tell(f, r, what)
         IN /\ Queued(g)
            /\ g.multiLock = f.multiLock /\ g.access = f.access /\ g.del = f.del
            /\ g.accessing = f.accessing /\ g.state = f.state
            /\ g.held = [f.held EXCEPT ![r] = what] /\ g.held[r] = what
            /\ \A q \in Requests \ {r} : g.held[q] = f.held[q]
            /\ ~In(r, f.access) /\ ~In(r, f.del)
<1> DEFINE g == Tell(f, r, what)
<1>1. /\ f \in Resolvers /\ f.access \in Seq(Requests) /\ f.del \in Seq(Requests)
      /\ f.held \in [Requests -> Held] /\ f.accessing \in BOOLEAN
      /\ WaitsOnce(f.held, f.access) /\ WaitsOnce(f.held, f.del)
      /\ Disjoint(f.access, f.del) /\ OneAccess(f.held, f.accessing)
  BY FieldTypes DEF Queued
<1>2. /\ g \in Resolvers
      /\ g.multiLock = f.multiLock /\ g.access = f.access /\ g.del = f.del
      /\ g.accessing = f.accessing /\ g.state = f.state
      /\ g.held = [f.held EXCEPT ![r] = what] /\ g.held[r] = what
      /\ \A q \in Requests \ {r} : g.held[q] = f.held[q]
  BY <1>1, TellFields
<1> HIDE DEF g
<1>3. /\ \A i \in DOMAIN f.access : f.access[i] # r
      /\ \A i \in DOMAIN f.del : f.del[i] # r
  BY <1>1 DEF WaitsOnce
<1>4. /\ WaitsOnce([f.held EXCEPT ![r] = what], f.access)
      /\ WaitsOnce([f.held EXCEPT ![r] = what], f.del)
  BY <1>1, <1>3, WaitsOnceTold
<1>5. OneAccess([f.held EXCEPT ![r] = what], f.accessing)
  BY <1>1, OneAccessTold
<1>6. Queued(g)
  BY <1>1, <1>2, <1>4, <1>5 DEF Queued
<1> QED
  BY <1>2, <1>3, <1>6 DEF In, g

\* Who tells somebody that he waits, is refused or is done changes no lock and no
\* delete.
LEMMA TellCounts ==
  ASSUME NEW f, Queued(f), NEW r \in Requests, NEW h \in [Requests -> Held],
         f.held[r] \notin {"lock", "unlink"}, h[r] \notin {"lock", "unlink"},
         \A q \in Requests \ {r} : h[q] = f.held[q]
  PROVE  /\ With(h, "lock") = With(f.held, "lock")
         /\ With(h, "unlink") = With(f.held, "unlink")
         /\ Backed(f.multiLock, f.held) => Backed(f.multiLock, h)
         /\ Counts(f.multiLock, f.held) => Counts(f.multiLock, h)
<1>1. f.held \in [Requests -> Held]
  BY FieldTypes DEF Queued
<1>2. \A q \in Requests : h[q] = "lock" <=> f.held[q] = "lock"
  OBVIOUS
<1>3. With(h, "unlink") = With(f.held, "unlink")
  BY DEF With
<1> QED
  BY <1>1, <1>2, <1>3, LockersSame

\* After grants the locks held are the same.
LEMMA GrantsCounts ==
  ASSUME NEW f, NEW g, Queued(f), Queued(g), Grants(f, g), NEW lock
  PROVE  /\ Backed(lock, f.held) => Backed(lock, g.held)
         /\ Counts(lock, f.held) => Counts(lock, g.held)
<1>1. f.held \in [Requests -> Held] /\ g.held \in [Requests -> Held]
  BY FieldTypes DEF Queued
<1> QED
  BY <1>1, GrantsNoLock, LockersSame

\* lock()
LEMMA LockKeeps ==
  ASSUME NEW f, Sound(f), NEW r \in Requests, f.held[r] = "new"
  PROVE  LET g == Lock(f, r)
         IN /\ Sound(g) /\ Calls(f, g, r, {"lock", "refused"})
            /\ Backed(f.multiLock, f.held) => Backed(g.multiLock, g.held)
            /\ Steady(f) => Steady(g)
<1>1. /\ Queued(f) /\ f \in Resolvers /\ f.multiLock \in Locks!MultiLocks
      /\ f.held \in [Requests -> Held] /\ Client[r] \in Clients
  BY FieldTypes, ResolverFacts DEF Sound, Queued
<1>2. CASE IsDeleted(f)
  <2> DEFINE g == Tell(f, r, "refused")
  <2>1. Lock(f, r) = g
    BY <1>2 DEF Lock
  <2>2. /\ Queued(g) /\ g.multiLock = f.multiLock /\ g.access = f.access /\ g.del = f.del
        /\ g.accessing = f.accessing /\ g.state = f.state /\ g.held[r] = "refused"
        /\ g.held = [f.held EXCEPT ![r] = "refused"]
        /\ \A q \in Requests \ {r} : g.held[q] = f.held[q]
    BY <1>1, TellKeeps DEF Held
  <2> HIDE DEF g
  <2>3. g.held \in [Requests -> Held]
    BY <2>2, FieldTypes DEF Queued
  <2>4. /\ With(g.held, "lock") = With(f.held, "lock")
        /\ With(g.held, "unlink") = With(f.held, "unlink")
        /\ Backed(f.multiLock, f.held) => Backed(f.multiLock, g.held)
        /\ Counts(f.multiLock, f.held) => Counts(f.multiLock, g.held)
    BY <1>1, <2>2, <2>3, TellCounts
  <2>5. Steady(f) => Steady(g)
    BY <2>2, <2>4 DEF Steady, Guarded, HandedOver, IsDeleted
  <2>6. Sound(g)
    BY <2>2 DEF Sound, FreeUnlocked
  <2>7. Calls(f, g, r, {"lock", "refused"})
    BY <2>2 DEF Calls
  <2> QED
    BY <2>1, <2>2, <2>4, <2>5, <2>6, <2>7
<1>3. CASE ~IsDeleted(f)
  <2> DEFINE t == Tell(f, r, "lock")
             m == Locks!Acquired(f.multiLock, Client[r])
             g == [t EXCEPT !.multiLock = m, !.state = "locked"]
  <2>1. /\ Queued(t) /\ t.multiLock = f.multiLock /\ t.access = f.access /\ t.del = f.del
        /\ t.accessing = f.accessing /\ t.held = [f.held EXCEPT ![r] = "lock"]
        /\ t.held[r] = "lock" /\ \A q \in Requests \ {r} : t.held[q] = f.held[q]
    BY <1>1, TellKeeps DEF Held
  <2>2. Lock(f, r) = g
    BY <1>3, <2>1 DEF Lock
  <2>3. /\ m \in Locks!MultiLocks /\ m.length = f.multiLock.length + 1
        /\ \A w \in Clients :
             m.hash[w] = f.multiLock.hash[w] + IF w = Client[r] THEN 1 ELSE 0
        /\ f.multiLock.hash \in [Clients -> Nat] /\ f.multiLock.length \in Int
    BY <1>1 DEF Locks!MultiLocks, Locks!Acquired
  <2> HIDE DEF t, m
  <2>4. /\ g \in Resolvers /\ g.multiLock = m /\ g.access = t.access /\ g.del = t.del
        /\ g.accessing = t.accessing /\ g.state = "locked" /\ g.held = t.held
    BY <2>1, <2>3 DEF Queued, Resolvers, States
  <2> HIDE DEF g
  <2>5. Sound(g)
    BY <2>1, <2>4 DEF Sound, Queued, FreeUnlocked
  <2>6. Calls(f, g, r, {"lock", "refused"})
    BY <2>1, <2>4 DEF Calls
  <2>7. /\ Cardinality(With(t.held, "lock")) = Cardinality(With(f.held, "lock")) + 1
        /\ \A w \in Clients : Cardinality(LockersOf(t.held, w)) =
             Cardinality(LockersOf(f.held, w)) + IF w = Client[r] THEN 1 ELSE 0
    <3> DEFINE h == [f.held EXCEPT ![r] = "lock"]
    <3>1. /\ Cardinality(With(h, "lock")) = Cardinality(With(f.held, "lock")) + 1
          /\ \A w \in Clients : Cardinality(LockersOf(h, w)) =
               Cardinality(LockersOf(f.held, w)) + IF w = Client[r] THEN 1 ELSE 0
      BY <1>1, LockersChange
    <3> HIDE DEF h
    <3> QED
      BY <2>1, <3>1 DEF h
  <2>8. Backed(f.multiLock, f.held) => Backed(g.multiLock, g.held)
    BY <2>3, <2>4, <2>7, LockersFinite DEF Backed
  <2>9. Counts(f.multiLock, f.held) => Counts(g.multiLock, g.held)
    BY <2>3, <2>4, <2>7, LockersFinite DEF Counts
  <2>10. Guarded(f) => Guarded(g)
    <3>1. With(f.held, "unlink") = {} => With(g.held, "unlink") = {}
      BY <2>1, <2>4 DEF With
    <3> QED
      BY <1>3, <2>4, <3>1 DEF Guarded
  <2>11. HandedOver(f) => HandedOver(g)
    BY <1>3, <2>1, <2>4 DEF HandedOver
  <2> QED
    BY <2>2, <2>5, <2>6, <2>8, <2>9, <2>10, <2>11 DEF Steady
<1> QED
  BY <1>2, <1>3

\* unlock() of a record whose locks it has changed to m.
LEMMA UnlockKeeps ==
  ASSUME NEW t, Queued(t), NEW m \in Locks!MultiLocks
  PROVE  LET e == [t EXCEPT !.multiLock = m]
             g == ChkEmpty(e)
         IN /\ Sound(g) /\ Grants(t, g)
            /\ g.multiLock = m /\ g.access = t.access /\ g.accessing = t.accessing
            /\ Backed(m, t.held) => Backed(g.multiLock, g.held)
            /\ Counts(m, t.held) => Counts(g.multiLock, g.held)
            /\ Counts(m, t.held) /\ With(t.held, "unlink") = {} => Guarded(g)
<1> DEFINE e == [t EXCEPT !.multiLock = m]
           g == ChkEmpty(e)
<1>1. /\ Queued(e) /\ e.multiLock = m /\ e.access = t.access /\ e.del = t.del
      /\ e.accessing = t.accessing /\ e.held = t.held
  BY Fields DEF Queued
<1> HIDE DEF e
<1>2. /\ Sound(g) /\ Grants(e, g)
      /\ g.multiLock = m /\ g.access = t.access /\ g.accessing = t.accessing
      /\ Counts(m, t.held) /\ With(t.held, "unlink") = {} => Guarded(g)
  BY <1>1, ChkEmptyKeeps
<1> HIDE DEF g
<1>3. Grants(t, g)
  BY <1>1, <1>2 DEF Grants
<1>4. /\ Backed(m, e.held) => Backed(m, g.held)
      /\ Counts(m, e.held) => Counts(m, g.held)
  BY <1>1, <1>2, GrantsCounts DEF Sound
<1> QED
  BY <1>1, <1>2, <1>3, <1>4 DEF e, g

\* The clean-up callback of a lock: the count has the lock, so it is taken off.
LEMMA LockReleasedKeeps ==
  ASSUME NEW f, Sound(f), NEW r \in Requests, f.held[r] = "lock"
  PROVE  LET g == LockReleased(f, r)
         IN /\ Sound(g) /\ Calls(f, g, r, {"over"})
            /\ Backed(f.multiLock, f.held) => Backed(g.multiLock, g.held)
            /\ Steady(f) => Steady(g)
<1> DEFINE t == Tell(f, r, "over")
           m == IF Locks!CanRelease(f.multiLock, Client[r])
                THEN Locks!Released(f.multiLock, Client[r]) ELSE f.multiLock
           e == [t EXCEPT !.multiLock = m]
           g == ChkEmpty(e)
<1>1. /\ Queued(f) /\ f \in Resolvers /\ f.multiLock \in Locks!MultiLocks
      /\ f.held \in [Requests -> Held] /\ Client[r] \in Clients
  BY FieldTypes, ResolverFacts DEF Sound, Queued
<1>2. /\ Queued(t) /\ t.multiLock = f.multiLock /\ t.access = f.access /\ t.del = f.del
      /\ t.accessing = f.accessing /\ t.held = [f.held EXCEPT ![r] = "over"]
      /\ t.held[r] = "over" /\ \A q \in Requests \ {r} : t.held[q] = f.held[q]
      /\ ~In(r, f.access) /\ ~In(r, f.del)
  BY <1>1, TellKeeps DEF Held
<1>3. LockReleased(f, r) = g
  BY <1>2 DEF LockReleased, Unlock
<1>4. /\ m \in Locks!MultiLocks
      /\ \A w \in Clients : m.hash[w] = f.multiLock.hash[w]
           - IF w = Client[r] /\ f.multiLock.hash[w] > 0 THEN 1 ELSE 0
      /\ f.multiLock.hash[Client[r]] > 0 => m.length = f.multiLock.length - 1
      /\ f.multiLock.hash \in [Clients -> Nat] /\ f.multiLock.length \in Int
  BY <1>1 DEF Locks!MultiLocks, Locks!CanRelease, Locks!Released
<1> HIDE DEF t, m
<1>5. /\ Sound(g) /\ Grants(t, g)
      /\ g.multiLock = m /\ g.access = t.access /\ g.accessing = t.accessing
      /\ Backed(m, t.held) => Backed(g.multiLock, g.held)
      /\ Counts(m, t.held) => Counts(g.multiLock, g.held)
      /\ Counts(m, t.held) /\ With(t.held, "unlink") = {} => Guarded(g)
  BY <1>2, <1>4, UnlockKeeps
<1> HIDE DEF g
<1>6. /\ Cardinality(With(t.held, "lock")) = Cardinality(With(f.held, "lock")) - 1
      /\ \A w \in Clients : Cardinality(LockersOf(t.held, w)) =
           Cardinality(LockersOf(f.held, w)) - IF w = Client[r] THEN 1 ELSE 0
      /\ Cardinality(LockersOf(f.held, Client[r])) > 0
  <2> DEFINE h == [f.held EXCEPT ![r] = "over"]
  <2>1. /\ Cardinality(With(h, "lock")) = Cardinality(With(f.held, "lock")) - 1
        /\ \A w \in Clients : Cardinality(LockersOf(h, w)) =
             Cardinality(LockersOf(f.held, w)) - IF w = Client[r] THEN 1 ELSE 0
        /\ Cardinality(LockersOf(f.held, Client[r])) > 0
    BY <1>1, LockersChange
  <2> HIDE DEF h
  <2> QED
    BY <1>2, <2>1 DEF h
<1>7. Backed(f.multiLock, f.held) => Backed(m, t.held)
  BY <1>4, <1>6, LockersFinite DEF Backed
<1>8. Counts(f.multiLock, f.held) => Counts(m, t.held)
  BY <1>1, <1>4, <1>6, LockersFinite DEF Counts
<1>9. Guarded(f) => ~IsDeleted(f) /\ With(t.held, "unlink") = {}
  <2>1. r \in With(f.held, "lock")
    BY DEF With
  <2>2. Guarded(f) => ~IsDeleted(f) /\ With(f.held, "unlink") = {}
    BY <2>1 DEF Guarded, IsDeleted
  <2>3. With(t.held, "unlink") \subseteq With(f.held, "unlink")
    BY <1>2 DEF With
  <2> QED
    BY <2>2, <2>3
<1>10. Steady(f) => Steady(g)
  BY <1>2, <1>5, <1>8, <1>9 DEF Steady, HandedOver
<1>11. Calls(f, g, r, {"over"})
  BY <1>2, <1>5 DEF Calls, Grants
<1> QED
  BY <1>3, <1>5, <1>7, <1>10, <1>11

\* unlock() for a lock that was refused: one of the worker's other locks is counted
\* no more.
LEMMA RefusalReleasedKeeps ==
  ASSUME NEW f, Sound(f), NEW r \in Requests, f.held[r] = "refused"
  PROVE  LET g == Unlock(Tell(f, r, "over"), Client[r])
         IN /\ Sound(g) /\ Calls(f, g, r, {"over"})
            /\ Backed(f.multiLock, f.held) => Backed(g.multiLock, g.held)
<1> DEFINE t == Tell(f, r, "over")
           m == IF Locks!CanRelease(f.multiLock, Client[r])
                THEN Locks!Released(f.multiLock, Client[r]) ELSE f.multiLock
           e == [t EXCEPT !.multiLock = m]
           g == ChkEmpty(e)
<1>1. /\ Queued(f) /\ f \in Resolvers /\ f.multiLock \in Locks!MultiLocks
      /\ f.held \in [Requests -> Held] /\ Client[r] \in Clients
  BY FieldTypes, ResolverFacts DEF Sound, Queued
<1>2. /\ Queued(t) /\ t.multiLock = f.multiLock /\ t.access = f.access /\ t.del = f.del
      /\ t.accessing = f.accessing /\ t.held = [f.held EXCEPT ![r] = "over"]
      /\ t.held[r] = "over" /\ \A q \in Requests \ {r} : t.held[q] = f.held[q]
      /\ ~In(r, f.access) /\ ~In(r, f.del)
  BY <1>1, TellKeeps DEF Held
<1>3. Unlock(Tell(f, r, "over"), Client[r]) = g
  BY <1>2 DEF Unlock
<1>4. /\ m \in Locks!MultiLocks
      /\ \A w \in Clients : m.hash[w] <= f.multiLock.hash[w]
                            /\ m.hash[w] \in Nat /\ f.multiLock.hash[w] \in Nat
  BY <1>1 DEF Locks!MultiLocks, Locks!CanRelease, Locks!Released
<1> HIDE DEF t, m
<1>5. /\ Sound(g) /\ Grants(t, g)
      /\ g.multiLock = m /\ (Backed(m, t.held) => Backed(g.multiLock, g.held))
  BY <1>2, <1>4, UnlockKeeps
<1> HIDE DEF g
<1>6. Backed(f.multiLock, f.held) => Backed(f.multiLock, t.held)
  <2>1. t.held \in [Requests -> Held]
    BY <1>2, FieldTypes DEF Queued
  <2> QED
    BY <1>1, <1>2, <2>1, TellCounts
<1>7. Backed(f.multiLock, t.held) => Backed(m, t.held)
  BY <1>4, LockersFinite DEF Backed
<1>8. Calls(f, g, r, {"over"})
  BY <1>2, <1>5 DEF Calls, Grants
<1> QED
  BY <1>3, <1>5, <1>6, <1>7, <1>8

\* A request that joins a queue: it is in no other.
LEMMA JoinKeeps ==
  ASSUME NEW f, Sound(f), NEW r \in Requests, f.held[r] = "new"
  PROVE  LET t == Tell(f, r, "queued")
             a == [t EXCEPT !.access = Append(@, r)]
             d == [t EXCEPT !.del = Append(@, r)]
         IN /\ Sound(a) /\ a.multiLock = f.multiLock /\ a.state = f.state
            /\ a.accessing = f.accessing /\ a.access # <<>>
            /\ \A q : In(q, a.access) => In(q, f.access) \/ q = r
            /\ a.del = f.del /\ a.held = t.held
            /\ Sound(d) /\ d.multiLock = f.multiLock /\ d.state = f.state
            /\ d.accessing = f.accessing /\ d.access = f.access
            /\ \A q : In(q, d.del) => In(q, f.del) \/ q = r
            /\ d.held = t.held
            /\ t.held \in [Requests -> Held] /\ t.held[r] = "queued"
            /\ \A q \in Requests \ {r} : t.held[q] = f.held[q]
            /\ ~In(r, f.access) /\ ~In(r, f.del)
            /\ Backed(f.multiLock, f.held) => Backed(f.multiLock, t.held)
            /\ Steady(f) => Counts(f.multiLock, t.held) /\ Guarded(a) /\ Guarded(d)
                            /\ HandedOver(d)
<1> DEFINE t == Tell(f, r, "queued")
           a == [t EXCEPT !.access = Append(@, r)]
           d == [t EXCEPT !.del = Append(@, r)]
<1>1. /\ Queued(f) /\ f \in Resolvers /\ f.held \in [Requests -> Held]
  BY FieldTypes DEF Sound, Queued
<1>2. /\ Queued(t) /\ t.multiLock = f.multiLock /\ t.access = f.access /\ t.del = f.del
      /\ t.accessing = f.accessing /\ t.state = f.state
      /\ t.held = [f.held EXCEPT ![r] = "queued"]
      /\ t.held[r] = "queued" /\ \A q \in Requests \ {r} : t.held[q] = f.held[q]
      /\ ~In(r, f.access) /\ ~In(r, f.del)
  BY <1>1, TellKeeps DEF Held
<1> HIDE DEF t
<1>3. /\ t \in Resolvers /\ t.held \in [Requests -> Held]
      /\ t.access \in Seq(Requests) /\ t.del \in Seq(Requests)
      /\ WaitsOnce(t.held, t.access) /\ WaitsOnce(t.held, t.del)
      /\ Disjoint(t.access, t.del) /\ OneAccess(t.held, t.accessing)
      /\ \A i \in DOMAIN t.access : t.access[i] # r
      /\ \A i \in DOMAIN t.del : t.del[i] # r
  BY <1>2, FieldTypes DEF Queued, In
<1>4. /\ Append(t.access, r) \in Seq(Requests) /\ WaitsOnce(t.held, Append(t.access, r))
      /\ \A i \in DOMAIN Append(t.access, r) : Append(t.access, r)[i] = r
           \/ \E k \in DOMAIN t.access : Append(t.access, r)[i] = t.access[k]
  BY <1>2, <1>3, WaitsOnceAppend
<1>5. /\ Append(t.del, r) \in Seq(Requests) /\ WaitsOnce(t.held, Append(t.del, r))
      /\ \A i \in DOMAIN Append(t.del, r) : Append(t.del, r)[i] = r
           \/ \E k \in DOMAIN t.del : Append(t.del, r)[i] = t.del[k]
  BY <1>2, <1>3, WaitsOnceAppend
<1> DEFINE qa == Append(t.access, r)
           qd == Append(t.del, r)
<1> HIDE DEF qa, qd
<1>6. /\ a \in Resolvers /\ a.access = qa /\ a.multiLock = t.multiLock /\ a.del = t.del
      /\ a.accessing = t.accessing /\ a.state = t.state /\ a.held = t.held
  BY <1>3, <1>4 DEF qa, Resolvers
<1>7. /\ d \in Resolvers /\ d.del = qd /\ d.multiLock = t.multiLock /\ d.access = t.access
      /\ d.accessing = t.accessing /\ d.state = t.state /\ d.held = t.held
  BY <1>3, <1>5 DEF qd, Resolvers
<1> HIDE DEF a, d
<1>8. Disjoint(qa, t.del) /\ Disjoint(t.access, qd)
  BY <1>3, <1>4, <1>5 DEF Disjoint, qa, qd
<1>9. Sound(a)
  BY <1>2, <1>3, <1>4, <1>6, <1>8 DEF Sound, Queued, FreeUnlocked, qa
<1>10. Sound(d)
  BY <1>2, <1>3, <1>5, <1>7, <1>8 DEF Sound, Queued, FreeUnlocked, qd
<1>11. /\ \A q : In(q, a.access) => In(q, f.access) \/ q = r
       /\ \A q : In(q, d.del) => In(q, f.del) \/ q = r
  BY <1>2, <1>4, <1>5, <1>6, <1>7 DEF In, qa, qd
<1>12. /\ With(t.held, "lock") = With(f.held, "lock")
       /\ With(t.held, "unlink") = With(f.held, "unlink")
       /\ Backed(f.multiLock, f.held) => Backed(f.multiLock, t.held)
       /\ Counts(f.multiLock, f.held) => Counts(f.multiLock, t.held)
  BY <1>1, <1>2, <1>3, TellCounts
<1>13. Guarded(f) => Guarded(a) /\ Guarded(d)
  BY <1>2, <1>6, <1>7, <1>12 DEF Guarded, IsDeleted
<1>14. HandedOver(f) => HandedOver(d)
  BY <1>2, <1>7 DEF HandedOver, IsDeleted
<1>15. a.access # <<>>
  BY <1>3, <1>6, PushFacts DEF qa
<1> QED
  BY <1>2, <1>3, <1>6, <1>7, <1>9, <1>10, <1>11, <1>12, <1>13, <1>14, <1>15
     DEF t, a, d, Steady

\* hookAccess()
LEMMA HookAccessKeeps ==
  ASSUME NEW f, Sound(f), NEW r \in Requests, f.held[r] = "new"
  PROVE  LET g == HookAccess(f, r)
         IN /\ Sound(g) /\ Calls(f, g, r, {"queued", "access", "refused"})
            /\ Backed(f.multiLock, f.held) => Backed(g.multiLock, g.held)
            /\ Steady(f) => Steady(g)
<1>1. Queued(f) /\ f.held \in [Requests -> Held]
  BY FieldTypes DEF Sound, Queued
<1>2. CASE IsDeleted(f)
  <2> DEFINE g == Tell(f, r, "refused")
  <2>1. HookAccess(f, r) = g
    BY <1>2 DEF HookAccess
  <2>2. /\ Queued(g) /\ g.multiLock = f.multiLock /\ g.access = f.access /\ g.del = f.del
        /\ g.accessing = f.accessing /\ g.state = f.state /\ g.held[r] = "refused"
        /\ g.held = [f.held EXCEPT ![r] = "refused"]
        /\ \A q \in Requests \ {r} : g.held[q] = f.held[q]
    BY <1>1, TellKeeps DEF Held
  <2> HIDE DEF g
  <2>3. g.held \in [Requests -> Held]
    BY <2>2, FieldTypes DEF Queued
  <2>4. /\ With(g.held, "lock") = With(f.held, "lock")
        /\ With(g.held, "unlink") = With(f.held, "unlink")
        /\ Backed(f.multiLock, f.held) => Backed(f.multiLock, g.held)
        /\ Counts(f.multiLock, f.held) => Counts(f.multiLock, g.held)
    BY <1>1, <2>2, <2>3, TellCounts
  <2>5. Steady(f) => Steady(g)
    BY <2>2, <2>4 DEF Steady, Guarded, HandedOver, IsDeleted
  <2>6. Sound(g)
    BY <2>2 DEF Sound, FreeUnlocked
  <2>7. Calls(f, g, r, {"queued", "access", "refused"})
    BY <2>2 DEF Calls
  <2> QED
    BY <2>1, <2>2, <2>4, <2>5, <2>6, <2>7
<1>3. CASE ~IsDeleted(f)
  <2> DEFINE t == Tell(f, r, "queued")
             a == [t EXCEPT !.access = Append(@, r)]
             g == TryAccess(a)
  <2>1. HookAccess(f, r) = g
    BY <1>3 DEF HookAccess
  <2>2. /\ Sound(a) /\ a.multiLock = f.multiLock /\ a.state = f.state
        /\ \A q : In(q, a.access) => In(q, f.access) \/ q = r
        /\ a.del = f.del /\ a.held = t.held
        /\ t.held \in [Requests -> Held] /\ t.held[r] = "queued"
        /\ \A q \in Requests \ {r} : t.held[q] = f.held[q]
        /\ ~In(r, f.access) /\ ~In(r, f.del)
        /\ Backed(f.multiLock, f.held) => Backed(f.multiLock, t.held)
        /\ Steady(f) => Counts(f.multiLock, t.held) /\ Guarded(a)
    BY JoinKeeps
  <2> HIDE DEF t, a
  <2>3. /\ Sound(g) /\ HandedOver(g) /\ g.multiLock = a.multiLock /\ Grants(a, g)
        /\ Counts(a.multiLock, a.held) /\ Guarded(a) => Guarded(g)
    BY <2>2, TryAccessKeeps
  <2> HIDE DEF g
  <2>4. /\ Backed(a.multiLock, a.held) => Backed(a.multiLock, g.held)
        /\ Counts(a.multiLock, a.held) => Counts(a.multiLock, g.held)
    BY <2>2, <2>3, GrantsCounts DEF Sound
  <2>5. Calls(f, g, r, {"queued", "access", "refused"})
    BY <2>2, <2>3 DEF Calls, Grants
  <2>6. Steady(f) => Steady(g)
    BY <2>2, <2>3, <2>4 DEF Steady
  <2> QED
    BY <2>1, <2>2, <2>3, <2>4, <2>5, <2>6
<1> QED
  BY <1>2, <1>3

\* hookUnlink()
LEMMA HookUnlinkKeeps ==
  ASSUME NEW f, Sound(f), NEW r \in Requests, f.held[r] = "new"
  PROVE  LET g == HookUnlink(f, r)
         IN /\ Sound(g) /\ Calls(f, g, r, {"queued", "unlink"})
            /\ Backed(f.multiLock, f.held) => Backed(g.multiLock, g.held)
            /\ Steady(f) => Steady(g)
<1> DEFINE t == Tell(f, r, "queued")
           d == [t EXCEPT !.del = Append(@, r)]
           g == TryDelete(d)
<1>1. HookUnlink(f, r) = g
  BY DEF HookUnlink
<1>2. /\ Sound(d) /\ d.multiLock = f.multiLock /\ d.state = f.state
      /\ d.accessing = f.accessing /\ d.access = f.access
      /\ \A q : In(q, d.del) => In(q, f.del) \/ q = r
      /\ d.held = t.held
      /\ t.held \in [Requests -> Held] /\ t.held[r] = "queued"
      /\ \A q \in Requests \ {r} : t.held[q] = f.held[q]
      /\ ~In(r, f.access) /\ ~In(r, f.del)
      /\ Backed(f.multiLock, f.held) => Backed(f.multiLock, t.held)
      /\ Steady(f) => Counts(f.multiLock, t.held) /\ Guarded(d) /\ HandedOver(d)
  BY JoinKeeps
<1> HIDE DEF t, d
<1>3. /\ Queued(g) /\ (FreeUnlocked(d) => FreeUnlocked(g))
      /\ Guarded(d) => Guarded(g)
      /\ HandedOver(d) => HandedOver(g)
      /\ g.multiLock = d.multiLock
      /\ Grants(d, g)
  BY <1>2, TryDeleteKeeps DEF Sound
<1> HIDE DEF g
<1>4. Sound(g)
  BY <1>2, <1>3 DEF Sound
<1>5. /\ Backed(d.multiLock, d.held) => Backed(d.multiLock, g.held)
      /\ Counts(d.multiLock, d.held) => Counts(d.multiLock, g.held)
  BY <1>2, <1>3, GrantsCounts DEF Sound
<1>6. Calls(f, g, r, {"queued", "unlink"})
  BY <1>2, <1>3 DEF Calls, Grants
<1>7. Steady(f) => Steady(g)
  BY <1>2, <1>3, <1>5 DEF Steady
<1> QED
  BY <1>1, <1>2, <1>3, <1>4, <1>5, <1>6, <1>7

\* The clean-up callback of an access: nobody has one, and the next is tried.
LEMMA AccessReleasedKeeps ==
  ASSUME NEW f, Sound(f), NEW r \in Requests, f.held[r] = "access"
  PROVE  LET g == AccessReleased(f, r)
         IN /\ Sound(g) /\ Calls(f, g, r, {"over"})
            /\ Backed(f.multiLock, f.held) => Backed(g.multiLock, g.held)
            /\ Steady(f) => Steady(g)
<1> DEFINE t == Tell(f, r, "over")
           e == [t EXCEPT !.accessing = FALSE]
           g == TryAccess(e)
<1>1. /\ Queued(f) /\ f \in Resolvers /\ f.held \in [Requests -> Held]
      /\ f.access \in Seq(Requests) /\ f.del \in Seq(Requests)
      /\ WaitsOnce(f.held, f.access) /\ WaitsOnce(f.held, f.del)
      /\ Disjoint(f.access, f.del) /\ OneAccess(f.held, f.accessing)
  BY FieldTypes DEF Sound, Queued
<1>2. AccessReleased(f, r) = g
  BY DEF AccessReleased
<1>3. /\ t \in Resolvers
      /\ t.multiLock = f.multiLock /\ t.access = f.access /\ t.del = f.del
      /\ t.state = f.state /\ t.held = [f.held EXCEPT ![r] = "over"]
      /\ t.held[r] = "over" /\ \A q \in Requests \ {r} : t.held[q] = f.held[q]
  <2>1. "over" \in Held
    BY DEF Held
  <2> QED
    BY <1>1, <2>1, TellFields
<1> HIDE DEF t
<1>4. /\ e \in Resolvers /\ e.multiLock = t.multiLock /\ e.access = t.access /\ e.del = t.del
      /\ e.accessing = FALSE /\ e.state = t.state /\ e.held = t.held
  BY <1>3 DEF Resolvers
<1> HIDE DEF e
<1>5. /\ \A i \in DOMAIN f.access : f.access[i] # r
      /\ \A i \in DOMAIN f.del : f.del[i] # r
  BY <1>1 DEF WaitsOnce
<1>6. /\ WaitsOnce([f.held EXCEPT ![r] = "over"], f.access)
      /\ WaitsOnce([f.held EXCEPT ![r] = "over"], f.del)
  BY <1>1, <1>5, WaitsOnceTold
<1>7. OneAccess(e.held, FALSE)
  BY <1>1, <1>3, <1>4 DEF OneAccess
<1>8. Sound(e)
  <2>1. FreeUnlocked(e)
    BY <1>3, <1>4 DEF Sound, FreeUnlocked
  <2> QED
    BY <1>1, <1>3, <1>4, <1>6, <1>7, <2>1 DEF Sound, Queued
<1>9. t.held \in [Requests -> Held]
  BY <1>3, FieldTypes
<1>10. /\ With(t.held, "lock") = With(f.held, "lock")
       /\ With(t.held, "unlink") = With(f.held, "unlink")
       /\ Backed(f.multiLock, f.held) => Backed(f.multiLock, t.held)
       /\ Counts(f.multiLock, f.held) => Counts(f.multiLock, t.held)
  BY <1>1, <1>3, <1>9, TellCounts
<1>11. Guarded(f) => Guarded(e)
  BY <1>3, <1>4, <1>10 DEF Guarded, IsDeleted
<1>12. /\ Sound(g) /\ HandedOver(g) /\ g.multiLock = e.multiLock /\ Grants(e, g)
       /\ Counts(e.multiLock, e.held) /\ Guarded(e) => Guarded(g)
  BY <1>8, TryAccessKeeps
<1> HIDE DEF g
<1>13. /\ Backed(e.multiLock, e.held) => Backed(e.multiLock, g.held)
       /\ Counts(e.multiLock, e.held) => Counts(e.multiLock, g.held)
  BY <1>8, <1>12, GrantsCounts DEF Sound
<1>14. Calls(f, g, r, {"over"})
  BY <1>3, <1>4, <1>5, <1>12 DEF Calls, Grants, In
<1>15. Steady(f) => Steady(g)
  BY <1>3, <1>4, <1>10, <1>11, <1>12, <1>13 DEF Steady
<1> QED
  BY <1>2, <1>3, <1>4, <1>10, <1>12, <1>13, <1>14, <1>15

\* The clean-up callback of a delete: the file is deleted, other deletes may follow.
LEMMA UnlinkReleasedKeeps ==
  ASSUME NEW f, Sound(f), NEW r \in Requests, f.held[r] = "unlink"
  PROVE  LET g == UnlinkReleased(f, r)
         IN /\ Sound(g) /\ Calls(f, g, r, {"over"})
            /\ Backed(f.multiLock, f.held) => Backed(g.multiLock, g.held)
            /\ Steady(f) => Steady(g)
<1> DEFINE t == Tell(f, r, "over")
           e == [t EXCEPT !.state = "deleted"]
           g == TryDelete(e)
<1>1. Queued(f) /\ f.held \in [Requests -> Held]
  BY FieldTypes DEF Sound, Queued
<1>2. UnlinkReleased(f, r) = g
  BY DEF UnlinkReleased
<1>3. /\ Queued(t) /\ t.multiLock = f.multiLock /\ t.access = f.access /\ t.del = f.del
      /\ t.accessing = f.accessing /\ t.held = [f.held EXCEPT ![r] = "over"]
      /\ t.held[r] = "over" /\ \A q \in Requests \ {r} : t.held[q] = f.held[q]
      /\ ~In(r, f.access) /\ ~In(r, f.del)
  BY <1>1, TellKeeps DEF Held
<1> HIDE DEF t
<1>4. /\ Queued(e) /\ e.state = "deleted" /\ e.multiLock = t.multiLock
      /\ e.access = t.access /\ e.accessing = t.accessing /\ e.held = t.held
      /\ e.del = t.del
  BY <1>3, StateQueued DEF States
<1> HIDE DEF e
<1>5. FreeUnlocked(e) /\ HandedOver(e)
  BY <1>4 DEF FreeUnlocked, HandedOver, IsDeleted
<1>6. t.held \in [Requests -> Held]
  BY <1>3, FieldTypes DEF Queued
<1>7. With(t.held, "lock") = With(f.held, "lock")
  BY <1>3 DEF With
<1>8. /\ Backed(f.multiLock, f.held) => Backed(f.multiLock, t.held)
      /\ Counts(f.multiLock, f.held) => Counts(f.multiLock, t.held)
  <2>1. \A q \in Requests : t.held[q] = "lock" <=> f.held[q] = "lock"
    BY <1>3
  <2> QED
    BY <1>1, <1>6, <2>1, LockersSame
<1>9. Guarded(f) => Guarded(e)
  <2>1. r \in With(f.held, "unlink")
    BY DEF With
  <2> QED
    BY <1>4, <1>7, <2>1 DEF Guarded, IsDeleted
<1>10. /\ Queued(g) /\ FreeUnlocked(g) /\ HandedOver(g)
       /\ Guarded(e) => Guarded(g)
       /\ g.multiLock = e.multiLock /\ Grants(e, g)
  BY <1>4, <1>5, TryDeleteKeeps
<1> HIDE DEF g
<1>11. /\ Backed(e.multiLock, e.held) => Backed(e.multiLock, g.held)
       /\ Counts(e.multiLock, e.held) => Counts(e.multiLock, g.held)
  BY <1>4, <1>10, GrantsCounts
<1>12. Calls(f, g, r, {"over"})
  BY <1>3, <1>4, <1>10 DEF Calls, Grants
<1>13. Steady(f) => Steady(g)
  BY <1>3, <1>4, <1>8, <1>9, <1>10, <1>11 DEF Steady
<1> QED
  BY <1>2, <1>3, <1>4, <1>8, <1>10, <1>11, <1>12, <1>13 DEF Sound

\* What clean() and unhook() do, for one worker or for all.
Cleans(f, g) ==
  \/ \E w \in Clients : g \in {CleanAccess(f, w), CleanLock(f, w), CleanUnlink(f, w)}
  \/ g \in {CleanAccessAll(f), CleanLockAll(f), CleanUnlinkAll(f)}
  \/ \E r \in Requests : g \in {UnhookAccess(f, r), UnhookUnlink(f, r)}

\* A queue some of whose requests are gone.
LEMMA ShorterKeeps ==
  ASSUME NEW f, Sound(f), NEW q \in Seq(Requests)
  PROVE  /\ WaitsOnce(f.held, q) /\ (\A x : In(x, q) => In(x, f.access)) =>
              Sound([f EXCEPT !.access = q])
         /\ WaitsOnce(f.held, q) /\ (\A x : In(x, q) => In(x, f.del)) =>
              Sound([f EXCEPT !.del = q])
<1>1. /\ Queued(f) /\ f \in Resolvers
      /\ WaitsOnce(f.held, f.access) /\ WaitsOnce(f.held, f.del)
      /\ Disjoint(f.access, f.del) /\ OneAccess(f.held, f.accessing)
  BY DEF Sound, Queued
<1>2. ASSUME WaitsOnce(f.held, q), \A x : In(x, q) => In(x, f.access)
      PROVE  Sound([f EXCEPT !.access = q])
  <2> DEFINE g == [f EXCEPT !.access = q]
  <2>1. /\ g \in Resolvers /\ g.multiLock = f.multiLock /\ g.access = q /\ g.del = f.del
        /\ g.accessing = f.accessing /\ g.state = f.state /\ g.held = f.held
    BY <1>1, Fields
  <2> HIDE DEF g
  <2>2. Disjoint(q, f.del)
    BY <1>1, <1>2 DEF Disjoint, In
  <2>3. Sound(g)
    BY <1>1, <1>2, <2>1, <2>2 DEF Sound, Queued, FreeUnlocked
  <2> QED
    BY <2>3 DEF g
<1>3. ASSUME WaitsOnce(f.held, q), \A x : In(x, q) => In(x, f.del)
      PROVE  Sound([f EXCEPT !.del = q])
  <2> DEFINE g == [f EXCEPT !.del = q]
  <2>1. /\ g \in Resolvers /\ g.multiLock = f.multiLock /\ g.access = f.access /\ g.del = q
        /\ g.accessing = f.accessing /\ g.state = f.state /\ g.held = f.held
    BY <1>1, Fields
  <2> HIDE DEF g
  <2>2. Disjoint(f.access, q)
    BY <1>1, <1>3 DEF Disjoint, In
  <2>3. Sound(g)
    BY <1>1, <1>3, <2>1, <2>2 DEF Sound, Queued, FreeUnlocked
  <2> QED
    BY <2>3 DEF g
<1> QED
  BY <1>2, <1>3

LEMMA RestKeeps ==
  ASSUME NEW f, Sound(f), NEW kept
  PROVE  LET a == [f EXCEPT !.access = Rest(@, kept)]
             d == [f EXCEPT !.del = Rest(@, kept)]
         IN /\ Sound(a) /\ a.multiLock = f.multiLock /\ a.held = f.held
            /\ Sound(d) /\ d.multiLock = f.multiLock /\ d.held = f.held
<1> DEFINE qa == Rest(f.access, kept)
           qd == Rest(f.del, kept)
<1>1. /\ f \in Resolvers /\ f.held \in [Requests -> Held]
      /\ f.access \in Seq(Requests) /\ f.del \in Seq(Requests)
      /\ WaitsOnce(f.held, f.access) /\ WaitsOnce(f.held, f.del)
  BY FieldTypes DEF Sound, Queued
<1>2. /\ qa \in Seq(Requests) /\ WaitsOnce(f.held, qa)
      /\ \A i \in DOMAIN qa : \E k \in DOMAIN f.access : qa[i] = f.access[k]
  BY <1>1, WaitsOnceRest
<1>3. /\ qd \in Seq(Requests) /\ WaitsOnce(f.held, qd)
      /\ \A i \in DOMAIN qd : \E k \in DOMAIN f.del : qd[i] = f.del[k]
  BY <1>1, WaitsOnceRest
<1> HIDE DEF qa, qd
<1>4. Sound([f EXCEPT !.access = qa]) /\ Sound([f EXCEPT !.del = qd])
  <2>1. /\ \A x : In(x, qa) => In(x, f.access)
        /\ \A x : In(x, qd) => In(x, f.del)
    BY <1>2, <1>3 DEF In
  <2> QED
    BY <1>2, <1>3, <2>1, ShorterKeeps
<1>5. LET a == [f EXCEPT !.access = qa]
          d == [f EXCEPT !.del = qd]
      IN /\ a.multiLock = f.multiLock /\ a.held = f.held
         /\ d.multiLock = f.multiLock /\ d.held = f.held
  BY <1>1, Fields
<1> QED
  BY <1>4, <1>5 DEF qa, qd

\* tryAccess() after a queue has become shorter.
LEMMA RetriedKeeps ==
  ASSUME NEW f, NEW e, Sound(e), e.multiLock = f.multiLock, e.held = f.held,
         Backed(f.multiLock, f.held)
  PROVE  LET g == TryAccess(e) IN Sound(g) /\ Backed(g.multiLock, g.held)
<1>1. LET g == TryAccess(e) IN Sound(g) /\ g.multiLock = e.multiLock /\ Grants(e, g)
  BY TryAccessKeeps
<1> DEFINE g == TryAccess(e)
<1> HIDE DEF g
<1>2. Backed(e.multiLock, e.held) => Backed(e.multiLock, g.held)
  BY <1>1, GrantsCounts DEF Sound, g
<1> QED
  BY <1>1, <1>2 DEF g

\* cleanLock(): counts go to zero.
LEMMA CleanLockKeeps ==
  ASSUME NEW f, Sound(f), NEW m \in Locks!MultiLocks, Backed(f.multiLock, f.held),
         \A w \in Clients : m.hash[w] = 0 \/ m.hash[w] = f.multiLock.hash[w]
  PROVE  LET g == ChkEmpty([f EXCEPT !.multiLock = m])
         IN Sound(g) /\ Backed(g.multiLock, g.held)
<1>1. Backed(m, f.held)
  BY LockersFinite DEF Backed
<1> QED
  BY <1>1, UnlockKeeps DEF Sound

LEMMA CleansKeeps ==
  ASSUME NEW f, NEW g, Sound(f), Backed(f.multiLock, f.held), Cleans(f, g)
  PROVE  Sound(g) /\ Backed(g.multiLock, g.held)
<1>1. /\ f \in Resolvers /\ f.multiLock \in Locks!MultiLocks
      /\ f.multiLock.hash \in [Clients -> Nat] /\ f.multiLock.length \in Int
      /\ WaitsOnce(f.held, <<>>) /\ <<>> \in Seq(Requests)
      /\ \A x : ~In(x, <<>>)
  BY FieldTypes DEF Sound, Queued, WaitsOnce, In, Locks!MultiLocks
<1>2. ASSUME NEW w \in Clients, g \in {CleanAccess(f, w), CleanUnlink(f, w)}
      PROVE  Sound(g) /\ Backed(g.multiLock, g.held)
  <2> DEFINE kept == {q \in Requests : Client[q] # w}
             a == [f EXCEPT !.access = Rest(@, kept)]
             d == [f EXCEPT !.del = Rest(@, kept)]
  <2>1. g = a \/ g = d
    BY <1>2 DEF CleanAccess, CleanUnlink, NotOf
  <2> HIDE DEF kept
  <2>2. /\ Sound(a) /\ a.multiLock = f.multiLock /\ a.held = f.held
        /\ Sound(d) /\ d.multiLock = f.multiLock /\ d.held = f.held
    BY RestKeeps
  <2> HIDE DEF a, d
  <2> QED
    BY <2>1, <2>2
<1>3. ASSUME NEW w \in Clients, g = CleanLock(f, w)
      PROVE  Sound(g) /\ Backed(g.multiLock, g.held)
  <2> DEFINE m == Locks!Cleaned(f.multiLock, w)
  <2>1. m \in Locks!MultiLocks
        /\ \A v \in Clients : m.hash[v] = 0 \/ m.hash[v] = f.multiLock.hash[v]
    BY <1>1 DEF Locks!Cleaned, Locks!MultiLocks
  <2>2. g = ChkEmpty([f EXCEPT !.multiLock = m])
    BY <1>3 DEF CleanLock
  <2> HIDE DEF m
  <2> QED
    BY <2>1, <2>2, CleanLockKeeps
<1>4. CASE g \in {CleanAccessAll(f), CleanUnlinkAll(f)}
  <2>1. Sound([f EXCEPT !.access = <<>>]) /\ Sound([f EXCEPT !.del = <<>>])
    BY <1>1, ShorterKeeps
  <2>2. LET a == [f EXCEPT !.access = <<>>]
            d == [f EXCEPT !.del = <<>>]
        IN /\ a.multiLock = f.multiLock /\ a.held = f.held
           /\ d.multiLock = f.multiLock /\ d.held = f.held
    BY <1>1, Fields
  <2> QED
    BY <1>4, <2>1, <2>2 DEF CleanAccessAll, CleanUnlinkAll
<1>5. CASE g = CleanLockAll(f)
  <2>1. Locks!NoLocks \in Locks!MultiLocks /\ \A v \in Clients : Locks!NoLocks.hash[v] = 0
    BY DEF Locks!NoLocks, Locks!MultiLocks
  <2>2. g = ChkEmpty([f EXCEPT !.multiLock = Locks!NoLocks])
    BY <1>5 DEF CleanLockAll
  <2> QED
    BY <2>1, <2>2, CleanLockKeeps
<1>6. ASSUME NEW r \in Requests, g \in {UnhookAccess(f, r), UnhookUnlink(f, r)}
      PROVE  Sound(g) /\ Backed(g.multiLock, g.held)
  <2> DEFINE kept == {q \in Requests : Client[q] = Client[r] \/ q = r}
             a == [f EXCEPT !.access = Rest(@, kept)]
             d == [f EXCEPT !.del = Rest(@, kept)]
  <2>1. g = f \/ g = TryAccess(a) \/ g = TryAccess(d)
    BY <1>6 DEF UnhookAccess, UnhookUnlink, Kept
  <2> HIDE DEF kept
  <2>2. /\ Sound(a) /\ a.multiLock = f.multiLock /\ a.held = f.held
        /\ Sound(d) /\ d.multiLock = f.multiLock /\ d.held = f.held
    BY RestKeeps
  <2> HIDE DEF a, d
  <2> QED
    BY <2>1, <2>2, RetriedKeeps
<1> QED
  BY <1>2, <1>3, <1>4, <1>5, <1>6 DEF Cleans

-----------------------------------------------------------------------------
(* The invariants of the resolver, and what it promises.                   *)

ResolverInv ==
  /\ refusals \in BOOLEAN /\ cleaning \in BOOLEAN
  /\ Sound(fpr) /\ Backed(fpr.multiLock, fpr.held)
  /\ ~refusals /\ ~cleaning => Steady(fpr)

LEMMA NewIsSound == Sound(New) /\ Backed(New.multiLock, New.held) /\ Steady(New)
<1>1. Locks!NoLocks \in Locks!MultiLocks
  BY DEF Locks!NoLocks, Locks!MultiLocks
<1>2. /\ New \in Resolvers /\ New.access = <<>> /\ New.del = <<>> /\ New.state = "free"
      /\ New.accessing = FALSE /\ New.held = [r \in Requests |-> "new"]
      /\ New.multiLock = Locks!NoLocks
  BY <1>1 DEF New, Resolvers, States, Held
<1>3. Sound(New)
  BY <1>2 DEF Sound, Queued, FreeUnlocked, WaitsOnce, Disjoint, OneAccess, Locks!NoLocks
<1>4. /\ With(New.held, "lock") = {} /\ With(New.held, "unlink") = {}
      /\ \A w \in Clients : LockersOf(New.held, w) = {}
  BY <1>2 DEF With, LockersOf
<1>5. Cardinality({}) = 0
  BY FS_EmptySet
<1>6. Counts(New.multiLock, New.held) /\ Backed(New.multiLock, New.held)
  <2>1. New.multiLock.length = 0 /\ \A w \in Clients : New.multiLock.hash[w] = 0
    BY <1>2 DEF Locks!NoLocks
  <2> QED
    BY <1>4, <1>5, <2>1 DEF Counts, Backed
<1> QED
  BY <1>2, <1>3, <1>4, <1>6 DEF Steady, Guarded, HandedOver

LEMMA ResolverInit == Init => ResolverInv
BY NewIsSound DEF Init, ResolverInv

LEMMA ResolverNext == ResolverInv /\ [Next]_vars => ResolverInv'
<1> SUFFICES ASSUME ResolverInv, [Next]_vars
             PROVE  ResolverInv'
  OBVIOUS
<1> USE DEF ResolverInv
<1>1. ASSUME NEW r \in Requests, Ask(r)
      PROVE  ResolverInv'
  <2>1. CASE fpr' = Lock(fpr, r)
    BY <1>1, <2>1, LockKeeps DEF Ask, usage
  <2>2. CASE fpr' = HookAccess(fpr, r)
    BY <1>1, <2>2, HookAccessKeeps DEF Ask, usage
  <2>3. CASE fpr' = HookUnlink(fpr, r)
    BY <1>1, <2>3, HookUnlinkKeeps DEF Ask, usage
  <2> QED
    BY <1>1, <2>1, <2>2, <2>3 DEF Ask
<1>2. ASSUME NEW r \in Requests, Release(r)
      PROVE  ResolverInv'
  <2>1. CASE fpr.held[r] = "lock" /\ fpr' = LockReleased(fpr, r)
    BY <1>2, <2>1, LockReleasedKeeps DEF Release, usage
  <2>2. CASE fpr.held[r] = "access" /\ fpr' = AccessReleased(fpr, r)
    BY <1>2, <2>2, AccessReleasedKeeps DEF Release, usage
  <2>3. CASE fpr.held[r] = "unlink" /\ fpr' = UnlinkReleased(fpr, r)
    BY <1>2, <2>3, UnlinkReleasedKeeps DEF Release, usage
  <2> QED
    BY <1>2, <2>1, <2>2, <2>3 DEF Release
<1>3. ASSUME NEW r \in Requests, ReleaseRefused(r)
      PROVE  ResolverInv'
  BY <1>3, RefusalReleasedKeeps DEF ReleaseRefused, usage
<1>4. ASSUME cleaning, Cleans(fpr, fpr'), UNCHANGED usage
      PROVE  ResolverInv'
  BY <1>4, CleansKeeps DEF usage
<1>5. CASE UNCHANGED vars
  BY <1>5 DEF vars, usage
<1> QED
  BY <1>1, <1>2, <1>3, <1>4, <1>5 DEF Next, CleanWorker, CleanAll, Unhook, Cleans

LEMMA ResolverInvariant == Spec => []ResolverInv
BY ResolverInit, ResolverNext, PTL DEF Spec

\* The record keeps its shape and its requests whatever is called.
THEOREM TypeCorrect == Spec => []TypeOK
<1>1. ResolverInv => TypeOK
  BY DEF ResolverInv, TypeOK, Sound, Queued
<1> QED
  BY <1>1, ResolverInvariant, PTL

\* tryAccess and its callers: one write is out, exactly while "accessing" says so,
\* whatever is released, refused, cleaned or unhooked.
THEOREM OneWriterAtOnce == Spec => []OneWriter
<1>1. ResolverInv => OneWriter
  BY DEF ResolverInv, Sound, Queued, OneAccess, OneWriter, HoldersOf
<1> QED
  BY <1>1, ResolverInvariant, PTL

\* lock, unlock, chkEmpty: no more locks are counted than held, and a free file has
\* none; while callers behave the counts are exact and the state says "locked".
THEOREM LocksAreCounted == Spec => []LocksCounted
<1>1. ResolverInv => LocksCounted
  <2> SUFFICES ASSUME ResolverInv PROVE LocksCounted
    OBVIOUS
  <2>1. \A w \in Clients : LockersOf(fpr.held, w) = {r \in HoldersOf("lock") : Client[r] = w}
    BY DEF LockersOf, HoldersOf
  <2>2. With(fpr.held, "lock") = HoldersOf("lock")
    BY DEF With, HoldersOf
  <2>3. LocksBacked
    BY <2>1 DEF LocksBacked, ResolverInv, Sound, Backed, FreeUnlocked
  <2>4. LockedWhileHeld
    BY <2>1, <2>2 DEF LockedWhileHeld, ResolverInv, Steady, Counts, Guarded
  <2> QED
    BY <2>3, <2>4 DEF LocksCounted
<1> QED
  BY <1>1, ResolverInvariant, PTL

\* canBeDeleted: a delete is granted only when nobody has a lock.
THEOREM DeletesWaitForLocks == Spec => DeleteWaitsForLocks
<1>1. ResolverInv' /\ [Next]_vars =>
        [~refusals /\ ~cleaning => ~DeleteUnderLock]_vars
  <2> SUFFICES ASSUME ResolverInv', [Next]_vars, ~refusals, ~cleaning,
                      NEW r \in Requests, fpr'.held[r] = "unlink",
                      NEW q \in Requests
               PROVE  fpr'.held[q] # "lock"
    BY DEF DeleteUnderLock
  <2>1. ~refusals' /\ ~cleaning'
    BY DEF Next, Ask, Release, ReleaseRefused, CleanWorker, CleanAll, Unhook, vars, usage
  <2>2. Guarded(fpr')
    BY <2>1 DEF ResolverInv, Steady
  <2>3. r \in With(fpr'.held, "unlink")
    BY DEF With
  <2>4. With(fpr'.held, "lock") = {}
    BY <2>2, <2>3 DEF Guarded, IsDeleted
  <2> QED
    BY <2>4 DEF With
<1> QED
  BY <1>1, ResolverInvariant, PTL DEF Spec, DeleteWaitsForLocks
=============================================================================
