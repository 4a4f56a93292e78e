----------------------- MODULE ConcurrentQueueProofs -----------------------
(***************************************************************************)
(* concurrent_queue over circular_queue implements a bounded deque, for    *)
(* every number of callers, every kind and every size of the queue.        *)
(***************************************************************************)
EXTENDS ConcurrentQueue, FiniteSetTheorems, TLAPS

\* Head and tail are places of the ring.
Bounds(r) ==
    /\ r.nlen \in Nat \ {0}
    /\ r.head \in 0..(r.nlen - 1) /\ r.tail \in 0..(r.nlen - 1)

\* A ring is a record of these four fields, and vec has a value at every place.
Shape(r) ==
    /\ DOMAIN r = {"vec", "head", "tail", "nlen"}
    /\ r = [f \in DOMAIN r |-> r[f]]
    /\ r.vec = [i \in 0..(r.nlen - 1) |-> r.vec[i]]

IsRing(r) == Bounds(r) /\ Shape(r)

QueueInv == IsRing(ring)

\* next and prev stay in the ring and undo each other.
LEMMA NextPrev ==
  ASSUME NEW r, Bounds(r), NEW i \in 0..(r.nlen - 1)
  PROVE  /\ R!next(r, i) \in 0..(r.nlen - 1) /\ R!prev(r, i) \in 0..(r.nlen - 1)
         /\ R!next(r, R!prev(r, i)) = i
<1>1. PICK n \in Nat : r.nlen = n /\ n > 0
  BY DEF Bounds
<1>2. i \in Nat /\ i < n
  BY <1>1
<1>3. CASE i = 0
  BY <1>1, <1>2, <1>3 DEF R!next, R!prev
<1>4. CASE i > 0
  BY <1>1, <1>2, <1>4 DEF R!next, R!prev
<1> QED
  BY <1>2, <1>3, <1>4

\* The content of a ring is a sequence of size elements, one place fewer than the ring has.
LEMMA ItemsType ==
  ASSUME NEW r, Bounds(r)
  PROVE  /\ R!size(r) \in 0..(r.nlen - 1)
         /\ Len(R!Items(r)) = R!size(r)
         /\ DOMAIN R!Items(r) = 1..R!size(r)
         /\ R!empty(r) <=> R!size(r) = 0
         /\ R!full(r) <=> R!size(r) = r.nlen - 1
         /\ R!Items(r) = <<>> <=> R!size(r) = 0
<1>1. R!size(r) \in 0..(r.nlen - 1)
  BY DEF Bounds, R!size
<1>2. DOMAIN R!Items(r) = 1..R!size(r)
  BY DEF R!Items
<1>3. Len(R!Items(r)) = R!size(r)
  BY <1>1, <1>2 DEF R!Items
<1>4. (R!empty(r) <=> R!size(r) = 0) /\ (R!full(r) <=> R!size(r) = r.nlen - 1)
  BY DEF Bounds, R!size, R!empty, R!full, R!next
<1>5. R!Items(r) = <<>> <=> R!size(r) = 0
  BY <1>1, <1>2, <1>3 DEF R!Items
<1> QED
  BY <1>1, <1>2, <1>3, <1>4, <1>5

\* push_back puts the value behind the content.
LEMMA PushBack ==
  ASSUME NEW r, IsRing(r), ~R!full(r), NEW v
  PROVE  /\ IsRing(R!push_back(r, v)) /\ R!push_back(r, v).nlen = r.nlen
         /\ R!size(R!push_back(r, v)) = R!size(r) + 1
         /\ R!Items(R!push_back(r, v)) = Append(R!Items(r), v)
<1> DEFINE q == R!push_back(r, v)
<1>1. /\ q.nlen = r.nlen /\ q.head = r.head /\ q.tail = R!next(r, r.tail)
      /\ q.vec = [r.vec EXCEPT ![r.tail] = v]
  BY DEF R!push_back, IsRing, Shape
<1>2. Shape(q)
  BY <1>1 DEF R!push_back, IsRing, Shape, Bounds
<1>3. Bounds(q)
  BY <1>1, NextPrev DEF IsRing, Bounds
<1>4. R!size(q) = R!size(r) + 1
  BY <1>1 DEF R!size, R!full, R!next, IsRing, Bounds
<1>5. \A i \in 1..R!size(r) : R!Elem(q, i - 1) = R!Elem(r, i - 1)
  BY <1>1 DEF R!Elem, R!real_index, R!next_n, R!size, IsRing, Bounds, Shape
<1>6. R!Elem(q, R!size(r)) = v
  <2>1. R!real_index(q, R!size(r)) = r.tail
    BY <1>1 DEF R!real_index, R!next_n, R!size, IsRing, Bounds
  <2> QED
    BY <1>1, <2>1 DEF R!Elem, IsRing, Shape, Bounds
<1> HIDE DEF q
<1>7. R!Items(q) = Append(R!Items(r), v)
  BY <1>3, <1>4, <1>5, <1>6, ItemsType DEF R!Items, IsRing
<1> QED
  BY <1>1, <1>2, <1>3, <1>4, <1>7 DEF q, IsRing

\* push_front puts the value before the content.
LEMMA PushFront ==
  ASSUME NEW r, IsRing(r), ~R!full(r), NEW v
  PROVE  /\ IsRing(R!push_front(r, v)) /\ R!push_front(r, v).nlen = r.nlen
         /\ R!size(R!push_front(r, v)) = R!size(r) + 1
         /\ R!Items(R!push_front(r, v)) = <<v>> \o R!Items(r)
<1> DEFINE q == R!push_front(r, v)
           h == R!prev(r, r.head)
<1>1. /\ q.nlen = r.nlen /\ q.head = h /\ q.tail = r.tail
      /\ q.vec = [r.vec EXCEPT ![h] = v]
  BY DEF R!push_front, IsRing, Shape
<1>2. Shape(q)
  BY <1>1 DEF R!push_front, IsRing, Shape, Bounds
<1>3. Bounds(q)
  BY <1>1, NextPrev DEF IsRing, Bounds
<1>4. R!size(q) = R!size(r) + 1
  BY <1>1 DEF R!size, R!full, R!next, R!prev, IsRing, Bounds
<1>5. \A i \in 1..R!size(r) : R!Elem(q, i) = R!Elem(r, i - 1)
  <2> SUFFICES ASSUME NEW i \in 1..R!size(r)
               PROVE  R!Elem(q, i) = R!Elem(r, i - 1)
    OBVIOUS
  <2>1. R!real_index(q, i) = R!real_index(r, i - 1)
    BY <1>1 DEF R!real_index, R!next_n, R!prev, R!size, IsRing, Bounds
  <2>2. R!real_index(r, i - 1) # h /\ R!real_index(r, i - 1) \in 0..(r.nlen - 1)
    BY DEF R!real_index, R!next_n, R!prev, R!size, R!full, R!next, IsRing, Bounds
  <2> QED
    BY <1>1, <2>1, <2>2 DEF R!Elem, IsRing, Shape
<1>6. R!Elem(q, 0) = v
  BY <1>1, NextPrev DEF R!Elem, R!real_index, R!next_n, IsRing, Shape, Bounds
<1> HIDE DEF q
<1>7. R!Items(q) = <<v>> \o R!Items(r)
  BY <1>3, <1>4, <1>5, <1>6, ItemsType DEF R!Items, IsRing
<1> QED
  BY <1>1, <1>2, <1>3, <1>4, <1>7 DEF q, IsRing

\* pop_front takes away the first element, which is what front returns.
LEMMA PopFront ==
  ASSUME NEW r, IsRing(r), ~R!empty(r)
  PROVE  /\ IsRing(R!pop_front(r)) /\ R!pop_front(r).nlen = r.nlen
         /\ R!size(R!pop_front(r)) = R!size(r) - 1
         /\ R!front(r) = R!Items(r)[1]
         /\ R!Items(R!pop_front(r)) = Tail(R!Items(r))
<1> DEFINE q == R!pop_front(r)
<1>1. q.nlen = r.nlen /\ q.head = R!next(r, r.head) /\ q.tail = r.tail /\ q.vec = r.vec
  BY DEF R!pop_front, IsRing, Shape
<1>2. Shape(q)
  BY <1>1 DEF R!pop_front, IsRing, Shape
<1>3. Bounds(q)
  BY <1>1, NextPrev DEF IsRing, Bounds
<1>4. R!size(q) = R!size(r) - 1
  BY <1>1 DEF R!size, R!empty, R!next, IsRing, Bounds
<1>5. \A i \in 1..R!size(q) : R!Elem(q, i - 1) = R!Elem(r, i)
  BY <1>1 DEF R!Elem, R!real_index, R!next_n, R!size, R!empty, R!next, IsRing, Bounds
<1>6. R!front(r) = R!Items(r)[1]
  BY ItemsType DEF R!Items, R!Elem, R!real_index, R!next_n, R!front, IsRing, Bounds
<1> HIDE DEF q
<1>7. R!Items(q) = Tail(R!Items(r))
  BY <1>3, <1>4, <1>5, ItemsType DEF R!Items, IsRing
<1> QED
  BY <1>1, <1>2, <1>3, <1>4, <1>6, <1>7 DEF q, IsRing

\* pop_back takes away the last element, which is what back returns.
LEMMA PopBack ==
  ASSUME NEW r, IsRing(r), ~R!empty(r)
  PROVE  /\ IsRing(R!pop_back(r)) /\ R!pop_back(r).nlen = r.nlen
         /\ R!size(R!pop_back(r)) = R!size(r) - 1
         /\ R!back(r) = R!Items(r)[Len(R!Items(r))]
         /\ R!Items(R!pop_back(r)) = SubSeq(R!Items(r), 1, Len(R!Items(r)) - 1)
<1> DEFINE q == R!pop_back(r)
<1>1. q.nlen = r.nlen /\ q.head = r.head /\ q.tail = R!prev(r, r.tail) /\ q.vec = r.vec
  BY DEF R!pop_back, IsRing, Shape
<1>2. Shape(q)
  BY <1>1 DEF R!pop_back, IsRing, Shape
<1>3. Bounds(q)
  BY <1>1, NextPrev DEF IsRing, Bounds
<1>4. R!size(q) = R!size(r) - 1
  BY <1>1 DEF R!size, R!empty, R!prev, IsRing, Bounds
<1>5. \A i \in 1..R!size(q) : R!Elem(q, i - 1) = R!Elem(r, i - 1)
  BY <1>1 DEF R!Elem, R!real_index, R!next_n, R!size, R!empty, R!prev, IsRing, Bounds
<1>6. R!size(r) \in 1..(r.nlen - 1) /\ R!real_index(r, R!size(r) - 1) = R!prev(r, r.tail)
  BY DEF R!real_index, R!next_n, R!size, R!empty, R!prev, IsRing, Bounds
<1>7. R!back(r) = R!Items(r)[Len(R!Items(r))]
  BY <1>6, ItemsType DEF R!Items, R!Elem, R!back, IsRing
<1> HIDE DEF q
<1>8. R!Items(q) = SubSeq(R!Items(r), 1, Len(R!Items(r)) - 1)
  BY <1>3, <1>4, <1>5, ItemsType DEF R!Items, IsRing
<1> QED
  BY <1>1, <1>2, <1>3, <1>4, <1>7, <1>8 DEF q, IsRing

\* A new queue is an empty ring.
LEMMA NewQueueIsRing ==
  ASSUME NEW k \in QueueKinds, NEW n \in QueueSizes
  PROVE  IsRing(NewQueue(k, n)) /\ R!empty(NewQueue(k, n))
<1>1. PICK cap \in Nat \ {0} : NewQueue(k, n) = R!NewRing(cap, NoValue)
  BY QueueAssumption DEF NewQueue
<1>2. IsRing(R!NewRing(cap, NoValue)) /\ R!empty(R!NewRing(cap, NoValue))
  BY DEF R!NewRing, R!empty, IsRing, Bounds, Shape
<1> QED
  BY <1>1, <1>2

\* Every step of a caller keeps the ring, and is a put, a take or no step of the deque.
LEMMA QueueStepSimulates ==
  ASSUME QueueInv, [QueueNext]_queueVars
  PROVE  QueueInv' /\ [Deque!DequeNext]_(Deque!dequeVars)
<1> USE DEF QueueInv
<1>1. ASSUME NEW c \in Callers, Push(c) PROVE QueueInv' /\ Deque!DequePut(c)
  <2> DEFINE v == <<c, count[c]>>
  <2>1. ~R!full(ring) /\ got' = got /\ count' = count
        /\ (ring' = R!push_back(ring, v) \/ ring' = R!push_front(ring, v))
    BY <1>1 DEF Push, Ready
  <2>2. /\ IsRing(ring') /\ ring'.nlen = ring.nlen
        /\ R!Items(ring') = Append(R!Items(ring), v) \/ R!Items(ring') = <<v>> \o R!Items(ring)
    <3> HIDE DEF v
    <3> QED BY <2>1, PushBack, PushFront
  <2>3. Len(R!Items(ring)) < ring.nlen - 1
    BY <2>1, ItemsType DEF IsRing, Bounds
  <2> QED
    BY <2>1, <2>2, <2>3 DEF Deque!DequePut
<1>2. ASSUME NEW c \in Callers, Pop(c) PROVE QueueInv' /\ Deque!DequeTake(c)
  <2>1. ~R!empty(ring)
    BY <1>2 DEF Pop, Ready, IsPop, IsPush
  <2>2. R!Items(ring) # <<>>
    BY <2>1, ItemsType DEF IsRing
  <2>3. CASE call[c].op = "pop_front"
    BY <1>2, <2>1, <2>2, <2>3, PopFront DEF Pop, Deque!DequeTake
  <2>4. CASE call[c].op # "pop_front"
    BY <1>2, <2>1, <2>2, <2>4, PopBack DEF Pop, Deque!DequeTake
  <2> QED
    BY <2>3, <2>4
<1>3. ASSUME NEW c \in Callers, Enter(c) PROVE QueueInv' /\ Deque!DequeCall(c)
  BY <1>3 DEF Enter, Deque!DequeCall
<1>4. ASSUME UNCHANGED <<ring, count, got>> PROVE QueueInv' /\ UNCHANGED Deque!dequeVars
  BY <1>4 DEF Deque!dequeVars
<1>5. ASSUME NEW c \in Callers, Wait(c) \/ Spurious(c) \/ Timeout(c) \/ LateTimeout(c)
      PROVE  UNCHANGED <<ring, count, got>>
  BY <1>5 DEF Wait, Spurious, Timeout, LateTimeout
<1>6. UNCHANGED queueVars => UNCHANGED <<ring, count, got>>
  BY DEF queueVars
<1> QED
  BY <1>1, <1>2, <1>3, <1>4, <1>5, <1>6 DEF QueueNext, QueueStep, Deque!DequeNext

\* Waits, wake-ups, timeouts and the wrap-around of the ring do not show: what the callers of
\* push_back, push_front, pop_front and pop_back see is one bounded sequence.
THEOREM QueueIsDeque == QueueSpec => ImplementsDeque
<1>1. QueueInit => QueueInv /\ Deque!DequeInit
  <2> SUFFICES ASSUME QueueInit PROVE QueueInv /\ Deque!DequeInit
    OBVIOUS
  <2>1. IsRing(ring) /\ R!empty(ring)
    BY NewQueueIsRing DEF QueueInit
  <2>2. R!Items(ring) = <<>> /\ ring.nlen - 1 \in Nat
    BY <2>1, ItemsType DEF IsRing, Bounds
  <2> QED
    BY <2>1, <2>2 DEF QueueInit, QueueInv, Deque!DequeInit
<1> QED
  BY <1>1, QueueStepSimulates, PTL DEF QueueSpec, ImplementsDeque, Deque!DequeSpec

----------------------------------------------------------------------------
(* Wake-ups *)

CallTypeOK ==
    /\ call \in [Callers -> Calls \cup {NoCall}]
    /\ waiting \subseteq {c \in Callers : InCall(c)}

\* While someone waits for an element (a free place), at least as many are awake to take one as
\* there are elements (free places): every push and every pop adds one and wakes one.
WakeupsSuffice ==
    /\ Poppers \cap waiting # {} => Cardinality(Poppers \ waiting) >= R!size(ring)
    /\ Pushers \cap waiting # {} => Cardinality(Pushers \ waiting) >= ring.nlen - 1 - R!size(ring)

WakeInv == QueueInv /\ CallTypeOK /\ WakeupsSuffice /\ (kind = "fiber" => waiting = {})

\* The callers that are awake and want to push, or to pop, are finitely many.
LEMMA AwakeFinite ==
  /\ IsFiniteSet(Poppers \ waiting) /\ Cardinality(Poppers \ waiting) \in Nat
  /\ IsFiniteSet(Pushers \ waiting) /\ Cardinality(Pushers \ waiting) \in Nat
<1>1. Poppers \ waiting \in SUBSET Callers /\ Pushers \ waiting \in SUBSET Callers
  BY DEF Poppers, Pushers
<1>2. IsFiniteSet(Poppers \ waiting) /\ IsFiniteSet(Pushers \ waiting)
  BY <1>1, FS_Subset, QueueAssumption
<1> QED
  BY <1>2, FS_CardinalityType

\* A call is a push or a pop, not both.
LEMMA PushOrPop ==
  ASSUME CallTypeOK, NEW c \in Callers
  PROVE  /\ ~(IsPush(c) /\ IsPop(c))
         /\ InCall(c) <=> IsPush(c) \/ IsPop(c)
  BY QueueAssumption DEF CallTypeOK, IsPush, IsPop, InCall, NoCall, Ops

\* A set that is as it was, or has one element more, is not smaller.
LEMMA GrowCount ==
  ASSUME NEW A, NEW B, NEW c, IsFiniteSet(A), B = A \/ B = A \cup {c}
  PROVE  Cardinality(B) \in Nat /\ Cardinality(A) \in Nat /\ Cardinality(B) >= Cardinality(A)
<1>1. CASE B = A
  BY <1>1, FS_CardinalityType
<1>2. CASE B = A \cup {c}
  <2>1. Cardinality(A) \in Nat /\ Cardinality(A \cup {c}) \in {Cardinality(A), Cardinality(A) + 1}
    BY FS_CardinalityType, FS_AddElement
  <2>2. Cardinality(B) = Cardinality(A \cup {c})
    BY <1>2
  <2> QED
    BY <2>1, <2>2
<1> QED
  BY <1>1, <1>2

\* notify_one of those of B that wait: W becomes V.
WakeOne(B, W, V) == (B \cap W = {} /\ V = W) \/ (\E w \in B \cap W : V = W \ {w})

\* c, of kind A, is served.
Served(A, B, W, V, c) ==
    /\ (A \ {c}) \cap V = A \cap W
    /\ Cardinality((A \ {c}) \ V) = Cardinality(A \ W) - 1
    /\ B \cap V # {} => Cardinality(B \ V) = Cardinality(B \ W) + 1

\* How the counts change when c, of kind A, is served and one of kind B is woken if any waits.
LEMMA ServeCounts ==
  ASSUME NEW A, NEW B, NEW W, NEW V, NEW c, A \cap B = {}, c \in A, c \notin W,
         IsFiniteSet(A \ W), IsFiniteSet(B \ W), WakeOne(B, W, V)
  PROVE  Served(A, B, W, V, c)
<1> USE DEF WakeOne, Served
<1>1. (A \ {c}) \cap V = A \cap W /\ (A \ {c}) \ V = (A \ W) \ {c} /\ c \in A \ W
  OBVIOUS
<1>2. Cardinality((A \ {c}) \ V) = Cardinality(A \ W) - 1
  BY <1>1, FS_RemoveElement
<1>3. ASSUME NEW w \in B \cap W, V = W \ {w} PROVE Cardinality(B \ V) = Cardinality(B \ W) + 1
  <2>1. B \ V = (B \ W) \cup {w} /\ w \notin B \ W
    BY <1>3
  <2> QED
    BY <2>1, FS_AddElement
<1> QED
  BY <1>1, <1>2, <1>3

\* Every step preserves the invariant of the wake-ups.
LEMMA WakeInvNext ==
  ASSUME WakeInv, [QueueNext]_queueVars
  PROVE  WakeInv'
<1> USE DEF WakeInv
<1> DEFINE Free == ring.nlen - 1 - R!size(ring)
<1>1. QueueInv' /\ QueueInv
  BY QueueStepSimulates
<1>2. R!size(ring) \in Nat /\ ring.nlen \in Nat /\ Free \in Nat
  BY <1>1, ItemsType DEF QueueInv, IsRing, Bounds
<1>3. (R!full(ring) <=> Free = 0) /\ (R!empty(ring) <=> R!size(ring) = 0)
  BY <1>1, <1>2, ItemsType DEF QueueInv, IsRing
<1>4. Pushers \cap Poppers = {}
  BY PushOrPop DEF Pushers, Poppers
<1>5. ASSUME NEW c \in Callers, Push(c) PROVE WakeInv'
  <2>1. /\ IsPush(c) /\ c \notin waiting /\ ~R!full(ring) /\ kind' = kind
        /\ \E v : ring' = R!push_back(ring, v) \/ ring' = R!push_front(ring, v)
    BY <1>5 DEF Push, Ready
  <2>2. R!size(ring') = R!size(ring) + 1 /\ ring'.nlen = ring.nlen
    BY <1>1, <2>1, PushBack, PushFront DEF QueueInv
  <2>3. call' = [call EXCEPT ![c] = NoCall]
    BY <1>5 DEF Push, Return
  <2>4. Pushers' = Pushers \ {c} /\ Poppers' = Poppers
    BY <2>1, <2>3, PushOrPop DEF Pushers, Poppers, IsPush, IsPop, NoCall, CallTypeOK
  <2>5. CASE kind = "fiber"
    <3>1. waiting' = {}
      BY <1>5, <2>5 DEF Push
    <3> QED
      BY <1>1, <2>3, <3>1 DEF CallTypeOK, WakeupsSuffice
  <2>6. CASE kind # "fiber"
    <3>1. WakeOne(Poppers, waiting, waiting')
      BY <1>5, <2>6 DEF Push, Notify, WakeOne
    <3>2. CallTypeOK'
      BY <2>1, <2>3, <3>1 DEF CallTypeOK, InCall, WakeOne
    <3>3. Served(Pushers, Poppers, waiting, waiting', c)
      <4>1. c \in Pushers
        BY <2>1 DEF Pushers
      <4>2. IsFiniteSet(Pushers \ waiting) /\ IsFiniteSet(Poppers \ waiting)
        BY AwakeFinite
      <4>3. c \notin waiting
        BY <2>1
      <4> HIDE DEF WakeInv
      <4> QED
        BY <1>4, <3>1, <4>1, <4>2, <4>3, ServeCounts, Zenon
    <3>4. Poppers \cap waiting' # {} => Poppers \cap waiting # {}
      BY <3>1 DEF WakeOne
    <3>5. WakeupsSuffice'
      BY <1>2, <2>2, <2>4, <3>3, <3>4, AwakeFinite DEF WakeupsSuffice, Served
    <3> QED
      BY <1>1, <2>1, <2>6, <3>2, <3>5
  <2> QED
    BY <2>5, <2>6
<1>6. ASSUME NEW c \in Callers, Pop(c) PROVE WakeInv'
  <2>1. /\ IsPop(c) /\ c \notin waiting /\ ~R!empty(ring) /\ kind' = kind
        /\ ring' = R!pop_back(ring) \/ ring' = R!pop_front(ring)
    BY <1>6 DEF Pop, Ready, IsPop, IsPush
  <2>2. R!size(ring') = R!size(ring) - 1 /\ ring'.nlen = ring.nlen
    BY <1>1, <2>1, PopBack, PopFront DEF QueueInv
  <2>3. call' = [call EXCEPT ![c] = NoCall]
    BY <1>6 DEF Pop, Return
  <2>4. Poppers' = Poppers \ {c} /\ Pushers' = Pushers
    BY <2>1, <2>3, PushOrPop DEF Pushers, Poppers, IsPush, IsPop, NoCall, CallTypeOK
  <2>5. CASE kind = "fiber"
    <3>1. waiting' = {}
      BY <1>6, <2>5 DEF Pop
    <3> QED
      BY <1>1, <2>3, <3>1 DEF CallTypeOK, WakeupsSuffice
  <2>6. CASE kind # "fiber"
    <3>1. WakeOne(Pushers, waiting, waiting')
      BY <1>6, <2>6 DEF Pop, Notify, WakeOne
    <3>2. CallTypeOK'
      BY <2>1, <2>3, <3>1 DEF CallTypeOK, InCall, WakeOne
    <3>3. Served(Poppers, Pushers, waiting, waiting', c)
      <4>1. c \in Poppers /\ Poppers \cap Pushers = {}
        BY <1>4, <2>1 DEF Poppers
      <4>2. IsFiniteSet(Pushers \ waiting) /\ IsFiniteSet(Poppers \ waiting)
        BY AwakeFinite
      <4>3. c \notin waiting
        BY <2>1
      <4> HIDE DEF WakeInv
      <4> QED
        BY <3>1, <4>1, <4>2, <4>3, ServeCounts, Zenon
    <3>4. Pushers \cap waiting' # {} => Pushers \cap waiting # {}
      BY <3>1 DEF WakeOne
    <3>5. WakeupsSuffice'
      BY <1>2, <2>2, <2>4, <3>3, <3>4, AwakeFinite DEF WakeupsSuffice, Served
    <3> QED
      BY <1>1, <2>1, <2>6, <3>2, <3>5
  <2> QED
    BY <2>5, <2>6
<1>7. ASSUME NEW c \in Callers, Enter(c) PROVE WakeInv'
  <2>1. PICK k \in Calls : call' = [call EXCEPT ![c] = k]
    BY <1>7 DEF Enter
  <2>2. ~InCall(c) /\ c \notin waiting /\ UNCHANGED <<ring, waiting, kind>>
    BY <1>7 DEF Enter, CallTypeOK
  <2>3. CallTypeOK'
    BY <2>1, <2>2, QueueAssumption DEF CallTypeOK, InCall, Ops, NoCall
  <2>4. \A S \in {Pushers, Poppers} : c \notin S
    BY <2>2, PushOrPop DEF Pushers, Poppers
  <2>5. Pushers' \in {Pushers, Pushers \cup {c}} /\ Poppers' \in {Poppers, Poppers \cup {c}}
    <3>1. \A d \in Callers \ {c} : IsPush(d)' = IsPush(d) /\ IsPop(d)' = IsPop(d)
      BY <2>1 DEF IsPush, IsPop, CallTypeOK
    <3> QED
      BY <2>4, <3>1 DEF Pushers, Poppers
  <2>6. /\ Pushers' \cap waiting = Pushers \cap waiting
        /\ Pushers' \ waiting = Pushers \ waiting \/ Pushers' \ waiting = (Pushers \ waiting) \cup {c}
        /\ Poppers' \cap waiting = Poppers \cap waiting
        /\ Poppers' \ waiting = Poppers \ waiting \/ Poppers' \ waiting = (Poppers \ waiting) \cup {c}
    BY <2>2, <2>5
  <2>7. /\ Cardinality(Pushers' \ waiting) >= Cardinality(Pushers \ waiting)
        /\ Cardinality(Poppers' \ waiting) >= Cardinality(Poppers \ waiting)
        /\ Cardinality(Pushers' \ waiting) \in Nat /\ Cardinality(Poppers' \ waiting) \in Nat
    BY <2>6, AwakeFinite, GrowCount
  <2>8. WakeupsSuffice'
    BY <1>2, <2>2, <2>6, <2>7, AwakeFinite DEF WakeupsSuffice
  <2> QED
    BY <1>1, <2>2, <2>3, <2>8
<1>8. ASSUME NEW c \in Callers, Wait(c) PROVE WakeInv'
  <2>1. /\ InCall(c) /\ ~Ready(c) /\ waiting' = waiting \cup {c} /\ kind # "fiber"
        /\ UNCHANGED <<kind, ring, call>>
    BY <1>8 DEF Wait
  <2>2. CallTypeOK'
    BY <2>1 DEF CallTypeOK, InCall
  <2>3. /\ Pushers' = Pushers /\ Poppers' = Poppers
        /\ Cardinality(Pushers' \ waiting') \in Nat /\ Cardinality(Poppers' \ waiting') \in Nat
    <3>1. Pushers' = Pushers /\ Poppers' = Poppers
      BY <2>1 DEF Pushers, Poppers, IsPush, IsPop
    <3>2. /\ Pushers' \ waiting' = (Pushers \ waiting) \ {c}
          /\ Poppers' \ waiting' = (Poppers \ waiting) \ {c}
      BY <2>1, <3>1
    <3> QED
      BY <3>1, <3>2, AwakeFinite, FS_RemoveElement, FS_CardinalityType
  <2>4. CASE IsPush(c)
    <3>1. Free = 0 /\ c \notin Poppers
      BY <1>3, <2>1, <2>4, PushOrPop DEF Ready, Poppers
    <3>2. Poppers' \cap waiting' = Poppers \cap waiting /\ Poppers' \ waiting' = Poppers \ waiting
      BY <2>1, <2>3, <3>1
    <3>3. Poppers' \cap waiting' # {} => Cardinality(Poppers' \ waiting') >= R!size(ring')
      BY <2>1, <3>2 DEF WakeupsSuffice
    <3>4. Cardinality(Pushers' \ waiting') >= ring'.nlen - 1 - R!size(ring')
      BY <1>2, <2>1, <2>3, <3>1
    <3> QED
      BY <1>1, <2>1, <2>2, <3>3, <3>4 DEF WakeupsSuffice
  <2>5. CASE ~IsPush(c)
    <3>1. R!size(ring) = 0 /\ c \notin Pushers
      BY <1>3, <2>1, <2>5 DEF Ready, Pushers
    <3>2. Pushers' \cap waiting' = Pushers \cap waiting /\ Pushers' \ waiting' = Pushers \ waiting
      BY <2>1, <2>3, <3>1
    <3> QED
      BY <1>1, <1>2, <2>1, <2>2, <2>3, <3>1, <3>2 DEF WakeupsSuffice
  <2> QED
    BY <2>4, <2>5
<1>9. ASSUME NEW c \in Callers, Spurious(c) \/ LateTimeout(c) PROVE WakeInv'
  <2>1. c \in waiting /\ waiting' = waiting \ {c} /\ UNCHANGED <<kind, ring, call>>
    BY <1>9 DEF Spurious, LateTimeout
  <2>2. CallTypeOK'
    BY <2>1 DEF CallTypeOK, InCall
  <2>3. Pushers' = Pushers /\ Poppers' = Poppers
    BY <2>1 DEF Pushers, Poppers, IsPush, IsPop
  <2>4. /\ Pushers \ waiting' = Pushers \ waiting \/ Pushers \ waiting' = (Pushers \ waiting) \cup {c}
        /\ Poppers \ waiting' = Poppers \ waiting \/ Poppers \ waiting' = (Poppers \ waiting) \cup {c}
        /\ Pushers \cap waiting' \subseteq Pushers \cap waiting
        /\ Poppers \cap waiting' \subseteq Poppers \cap waiting
    BY <2>1
  <2>5. /\ Cardinality(Pushers \ waiting') >= Cardinality(Pushers \ waiting)
        /\ Cardinality(Poppers \ waiting') >= Cardinality(Poppers \ waiting)
        /\ Cardinality(Pushers \ waiting') \in Nat /\ Cardinality(Poppers \ waiting') \in Nat
    BY <2>4, AwakeFinite, GrowCount
  <2>6. WakeupsSuffice'
    BY <1>2, <2>1, <2>3, <2>4, <2>5, AwakeFinite DEF WakeupsSuffice
  <2> QED
    BY <1>1, <2>1, <2>2, <2>6
<1>10. ASSUME NEW c \in Callers, Timeout(c) PROVE WakeInv'
  <2>1. /\ InCall(c) /\ ~Ready(c) /\ waiting' = waiting \ {c} /\ UNCHANGED <<kind, ring>>
        /\ call' = [call EXCEPT ![c] = NoCall]
    BY <1>10 DEF Timeout, Return
  <2>2. CallTypeOK'
    BY <2>1 DEF CallTypeOK, InCall
  <2>3. Pushers' = Pushers \ {c} /\ Poppers' = Poppers \ {c}
    BY <2>1 DEF Pushers, Poppers, IsPush, IsPop, NoCall, CallTypeOK
  <2>4. /\ Cardinality(Pushers' \ waiting') \in Nat /\ Cardinality(Poppers' \ waiting') \in Nat
    <3>1. /\ Pushers' \ waiting' = (Pushers \ waiting) \ {c}
          /\ Poppers' \ waiting' = (Poppers \ waiting) \ {c}
      BY <2>1, <2>3
    <3> QED
      BY <3>1, AwakeFinite, FS_RemoveElement, FS_CardinalityType
  <2>5. CASE IsPush(c)
    <3>1. Free = 0 /\ c \notin Poppers
      BY <1>3, <2>1, <2>5, PushOrPop DEF Ready, Poppers
    <3>2. Poppers' \cap waiting' = Poppers \cap waiting /\ Poppers' \ waiting' = Poppers \ waiting
      BY <2>1, <2>3, <3>1
    <3> QED
      BY <1>1, <1>2, <2>1, <2>2, <2>4, <3>1, <3>2 DEF WakeupsSuffice
  <2>6. CASE ~IsPush(c)
    <3>1. R!size(ring) = 0 /\ c \notin Pushers
      BY <1>3, <2>1, <2>6 DEF Ready, Pushers
    <3>2. Pushers' \cap waiting' = Pushers \cap waiting /\ Pushers' \ waiting' = Pushers \ waiting
      BY <2>1, <2>3, <3>1
    <3> QED
      BY <1>1, <1>2, <2>1, <2>2, <2>4, <3>1, <3>2 DEF WakeupsSuffice
  <2> QED
    BY <2>5, <2>6
<1>11. UNCHANGED queueVars => WakeInv'
  BY <1>1 DEF queueVars, CallTypeOK, InCall, WakeupsSuffice, Pushers, Poppers, IsPush, IsPop
<1> QED
  BY <1>5, <1>6, <1>7, <1>8, <1>9, <1>10, <1>11 DEF QueueNext, QueueStep

\* notify_one is enough: while an element (a free place) and a waiter for it are there, some
\* caller is awake to take it, whatever the order of pushes, pops, timeouts and spurious wake-ups.
THEOREM NoWakeupIsLost == QueueSpec => []NoLostWakeup
<1>1. QueueInit => WakeInv
  BY NewQueueIsRing DEF QueueInit, WakeInv, QueueInv, CallTypeOK, WakeupsSuffice
<1>2. WakeInv => NoLostWakeup
  <2> SUFFICES ASSUME WakeInv PROVE NoLostWakeup
    OBVIOUS
  <2>1. /\ R!size(ring) \in Nat /\ ring.nlen \in Nat
        /\ R!empty(ring) <=> R!size(ring) = 0
        /\ R!full(ring) <=> R!size(ring) = ring.nlen - 1
        /\ R!size(ring) <= ring.nlen - 1
    BY ItemsType DEF WakeInv, QueueInv, IsRing, Bounds
  <2>2. /\ Poppers \ waiting = {} => Cardinality(Poppers \ waiting) = 0
        /\ Pushers \ waiting = {} => Cardinality(Pushers \ waiting) = 0
    BY FS_EmptySet
  <2> QED
    BY <2>1, <2>2 DEF WakeInv, WakeupsSuffice, NoLostWakeup
<1> QED
  BY <1>1, <1>2, WakeInvNext, PTL DEF QueueSpec
=============================================================================
