------------------------- MODULE PipelineTaskProofs -------------------------
(***************************************************************************)
(* No task of a pipeline is lost or used twice, for every pipeline, queue  *)
(* size and window: the proof follows the tasks from owner to owner (the   *)
(* queues and the units), and what the units have read of each other when  *)
(* they leave their loops.                                                 *)
(*                                                                         *)
(* It builds on the invariant of PipelineProofs: the items of a serial     *)
(* stage have different serials, so a set of items stands for its window   *)
(* and overflow.                                                           *)
(***************************************************************************)
EXTENDS PipelineProofs

----------------------------------------------------------------------------
(* What a unit has *)

\* The places of a window.
Slots == 0..(Window - 1)

\* The items in the window and the overflow, and all items of a unit.
Items(r) == {y \in {r.cache[i] : i \in Slots} \cup r.overflow : y.plserial # 0}
InHand(r) == {r.item} \cup Items(r)

\* Where a unit has an item of its own, and where a serial stage has nothing in its window.
ItemPcs == {"process", "push", "push_flush"}
BarePcs == {"new", "flush", "push_flush"} \cup EndPcs

\* Where the unit of a first stage that makes tasks is, and where a unit is in the catch block.
SourcePcs == {"new", "run", "make", "push", "left", "gone", "left_catch"}
DrainPcs == {"empty_catch", "prev_catch", "pop_catch"}

\* A unit of stage k has an item only where the code has one.
ShapeOK(k, r) ==
    /\ \A i \in Slots : r.cache[i].plserial = 0 => r.cache[i] = NoItem
    /\ \A y \in r.overflow : y.plserial # 0
    /\ r.pc \notin ItemPcs => r.item = NoItem
    /\ Mode(k) # "keep" \/ r.pc \in BarePcs => \A i \in Slots : r.cache[i] = NoItem
    /\ Mode(k) # "keep" \/ r.pc \in {"new"} \cup EndPcs => r.overflow = {}
    /\ r.pc = "push" => ~IsLast(k)
    /\ IF IsSource(k) THEN r.pc \in SourcePcs ELSE r.pc # "make"
    /\ r.pc \in DrainPcs => k # 1

ShapeInv == \A u \in Units : ShapeOK(u[1], unit[u])

\* The items behind stage k have serials.
HasSerials(k) == pipeline.feed = "enqueue" \/ \E g \in 1..k : Mode(g) = "generate"

\* The items in a queue.
QueueItems(q) == {q[i] : i \in 1..Len(q)}

NumberedInv ==
    /\ \A k \in 0..N : HasSerials(k) => \A y \in QueueItems(queue[k]) : y.plserial # 0
    /\ \A u \in Units : HasSerials(u[1]) /\ unit[u].pc \in ItemPcs => unit[u].item.plserial # 0

----------------------------------------------------------------------------
(* CHECK_SERIAL *)

\* The items that come to the serial stage k are not before the one it expects, and that
\* one is at most the next to be given out.
NotBefore(y, e) == y.plserial = 0 \/ y.plserial >= e

AheadOf(k) ==
    /\ \A g \in 0..N : Generates(g) /\ g <= k /\ Same(g, k) => plserial[k] <= Issued[g] + 1
    /\ \A j \in 0..(k - 1) : Same(j, k) => \A y \in QueueItems(queue[j]) : NotBefore(y, plserial[k])
    /\ \A u \in Units : u[1] < k /\ Same(u[1], k) => \A y \in InHand(unit[u]) : NotBefore(y, plserial[k])

AheadInv == \A k \in Stages : Mode(k) = "keep" => AheadOf(k)

----------------------------------------------------------------------------
(* Owners of tasks *)

\* The tasks of a queue and of a unit.
QueueTasks(q) == {q[i].task : i \in 1..Len(q)} \ {NoTask}
UnitTasks(r) == {y.task : y \in InHand(r)} \ {NoTask}

\* None of them is there twice.
QueueApart(q) == \A i, j \in 1..Len(q) : q[i].task # NoTask /\ q[i].task = q[j].task => i = j
UnitApart(r) ==
    /\ \A x, y \in Items(r) : x.task # NoTask /\ x.task = y.task => x = y
    /\ \A x \in Items(r) : x.task # NoTask => x.task # r.item.task

Owners == {<<"queue", k>> : k \in 0..N} \cup {<<"unit", u>> : u \in Units}
Own(q, un) == [o \in Owners |-> IF o[1] = "queue" THEN QueueTasks(q[o[2]]) ELSE UnitTasks(un[o[2]])]

\* A live task has one owner, the others have none.
OneOwner(own, f) ==
    /\ \A o1, o2 \in Owners : \A t \in own[o1] : t \in own[o2] => o1 = o2
    /\ \A o \in Owners : \A t \in own[o] : t \in Tasks /\ f[t] = "live"
    /\ \A t \in Tasks : f[t] = "live" => \E o \in Owners : t \in own[o]

OwnerInv ==
    /\ OneOwner(Own(queue, unit), fate)
    /\ \A k \in 0..N : QueueApart(queue[k])
    /\ \A u \in Units : UnitApart(unit[u])

Fates == {"new", "live", "dropped", "destroyed", "lost"}

\* Tasks that were not enqueued or made are new; the first stage makes one after the other.
Unmade(m) ==
    /\ \A t \in Tasks : fate[t] = "new" <=> t > m
    /\ m = pipeline.tasks => ~run /\ \A u \in Units : unit[u].pc # "make"

NewInv ==
    /\ fate \in [Tasks -> Fates]
    /\ \A c \in Callers : \A i \in 1..Len(Batch(c)) : i > caller[c].done => fate[Batch(c)[i]] = "new"
    /\ pipeline.feed = "self" => queue[0] = <<>> /\ \E m \in 0..pipeline.tasks : Unmade(m)
    /\ run \in BOOLEAN

----------------------------------------------------------------------------
(* Ends *)

Busy(k) == {u \in Units : u[1] = k /\ unit[u].pc \notin {"new", "gone"}}
CountInv == running = [k \in 0..N |-> Cardinality(Busy(k))] /\ \A k \in 0..N : IsFiniteSet(Busy(k))

\* Where a unit is only after m_run was reset.
AfterPcs == {"prev", "empty", "flush", "push_flush"} \cup EndPcs

\* Nothing comes from stage k any more: all its units are gone, or stop() was called.
Over(k) == IF k = 0 THEN main >= 0 ELSE \A u \in Units : u[1] = k => unit[u].pc = "gone"
PrevDone(k) == Over(k - 1) /\ queue[k - 1] = <<>>

NoLost == \A t \in Tasks : fate[t] # "lost"

EndOK(k, pc) ==
    /\ pc \in AfterPcs => ~run
    /\ pc = "empty" /\ (k > 1 \/ NoLost) => Over(k - 1)
    /\ pc \in {"flush", "push_flush", "left"} /\ (k > 1 \/ NoLost) => PrevDone(k)
    /\ pc \in {"left_catch", "gone"} /\ NoLost => PrevDone(k)
    /\ pc \in DrainPcs => ~NoLost

MainInv ==
    /\ main \in -1..N
    /\ main >= 0 => mutex = 0 /\ \A c \in Callers : caller[c].done = Len(Batch(c))
    /\ \A u \in Units : u[1] <= main => unit[u].pc = "gone"
    /\ pipeline.feed = "self" => main >= 0
    /\ pipeline.feed = "enqueue" /\ ~run /\ NoLost => main >= 0
    /\ queue[N] = <<>>

EndInv ==
    /\ ~run => Started
    /\ \A u \in Units : EndOK(u[1], unit[u].pc)

----------------------------------------------------------------------------
(* Items of a unit *)

\* What an item of a unit is.
LEMMA ItemsParts ==
    ASSUME NEW r, NEW y
    PROVE  y \in Items(r) <=> y.plserial # 0 /\ (y \in r.overflow \/ \E i \in Slots : y = r.cache[i])
  BY DEF Items

\* The task at an item of a unit.
LEMMA TasksParts ==
    ASSUME NEW r, NEW t
    PROVE  t \in UnitTasks(r) <=> t # NoTask /\ (t = r.item.task \/ \E y \in Items(r) : t = y.task)
  BY DEF UnitTasks, InHand

\* An item of a queue.
LEMMA QueueParts ==
    ASSUME NEW q, NEW t
    PROVE  t \in QueueTasks(q) <=> t # NoTask /\ \E i \in 1..Len(q) : t = q[i].task
  BY DEF QueueTasks

\* The types of what a unit has.
LEMMA SlotsShape ==
    ASSUME NEW r \in UnitRec
    PROVE  /\ r.head \in Slots /\ r.item \in Item /\ \A y \in Items(r) : y \in Item
           /\ \A i \in Slots : r.cache[i] \in Item
           /\ DOMAIN r.cache = Slots
<1>1. /\ r.head \in Slots /\ r.item \in Item /\ r.overflow \subseteq Item /\ \A i \in Slots : r.cache[i] \in Item
  BY WindowType DEF Slots
<1>2. \A y \in Items(r) : y \in Item
  BY <1>1, ItemsParts
<1>3. DOMAIN r.cache = Slots
  BY DEF UnitRec, Slots
<1> QED
  BY <1>1, <1>2, <1>3

\* Nothing is in the hands of a unit.
Empty(r) == r.item = NoItem /\ Items(r) = {}

\* Nothing in the window, nothing in the overflow.
LEMMA BareIsEmpty ==
    ASSUME NEW r, \A i \in Slots : r.cache[i] = NoItem, r.overflow = {}
    PROVE  Items(r) = {}
<1>1. \A y : y \notin Items(r)
  BY ItemsParts, NoItemType
<1> QED
  BY <1>1

\* A unit without items has no tasks.
LEMMA EmptyHasNone ==
    ASSUME NEW r, Empty(r)
    PROVE  UnitTasks(r) = {} /\ UnitApart(r)
<1>1. \A t : t \notin UnitTasks(r)
  BY TasksParts DEF Empty, NoItem
<1> QED
  BY <1>1 DEF UnitApart, Empty

\* An exception leaves nothing to the unit; its tasks and those of S are lost.
Emptied(r2) == r2.item = NoItem /\ r2.overflow = {} /\ \A i \in Slots : r2.cache[i] = NoItem

\* The catch block: the local variables are gone.
LEMMA CatchEmpties ==
    ASSUME SerialTypeOK, NEW u \in Units, NEW S, Catch(u, S)
    PROVE  \E r2 : /\ Stepped(u, r2) /\ r2.pc = (IF u[1] = 1 THEN "left_catch" ELSE "empty_catch")
                   /\ Emptied(r2) /\ run' = FALSE /\ fate' = Become(Held(unit[u]) \cup S, "lost")
<1> DEFINE c0 == [i \in 0..(Window - 1) |-> NoItem]
           pc0 == IF u[1] = 1 THEN "left_catch" ELSE "empty_catch"
           r2 == [pc |-> pc0, item |-> NoItem, head |-> 0, cache |-> c0, overflow |-> {}]
<1>1. c0 \in [0..(Window - 1) -> Item] /\ (\A i \in Slots : c0[i] = NoItem) /\ 0 \in 0..(Window - 1)
  BY NoItemType, PipelineAssumption DEF Slots
<1>2. unit' = [unit EXCEPT ![u] = r2] /\ run' = FALSE /\ fate' = Become(Held(unit[u]) \cup S, "lost")
  BY DEF Catch
<1> HIDE DEF c0
<1>3. r2 \in UnitRec /\ Emptied(r2)
  BY <1>1, NoItemType DEF UnitRec, Pcs, Emptied
<1> QED
  BY <1>2, <1>3 DEF Stepped

\* What a unit holds are its tasks.
LEMMA HeldTasks ==
    ASSUME NEW r \in UnitRec, NEW k, ShapeOK(k, r), NEW t, t # NoTask
    PROVE  t \in Held(r) <=> t \in UnitTasks(r)
<1>1. DOMAIN r.cache = Slots
  BY SlotsShape
<1>2. t \in Held(r) <=> t = r.item.task \/ (\E i \in Slots : t = r.cache[i].task) \/ \E x \in r.overflow : t = x.task
  BY <1>1 DEF Held
<1>3. (\E y \in Items(r) : t = y.task) <=> (\E i \in Slots : t = r.cache[i].task) \/ \E x \in r.overflow : t = x.task
  BY ItemsParts DEF ShapeOK, NoItem, NoTask
<1> QED
  BY <1>2, <1>3, TasksParts

\* Steps that change nothing but where the unit is.
LEMMA SameItems ==
    ASSUME NEW r, NEW r2, r2.cache = r.cache, r2.overflow = r.overflow
    PROVE  Items(r2) = Items(r)
  BY DEF Items

\* Same items, same tasks.
LEMMA SameTasks ==
    ASSUME NEW r, NEW r2, SamePlaces(r, r2)
    PROVE  Items(r2) = Items(r) /\ UnitTasks(r2) = UnitTasks(r) /\ (UnitApart(r) => UnitApart(r2))
           /\ InHand(r2) = InHand(r)
  BY DEF SamePlaces, Items, UnitTasks, InHand, UnitApart

----------------------------------------------------------------------------
(* What becomes of the items of a serial stage *)

\* No two places of a unit have the same serial.
SerialApart(r) ==
    /\ \A i, j \in Slots : r.cache[i].plserial # 0 /\ r.cache[i].plserial = r.cache[j].plserial => i = j
    /\ \A i \in Slots : \A x \in r.overflow : r.cache[i].plserial # 0 => r.cache[i].plserial # x.plserial
    /\ \A x, y \in r.overflow : x.plserial # 0 /\ x.plserial = y.plserial => x = y

\* The invariant of the serials, for one unit.
LEMMA UnitSerials ==
    ASSUME OrderInv, NEW u \in Units
    PROVE  SerialApart(unit[u])
<1> DEFINE r == unit[u]
<1>1. \A w1, w2 \in Holds(r) : SerialIn(r, w1) # 0 /\ SerialIn(r, w1) = SerialIn(r, w2) => w1 = w2
  BY HoldsUnique
<1>2. /\ \A i \in Slots : <<"cache", i>> \in Holds(r) /\ SerialIn(r, <<"cache", i>>) = r.cache[i].plserial
      /\ \A x \in r.overflow : <<"over", x>> \in Holds(r) /\ SerialIn(r, <<"over", x>>) = x.plserial
  BY HoldShape DEF Slots
<1>3. ASSUME NEW i \in Slots, NEW j \in Slots, r.cache[i].plserial # 0, r.cache[i].plserial = r.cache[j].plserial
      PROVE  i = j
  <2>1. <<"cache", i>> = <<"cache", j>>
    BY <1>1, <1>2, <1>3
  <2> QED
    BY <2>1
<1>4. ASSUME NEW i \in Slots, NEW x \in r.overflow, r.cache[i].plserial # 0, r.cache[i].plserial = x.plserial
      PROVE  FALSE
  <2>1. <<"cache", i>> = <<"over", x>>
    BY <1>1, <1>2, <1>4
  <2> QED
    BY <2>1
<1>5. ASSUME NEW x \in r.overflow, NEW y \in r.overflow, x.plserial # 0, x.plserial = y.plserial
      PROVE  x = y
  <2>1. <<"over", x>> = <<"over", y>>
    BY <1>1, <1>2, <1>5
  <2> QED
    BY <2>1
<1> QED
  BY <1>3, <1>4, <1>5 DEF SerialApart

\* Items of a unit with the same serial are the same.
LEMMA ItemsApart ==
    ASSUME NEW r, SerialApart(r), NEW x \in Items(r), NEW y \in Items(r), x.plserial = y.plserial
    PROVE  x = y
  BY ItemsParts DEF SerialApart

\* The place of a serial in the window is its own.
LEMMA SlotsDiffer ==
    ASSUME NEW W \in Nat, W >= 1, NEW h \in Nat, h < W, NEW d1 \in Nat, d1 < W, NEW d2 \in Nat, d2 < W,
           (h + d1) % W = (h + d2) % W
    PROVE  d1 = d2
<1>1. \A d \in Nat : d < W => (h + d < W => (h + d) % W = h + d) /\ (h + d >= W => (h + d) % W = h + d - W)
  <2> SUFFICES ASSUME NEW d \in Nat, d < W
               PROVE  (h + d < W => (h + d) % W = h + d) /\ (h + d >= W => (h + d) % W = h + d - W)
    OBVIOUS
  <2> DEFINE n == h + d
  <2>1. n \in Nat /\ n < 2 * W
    OBVIOUS
  <2> HIDE DEF n
  <2>2. (n < W => n % W = n) /\ (n >= W => n % W = n - W)
    BY <2>1, ModSmall
  <2> QED
    BY <2>2 DEF n
<1> QED
  BY <1>1

\* The end of the loop: the window goes to the overflow.
LEMMA GatheredItems ==
    ASSUME NEW r \in UnitRec
    PROVE  Items(Gathered(r)) = Items(r)
<1> DEFINE r2 == Gathered(r)
<1>1. /\ \A i \in Slots : r2.cache[i].plserial = 0
      /\ \A x \in r.overflow : x \in r2.overflow
      /\ \A i \in Slots : r.cache[i].plserial # 0 => r.cache[i] \in r2.overflow
      /\ \A x \in r2.overflow : x \in r.overflow \/ \E i \in Slots : r.cache[i] = x /\ x.plserial # 0
  BY GatheredFields DEF Slots
<1> HIDE DEF r2
<1>2. \A y : y \in Items(r2) <=> y \in Items(r)
  BY <1>1, ItemsParts
<1> QED
  BY <1>2 DEF r2

\* process leaves t of the item at the head of the window.
LEMMA SerialDoneItems ==
    ASSUME NEW r \in UnitRec, NEW r2, NEW t \in Nat, SerialDone(r, r2, t), SerialApart(r),
           NEW y, y = r.cache[r.head], y.plserial # 0
    PROVE  \A z : z \in Items(r2) <=> (z \in Items(r) /\ z # y) \/ z = [y EXCEPT !.task = t]
<1> DEFINE y2 == [y EXCEPT !.task = t]
<1>1. r.head \in Slots /\ y \in Item
  BY SlotsShape
<1>2. y2.plserial = y.plserial
  BY <1>1 DEF Item
<1>3. r2.overflow = r.overflow /\ \A i \in Slots : r2.cache[i] = IF i = r.head THEN y2 ELSE r.cache[i]
  BY DEF SerialDone, Slots
<1> HIDE DEF y2
<1>4. ASSUME NEW z, z \in Items(r2)
      PROVE  (z \in Items(r) /\ z # y) \/ z = y2
  BY <1>1, <1>2, <1>3, <1>4, ItemsParts DEF SerialApart
<1>5. ASSUME NEW z, z \in Items(r), z # y
      PROVE  z \in Items(r2)
  BY <1>3, <1>5, ItemsParts
<1>6. y2 \in Items(r2)
  BY <1>1, <1>2, <1>3, ItemsParts
<1> QED
  BY <1>4, <1>5, <1>6 DEF y2

\* process leaves t of the next item of the overflow, which becomes the unit's item.
LEMMA FlushDoneItems ==
    ASSUME NEW r, NEW r2, NEW t, NEW x \in r.overflow, FlushDone(r, r2, x, t), SerialApart(r), x.plserial # 0
    PROVE  \A z : z \in Items(r2) <=> z \in Items(r) /\ z # x
<1>1. r2.cache = r.cache /\ r2.overflow = r.overflow \ {x}
  BY DEF FlushDone
<1>2. \A z : z \in r2.overflow <=> z \in r.overflow /\ z # x
  BY <1>1
<1> QED
  BY <1>1, <1>2, ItemsParts DEF SerialApart

\* The window moves on: the item at its head is gone, the next may come from the overflow.
LEMMA AdvanceItems ==
    ASSUME NEW r \in UnitRec, NEW e \in Nat, WindowOK(r, e), SerialApart(r), \A x \in r.overflow : x.plserial # 0,
           r.cache[r.head].plserial # 0
    PROVE  \A z : z \in Items(Advance(r, e + 1)) <=> z \in Items(r) /\ z # r.cache[r.head]
<1> DEFINE r2 == Advance(r, e + 1)
           h == (r.head + 1) % Window
           due == Due(r, e + 1)
           y == r.cache[r.head]
<1>1. /\ Advanced(r, r2, e + 1, h, due) /\ h \in Slots /\ (due # {} => Top(due) \in due)
  BY AdvanceFields DEF Slots
<1>2. /\ r2.overflow = r.overflow \ due
      /\ \A i \in Slots : r2.cache[i] = IF due # {} /\ i = h THEN Top(due) ELSE IF i = r.head THEN NoItem ELSE r.cache[i]
  BY <1>1 DEF Advanced, Slots
<1>3. \A x : x \in due <=> x \in r.overflow /\ x.plserial = e + 1
  BY DEF Due
<1>4. /\ Window \in Nat /\ Window >= 1 /\ r.head \in Slots /\ r.head \in Nat /\ r.head < Window
      /\ \A i \in Slots : r.cache[i].plserial \in Nat
  BY WindowType DEF Slots
<1>5. ASSUME due # {}, h # r.head
      PROVE  r.cache[h].plserial = 0
  <2> SUFFICES ASSUME r.cache[h].plserial # 0
               PROVE  FALSE
    OBVIOUS
  <2> DEFINE s == r.cache[h].plserial
  <2>1. s \in Nat /\ e <= s /\ s < e + Window /\ h = (r.head + (s - e)) % Window
    BY <1>1, <1>4 DEF WindowOK, Slots
  <2>2. Window # 1
    <3>1. CASE Window = 1
      BY <3>1, <1>1, <1>4, <1>5 DEF Slots
    <3> QED
      BY <3>1
  <2>3. s - e \in Nat /\ s - e < Window /\ 1 < Window /\ (r.head + 1) % Window = (r.head + (s - e)) % Window
    BY <2>1, <2>2, <1>4
  <2> HIDE DEF s
  <2>4. s - e = 1
    BY ONLY <2>3, <1>4, SlotsDiffer
  <2>5. s = e + 1
    BY <2>1, <2>4
  <2>6. PICK x : x \in r.overflow /\ x.plserial = e + 1
    BY <1>3, <1>5
  <2> QED
    BY <2>5, <2>6, <1>1 DEF SerialApart, s
<1>6. \A x1, x2 \in due : x1 = x2
  BY <1>3 DEF SerialApart
<1> HIDE DEF r2, h, due
<1>7. ASSUME NEW z, z \in Items(r2)
      PROVE  z \in Items(r) /\ z # y
  <2>1. CASE z \in r2.overflow
    BY <2>1, <1>2, <1>4, <1>7, ItemsParts DEF SerialApart
  <2>2. CASE \E i \in Slots : z = r2.cache[i]
    <3>1. PICK i \in Slots : z = r2.cache[i]
      BY <2>2
    <3>2. z.plserial # 0
      BY <1>7, ItemsParts
    <3>3. CASE due # {} /\ i = h
      <4>1. z \in r.overflow
        BY <3>1, <3>3, <1>1, <1>2, <1>3
      <4> QED
        BY <4>1, <3>2, <1>4, ItemsParts DEF SerialApart
    <3>4. CASE ~(due # {} /\ i = h)
      <4>1. i # r.head /\ z = r.cache[i]
        BY <3>1, <3>2, <3>4, <1>2, NoItemType
      <4> QED
        BY <4>1, <3>2, <1>4, ItemsParts DEF SerialApart
    <3> QED
      BY <3>3, <3>4
  <2> QED
    BY <2>1, <2>2, <1>7, ItemsParts
<1>8. ASSUME NEW z, z \in Items(r), z # y
      PROVE  z \in Items(r2)
  <2>1. z.plserial # 0
    BY <1>8, ItemsParts
  <2>2. CASE z \in r.overflow /\ z \notin due
    BY <2>1, <2>2, <1>2, ItemsParts
  <2>3. CASE z \in due
    <3>1. z = Top(due) /\ due # {}
      BY <2>3, <1>1, <1>6
    <3>2. r2.cache[h] = z /\ h \in Slots
      BY <3>1, <1>1, <1>2
    <3> QED
      BY <3>2, <2>1, ItemsParts
  <2>4. CASE \E i \in Slots : z = r.cache[i]
    <3>1. PICK i \in Slots : z = r.cache[i]
      BY <2>4
    <3>2. i # r.head
      BY <3>1, <1>8
    <3>3. ~(due # {} /\ i = h)
      BY <3>1, <3>2, <2>1, <1>5
    <3>4. r2.cache[i] = z
      BY <3>1, <3>2, <3>3, <1>2
    <3> QED
      BY <3>4, <2>1, ItemsParts
  <2> QED
    BY <2>2, <2>3, <2>4, <1>8, ItemsParts
<1> QED
  BY <1>7, <1>8 DEF r2

\* The popped item is added.
LEMMA PlacedItems ==
    ASSUME NEW r \in UnitRec, NEW r2, NEW e \in Nat, NEW x \in Item, NEW S, Placed(r, r2, e, x, S),
           WindowOK(r, e), SerialApart(r), \A y \in r.overflow : y.plserial # 0,
           x.plserial # 0, x.plserial >= e, \A y \in Items(r) : y.plserial # x.plserial
    PROVE  \A z : z \in Items(r2) <=> z \in Items(r) \/ z = x
<1> DEFINE over == r.overflow \cup {x}
<1>1. /\ Window \in Nat /\ Window >= 1 /\ r.head \in Slots /\ r.head \in Nat /\ r.head < Window
      /\ (\A i \in Slots : r.cache[i].plserial \in Nat) /\ (\A y \in r.overflow : y.plserial \in Nat) /\ x.plserial \in Nat
  BY WindowType DEF Slots, Item
<1>2. /\ S \subseteq over /\ \A y \in S : y.plserial < e + Window
      /\ r2.overflow \subseteq over \ S /\ \A y \in over : y \in S \/ y \in r2.overflow
      /\ \A i \in Slots : \/ r2.cache[i] \in S /\ i = Slot(r, e, r2.cache[i])
                          \/ r2.cache[i] = r.cache[i] /\ \A y \in S : i # Slot(r, e, y)
  BY DEF Placed, Slots
<1>3. \A y \in S : y.plserial \in Nat /\ y.plserial >= e /\ y.plserial # 0 /\ y.plserial - e \in Nat /\ y.plserial - e < Window
  BY <1>1, <1>2 DEF WindowOK
<1>4. \A y \in S : Slot(r, e, y) \in Slots
  <2> TAKE y \in S
  <2>1. r.head + (y.plserial - e) \in Nat
    BY <1>1, <1>3
  <2> QED
    BY <2>1, <1>1, ModSmall DEF Slot, Slots
<1>5. ASSUME NEW y1 \in S, NEW y2 \in S, Slot(r, e, y1) = Slot(r, e, y2)
      PROVE  y1 = y2
  <2>1. y1.plserial - e = y2.plserial - e
    <3> DEFINE d1 == y1.plserial - e
               d2 == y2.plserial - e
    <3>1. d1 \in Nat /\ d1 < Window /\ d2 \in Nat /\ d2 < Window /\ (r.head + d1) % Window = (r.head + d2) % Window
      BY <1>3, <1>5 DEF Slot
    <3> HIDE DEF d1, d2
    <3>2. d1 = d2
      BY ONLY <3>1, <1>1, SlotsDiffer
    <3> QED
      BY <3>2 DEF d1, d2
  <2>2. y1.plserial = y2.plserial
    BY <2>1, <1>3, <1>5
  <2>3. y1 \in over /\ y2 \in over /\ y1.plserial # 0
    BY <1>2, <1>3
  <2> QED
    BY <2>2, <2>3, ItemsParts DEF SerialApart
<1>6. ASSUME NEW y \in S, r.cache[Slot(r, e, y)].plserial # 0
      PROVE  FALSE
  <2> DEFINE i == Slot(r, e, y)
             s == r.cache[i].plserial
             d1 == s - e
             d2 == y.plserial - e
  <2>1. i \in Slots /\ s \in Nat /\ e <= s /\ s < e + Window /\ i = (r.head + d1) % Window
    BY <1>1, <1>4, <1>6 DEF WindowOK, Slots
  <2>2. d1 \in Nat /\ d1 < Window /\ d2 \in Nat /\ d2 < Window /\ (r.head + d1) % Window = (r.head + d2) % Window
    BY <2>1, <1>1, <1>3 DEF Slot
  <2> HIDE DEF d1, d2
  <2>3. d1 = d2
    BY ONLY <2>2, <1>1, SlotsDiffer
  <2>4. s = y.plserial
    BY <2>1, <2>3, <1>3 DEF d1, d2
  <2>5. y \in over /\ r.cache[i] \in Items(r)
    BY <1>2, <1>6, <2>1, ItemsParts
  <2> QED
    BY <2>1, <2>4, <2>5, <1>6 DEF SerialApart
<1> HIDE DEF over
<1>7. ASSUME NEW z, z \in Items(r2)
      PROVE  z \in Items(r) \/ z = x
  <2>1. \A y \in over : y = x \/ y \in r.overflow
    BY DEF over
  <2> QED
    BY <2>1, <1>2, <1>7, ItemsParts
<1>8. ASSUME NEW z, z \in Items(r) \/ z = x
      PROVE  z \in Items(r2)
  <2>1. z.plserial # 0
    BY <1>8, ItemsParts
  <2>2. CASE z \in over
    <3>1. CASE z \in S
      <4> DEFINE i == Slot(r, e, z)
      <4>1. i \in Slots
        BY <3>1, <1>4
      <4>2. r2.cache[i] \in S /\ i = Slot(r, e, r2.cache[i])
        BY <4>1, <3>1, <1>2
      <4>3. r2.cache[i] = z
        BY <4>2, <3>1, <1>5
      <4> QED
        BY <4>1, <4>3, <2>1, ItemsParts
    <3>2. CASE z \in r2.overflow
      BY <3>2, <2>1, ItemsParts
    <3> QED
      BY <3>1, <3>2, <2>2, <1>2
  <2>3. CASE \E i \in Slots : z = r.cache[i]
    <3>1. PICK i \in Slots : z = r.cache[i]
      BY <2>3
    <3>2. \A y \in S : i # Slot(r, e, y)
      BY <3>1, <2>1, <1>6
    <3>3. r2.cache[i] = z
      BY <3>1, <3>2, <1>2
    <3> QED
      BY <3>3, <2>1, ItemsParts
  <2>4. z \in over \/ \E i \in Slots : z = r.cache[i]
    BY <1>8, ItemsParts DEF over
  <2> QED
    BY <2>2, <2>3, <2>4
<1> QED
  BY <1>7, <1>8

----------------------------------------------------------------------------
(* ShapeInv: a unit has an item only where the code has one *)

\* What is used of the types.
LEMMA TypesHold ==
    ASSUME OrderInv
    PROVE  /\ SerialTypeOK /\ pipeline \in Pipelines /\ unit \in [Units -> UnitRec] /\ queue \in [0..N -> Seq(Item)]
           /\ plserial \in [0..N -> Nat] /\ N \in Nat /\ Stages = 1..N
  BY StagesShape DEF OrderInv, SerialTypeOK

\* One unit has stepped, and has the shape.
LEMMA ShapeStep ==
    ASSUME OrderInv, ShapeInv, NEW u \in Units, NEW r2, Stepped(u, r2), pipeline' = pipeline, ShapeOK(u[1], r2)
    PROVE  ShapeInv'
<1>1. Units' = Units /\ unit \in [Units -> UnitRec] /\ unit' = [unit EXCEPT ![u] = r2]
  BY TypesHold, SamePipeline DEF Stepped
<1>2. \A k, r : ShapeOK(k, r) => ShapeOK(k, r)'
  BY DEF ShapeOK, Mode, IsLast, IsSource, N
<1>3. \A v \in Units : ShapeOK(v[1], unit'[v])
  BY <1>1 DEF ShapeInv
<1>4. \A v \in Units : ShapeOK(v[1], unit[v])'
  BY <1>2, <1>3 DEF ShapeOK, Mode, IsLast, IsSource, N
<1> QED
  BY <1>1, <1>4 DEF ShapeInv

\* The places without a window, by name.
LEMMA NewOrEnd ==
    \A pc : /\ pc \in BarePcs <=> pc \in {"new", "flush", "push_flush"} \/ pc \in EndPcs
            /\ pc \in {"new"} \cup EndPcs <=> pc = "new" \/ pc \in EndPcs
  BY DEF BarePcs

\* A step that only changes where the unit is.
LEMMA MoveShape ==
    ASSUME NEW k, NEW r, NEW r2, ShapeOK(k, r), SamePlaces(r, r2), r.pc \notin ItemPcs,
           Mode(k) = "keep" /\ r2.pc \in BarePcs => r.pc \in BarePcs,
           Mode(k) = "keep" /\ r2.pc \in {"new"} \cup EndPcs => r.pc \in {"new"} \cup EndPcs \/ r.overflow = {},
           r2.pc # "push", IF IsSource(k) THEN r2.pc \in SourcePcs ELSE r2.pc # "make", r2.pc \in DrainPcs => k # 1
    PROVE  ShapeOK(k, r2)
<1>1. r2.item = r.item /\ r2.cache = r.cache /\ r2.overflow = r.overflow
  BY DEF SamePlaces
<1> QED
  BY <1>1 DEF ShapeOK

\* A step that changes only where the unit is.
LEMMA GotoShape ==
    ASSUME OrderInv, ShapeInv, NEW u \in Units, NEW pc \in Pcs, Goto(u, pc), pipeline' = pipeline,
           unit[u].pc \notin ItemPcs,
           Mode(u[1]) = "keep" /\ pc \in BarePcs => unit[u].pc \in BarePcs,
           Mode(u[1]) = "keep" /\ pc \in {"new"} \cup EndPcs => unit[u].pc \in {"new"} \cup EndPcs \/ unit[u].overflow = {},
           pc # "push", IF IsSource(u[1]) THEN pc \in SourcePcs ELSE pc # "make", pc \in DrainPcs => u[1] # 1
    PROVE  ShapeInv'
<1>1. PICK r2 : Stepped(u, r2) /\ r2.pc = pc /\ SamePlaces(unit[u], r2)
  BY TypesHold, GotoFields
<1>2. ShapeOK(u[1], unit[u])
  BY DEF ShapeInv
<1>3. ShapeOK(u[1], r2)
  BY <1>1, <1>2, MoveShape
<1> QED
  BY <1>1, <1>3, ShapeStep

\* The steps that are no more than that.
LEMMA PlainShape ==
    ASSUME OrderInv, ShapeInv, NEW u \in Units,
           Begin(u) \/ Leave(u) \/ ReadRun(u) \/ ReadPrev(u) \/ PopTimeout(u) \/ DrainEmpty(u) \/ DrainPrev(u) \/ DrainPop(u)
             \/ SerialWait(u)
    PROVE  ShapeInv'
<1> DEFINE k == u[1]
           r == unit[u]
<1>1. /\ ShapeOK(k, r) /\ pipeline' = pipeline /\ k \in Stages
      /\ r.pc \notin ItemPcs => r.item = NoItem
      /\ IF IsSource(k) THEN r.pc \in SourcePcs ELSE r.pc # "make"
      /\ r.pc \in DrainPcs => k # 1
  <2>1. k \in Stages
    BY TypesHold, UnitsShape
  <2>2. ShapeOK(k, r)
    BY DEF ShapeInv
  <2> QED
    BY <2>1, <2>2 DEF ShapeOK, Begin, Leave, ReadRun, ReadPrev, PopTimeout, DrainEmpty, DrainPrev, DrainPop, SerialWait
<1>2. IsSource(k) => Mode(k) # "keep"
  BY <1>1, TypesHold, StagesShape
<1>3. Mode(k) = "keep" => r.pc \in KeepPcs
  BY KeepUnit DEF StageInv
<1> USE DEF ItemPcs, BarePcs, EndPcs, Pcs, SourcePcs, DrainPcs
<1>4. CASE Begin(u)
  BY <1>4, <1>1, GotoShape DEF Begin
<1>5. CASE Leave(u)
  BY <1>5, <1>1, GotoShape DEF Leave
<1>6. CASE ReadRun(u)
  <2> DEFINE pc == IF IsSource(k) THEN (IF run THEN "make" ELSE "left") ELSE (IF run THEN "pop" ELSE "prev")
  <2>1. pc \in Pcs /\ Goto(u, pc) /\ r.pc = "run"
    BY <1>6 DEF ReadRun
  <2>2. (IsSource(k) => pc \in {"make", "left"}) /\ (~IsSource(k) => pc \in {"pop", "prev"})
    BY DEF IsSource
  <2> HIDE DEF pc
  <2> QED
    BY <2>1, <2>2, <1>1, <1>2, GotoShape
<1>7. CASE ReadPrev(u)
  <2> DEFINE pc == IF running[k - 1] # 0 THEN "pop" ELSE "empty"
  <2>1. pc \in {"pop", "empty"} /\ Goto(u, pc) /\ r.pc = "prev"
    BY <1>7 DEF ReadPrev
  <2> HIDE DEF pc
  <2> QED
    BY <2>1, <1>1, GotoShape
<1>8. CASE PopTimeout(u)
  BY <1>8, <1>1, GotoShape DEF PopTimeout
<1>9. CASE DrainEmpty(u)
  <2> DEFINE pc == IF queue[k - 1] = <<>> THEN "prev_catch" ELSE "pop_catch"
  <2>1. pc \in {"prev_catch", "pop_catch"} /\ Goto(u, pc) /\ r.pc = "empty_catch"
    BY <1>9 DEF DrainEmpty
  <2> HIDE DEF pc
  <2> QED
    BY <2>1, <1>1, GotoShape
<1>10. CASE DrainPrev(u)
  <2> DEFINE pc == IF running[k - 1] = 0 THEN "left_catch" ELSE "pop_catch"
  <2>1. pc \in {"left_catch", "pop_catch"} /\ Goto(u, pc) /\ r.pc = "prev_catch"
    BY <1>10 DEF DrainPrev
  <2> HIDE DEF pc
  <2> QED
    BY <2>1, <1>1, GotoShape
<1>11. CASE DrainPop(u)
  BY <1>11, <1>1, GotoShape DEF DrainPop
<1>12. CASE SerialWait(u)
  <2> DEFINE pc == IF r.pc = "serial" THEN "run" ELSE "left"
  <2>1. r.pc \in {"serial", "flush"} /\ ~IsTurn(u) /\ Goto(u, pc)
    BY <1>12 DEF SerialWait
  <2>2. r.pc = "serial" => pc = "run"
    OBVIOUS
  <2>3. r.pc = "flush" => pc = "left" /\ r.overflow = {}
    BY <2>1 DEF IsTurn
  <2> HIDE DEF pc
  <2> QED
    BY <2>1, <2>2, <2>3, <1>1, GotoShape
<1> QED
  BY <1>4, <1>5, <1>6, <1>7, <1>8, <1>9, <1>10, <1>11, <1>12

\* A unit that has nothing.
LEMMA EmptiedShape ==
    ASSUME NEW k, NEW r2, Emptied(r2), r2.pc \in EndPcs, IF IsSource(k) THEN r2.pc \in SourcePcs ELSE r2.pc # "make",
           r2.pc \in DrainPcs => k # 1
    PROVE  ShapeOK(k, r2)
  BY NoItemType DEF ShapeOK, Emptied, EndPcs, BarePcs

\* The catch block keeps the shape.
LEMMA CatchShape ==
    ASSUME OrderInv, ShapeInv, NEW u \in Units, NEW S, Catch(u, S), pipeline' = pipeline
    PROVE  ShapeInv'
<1>1. PICK r2 : Stepped(u, r2) /\ r2.pc = (IF u[1] = 1 THEN "left_catch" ELSE "empty_catch") /\ Emptied(r2)
  BY TypesHold, CatchEmpties
<1>2. r2.pc \in EndPcs /\ r2.pc # "make" /\ (r2.pc \in DrainPcs => u[1] # 1)
  BY <1>1 DEF EndPcs, DrainPcs
<1>3. IsSource(u[1]) => r2.pc \in SourcePcs
  BY <1>1 DEF SourcePcs, IsSource
<1>4. ShapeOK(u[1], r2)
  BY <1>1, <1>2, <1>3, EmptiedShape
<1> QED
  BY <1>1, <1>4, ShapeStep

\* Another item, or none.
LEMMA ReplacedShape ==
    ASSUME NEW k, NEW r, NEW r2, NEW pc, NEW x, ShapeOK(k, r), Replaced(r, r2, pc, x), pc \notin ItemPcs => x = NoItem,
           Mode(k) # "keep" \/ (r.pc \in BarePcs /\ pc \notin {"new"} \cup EndPcs),
           pc = "push" => ~IsLast(k), IF IsSource(k) THEN pc \in SourcePcs ELSE pc # "make", pc \in DrainPcs => k # 1
    PROVE  ShapeOK(k, r2)
<1>1. r2.pc = pc /\ r2.item = x /\ r2.cache = r.cache /\ r2.overflow = r.overflow
  BY DEF Replaced
<1> QED
  BY <1>1 DEF ShapeOK

----------------------------------------------------------------------------
(* What the steps do to the unit that takes them *)

\* The task that the first stage makes next.
NextTask == Cardinality({x \in Tasks : fate[x] # "new"}) + 1

MakeEffect(u, r2, x) ==
    /\ unit[u].pc = "make" /\ Mode(u[1]) # "keep"
    /\ Stepped(u, r2) /\ Replaced(unit[u], r2, "push", x) /\ x \in Item /\ x.task = NextTask
    /\ x.plserial = IF Mode(u[1]) = "generate" THEN plserial[u[1]] + 1 ELSE 0

\* The first stage throws, or makes a task.
LEMMA MakeSteps ==
    ASSUME OrderInv, NEW u \in Units, Make(u)
    PROVE  \/ Catch(u, {}) /\ plserial' = plserial /\ Throws(u[1], NextTask)
           \/ \E r2, x : MakeEffect(u, r2, x) /\ plserial' = [plserial EXCEPT ![u[1]] = Generated(u[1])]
<1> DEFINE k == u[1]
           t == NextTask
           x0 == [NoItem EXCEPT !.task = t]
<1>1. SerialTypeOK /\ pipeline \in Pipelines /\ Mode(k) # "keep" /\ unit[u].pc = "make"
  BY NotKeep, TypesHold DEF Make
<1>2. t \in Nat
  <2>1. pipeline.tasks \in Nat
    BY <1>1, PipelineAssumption
  <2>2. IsFiniteSet(Tasks)
    BY <2>1, FS_Interval DEF Tasks
  <2>3. IsFiniteSet({x \in Tasks : fate[x] # "new"})
    BY <2>2, FS_Subset
  <2>4. Cardinality({x \in Tasks : fate[x] # "new"}) \in Nat
    BY <2>3, FS_CardinalityType
  <2> QED
    BY <2>4 DEF NextTask
<1>3. \/ Catch(u, {}) /\ plserial' = plserial /\ Throws(u[1], t)
      \/ /\ plserial' = [plserial EXCEPT ![k] = Generated(k)]
         /\ unit' = [unit EXCEPT ![u].pc = "push", ![u].item = Numbered(k, x0)]
  BY DEF Make, NextTask
<1> HIDE DEF t
<1>4. x0 \in Item /\ x0.plserial = 0 /\ x0.task = t
  BY <1>2 DEF NoItem, Item
<1> HIDE DEF x0
<1>5. /\ Numbered(k, x0) \in Item /\ Numbered(k, x0).task = x0.task /\ "push" \in Pcs
      /\ Mode(k) = "generate" => Numbered(k, x0).plserial = plserial[k] + 1
      /\ Mode(k) # "generate" => Numbered(k, x0) = x0
  BY <1>1, <1>4, NumberedType DEF Pcs
<1>6. CASE plserial' = [plserial EXCEPT ![k] = Generated(k)] /\ unit' = [unit EXCEPT ![u].pc = "push", ![u].item = Numbered(k, x0)]
  <2>1. PICK r2 : Stepped(u, r2) /\ Replaced(unit[u], r2, "push", Numbered(k, x0))
    BY <1>1, <1>5, <1>6, ReplacedFields
  <2>2. MakeEffect(u, r2, Numbered(k, x0))
    BY <2>1, <1>1, <1>4, <1>5 DEF MakeEffect, t
  <2> QED
    BY <2>2, <1>6
<1> QED
  BY <1>3, <1>6 DEF t

PopFrontEffect(u, r2, x) ==
    /\ unit[u].pc = "pop" /\ Mode(u[1]) # "keep" /\ queue[u[1] - 1] # <<>> /\ x = Head(queue[u[1] - 1])
    /\ Stepped(u, r2) /\ Replaced(unit[u], r2, "process", Numbered(u[1], x)) /\ x \in Item
    /\ Numbered(u[1], x) \in Item /\ Numbered(u[1], x).task = x.task
    /\ Numbered(u[1], x).plserial = IF Mode(u[1]) = "generate" THEN plserial[u[1]] + 1 ELSE x.plserial

\* pop_front gives the unit the head of the queue.
LEMMA PopFrontSteps ==
    ASSUME OrderInv, NEW u \in Units, PopFront(u)
    PROVE  \E r2, x : PopFrontEffect(u, r2, x)
<1> DEFINE k == u[1]
           x == Head(queue[k - 1])
<1>1. SerialTypeOK /\ unit[u].pc = "pop" /\ Mode(k) # "keep" /\ queue[k - 1] # <<>>
      /\ unit' = [unit EXCEPT ![u].pc = "process", ![u].item = Numbered(k, x)]
  BY TypesHold DEF PopFront
<1>2. x \in Item
  BY <1>1, PoppedType
<1>3. /\ Numbered(k, x) \in Item /\ Numbered(k, x).task = x.task /\ "process" \in Pcs
      /\ Mode(k) = "generate" => Numbered(k, x).plserial = plserial[k] + 1
      /\ Mode(k) # "generate" => Numbered(k, x) = x
  BY <1>1, <1>2, NumberedType DEF Pcs
<1>4. PICK r2 : Stepped(u, r2) /\ Replaced(unit[u], r2, "process", Numbered(k, x))
  BY <1>1, <1>3, ReplacedFields
<1>5. PopFrontEffect(u, r2, x)
  BY <1>1, <1>2, <1>3, <1>4 DEF PopFrontEffect
<1> QED
  BY <1>5

\* process has left t of the unit's task.
ProcessEffect(u, r2, t) ==
    /\ unit[u].pc = "process" /\ Mode(u[1]) # "keep" /\ t \in Outcomes(u[1], unit[u].item.task) /\ t \in Nat
    /\ Stepped(u, r2)
    /\ \/ Replaced(unit[u], r2, "push", [unit[u].item EXCEPT !.task = t]) /\ ~IsLast(u[1])
       \/ Replaced(unit[u], r2, "run", NoItem) /\ (IsLast(u[1]) \/ t = NoTask)
    /\ fate' = IF t # unit[u].item.task THEN Become({unit[u].item.task}, "dropped")
               ELSE IF IsLast(u[1]) THEN Become({unit[u].item.task}, "destroyed") ELSE fate
    /\ run' = run

\* process throws, or leaves the task or none.
LEMMA ProcessSteps ==
    ASSUME OrderInv, NEW u \in Units, Process(u)
    PROVE  \/ Catch(u, {}) /\ Throws(u[1], unit[u].item.task)
           \/ \E r2, t : ProcessEffect(u, r2, t)
<1> DEFINE r == unit[u]
           k == u[1]
           x == r.item
<1>1. SerialTypeOK /\ r \in UnitRec /\ Mode(k) # "keep" /\ r.pc = "process" /\ unit \in [Units -> UnitRec] /\ x \in Item
  BY NotKeep, TypesHold, SlotsShape DEF Process
<1>2. "push" \in Pcs /\ "run" \in Pcs
  BY DEF Pcs
<1>3. ASSUME NEW t \in Outcomes(k, x.task),
             unit' = [unit EXCEPT ![u] = IF ~IsLast(k) /\ (t # NoTask \/ keepSerial)
                                           THEN [@ EXCEPT !.pc = "push", !.item.task = t]
                                           ELSE [@ EXCEPT !.pc = "run", !.item = NoItem]],
             fate' = IF t # x.task THEN Become({x.task}, "dropped")
                     ELSE IF IsLast(k) THEN Become({x.task}, "destroyed") ELSE fate,
             run' = run
      PROVE  \E r2 : ProcessEffect(u, r2, t)
  <2>1. t \in Nat
    BY <1>1, <1>3 DEF Outcomes, Item, NoTask
  <2>2. CASE ~IsLast(k) /\ (t # NoTask \/ keepSerial)
    <3> DEFINE y == [x EXCEPT !.task = t]
               r2 == [r EXCEPT !.pc = "push", !.item = y]
    <3>1. y \in Item
      BY <2>1, <1>1 DEF Item
    <3>2. unit' = [unit EXCEPT ![u] = r2]
      BY <1>1, <1>3, <2>2
    <3> HIDE DEF y
    <3>3. Replaced(r, r2, "push", y)
      BY <1>1, <1>2, <3>1 DEF Replaced, UnitRec
    <3> HIDE DEF r2
    <3>4. Stepped(u, r2)
      BY <3>2, <3>3 DEF Stepped, Replaced
    <3>5. ProcessEffect(u, r2, t)
      BY <3>3, <3>4, <2>1, <2>2, <1>1, <1>3 DEF ProcessEffect, y
    <3> QED
      BY <3>5
  <2>3. CASE ~(~IsLast(k) /\ (t # NoTask \/ keepSerial))
    <3> DEFINE r2 == [r EXCEPT !.pc = "run", !.item = NoItem]
    <3>2. unit' = [unit EXCEPT ![u] = r2]
      BY <1>1, <1>3, <2>3
    <3>3. Replaced(r, r2, "run", NoItem)
      BY <1>1, <1>2, NoItemType DEF Replaced, UnitRec
    <3> HIDE DEF r2
    <3>4. Stepped(u, r2)
      BY <3>2, <3>3 DEF Stepped, Replaced
    <3>5. ProcessEffect(u, r2, t)
      BY <3>3, <3>4, <2>1, <2>3, <1>1, <1>3 DEF ProcessEffect
    <3> QED
      BY <3>5
  <2> QED
    BY <2>2, <2>3
<1> QED
  BY <1>3 DEF Process

\* The unit's item is gone.
GoneEffect(u, r2, pc) == Stepped(u, r2) /\ Replaced(unit[u], r2, pc, NoItem)

\* An item that was pushed is no longer the unit's.
LEMMA GoneSteps ==
    ASSUME OrderInv, NEW u \in Units, PushBack(u) \/ FlushPush(u)
    PROVE  \/ unit[u].pc = "push" /\ PushBack(u) /\ Mode(u[1]) # "keep" /\ \E r2 : GoneEffect(u, r2, "run")
           \/ unit[u].pc = "push_flush" /\ FlushPush(u) /\ Mode(u[1]) = "keep" /\ \E r2 : GoneEffect(u, r2, "flush")
<1>1. "run" \in Pcs /\ "flush" \in Pcs /\ SerialTypeOK
  BY TypesHold DEF Pcs
<1>2. CASE PushBack(u)
  <2>1. unit[u].pc = "push" /\ unit' = [unit EXCEPT ![u].pc = "run", ![u].item = NoItem]
    BY <1>2 DEF PushBack
  <2> QED
    BY <2>1, <1>1, <1>2, NotKeep, NoItemType, ReplacedFields DEF GoneEffect
<1>3. CASE FlushPush(u)
  <2>1. unit[u].pc = "push_flush" /\ unit' = [unit EXCEPT ![u].pc = "flush", ![u].item = NoItem]
    BY <1>3 DEF FlushPush
  <2>2. unit[u].pc \in SerialPcs \cup FlushPcs
    BY <2>1 DEF FlushPcs
  <2>3. Mode(u[1]) = "keep"
    BY <2>2, OwnInv DEF OwnStage
  <2> QED
    BY <2>1, <2>3, <1>1, <1>3, NoItemType, ReplacedFields DEF GoneEffect
<1> QED
  BY <1>2, <1>3

\* A serial stage and what is known of its window.
LEMMA KeepFacts ==
    ASSUME OrderInv, ShapeInv, NEW u \in Units, Mode(u[1]) = "keep"
    PROVE  LET r == unit[u]
               e == plserial[u[1]]
           IN  /\ r \in UnitRec /\ e \in Nat /\ ShapeOK(u[1], r) /\ SerialApart(r) /\ ~IsSource(u[1])
               /\ StageInv(r, e, log[u[1]])
               /\ \A y \in r.overflow : y.plserial # 0
               /\ r.pc \in {"pop", "serial", "push_serial"} => WindowOK(r, e) /\ e >= 1
<1>1. /\ StageInv(unit[u], plserial[u[1]], log[u[1]]) /\ plserial[u[1]] \in Nat /\ unit[u] \in UnitRec
      /\ u[1] \in Stages /\ pipeline \in Pipelines
  BY KeepUnit
<1>2. ShapeOK(u[1], unit[u]) /\ SerialApart(unit[u]) /\ ~IsSource(u[1])
  BY <1>1, UnitSerials, StagesShape DEF ShapeInv
<1>3. \A y \in unit[u].overflow : y.plserial # 0
  BY <1>2 DEF ShapeOK
<1>4. unit[u].pc \in {"pop", "serial", "push_serial"} => WindowOK(unit[u], plserial[u[1]]) /\ plserial[u[1]] >= 1
  BY <1>1 DEF StageInv, WaitPcs, SerialPcs, WindowOK
<1> QED
  BY <1>1, <1>2, <1>3, <1>4

\* A popped item goes to the window or the overflow.
PlaceEffect(u, r2, x) ==
    /\ unit[u].pc = "pop" /\ Mode(u[1]) = "keep" /\ queue[u[1] - 1] # <<>> /\ x = Head(queue[u[1] - 1]) /\ x \in Item
    /\ x.plserial >= plserial[u[1]] /\ x.plserial # 0
    /\ Stepped(u, r2) /\ r2.pc = "serial" /\ r2.item = unit[u].item
    /\ \A z : z \in Items(r2) <=> z \in Items(unit[u]) \/ z = x
    /\ ShapeOK(u[1], r2)

\* CHECK_SERIAL fails, or the item goes to the window or the overflow.
LEMMA PopSerialSteps ==
    ASSUME OrderInv, ShapeInv, NEW u \in Units, PopSerial(u)
    PROVE  \/ Catch(u, {Head(queue[u[1] - 1]).task}) /\ Head(queue[u[1] - 1]).plserial < plserial[u[1]]
           \/ (\E r2, x : PlaceEffect(u, r2, x)) /\ run' = run /\ fate' = fate
<1> DEFINE r == unit[u]
           k == u[1]
           x == Head(queue[k - 1])
           e == plserial[k]
<1>1. r.pc = "pop" /\ Mode(k) = "keep" /\ queue[k - 1] # <<>>
  BY DEF PopSerial
<1>2. /\ r \in UnitRec /\ e \in Nat /\ ShapeOK(k, r) /\ SerialApart(r) /\ ~IsSource(k) /\ WindowOK(r, e) /\ e >= 1
      /\ (\A y \in r.overflow : y.plserial # 0) /\ SerialTypeOK
  BY <1>1, KeepFacts, TypesHold
<1>3. x \in Item /\ x.plserial \in Nat
  BY <1>1, <1>2, PoppedType DEF Item
<1>4. CASE x.plserial >= e /\ unit' = [unit EXCEPT ![u] = [Place(@, e, x) EXCEPT !.pc = "serial"]] /\ UNCHANGED <<run, fate>>
  <2> DEFINE r2 == [Place(r, e, x) EXCEPT !.pc = "serial"]
  <2>1. x.plserial # 0 /\ x.plserial >= e
    BY <1>2, <1>3, <1>4
  <2>2. \A w \in Holds(r) : SerialIn(r, w) # x.plserial
    BY <1>1, <2>1, PoppedUnique
  <2>3. x \notin r.overflow /\ \A y \in Items(r) : y.plserial # x.plserial
    <3>1. /\ \A i \in Slots : <<"cache", i>> \in Holds(r) /\ SerialIn(r, <<"cache", i>>) = r.cache[i].plserial
          /\ \A y \in r.overflow : <<"over", y>> \in Holds(r) /\ SerialIn(r, <<"over", y>>) = y.plserial
      BY HoldShape DEF Slots
    <3>2. (\A i \in Slots : r.cache[i].plserial # x.plserial) /\ \A y \in r.overflow : y.plserial # x.plserial
      BY <3>1, <2>2
    <3> HIDE DEF x
    <3>3. x \notin r.overflow
      BY <3>2
    <3>4. \A y \in Items(r) : y.plserial # x.plserial
      BY <3>2, ItemsParts
    <3> QED
      BY <3>3, <3>4
  <2> HIDE DEF x
  <2>4. PICK S : Placed(r, r2, e, x, S)
    BY <1>2, <1>3, <2>1, <2>3, PlaceFields
  <2> HIDE DEF r2
  <2>5. \A z : z \in Items(r2) <=> z \in Items(r) \/ z = x
    BY <1>2, <1>3, <2>1, <2>3, <2>4, PlacedItems
  <2>6. Stepped(u, r2) /\ r2.pc = "serial" /\ r2.item = r.item
    BY <1>4, <2>4 DEF Stepped, Placed, r2
  <2>7. ShapeOK(k, r2)
    <3>1. \A y \in S : y.plserial # 0
      BY <2>1, <2>4, <1>2 DEF Placed
    <3>2. \A y \in r2.overflow : y.plserial # 0
      BY <2>1, <2>4, <1>2 DEF Placed
    <3>3. \A i \in Slots : r2.cache[i] \in S \/ r2.cache[i] = r.cache[i]
      BY <2>4 DEF Placed, Slots
    <3>4. \A i \in Slots : r2.cache[i].plserial = 0 => r2.cache[i] = NoItem
      BY <3>1, <3>3, <1>2 DEF ShapeOK
    <3>5. r.item = NoItem
      BY <1>1, <1>2 DEF ShapeOK, ItemPcs
    <3>6. r2.pc \notin BarePcs /\ r2.pc \notin {"new"} \cup EndPcs /\ r2.pc # "push" /\ r2.pc # "make" /\ r2.pc \notin DrainPcs
      BY <2>6 DEF BarePcs, EndPcs, DrainPcs
    <3> QED
      BY <3>2, <3>4, <3>5, <3>6, <2>6, <1>1, <1>2 DEF ShapeOK
  <2>8. PlaceEffect(u, r2, x)
    BY <1>1, <1>3, <2>1, <2>5, <2>6, <2>7 DEF PlaceEffect, x
  <2> QED
    BY <1>4, <2>8
<1> QED
  BY <1>4 DEF PopSerial

\* process has left t of the item at the head of the window, y.
HeadEffect(u, r2, y, t) ==
    /\ unit[u].pc = "serial" /\ Mode(u[1]) = "keep" /\ t \in Outcomes(u[1], y.task) /\ t \in Nat
    /\ y \in Items(unit[u]) /\ y.plserial = plserial[u[1]]
    /\ Stepped(u, r2) /\ r2.pc = "push_serial" /\ r2.item = unit[u].item
    /\ \A z : z \in Items(r2) <=> (z \in Items(unit[u]) /\ z # y) \/ z = [y EXCEPT !.task = t]
    /\ ShapeOK(u[1], r2)
    /\ fate' = IF t # y.task THEN Become({y.task}, "dropped") ELSE fate
    /\ run' = run

\* process has left t of the next item of the overflow, y.
TurnEffect(u, r2, y, t) ==
    /\ unit[u].pc = "flush" /\ Mode(u[1]) = "keep" /\ t \in Outcomes(u[1], y.task) /\ t \in Nat
    /\ y \in Items(unit[u])
    /\ Stepped(u, r2) /\ r2.pc = "push_flush" /\ unit[u].item = NoItem /\ r2.item = [y EXCEPT !.task = t]
    /\ \A z : z \in Items(r2) <=> z \in Items(unit[u]) /\ z # y
    /\ ShapeOK(u[1], r2)
    /\ fate' = IF t # y.task THEN Become({y.task}, "dropped") ELSE fate
    /\ run' = run

\* process throws, or leaves the task or none, in a serial stage.
LEMMA SerialProcessSteps ==
    ASSUME OrderInv, ShapeInv, NEW u \in Units, SerialProcess(u)
    PROVE  \/ /\ Catch(u, {}) /\ Mode(u[1]) = "keep" /\ unit[u].pc \in {"serial", "flush"}
              /\ \E y \in Items(unit[u]) : Throws(u[1], y.task)
           \/ \E r2, y, t : HeadEffect(u, r2, y, t) \/ TurnEffect(u, r2, y, t)
<1> DEFINE r == unit[u]
           k == u[1]
           y == Turn(r)
           e == plserial[k]
<1>1. Mode(k) = "keep" /\ r.pc \in {"serial", "flush"}
  <2>1. r.pc \in {"serial", "flush"}
    BY DEF SerialProcess, IsTurn
  <2>2. r.pc \in SerialPcs \cup FlushPcs
    BY <2>1 DEF SerialPcs, FlushPcs
  <2> QED
    BY <2>1, <2>2, OwnInv DEF OwnStage
<1>2. /\ r \in UnitRec /\ e \in Nat /\ ShapeOK(k, r) /\ SerialApart(r) /\ ~IsSource(k)
      /\ (r.pc = "serial" => e >= 1)
      /\ (\A z \in r.overflow : z.plserial # 0) /\ SerialTypeOK
  BY <1>1, KeepFacts, TypesHold
<1>3. /\ y \in Item /\ y \in Items(r)
      /\ (r.pc = "serial" => y = r.cache[r.head] /\ y.plserial = e /\ y.plserial # 0)
      /\ (r.pc = "flush" => y \in r.overflow)
  <2>1. CASE r.pc = "serial"
    <3>1. y = r.cache[r.head] /\ y.plserial = e
      BY <2>1 DEF SerialProcess, IsTurn, Turn
    <3>2. r.head \in Slots /\ y \in Item /\ y.plserial # 0
      BY <3>1, <2>1, <1>2, SlotsShape
    <3> QED
      BY <3>1, <3>2, <2>1, ItemsParts
  <2>2. CASE r.pc = "flush"
    <3>1. y = Top(r.overflow) /\ r.overflow # {} /\ r.overflow \subseteq Item
      BY <2>2, <1>2, WindowType DEF SerialProcess, IsTurn, Turn
    <3>2. y \in r.overflow
      BY <3>1, TopIsLeast
    <3> QED
      BY <2>2, <3>1, <3>2, <1>2, ItemsParts
  <2> QED
    BY <2>1, <2>2, <1>1
<1>4. r.item = NoItem
  BY <1>1, <1>2 DEF ShapeOK, ItemPcs
<1> HIDE DEF y
<1>5. ASSUME NEW t \in Outcomes(k, y.task), unit' = [unit EXCEPT ![u] = Processed(@, t)],
             fate' = IF t # y.task THEN Become({y.task}, "dropped") ELSE fate, run' = run
      PROVE  \E r2 : HeadEffect(u, r2, y, t) \/ TurnEffect(u, r2, y, t)
  <2>1. t \in Nat
    BY <1>3, <1>5 DEF Outcomes, NoTask, Item
  <2> DEFINE r2 == Processed(r, t)
             y2 == [y EXCEPT !.task = t]
  <2>2. y2.plserial = y.plserial
    BY <1>3 DEF Item
  <2>3. CASE r.pc = "serial"
    <3>1. SerialDone(r, r2, t)
      BY <2>1, <2>3, <1>2, ProcessedFields
    <3> HIDE DEF r2
    <3>2. Stepped(u, r2) /\ r2.pc = "push_serial" /\ r2.item = r.item /\ r2.overflow = r.overflow
      BY <1>5, <3>1 DEF SerialDone, Stepped, r2
    <3>3. \A z : z \in Items(r2) <=> (z \in Items(r) /\ z # y) \/ z = y2
      BY <2>1, <2>3, <3>1, <1>2, <1>3, SerialDoneItems
    <3>4. \A i \in Slots : r2.cache[i].plserial = 0 => r2.cache[i] = NoItem
      <4>1. \A i \in Slots : r2.cache[i] = IF i = r.head THEN y2 ELSE r.cache[i]
        BY <3>1, <2>3, <1>3 DEF SerialDone, Slots
      <4> HIDE DEF y2
      <4> QED
        BY <4>1, <2>2, <2>3, <1>2, <1>3 DEF ShapeOK
    <3>5. r2.pc \notin BarePcs /\ r2.pc \notin {"new"} \cup EndPcs /\ r2.pc # "push" /\ r2.pc # "make" /\ r2.pc \notin DrainPcs
      BY <3>2 DEF BarePcs, EndPcs, DrainPcs
    <3>6. ShapeOK(k, r2)
      BY <3>2, <3>4, <3>5, <1>1, <1>2, <1>4 DEF ShapeOK
    <3>7. HeadEffect(u, r2, y, t)
      BY <3>2, <3>3, <3>6, <2>1, <2>3, <1>1, <1>3, <1>5 DEF HeadEffect
    <3> QED
      BY <3>7
  <2>4. CASE r.pc = "flush"
    <3>1. FlushDone(r, r2, y, t)
      BY <2>1, <2>4, <1>2, <1>3, ProcessedFields DEF y
    <3> HIDE DEF r2
    <3>2. Stepped(u, r2) /\ r2.pc = "push_flush" /\ r2.item = y2 /\ r2.cache = r.cache /\ r2.overflow \subseteq r.overflow
      BY <1>5, <3>1 DEF FlushDone, Stepped, r2
    <3>3. \A z : z \in Items(r2) <=> z \in Items(r) /\ z # y
      BY <2>4, <3>1, <1>2, <1>3, FlushDoneItems
    <3>4. r.pc \in BarePcs /\ r2.pc \in ItemPcs
          /\ r2.pc \notin {"new"} \cup EndPcs /\ r2.pc # "push" /\ r2.pc # "make" /\ r2.pc \notin DrainPcs
      BY <3>2, <2>4 DEF BarePcs, EndPcs, DrainPcs, ItemPcs
    <3> HIDE DEF y2
    <3>5. ShapeOK(k, r2)
      BY <3>2, <3>4, <1>1, <1>2 DEF ShapeOK
    <3>6. TurnEffect(u, r2, y, t)
      BY <3>2, <3>3, <3>5, <2>1, <2>4, <1>1, <1>3, <1>4, <1>5 DEF TurnEffect, y2
    <3> QED
      BY <3>6
  <2> QED
    BY <2>3, <2>4, <1>1
<1>6. \/ \E t \in Outcomes(k, y.task) : /\ unit' = [unit EXCEPT ![u] = Processed(@, t)]
                                        /\ fate' = IF t # y.task THEN Become({y.task}, "dropped") ELSE fate
                                        /\ run' = run
      \/ Throws(k, y.task) /\ Catch(u, {})
  BY DEF SerialProcess, y
<1> QED
  BY <1>1, <1>3, <1>5, <1>6

\* The item at the head of the window, y, goes on.
AdvanceEffect(u, r2, y) ==
    /\ unit[u].pc = "push_serial" /\ Mode(u[1]) = "keep" /\ y = unit[u].cache[unit[u].head] /\ y \in Item
    /\ y \in Items(unit[u]) /\ y.plserial = plserial[u[1]] /\ y.plserial # 0
    /\ Stepped(u, r2) /\ r2.pc = "serial" /\ r2.item = unit[u].item
    /\ \A z : z \in Items(r2) <=> z \in Items(unit[u]) /\ z # y
    /\ ShapeOK(u[1], r2)

\* The item of the head is delivered, and the window moves on.
LEMMA SerialPushSteps ==
    ASSUME OrderInv, ShapeInv, NEW u \in Units, SerialPush(u)
    PROVE  \E r2, y : AdvanceEffect(u, r2, y) /\ Deliver(u[1], y)
<1> DEFINE r == unit[u]
           k == u[1]
           e == plserial[k]
           y == r.cache[r.head]
           r2 == Advance(r, e + 1)
           h == (r.head + 1) % Window
           due == Due(r, e + 1)
<1>1. r.pc = "push_serial" /\ Mode(k) = "keep" /\ unit' = [unit EXCEPT ![u] = r2] /\ Deliver(k, y)
  <2>1. r.pc = "push_serial" /\ unit' = [unit EXCEPT ![u] = r2] /\ Deliver(k, y)
    BY DEF SerialPush
  <2>2. r.pc \in SerialPcs \cup FlushPcs
    BY <2>1 DEF SerialPcs
  <2> QED
    BY <2>1, <2>2, OwnInv DEF OwnStage
<1>2. /\ r \in UnitRec /\ e \in Nat /\ ShapeOK(k, r) /\ SerialApart(r) /\ ~IsSource(k)
      /\ e >= 1 /\ WindowOK(r, e) /\ StageInv(r, e, log[k])
      /\ (\A z \in r.overflow : z.plserial # 0) /\ SerialTypeOK
  BY <1>1, KeepFacts, TypesHold
<1>3. y \in Item /\ y \in Items(r) /\ y.plserial = e /\ y.plserial # 0
  BY <1>1, <1>2, SlotsShape, ItemsParts DEF StageInv
<1>4. \A z : z \in Items(r2) <=> z \in Items(r) /\ z # y
  BY <1>2, <1>3, AdvanceItems
<1>5. Advanced(r, r2, e + 1, h, due) /\ (due # {} => Top(due) \in due) /\ \A x \in due : x \in r.overflow
  BY <1>2, AdvanceFields DEF Due
<1> HIDE DEF r2, due, h
<1>6. Stepped(u, r2) /\ r2.pc = "serial" /\ r2.item = r.item /\ r2.overflow \subseteq r.overflow
  BY <1>1, <1>5 DEF Stepped, Advanced
<1>7. ShapeOK(k, r2)
  <2>1. \A i \in Slots : r2.cache[i] \in {NoItem, r.cache[i]} \/ r2.cache[i] \in r.overflow
    BY <1>5 DEF Advanced, Slots
  <2>2. \A i \in Slots : r2.cache[i].plserial = 0 => r2.cache[i] = NoItem
    BY <2>1, <1>2 DEF ShapeOK
  <2>3. r.item = NoItem
    BY <1>1, <1>2 DEF ShapeOK, ItemPcs
  <2>4. r2.pc \notin BarePcs /\ r2.pc \notin {"new"} \cup EndPcs /\ r2.pc # "push" /\ r2.pc # "make" /\ r2.pc \notin DrainPcs
    BY <1>6 DEF BarePcs, EndPcs, DrainPcs
  <2> QED
    BY <2>2, <2>3, <2>4, <1>1, <1>2, <1>6 DEF ShapeOK
<1>8. AdvanceEffect(u, r2, y)
  BY <1>1, <1>3, <1>4, <1>6, <1>7 DEF AdvanceEffect
<1> QED
  BY <1>1, <1>8

\* The queue is empty at the end of the loop, or it is not.
GatherEffect(u, r2) ==
    /\ unit[u].pc = "empty" /\ Mode(u[1]) = "keep" /\ queue[u[1] - 1] = <<>>
    /\ Stepped(u, r2) /\ r2.pc = "flush" /\ r2.item = unit[u].item /\ Items(r2) = Items(unit[u])
    /\ ShapeOK(u[1], r2)

\* The third read: the unit goes on, or its loop ends.
LEMMA ReadEmptySteps ==
    ASSUME OrderInv, ShapeInv, NEW u \in Units, ReadEmpty(u)
    PROVE  \/ unit[u].pc = "empty" /\ Goto(u, "pop")
           \/ unit[u].pc = "empty" /\ Goto(u, "left") /\ Mode(u[1]) # "keep" /\ queue[u[1] - 1] = <<>>
           \/ \E r2 : GatherEffect(u, r2)
<1> DEFINE r == unit[u]
           k == u[1]
           r2 == Gathered(r)
<1>1. CASE queue[k - 1] # <<>> /\ Goto(u, "pop")
  BY <1>1 DEF ReadEmpty
<1>2. CASE queue[k - 1] = <<>> /\ Mode(k) # "keep" /\ unit' = [unit EXCEPT ![u] = [@ EXCEPT !.pc = "left"]]
  <2>1. Goto(u, "left")
    BY <1>2 DEF Goto
  <2> QED
    BY <1>2, <2>1 DEF ReadEmpty
<1>3. CASE queue[k - 1] = <<>> /\ Mode(k) = "keep" /\ unit' = [unit EXCEPT ![u] = Gathered(@)]
  <2>1. /\ r \in UnitRec /\ ShapeOK(k, r) /\ ~IsSource(k) /\ (\A z \in r.overflow : z.plserial # 0)
    BY <1>3, KeepFacts
  <2>2. /\ r2 \in UnitRec /\ r2.pc = "flush" /\ r2.item = r.item
        /\ \A i \in Slots : r2.cache[i] = NoItem
        /\ \A x \in r2.overflow : x \in r.overflow \/ x.plserial # 0
    BY <2>1, GatheredFields DEF Slots
  <2>3. Items(r2) = Items(r)
    BY <2>1, GatheredItems
  <2>4. unit' = [unit EXCEPT ![u] = r2] /\ r.pc = "empty"
    BY <1>3 DEF ReadEmpty
  <2> HIDE DEF r2
  <2>5. Stepped(u, r2)
    BY <2>2, <2>4 DEF Stepped
  <2>6. ShapeOK(k, r2)
    <3>1. r.item = NoItem
      BY <2>1, <2>4 DEF ShapeOK, ItemPcs
    <3>2. r2.pc \notin {"new"} \cup EndPcs /\ r2.pc # "push" /\ r2.pc # "make" /\ r2.pc \notin DrainPcs
      BY <2>2 DEF EndPcs, DrainPcs
    <3>3. \A x \in r2.overflow : x.plserial # 0
      BY <2>1, <2>2
    <3> QED
      BY <3>1, <3>2, <3>3, <2>1, <2>2, <1>3 DEF ShapeOK
  <2>7. GatherEffect(u, r2)
    BY <2>2, <2>3, <2>4, <2>5, <2>6, <1>3 DEF GatherEffect
  <2> QED
    BY <2>7
<1>4. \/ queue[k - 1] # <<>> /\ Goto(u, "pop")
      \/ queue[k - 1] = <<>> /\ unit' = [unit EXCEPT ![u] = IF Mode(k) = "keep" THEN Gathered(@) ELSE [@ EXCEPT !.pc = "left"]]
  BY DEF ReadEmpty
<1> QED
  BY <1>1, <1>2, <1>3, <1>4

----------------------------------------------------------------------------
(* ShapeInv, step by step *)

\* A stage that makes the tasks is not the last one.
LEMMA SourceNotLast ==
    ASSUME pipeline \in Pipelines
    PROVE  ~(IsSource(1) /\ IsLast(1))
  BY PipelineAssumption DEF IsSource, IsLast, N

\* What no unit changes.
LEMMA StepKeepsPipeline ==
    ASSUME NEW u \in Units, UnitNext(u)
    PROVE  pipeline' = pipeline /\ mutex' = mutex /\ caller' = caller /\ main' = main
  BY DEF UnitNext, Begin, Leave, ReadRun, ReadPrev, ReadEmpty, Make, PopTimeout, PopFront, Process, PushBack,
         PopSerial, SerialProcess, SerialWait, SerialPush, FlushPush, DrainEmpty, DrainPrev, DrainPop

\* The steps of a stage that is not serial keep the shape.
LEMMA ItemShape ==
    ASSUME OrderInv, ShapeInv, NEW u \in Units, Make(u) \/ PopFront(u) \/ Process(u) \/ PushBack(u) \/ FlushPush(u)
    PROVE  ShapeInv'
<1> DEFINE k == u[1]
           r == unit[u]
<1>1. ShapeOK(k, r) /\ pipeline' = pipeline /\ pipeline \in Pipelines /\ k \in Stages
  BY TypesHold, UnitsShape, StepKeepsPipeline DEF ShapeInv, UnitNext
<1>2. /\ IF IsSource(k) THEN r.pc \in SourcePcs ELSE r.pc # "make"
      /\ r.pc = "push" => ~IsLast(k)
  BY <1>1 DEF ShapeOK
<1>3. IsSource(k) => ~IsLast(k)
  BY <1>1, SourceNotLast DEF IsSource
<1> USE DEF ItemPcs, BarePcs, EndPcs, SourcePcs, DrainPcs
<1>4. CASE Make(u)
  <2>1. CASE Catch(u, {})
    BY <2>1, <1>1, CatchShape
  <2>2. CASE \E r2, x : MakeEffect(u, r2, x)
    <3>1. PICK r2, x : MakeEffect(u, r2, x)
      BY <2>2
    <3>2. r.pc = "make" /\ Mode(k) # "keep" /\ Replaced(r, r2, "push", x) /\ Stepped(u, r2)
      BY <3>1 DEF MakeEffect
    <3>3. IsSource(k)
      BY <3>2, <1>2
    <3>4. ShapeOK(k, r2)
      BY <3>2, <3>3, <1>1, <1>3, ReplacedShape
    <3> QED
      BY <3>2, <3>4, <1>1, ShapeStep
  <2> QED
    BY <2>1, <2>2, <1>4, MakeSteps
<1>5. CASE PopFront(u)
  <2>1. PICK r2, x : PopFrontEffect(u, r2, x)
    BY <1>5, PopFrontSteps
  <2>2. r.pc = "pop" /\ Mode(k) # "keep" /\ Replaced(r, r2, "process", Numbered(k, x)) /\ Stepped(u, r2)
    BY <2>1 DEF PopFrontEffect
  <2>3. ~IsSource(k)
    BY <2>2, <1>2
  <2>4. ShapeOK(k, r2)
    BY <2>2, <2>3, <1>1, ReplacedShape
  <2> QED
    BY <2>2, <2>4, <1>1, ShapeStep
<1>6. CASE Process(u)
  <2>1. CASE Catch(u, {})
    BY <2>1, <1>1, CatchShape
  <2>2. CASE \E r2, t : ProcessEffect(u, r2, t)
    <3>1. PICK r2, t : ProcessEffect(u, r2, t)
      BY <2>2
    <3>2. /\ r.pc = "process" /\ Mode(k) # "keep" /\ Stepped(u, r2)
          /\ \/ Replaced(r, r2, "push", [r.item EXCEPT !.task = t]) /\ ~IsLast(k)
             \/ Replaced(r, r2, "run", NoItem)
      BY <3>1 DEF ProcessEffect
    <3>3. ~IsSource(k)
      BY <3>2, <1>2
    <3>4. ShapeOK(k, r2)
      BY <3>2, <3>3, <1>1, ReplacedShape
    <3> QED
      BY <3>2, <3>4, <1>1, ShapeStep
  <2> QED
    BY <2>1, <2>2, <1>6, ProcessSteps
<1>7. CASE PushBack(u) \/ FlushPush(u)
  <2>1. CASE r.pc = "push" /\ Mode(k) # "keep" /\ \E r2 : GoneEffect(u, r2, "run")
    <3>1. PICK r2 : GoneEffect(u, r2, "run")
      BY <2>1
    <3>2. Replaced(r, r2, "run", NoItem) /\ Stepped(u, r2)
      BY <3>1 DEF GoneEffect
    <3>3. ShapeOK(k, r2)
      BY <3>2, <2>1, <1>1, ReplacedShape
    <3> QED
      BY <3>2, <3>3, <1>1, ShapeStep
  <2>2. CASE r.pc = "push_flush" /\ Mode(k) = "keep" /\ \E r2 : GoneEffect(u, r2, "flush")
    <3>1. PICK r2 : GoneEffect(u, r2, "flush")
      BY <2>2
    <3>2. Replaced(r, r2, "flush", NoItem) /\ Stepped(u, r2) /\ ~IsSource(k)
      BY <3>1, <2>2, <1>1, StagesShape DEF GoneEffect
    <3>3. ShapeOK(k, r2)
      BY <3>2, <2>2, <1>1, ReplacedShape
    <3> QED
      BY <3>2, <3>3, <1>1, ShapeStep
  <2> QED
    BY <2>1, <2>2, <1>7, GoneSteps
<1> QED
  BY <1>4, <1>5, <1>6, <1>7

\* The steps of a serial stage keep the shape.
LEMMA SerialShape ==
    ASSUME OrderInv, ShapeInv, NEW u \in Units, ReadEmpty(u) \/ PopSerial(u) \/ SerialProcess(u) \/ SerialPush(u)
    PROVE  ShapeInv'
<1> DEFINE k == u[1]
           r == unit[u]
<1>1. ShapeOK(k, r) /\ pipeline' = pipeline
  BY StepKeepsPipeline DEF ShapeInv, UnitNext
<1>2. CASE ReadEmpty(u)
  <2>1. r.pc = "empty" /\ ~IsSource(k)
    BY <1>1, <1>2 DEF ReadEmpty, ShapeOK, SourcePcs
  <2>2. CASE Goto(u, "pop")
    BY <2>1, <2>2, <1>1, GotoShape DEF ItemPcs, BarePcs, EndPcs, DrainPcs, Pcs
  <2>3. CASE Goto(u, "left") /\ Mode(k) # "keep"
    BY <2>1, <2>3, <1>1, GotoShape DEF ItemPcs, BarePcs, EndPcs, DrainPcs, Pcs
  <2>4. CASE \E r2 : GatherEffect(u, r2)
    BY <2>4, <1>1, ShapeStep DEF GatherEffect
  <2> QED
    BY <2>2, <2>3, <2>4, <1>2, ReadEmptySteps
<1>3. CASE PopSerial(u)
  <2>1. CASE Catch(u, {Head(queue[u[1] - 1]).task})
    BY <2>1, <1>1, CatchShape
  <2>2. CASE \E r2, x : PlaceEffect(u, r2, x)
    BY <2>2, <1>1, ShapeStep DEF PlaceEffect
  <2> QED
    BY <2>1, <2>2, <1>3, PopSerialSteps
<1>4. CASE SerialProcess(u)
  <2>1. CASE Catch(u, {})
    BY <2>1, <1>1, CatchShape
  <2>2. CASE \E r2, y, t : HeadEffect(u, r2, y, t) \/ TurnEffect(u, r2, y, t)
    BY <2>2, <1>1, ShapeStep DEF HeadEffect, TurnEffect
  <2> QED
    BY <2>1, <2>2, <1>4, SerialProcessSteps
<1>5. CASE SerialPush(u)
  BY <1>1, <1>5, SerialPushSteps, ShapeStep DEF AdvanceEffect
<1> QED
  BY <1>2, <1>3, <1>4, <1>5

\* All steps of a unit keep the shape.
LEMMA UnitShape ==
    ASSUME OrderInv, ShapeInv, NEW u \in Units, UnitNext(u)
    PROVE  ShapeInv'
  BY PlainShape, ItemShape, SerialShape DEF UnitNext

\* What the steps of no unit leave alone.
LEMMA NoUnit ==
    ASSUME (\E c \in Callers : CallerNext(c)) \/ Stop \/ Wait \/ Done \/ UNCHANGED vars
    PROVE  pipeline' = pipeline /\ unit' = unit /\ running' = running /\ log' = log
  BY DEF CallerNext, Enqueue, EnqueuePush, Stop, Wait, Done, vars

\* A step is of a unit, or of none.
LEMMA NextCases ==
    ASSUME [Next]_vars
    PROVE  \/ \E u \in Units : UnitNext(u)
           \/ (\E c \in Callers : CallerNext(c)) \/ Stop \/ Wait \/ Done \/ UNCHANGED vars
  BY DEF Next

\* Every step keeps the shape.
LEMMA NextShape ==
    ASSUME OrderInv, ShapeInv, [Next]_vars
    PROVE  ShapeInv'
<1>1. CASE \E u \in Units : UnitNext(u)
  BY <1>1, UnitShape
<1>2. CASE pipeline' = pipeline /\ unit' = unit
  <2>1. Units' = Units
    BY <1>2, SamePipeline
  <2>2. \A v \in Units : ShapeOK(v[1], unit[v])
    BY DEF ShapeInv
  <2>3. \A v \in Units : ShapeOK(v[1], unit[v])'
    BY <2>2, <1>2 DEF ShapeOK, Mode, IsLast, IsSource, N
  <2> QED
    BY <2>1, <2>3 DEF ShapeInv
<1> QED
  BY <1>1, <1>2, NextCases, NoUnit

\* At first all units are empty.
LEMMA InitShape ==
    ASSUME Init
    PROVE  ShapeInv
<1> SUFFICES ASSUME NEW u \in Units
             PROVE  ShapeOK(u[1], unit[u])
  BY DEF ShapeInv
<1> DEFINE c0 == [i \in 0..(Window - 1) |-> NoItem]
<1>1. /\ unit[u].pc = "new" /\ unit[u].item = NoItem /\ unit[u].cache = c0 /\ unit[u].overflow = {}
  BY DEF Init
<1>2. \A i \in Slots : c0[i] = NoItem
  BY DEF Slots
<1> HIDE DEF c0
<1> QED
  BY <1>1, <1>2 DEF ShapeOK, SourcePcs, DrainPcs

----------------------------------------------------------------------------
(* Owners *)

\* Two owners change: the tasks of G are gone, those of B are new.
OwnChange(own, own2, f, f2, a, b, G, B) ==
    /\ \A o \in Owners : o # a /\ o # b => \A t : t \in own2[o] <=> t \in own[o]
    /\ \A t : t \in own2[a] \/ t \in own2[b] <=> ((t \in own[a] \/ t \in own[b]) /\ t \notin G) \/ t \in B
    /\ a # b => \A t : ~(t \in own2[a] /\ t \in own2[b])
    /\ \A t \in Tasks : f2[t] = "live" <=> (f[t] = "live" /\ t \notin G) \/ t \in B
    /\ \A t \in Tasks : t \in G => t \in own[a] \/ t \in own[b]
    /\ \A t \in B : t \in Tasks /\ f[t] # "live"

\* Owners after a step that concerns two of them.
LEMMA OwnStep ==
    ASSUME NEW own, NEW own2, NEW f, NEW f2, NEW a \in Owners, NEW b \in Owners, NEW G, NEW B,
           OneOwner(own, f), OwnChange(own, own2, f, f2, a, b, G, B)
    PROVE  OneOwner(own2, f2)
<1> USE DEF OwnChange
<1>0. /\ \A o1, o2 \in Owners : \A t \in own[o1] : t \in own[o2] => o1 = o2
      /\ \A o \in Owners : \A t \in own[o] : t \in Tasks /\ f[t] = "live"
      /\ \A t \in Tasks : f[t] = "live" => \E o \in Owners : t \in own[o]
  BY DEF OneOwner
<1>1. ASSUME NEW o1 \in Owners, NEW o2 \in Owners, NEW t, t \in own2[o1], t \in own2[o2]
      PROVE  o1 = o2
  <2>1. CASE o1 \in {a, b} /\ o2 \in {a, b}
    BY <1>1, <2>1
  <2>2. CASE o1 \in {a, b} /\ o2 \notin {a, b}
    <3>1. t \in own[o2] /\ t \in Tasks /\ f[t] = "live"
      BY <1>0, <1>1, <2>2
    <3>2. t \in own[a] \/ t \in own[b]
      BY <3>1, <1>1, <2>2
    <3> QED
      BY <3>1, <3>2, <2>2, <1>0
  <2>3. CASE o2 \in {a, b} /\ o1 \notin {a, b}
    <3>1. t \in own[o1] /\ t \in Tasks /\ f[t] = "live"
      BY <1>0, <1>1, <2>3
    <3>2. t \in own[a] \/ t \in own[b]
      BY <3>1, <1>1, <2>3
    <3> QED
      BY <3>1, <3>2, <2>3, <1>0
  <2>4. CASE o1 \notin {a, b} /\ o2 \notin {a, b}
    BY <1>0, <1>1, <2>4
  <2> QED
    BY <2>1, <2>2, <2>3, <2>4
<1>2. ASSUME NEW o \in Owners, NEW t, t \in own2[o]
      PROVE  t \in Tasks /\ f2[t] = "live"
  <2>1. CASE o \in {a, b}
    <3>1. ((t \in own[a] \/ t \in own[b]) /\ t \notin G) \/ t \in B
      BY <1>2, <2>1
    <3>2. t \in Tasks /\ (f[t] = "live" \/ t \in B)
      BY <3>1, <1>0
    <3> QED
      BY <3>1, <3>2
  <2>2. CASE o \notin {a, b}
    <3>1. t \in own[o] /\ t \in Tasks /\ f[t] = "live"
      BY <1>0, <1>2, <2>2
    <3>2. t \notin own[a] /\ t \notin own[b]
      BY <3>1, <2>2, <1>0
    <3> QED
      BY <3>1, <3>2
  <2> QED
    BY <2>1, <2>2
<1>3. ASSUME NEW t \in Tasks, f2[t] = "live"
      PROVE  \E o \in Owners : t \in own2[o]
  <2>1. CASE t \in B
    BY <2>1
  <2>2. CASE t \notin B
    <3>1. f[t] = "live" /\ t \notin G
      BY <1>3, <2>2
    <3>2. PICK o \in Owners : t \in own[o]
      BY <3>1, <1>0
    <3>3. CASE o \in {a, b}
      BY <3>1, <3>2, <3>3
    <3>4. CASE o \notin {a, b}
      BY <3>2, <3>4
    <3> QED
      BY <3>3, <3>4
  <2> QED
    BY <2>1, <2>2
<1> QED
  BY <1>1, <1>2, <1>3 DEF OneOwner

\* What the owners have.
LEMMA OwnAt ==
    ASSUME NEW q, NEW un
    PROVE  /\ \A k \in 0..N : <<"queue", k>> \in Owners /\ Own(q, un)[<<"queue", k>>] = QueueTasks(q[k])
           /\ \A u \in Units : <<"unit", u>> \in Owners /\ Own(q, un)[<<"unit", u>>] = UnitTasks(un[u])
           /\ \A o \in Owners : (\E k \in 0..N : o = <<"queue", k>>) \/ \E u \in Units : o = <<"unit", u>>
<1>1. \A k \in 0..N : <<"queue", k>> \in Owners /\ <<"queue", k>>[1] = "queue" /\ <<"queue", k>>[2] = k
  BY DEF Owners
<1>2. \A u \in Units : <<"unit", u>> \in Owners /\ <<"unit", u>>[1] = "unit" /\ <<"unit", u>>[2] = u
  BY DEF Owners
<1>3. \A o \in Owners : (\E k \in 0..N : o = <<"queue", k>>) \/ \E u \in Units : o = <<"unit", u>>
  BY DEF Owners
<1>4. ASSUME NEW k \in 0..N
      PROVE  Own(q, un)[<<"queue", k>>] = QueueTasks(q[k])
  <2> DEFINE o == <<"queue", k>>
  <2>1. o \in Owners /\ o[1] = "queue" /\ o[2] = k
    BY <1>1
  <2> HIDE DEF o
  <2>2. Own(q, un)[o] = QueueTasks(q[k])
    BY <2>1 DEF Own
  <2> QED
    BY <2>2 DEF o
<1>5. ASSUME NEW u \in Units
      PROVE  Own(q, un)[<<"unit", u>>] = UnitTasks(un[u])
  <2> DEFINE o == <<"unit", u>>
  <2>1. o \in Owners /\ o[1] = "unit" /\ o[2] = u
    BY <1>2
  <2> HIDE DEF o
  <2>2. Own(q, un)[o] = UnitTasks(un[u])
    BY <2>1 DEF Own
  <2> QED
    BY <2>2 DEF o
<1> QED
  BY <1>1, <1>2, <1>3, <1>4, <1>5

\* OwnerInv of the next state, read with the pipeline of this one.
LEMMA OwnPrimed ==
    ASSUME pipeline' = pipeline, OneOwner(Own(queue', unit'), fate'),
           \A k \in 0..N : QueueApart(queue'[k]), \A u \in Units : UnitApart(unit'[u])
    PROVE  OwnerInv'
<1>1. N' = N /\ Units' = Units /\ Tasks' = Tasks
  BY SamePipeline DEF Tasks
<1>2. Owners' = Owners
  BY <1>1 DEF Owners
<1>3. Own(queue, unit)' = Own(queue', unit')
  BY <1>2 DEF Own, QueueTasks, UnitTasks, InHand, Items, Slots
<1>4. OneOwner(Own(queue, unit), fate)'
  <2> DEFINE own == Own(queue', unit')
  <2> HIDE DEF own
  <2>1. OneOwner(own, fate')
    BY DEF own
  <2>2. Own(queue, unit)' = own
    BY <1>3 DEF own
  <2> QED
    BY <2>1, <2>2, <1>1, <1>2 DEF OneOwner
<1>5. \A k \in 0..N : QueueApart(queue[k])'
  BY DEF QueueApart
<1>6. \A u \in Units : UnitApart(unit[u])'
  BY DEF UnitApart, Items, Slots
<1> QED
  BY <1>1, <1>4, <1>5, <1>6 DEF OwnerInv

\* A unit and a queue change.
MoveChange(u, k, r2, q2, G, B) ==
    /\ \A t : t \in UnitTasks(r2) \/ t \in QueueTasks(q2) <=>
               ((t \in UnitTasks(unit[u]) \/ t \in QueueTasks(queue[k])) /\ t \notin G) \/ t \in B
    /\ \A t : ~(t \in UnitTasks(r2) /\ t \in QueueTasks(q2))
    /\ \A t \in Tasks : fate'[t] = "live" <=> (fate[t] = "live" /\ t \notin G) \/ t \in B
    /\ \A t \in Tasks : t \in G => t \in UnitTasks(unit[u]) \/ t \in QueueTasks(queue[k])
    /\ \A t \in B : t \in Tasks /\ fate[t] # "live"
    /\ UnitApart(r2) /\ QueueApart(q2)

\* The same, of a unit and a queue.
LEMMA OwnMove ==
    ASSUME OrderInv, OwnerInv, NEW u \in Units, NEW k \in 0..N, NEW r2, NEW q2, NEW G, NEW B,
           pipeline' = pipeline, Stepped(u, r2), queue' = [queue EXCEPT ![k] = q2], MoveChange(u, k, r2, q2, G, B)
    PROVE  OwnerInv'
<1> DEFINE own == Own(queue, unit)
           own2 == Own(queue', unit')
           a == <<"unit", u>>
           b == <<"queue", k>>
<1>0. /\ \A l \in 0..N : queue'[l] = IF l = k THEN q2 ELSE queue[l]
      /\ \A v \in Units : unit'[v] = IF v = u THEN r2 ELSE unit[v]
  BY TypesHold DEF Stepped
<1>1. /\ a \in Owners /\ b \in Owners /\ own[a] = UnitTasks(unit[u]) /\ own[b] = QueueTasks(queue[k])
      /\ own2[a] = UnitTasks(r2) /\ own2[b] = QueueTasks(q2)
  <2>1. a \in Owners /\ b \in Owners
    BY OwnAt
  <2>2. own[a] = UnitTasks(unit[u])
    BY OwnAt
  <2>3. own[b] = QueueTasks(queue[k])
    BY OwnAt
  <2>4. own2[a] = UnitTasks(unit'[u])
    BY OwnAt
  <2>5. own2[b] = QueueTasks(queue'[k])
    BY OwnAt
  <2>6. unit'[u] = r2 /\ queue'[k] = q2
    BY <1>0
  <2> HIDE DEF own, own2, a, b
  <2> QED
    BY ONLY <2>1, <2>2, <2>3, <2>4, <2>5, <2>6
<1>2. \A o \in Owners : o # a /\ o # b => own2[o] = own[o]
  <2> SUFFICES ASSUME NEW o \in Owners, o # a, o # b
               PROVE  own2[o] = own[o]
    OBVIOUS
  <2>1. CASE \E l \in 0..N : o = <<"queue", l>>
    <3>1. PICK l \in 0..N : o = <<"queue", l>>
      BY <2>1
    <3>2. queue'[l] = queue[l]
      BY <3>1, <1>0
    <3>3. own[o] = QueueTasks(queue[l])
      BY <3>1, OwnAt
    <3>4. own2[o] = QueueTasks(queue'[l])
      BY <3>1, OwnAt
    <3> HIDE DEF own, own2
    <3> QED
      BY ONLY <3>2, <3>3, <3>4
  <2>2. CASE \E v \in Units : o = <<"unit", v>>
    <3>1. PICK v \in Units : o = <<"unit", v>>
      BY <2>2
    <3>2. unit'[v] = unit[v]
      BY <3>1, <1>0
    <3>3. own[o] = UnitTasks(unit[v])
      BY <3>1, OwnAt
    <3>4. own2[o] = UnitTasks(unit'[v])
      BY <3>1, OwnAt
    <3> HIDE DEF own, own2
    <3> QED
      BY ONLY <3>2, <3>3, <3>4
  <2> QED
    BY <2>1, <2>2, OwnAt
<1>3. OneOwner(own, fate) /\ (\A l \in 0..N : QueueApart(queue[l])) /\ \A v \in Units : UnitApart(unit[v])
  BY DEF OwnerInv
<1> HIDE DEF own, own2, a, b
<1>4. OneOwner(own2, fate')
  <2>1. \A o \in Owners : o # a /\ o # b => \A t : t \in own2[o] <=> t \in own[o]
    BY <1>2
  <2>2. OwnChange(own, own2, fate, fate', a, b, G, B)
    BY <2>1, <1>1 DEF OwnChange, MoveChange
  <2> QED
    BY <1>1, <1>3, <2>2, OwnStep
<1>5. (\A l \in 0..N : QueueApart(queue'[l])) /\ \A v \in Units : UnitApart(unit'[v])
  BY <1>0, <1>3 DEF MoveChange
<1> QED
  BY <1>4, <1>5, OwnPrimed DEF own2

\* The tasks of a unit and those of a queue are others, and live.
LEMMA OthersTasks ==
    ASSUME OwnerInv, NEW u \in Units, NEW k \in 0..N, NEW t
    PROVE  /\ ~(t \in UnitTasks(unit[u]) /\ t \in QueueTasks(queue[k]))
           /\ t \in UnitTasks(unit[u]) \/ t \in QueueTasks(queue[k]) => t \in Tasks /\ fate[t] = "live" /\ t # NoTask
<1> DEFINE own == Own(queue, unit)
           a == <<"unit", u>>
           b == <<"queue", k>>
<1>1. /\ a \in Owners /\ b \in Owners /\ own[a] = UnitTasks(unit[u]) /\ own[b] = QueueTasks(queue[k])
  BY OwnAt
<1>2. OneOwner(own, fate)
  BY DEF OwnerInv
<1>3. a # b
  OBVIOUS
<1> HIDE DEF own, a, b
<1>4. ~(t \in own[a] /\ t \in own[b]) /\ (t \in own[a] \/ t \in own[b] => t \in Tasks /\ fate[t] = "live")
  BY <1>1, <1>2, <1>3 DEF OneOwner
<1> QED
  BY <1>1, <1>4, TasksParts, QueueParts

\* Only a unit changes.
UnitChange(u, r2, G, B) ==
    /\ \A t : t \in UnitTasks(r2) <=> (t \in UnitTasks(unit[u]) /\ t \notin G) \/ t \in B
    /\ \A t \in Tasks : fate'[t] = "live" <=> (fate[t] = "live" /\ t \notin G) \/ t \in B
    /\ \A t \in Tasks : t \in G => t \in UnitTasks(unit[u])
    /\ \A t \in B : t \in Tasks /\ fate[t] # "live"
    /\ UnitApart(r2)

\* The same, of a unit alone.
LEMMA OwnUnit ==
    ASSUME OrderInv, OwnerInv, NEW u \in Units, NEW r2, NEW G, NEW B,
           pipeline' = pipeline, Stepped(u, r2), queue' = queue, UnitChange(u, r2, G, B)
    PROVE  OwnerInv'
<1> DEFINE k == 0
           q2 == queue[k]
<1>1. k \in 0..N /\ queue' = [queue EXCEPT ![k] = q2] /\ QueueApart(q2)
  BY TypesHold DEF OwnerInv
<1>2. \A t : /\ ~(t \in UnitTasks(unit[u]) /\ t \in QueueTasks(queue[k]))
             /\ t \in UnitTasks(unit[u]) \/ t \in QueueTasks(queue[k]) => t \in Tasks /\ fate[t] = "live"
  BY <1>1, OthersTasks
<1> HIDE DEF k
<1>3. MoveChange(u, k, r2, q2, G, B)
  BY <1>1, <1>2 DEF UnitChange, MoveChange
<1> HIDE DEF q2
<1> QED
  BY <1>1, <1>3, OwnMove

----------------------------------------------------------------------------
(* What the steps do to the tasks of a unit and of a queue *)

\* The unit gives the task d away and gets a; NoTask stands for none.
HandStep(r, r2, d, a) ==
    /\ \A t : t \in UnitTasks(r2) <=> (t \in UnitTasks(r) /\ t # d) \/ (t = a /\ t # NoTask)
    /\ UnitApart(r2)

\* A unit keeps what it has.
LEMMA SameHand ==
    ASSUME NEW r, NEW r2, UnitApart(r), r2.item = r.item, Items(r2) = Items(r)
    PROVE  HandStep(r, r2, NoTask, NoTask)
<1>1. \A t : t \in UnitTasks(r2) <=> t \in UnitTasks(r)
  BY TasksParts
<1>2. \A t : t \in UnitTasks(r) => t # NoTask
  BY TasksParts
<1>3. UnitApart(r2)
  BY DEF UnitApart
<1> QED
  BY <1>1, <1>2, <1>3 DEF HandStep

\* A unit has another item, or none.
LEMMA ReplacedHand ==
    ASSUME NEW r, NEW r2, NEW pc, NEW x, UnitApart(r), Replaced(r, r2, pc, x),
           x.task = NoTask \/ x.task = r.item.task \/ x.task \notin UnitTasks(r)
    PROVE  HandStep(r, r2, r.item.task, x.task)
<1>1. r2.item = x /\ Items(r2) = Items(r)
  BY SameItems DEF Replaced
<1>2. /\ \A y, z \in Items(r) : y.task # NoTask /\ y.task = z.task => y = z
      /\ \A y \in Items(r) : y.task # NoTask => y.task # r.item.task
  BY DEF UnitApart
<1>3. \A t : t \in UnitTasks(r2) <=> t # NoTask /\ (t = x.task \/ \E y \in Items(r) : t = y.task)
  BY <1>1, TasksParts
<1>4. \A t : t \in UnitTasks(r) <=> t # NoTask /\ (t = r.item.task \/ \E y \in Items(r) : t = y.task)
  BY TasksParts
<1>5. \A t : t \in UnitTasks(r2) <=> (t \in UnitTasks(r) /\ t # r.item.task) \/ (t = x.task /\ t # NoTask)
  BY <1>2, <1>3, <1>4
<1>6. \A y \in Items(r) : y.task # NoTask => y.task # x.task
  BY <1>2, <1>4
<1>7. UnitApart(r2)
  BY <1>1, <1>2, <1>6 DEF UnitApart
<1> QED
  BY <1>5, <1>7 DEF HandStep

\* An item comes to the window or the overflow.
LEMMA PlaceHand ==
    ASSUME NEW r, NEW r2, NEW x, UnitApart(r), r2.item = r.item, \A z : z \in Items(r2) <=> z \in Items(r) \/ z = x,
           x.task \notin UnitTasks(r)
    PROVE  HandStep(r, r2, NoTask, x.task)
<1>2. /\ \A y, z \in Items(r) : y.task # NoTask /\ y.task = z.task => y = z
      /\ \A y \in Items(r) : y.task # NoTask => y.task # r.item.task
  BY DEF UnitApart
<1>3. \A t : t \in UnitTasks(r2) <=> t # NoTask /\ (t = r.item.task \/ \E y \in Items(r2) : t = y.task)
  BY TasksParts
<1>4. \A t : t \in UnitTasks(r) <=> t # NoTask /\ (t = r.item.task \/ \E y \in Items(r) : t = y.task)
  BY TasksParts
<1>5. \A t : t \in UnitTasks(r2) <=> (t \in UnitTasks(r) /\ t # NoTask) \/ (t = x.task /\ t # NoTask)
  BY <1>3, <1>4
<1>6. \A y \in Items(r) : y.task # NoTask => y.task # x.task
  BY <1>4
<1>7. x.task # NoTask => x.task # r.item.task
  BY <1>4
<1>8. UnitApart(r2)
  BY <1>2, <1>6, <1>7 DEF UnitApart
<1> QED
  BY <1>5, <1>8 DEF HandStep

\* The item y is taken from the window or the overflow; z0, the unit's item then, has what is left of its task.
LEMMA TurnHand ==
    ASSUME NEW r, NEW r2, NEW y \in Items(r), NEW z0, UnitApart(r), \A z : z \in Items(r2) <=> z \in Items(r) /\ z # y,
           r2.item = z0, r.item.task = NoTask, z0.task \in {y.task, NoTask}
    PROVE  HandStep(r, r2, y.task, z0.task)
<1>2. /\ \A x, z \in Items(r) : x.task # NoTask /\ x.task = z.task => x = z
  BY DEF UnitApart
<1>3. \A t : t \in UnitTasks(r2) <=> t # NoTask /\ (t = z0.task \/ \E x \in Items(r2) : t = x.task)
  BY TasksParts
<1>4. \A t : t \in UnitTasks(r) <=> t # NoTask /\ (t = r.item.task \/ \E x \in Items(r) : t = x.task)
  BY TasksParts
<1>5. \A t : t \in UnitTasks(r2) <=> (t \in UnitTasks(r) /\ t # y.task) \/ (t = z0.task /\ t # NoTask)
  BY <1>2, <1>3, <1>4
<1>6. UnitApart(r2)
  BY <1>2 DEF UnitApart
<1> QED
  BY <1>5, <1>6 DEF HandStep

\* The item y of the window has become y2.
LEMMA HeadHand ==
    ASSUME NEW r, NEW r2, NEW y \in Items(r), NEW y2, UnitApart(r),
           \A z : z \in Items(r2) <=> (z \in Items(r) /\ z # y) \/ z = y2,
           r2.item = r.item, r.item.task = NoTask, y2.task \in {y.task, NoTask}
    PROVE  HandStep(r, r2, y.task, y2.task)
<1>2. /\ \A x, z \in Items(r) : x.task # NoTask /\ x.task = z.task => x = z
  BY DEF UnitApart
<1>3. \A t : t \in UnitTasks(r2) <=> t # NoTask /\ (t = r.item.task \/ \E x \in Items(r2) : t = x.task)
  BY TasksParts
<1>4. \A t : t \in UnitTasks(r) <=> t # NoTask /\ (t = r.item.task \/ \E x \in Items(r) : t = x.task)
  BY TasksParts
<1>5. \A t : t \in UnitTasks(r2) <=> (t \in UnitTasks(r) /\ t # y.task) \/ (t = y2.task /\ t # NoTask)
  BY <1>2, <1>3, <1>4
<1>6. UnitApart(r2)
  BY <1>2 DEF UnitApart
<1> QED
  BY <1>5, <1>6 DEF HandStep

\* What pop_front and push_back make of the tasks of a queue.
LEMMA TailTasks ==
    ASSUME NEW q \in Seq(Item), q # <<>>, QueueApart(q)
    PROVE  /\ QueueApart(Tail(q)) /\ Head(q).task \notin QueueTasks(Tail(q))
           /\ \A t : t \in QueueTasks(q) <=> t \in QueueTasks(Tail(q)) \/ (t = Head(q).task /\ t # NoTask)
<1> DEFINE q2 == Tail(q)
<1>1. /\ Len(q2) = Len(q) - 1 /\ Len(q) \in Nat /\ Len(q) >= 1 /\ Head(q) = q[1]
      /\ \A i \in 1..Len(q2) : q2[i] = q[i + 1] /\ i + 1 \in 1..Len(q)
  BY TailOfQueue
<1>2. \A i \in 1..Len(q) : i = 1 \/ (i - 1 \in 1..Len(q2) /\ q[i] = q2[i - 1])
  <2> TAKE i \in 1..Len(q)
  <2>1. i # 1 => i - 1 \in 1..Len(q2) /\ i - 1 + 1 = i
    BY <1>1
  <2> QED
    BY <2>1, <1>1
<1>3. 1 \in 1..Len(q)
  BY <1>1
<1> HIDE DEF q2
<1>4. \A i, j \in 1..Len(q) : q[i].task # NoTask /\ q[i].task = q[j].task => i = j
  BY DEF QueueApart
<1>5. QueueApart(q2)
  <2> SUFFICES ASSUME NEW i \in 1..Len(q2), NEW j \in 1..Len(q2), q2[i].task # NoTask, q2[i].task = q2[j].task
               PROVE  i = j
    BY DEF QueueApart
  <2>1. i + 1 = j + 1
    BY <1>1, <1>4
  <2> QED
    BY <2>1, <1>1
<1>6. Head(q).task \notin QueueTasks(q2)
  <2> SUFFICES ASSUME Head(q).task \in QueueTasks(q2)
               PROVE  FALSE
    OBVIOUS
  <2>1. PICK i \in 1..Len(q2) : q[1].task = q2[i].task /\ q[1].task # NoTask
    BY <1>1, QueueParts
  <2>2. q[i + 1].task = q[1].task /\ i + 1 \in 1..Len(q)
    BY <2>1, <1>1
  <2>3. i + 1 = 1
    BY <2>1, <2>2, <1>3, <1>4
  <2> QED
    BY <2>3, <1>1
<1>7. ASSUME NEW t
      PROVE  t \in QueueTasks(q) <=> t \in QueueTasks(q2) \/ (t = Head(q).task /\ t # NoTask)
  BY <1>1, <1>2, <1>3, QueueParts, SMTT(30)
<1> QED
  BY <1>5, <1>6, <1>7 DEF q2

\* The tasks of a queue after push_back.
LEMMA AppendTasks ==
    ASSUME NEW q \in Seq(Item), NEW x \in Item, QueueApart(q), x.task \notin QueueTasks(q)
    PROVE  /\ QueueApart(Append(q, x))
           /\ \A t : t \in QueueTasks(Append(q, x)) <=> t \in QueueTasks(q) \/ (t = x.task /\ t # NoTask)
<1> DEFINE q2 == Append(q, x)
           n == Len(q) + 1
<1>1. /\ Len(q) \in Nat /\ Len(q2) = n /\ q2[n] = x /\ n \in 1..Len(q2)
      /\ \A i \in 1..Len(q2) : i # n => q2[i] = q[i] /\ i \in 1..Len(q)
  BY AppendToQueue
<1>2. \A i \in 1..Len(q) : i # n /\ i \in 1..Len(q2)
  BY <1>1
<1> HIDE DEF q2, n
<1>3. \A i, j \in 1..Len(q) : q[i].task # NoTask /\ q[i].task = q[j].task => i = j
  BY DEF QueueApart
<1>4. \A i \in 1..Len(q) : q[i].task # NoTask => q[i].task # x.task
  BY QueueParts
<1>5. QueueApart(q2)
  <2> SUFFICES ASSUME NEW i \in 1..Len(q2), NEW j \in 1..Len(q2), q2[i].task # NoTask, q2[i].task = q2[j].task
               PROVE  i = j
    BY DEF QueueApart
  <2>1. CASE i = n /\ j # n
    BY <2>1, <1>1, <1>4
  <2>2. CASE i # n /\ j = n
    BY <2>2, <1>1, <1>4
  <2>3. CASE i # n /\ j # n
    BY <2>3, <1>1, <1>3
  <2> QED
    BY <2>1, <2>2, <2>3
<1>6. ASSUME NEW t
      PROVE  t \in QueueTasks(q2) <=> t \in QueueTasks(q) \/ (t = x.task /\ t # NoTask)
  BY <1>1, <1>2, QueueParts
<1> QED
  BY <1>5, <1>6 DEF q2

----------------------------------------------------------------------------
(* OwnerInv, step by step *)

\* Who is still live.
LEMMA Becomes ==
    ASSUME NEW S, NEW f, f # "live", NEW t \in Tasks
    PROVE  Become(S, f)[t] = "live" <=> fate[t] = "live" /\ t \notin S
  BY DEF Become

\* process leaves the task, or none.
LEMMA OutcomesOf ==
    ASSUME NEW k, NEW t, NEW t2 \in Outcomes(k, t)
    PROVE  t2 \in {t, NoTask}
  BY DEF Outcomes

\* Tasks are positive numbers.
LEMMA TaskType ==
    ASSUME pipeline \in Pipelines
    PROVE  pipeline.tasks \in Nat /\ NoTask \notin Tasks /\ \A t \in Tasks : t \in Nat /\ t # NoTask
  BY PipelineAssumption DEF Tasks, NoTask

\* The unit gives up its task d, or what is left of it is a.
LEMMA OwnHand ==
    ASSUME OrderInv, OwnerInv, NEW u \in Units, NEW r2, NEW d, NEW a, pipeline' = pipeline, Stepped(u, r2), queue' = queue,
           HandStep(unit[u], r2, d, a), d = NoTask \/ d \in UnitTasks(unit[u]), a \in {d, NoTask},
           \A t \in Tasks : fate'[t] = "live" <=> fate[t] = "live" /\ (t # d \/ t = a)
    PROVE  OwnerInv'
<1> DEFINE G == {t \in {d} : t # a}
<1>1. \A t : t \in G <=> t = d /\ t # a
  OBVIOUS
<1>2. NoTask \notin Tasks /\ \A t \in UnitTasks(unit[u]) : t # NoTask
  BY TypesHold, TaskType, TasksParts
<1> HIDE DEF G
<1>3. UnitChange(u, r2, G, {})
  BY <1>1, <1>2 DEF UnitChange, HandStep
<1> QED
  BY <1>3, OwnUnit

\* The unit pops an item from the queue before its stage, and has its task.
LEMMA OwnPop ==
    ASSUME OrderInv, OwnerInv, NEW u \in Units, NEW r2, NEW x, pipeline' = pipeline, Stepped(u, r2),
           queue[u[1] - 1] # <<>>, x = Head(queue[u[1] - 1]), queue' = [queue EXCEPT ![u[1] - 1] = Tail(@)],
           HandStep(unit[u], r2, NoTask, x.task), fate' = fate
    PROVE  OwnerInv'
<1> DEFINE k == u[1] - 1
           q == queue[k]
           q2 == Tail(q)
<1>1. k \in 0..N /\ q \in Seq(Item) /\ QueueApart(q) /\ queue' = [queue EXCEPT ![k] = q2]
  BY TypesHold, UnitsShape DEF OwnerInv
<1>2. /\ QueueApart(q2) /\ x.task \notin QueueTasks(q2)
      /\ \A t : t \in QueueTasks(q) <=> t \in QueueTasks(q2) \/ (t = x.task /\ t # NoTask)
  BY <1>1, TailTasks
<1>3. \A t : /\ ~(t \in UnitTasks(unit[u]) /\ t \in QueueTasks(q))
             /\ t \in UnitTasks(unit[u]) \/ t \in QueueTasks(q) => t \in Tasks /\ fate[t] = "live" /\ t # NoTask
  BY <1>1, OthersTasks
<1> HIDE DEF q2, k
<1>4. MoveChange(u, k, r2, q2, {}, {})
  BY <1>2, <1>3 DEF MoveChange, HandStep
<1> QED
  BY <1>1, <1>4, OwnMove

\* The unit pushes its item y to the queue behind its stage.
LEMMA OwnPush ==
    ASSUME OrderInv, OwnerInv, NEW u \in Units, NEW r2, NEW y \in Item, pipeline' = pipeline, Stepped(u, r2),
           queue' = [queue EXCEPT ![u[1]] = Append(@, y)],
           HandStep(unit[u], r2, y.task, NoTask), y.task = NoTask \/ y.task \in UnitTasks(unit[u]), fate' = fate
    PROVE  OwnerInv'
<1> DEFINE k == u[1]
           q == queue[k]
           q2 == Append(q, y)
<1>1. k \in 0..N /\ q \in Seq(Item) /\ QueueApart(q) /\ queue' = [queue EXCEPT ![k] = q2]
  BY TypesHold, UnitsShape DEF OwnerInv
<1>2. \A t : /\ ~(t \in UnitTasks(unit[u]) /\ t \in QueueTasks(q))
             /\ t \in UnitTasks(unit[u]) \/ t \in QueueTasks(q) => t \in Tasks /\ fate[t] = "live" /\ t # NoTask
  BY <1>1, OthersTasks
<1>3. y.task \notin QueueTasks(q)
  BY <1>2
<1>4. /\ QueueApart(q2)
      /\ \A t : t \in QueueTasks(q2) <=> t \in QueueTasks(q) \/ (t = y.task /\ t # NoTask)
  BY <1>1, <1>3, AppendTasks
<1> HIDE DEF q2, k
<1>5. MoveChange(u, k, r2, q2, {}, {})
  BY <1>2, <1>4 DEF MoveChange, HandStep
<1> QED
  BY <1>1, <1>5, OwnMove

\* The unit destroys what it pops.
LEMMA OwnDrain ==
    ASSUME OrderInv, OwnerInv, NEW u \in Units, NEW r2, NEW x, pipeline' = pipeline, Stepped(u, r2),
           queue[u[1] - 1] # <<>>, x = Head(queue[u[1] - 1]), queue' = [queue EXCEPT ![u[1] - 1] = Tail(@)],
           HandStep(unit[u], r2, NoTask, NoTask), fate' = Become({x.task}, "destroyed")
    PROVE  OwnerInv'
<1> DEFINE k == u[1] - 1
           q == queue[k]
           q2 == Tail(q)
<1>1. k \in 0..N /\ q \in Seq(Item) /\ QueueApart(q) /\ queue' = [queue EXCEPT ![k] = q2]
  BY TypesHold, UnitsShape DEF OwnerInv
<1>2. /\ QueueApart(q2) /\ x.task \notin QueueTasks(q2)
      /\ \A t : t \in QueueTasks(q) <=> t \in QueueTasks(q2) \/ (t = x.task /\ t # NoTask)
  BY <1>1, TailTasks
<1>3. \A t : /\ ~(t \in UnitTasks(unit[u]) /\ t \in QueueTasks(q))
             /\ t \in UnitTasks(unit[u]) \/ t \in QueueTasks(q) => t \in Tasks /\ fate[t] = "live" /\ t # NoTask
  BY <1>1, OthersTasks
<1>4. \A t \in Tasks : fate'[t] = "live" <=> fate[t] = "live" /\ t # x.task
  BY Becomes
<1>5. NoTask \notin Tasks
  BY TypesHold, TaskType
<1> HIDE DEF q2, k
<1>6. MoveChange(u, k, r2, q2, {x.task}, {})
  BY <1>2, <1>3, <1>4, <1>5 DEF MoveChange, HandStep
<1> QED
  BY <1>1, <1>6, OwnMove

\* An exception: the unit has nothing any more.
LEMMA OwnCatch ==
    ASSUME OrderInv, ShapeInv, OwnerInv, NEW u \in Units, pipeline' = pipeline,
           \/ Catch(u, {}) /\ queue' = queue
           \/ /\ queue[u[1] - 1] # <<>> /\ queue' = [queue EXCEPT ![u[1] - 1] = Tail(@)]
              /\ Catch(u, {Head(queue[u[1] - 1]).task})
    PROVE  OwnerInv'
<1> DEFINE r == unit[u]
           k == u[1] - 1
           q == queue[k]
           q2 == Tail(q)
           x == Head(q)
<1>1. k \in 0..N /\ q \in Seq(Item) /\ QueueApart(q) /\ r \in UnitRec /\ ShapeOK(u[1], r)
  BY TypesHold, UnitsShape DEF OwnerInv, ShapeInv
<1>2. \A t : t # NoTask => (t \in Held(r) <=> t \in UnitTasks(r))
  BY <1>1, HeldTasks
<1>3. NoTask \notin Tasks /\ \A t \in UnitTasks(r) : t # NoTask
  BY TypesHold, TaskType, TasksParts
<1>4. ASSUME NEW S, Catch(u, S)
      PROVE  \E r2 : /\ Stepped(u, r2) /\ (\A t : t \notin UnitTasks(r2)) /\ UnitApart(r2)
                     /\ \A t \in Tasks : fate'[t] = "live" <=> fate[t] = "live" /\ t \notin UnitTasks(r) /\ t \notin S
  <2>1. PICK r2 : Stepped(u, r2) /\ Emptied(r2) /\ fate' = Become(Held(r) \cup S, "lost")
    BY <1>4, TypesHold, CatchEmpties
  <2>2. Empty(r2)
    BY <2>1, BareIsEmpty DEF Emptied, Empty
  <2>3. UnitTasks(r2) = {} /\ UnitApart(r2)
    BY <2>2, EmptyHasNone
  <2>4. \A t \in Tasks : fate'[t] = "live" <=> fate[t] = "live" /\ t \notin Held(r) \cup S
    BY <2>1, Becomes
  <2> QED
    BY <2>1, <2>3, <2>4, <1>2, <1>3
<1>5. CASE Catch(u, {}) /\ queue' = queue
  <2>1. PICK r2 : /\ Stepped(u, r2) /\ (\A t : t \notin UnitTasks(r2)) /\ UnitApart(r2)
                  /\ \A t \in Tasks : fate'[t] = "live" <=> fate[t] = "live" /\ t \notin UnitTasks(r)
    BY <1>4, <1>5
  <2>2. UnitChange(u, r2, UnitTasks(r), {})
    BY <2>1 DEF UnitChange
  <2> QED
    BY <2>1, <2>2, <1>5, OwnUnit
<1>6. CASE q # <<>> /\ queue' = [queue EXCEPT ![k] = Tail(@)] /\ Catch(u, {x.task})
  <2>1. PICK r2 : /\ Stepped(u, r2) /\ (\A t : t \notin UnitTasks(r2)) /\ UnitApart(r2)
                  /\ \A t \in Tasks : fate'[t] = "live" <=> fate[t] = "live" /\ t \notin UnitTasks(r) /\ t \notin {x.task}
    BY <1>4, <1>6
  <2>2. /\ QueueApart(q2) /\ x.task \notin QueueTasks(q2)
        /\ \A t : t \in QueueTasks(q) <=> t \in QueueTasks(q2) \/ (t = x.task /\ t # NoTask)
    BY <1>1, <1>6, TailTasks
  <2>3. \A t : /\ ~(t \in UnitTasks(r) /\ t \in QueueTasks(q))
               /\ t \in UnitTasks(r) \/ t \in QueueTasks(q) => t \in Tasks /\ fate[t] = "live" /\ t # NoTask
    BY <1>1, OthersTasks
  <2> DEFINE G == UnitTasks(r) \cup {x.task}
  <2>4. \A t : t \in G <=> t \in UnitTasks(r) \/ t = x.task
    OBVIOUS
  <2>5. queue' = [queue EXCEPT ![k] = q2]
    BY <1>6
  <2> HIDE DEF q2, k, G, x
  <2>6. MoveChange(u, k, r2, q2, G, {})
    BY <2>1, <2>2, <2>3, <2>4, <1>3 DEF MoveChange
  <2> QED
    BY <2>1, <2>5, <2>6, <1>1, OwnMove
<1> QED
  BY <1>5, <1>6

\* The steps that change no item.
LEMMA PlainHands ==
    ASSUME OrderInv, ShapeInv, NEW u \in Units,
           \/ Begin(u) \/ Leave(u) \/ ReadRun(u) \/ ReadPrev(u) \/ ReadEmpty(u) \/ PopTimeout(u) \/ DrainEmpty(u)
           \/ DrainPrev(u) \/ DrainPop(u) \/ SerialWait(u)
    PROVE  \E r2 : Stepped(u, r2) /\ r2.item = unit[u].item /\ Items(r2) = Items(unit[u])
<1>1. ASSUME NEW pc \in Pcs, Goto(u, pc)
      PROVE  \E r2 : Stepped(u, r2) /\ r2.item = unit[u].item /\ Items(r2) = Items(unit[u])
  <2>1. PICK r2 : Stepped(u, r2) /\ SamePlaces(unit[u], r2)
    BY <1>1, TypesHold, GotoFields
  <2>2. r2.item = unit[u].item /\ Items(r2) = Items(unit[u])
    BY <2>1, SameTasks DEF SamePlaces
  <2> QED
    BY <2>1, <2>2
<1>2. CASE ReadEmpty(u)
  <2>1. CASE \E r2 : GatherEffect(u, r2)
    BY <2>1 DEF GatherEffect
  <2>2. "pop" \in Pcs /\ "left" \in Pcs
    BY DEF Pcs
  <2> QED
    BY <1>1, <1>2, <2>1, <2>2, ReadEmptySteps
<1>3. CASE ~ReadEmpty(u)
  <2>1. \E pc \in Pcs : Goto(u, pc)
    <3>1. CASE Begin(u)
      BY <3>1 DEF Begin, Pcs
    <3>2. CASE Leave(u)
      BY <3>2 DEF Leave, Pcs
    <3>3. CASE ReadRun(u)
      BY <3>3 DEF ReadRun, Pcs
    <3>4. CASE ReadPrev(u)
      BY <3>4 DEF ReadPrev, Pcs
    <3>5. CASE PopTimeout(u)
      BY <3>5 DEF PopTimeout, Pcs
    <3>6. CASE DrainEmpty(u)
      BY <3>6 DEF DrainEmpty, Pcs
    <3>7. CASE DrainPrev(u)
      BY <3>7 DEF DrainPrev, Pcs
    <3>8. CASE SerialWait(u)
      BY <3>8 DEF SerialWait, Pcs
    <3>9. CASE DrainPop(u)
      BY <3>9 DEF DrainPop, Pcs
    <3> QED
      BY <1>3, <3>1, <3>2, <3>3, <3>4, <3>5, <3>6, <3>7, <3>8, <3>9
  <2> QED
    BY <2>1, <1>1
<1> QED
  BY <1>2, <1>3

\* What a unit has at the end of its step, for the steps that change no task.
LEMMA OwnPlainSteps ==
    ASSUME OrderInv, ShapeInv, OwnerInv, NEW u \in Units,
           \/ Begin(u) \/ Leave(u) \/ ReadRun(u) \/ ReadPrev(u) \/ ReadEmpty(u) \/ PopTimeout(u) \/ DrainEmpty(u)
           \/ DrainPrev(u) \/ SerialWait(u)
    PROVE  OwnerInv'
<1>1. pipeline' = pipeline /\ queue' = queue /\ fate' = fate
  BY DEF Begin, Leave, ReadRun, ReadPrev, ReadEmpty, PopTimeout, DrainEmpty, DrainPrev, SerialWait
<1>2. UnitApart(unit[u])
  BY DEF OwnerInv
<1>4. PICK r2 : Stepped(u, r2) /\ r2.item = unit[u].item /\ Items(r2) = Items(unit[u])
  BY PlainHands
<1>5. HandStep(unit[u], r2, NoTask, NoTask)
  BY <1>2, <1>4, SameHand
<1>6. NoTask \notin Tasks
  BY TypesHold, TaskType
<1>7. \A t \in Tasks : fate'[t] = "live" <=> fate[t] = "live" /\ (t # NoTask \/ t = NoTask)
  BY <1>1
<1> QED
  BY <1>1, <1>4, <1>5, <1>7, OwnHand

\* The catch block's pop destroys the task.
LEMMA OwnDrainPop ==
    ASSUME OrderInv, ShapeInv, OwnerInv, NEW u \in Units, DrainPop(u)
    PROVE  OwnerInv'
<1>1. pipeline' = pipeline /\ UnitApart(unit[u])
  BY DEF DrainPop, OwnerInv
<1>2. PICK r2 : Stepped(u, r2) /\ r2.item = unit[u].item /\ Items(r2) = Items(unit[u])
  BY PlainHands
<1>4. HandStep(unit[u], r2, NoTask, NoTask)
  BY <1>1, <1>2, SameHand
<1>5. CASE queue' = queue /\ fate' = fate
  <2>1. \A t \in Tasks : fate'[t] = "live" <=> fate[t] = "live" /\ (t # NoTask \/ t = NoTask)
    BY <1>5
  <2> QED
    BY <2>1, <1>1, <1>2, <1>4, <1>5, OwnHand
<1>6. CASE /\ queue[u[1] - 1] # <<>> /\ queue' = [queue EXCEPT ![u[1] - 1] = Tail(queue[u[1] - 1])]
           /\ fate' = Become({Head(queue[u[1] - 1]).task}, "destroyed")
  BY <1>1, <1>2, <1>4, <1>6, OwnDrain
<1> QED
  BY <1>5, <1>6 DEF DrainPop

\* Owners, in the stages that are not serial.
LEMMA OwnItemSteps ==
    ASSUME OrderInv, ShapeInv, OwnerInv, NEW u \in Units, PopFront(u) \/ Process(u) \/ PushBack(u) \/ FlushPush(u)
    PROVE  OwnerInv'
<1> DEFINE k == u[1]
           r == unit[u]
<1>1. /\ pipeline' = pipeline /\ UnitApart(r) /\ ShapeOK(k, r) /\ SerialTypeOK /\ r \in UnitRec /\ r.item \in Item
      /\ r.pc \notin ItemPcs => r.item = NoItem
  <2>1. ShapeOK(k, r) /\ pipeline' = pipeline
    BY StepKeepsPipeline DEF UnitNext, ShapeInv
  <2> QED
    BY <2>1, TypesHold, SlotsShape DEF OwnerInv, ShapeOK
<1>2. NoItem.task = NoTask /\ \A t : t \in UnitTasks(r) => t # NoTask
  BY TasksParts DEF NoItem
<1>3. r.item.task = NoTask \/ r.item.task \in UnitTasks(r)
  BY TasksParts
<1>4. NoTask \notin Tasks
  BY TypesHold, TaskType
<1>5. CASE PopFront(u)
  <2>1. PICK r2, x : PopFrontEffect(u, r2, x)
    BY <1>5, PopFrontSteps
  <2>2. /\ r.pc = "pop" /\ queue[k - 1] # <<>> /\ x = Head(queue[k - 1]) /\ Numbered(k, x).task = x.task
        /\ Stepped(u, r2) /\ Replaced(r, r2, "process", Numbered(k, x))
    BY <2>1 DEF PopFrontEffect
  <2>3. r.item.task = NoTask
    BY <2>2, <1>1, <1>2 DEF ItemPcs
  <2>4. x.task \notin UnitTasks(r)
    <3>1. k - 1 \in 0..N /\ queue[k - 1] \in Seq(Item) /\ QueueApart(queue[k - 1])
      BY TypesHold, UnitsShape DEF OwnerInv
    <3>2. x.task = NoTask \/ x.task \in QueueTasks(queue[k - 1])
      BY <3>1, <2>2, TailTasks
    <3> QED
      BY <3>1, <3>2, <1>2, OthersTasks
  <2>5. HandStep(r, r2, NoTask, x.task)
    <3>1. HandStep(r, r2, r.item.task, Numbered(k, x).task)
      BY <2>2, <2>4, <1>1, ReplacedHand
    <3> QED
      BY <3>1, <2>2, <2>3
  <2>6. queue' = [queue EXCEPT ![k - 1] = Tail(@)] /\ fate' = fate
    BY <1>5 DEF PopFront
  <2> QED
    BY <2>2, <2>5, <2>6, <1>1, OwnPop
<1>6. CASE Process(u)
  <2>0. queue' = queue
    BY <1>6 DEF Process
  <2>1. CASE Catch(u, {})
    BY <2>0, <2>1, <1>1, OwnCatch
  <2>2. CASE \E r2, t : ProcessEffect(u, r2, t)
    <3>1. PICK r2, t : ProcessEffect(u, r2, t)
      BY <2>2
    <3> DEFINE d == r.item.task
    <3>2. t \in {d, NoTask} /\ t \in Nat
      BY <3>1, OutcomesOf DEF ProcessEffect
    <3>3. ASSUME ~IsLast(k), Replaced(r, r2, "push", [r.item EXCEPT !.task = t])
          PROVE  OwnerInv'
      <4> DEFINE x == [r.item EXCEPT !.task = t]
      <4>1. x.task = t
        BY <1>1 DEF Item
      <4>2. Replaced(r, r2, "push", x)
        BY <3>3
      <4> HIDE DEF x
      <4>3. HandStep(r, r2, d, t)
        BY <4>1, <4>2, <3>2, <1>1, ReplacedHand
      <4>4. fate' = IF t # d THEN Become({d}, "dropped") ELSE fate
        BY <3>1, <3>3 DEF ProcessEffect
      <4>5. \A s \in Tasks : fate'[s] = "live" <=> fate[s] = "live" /\ (s # d \/ s = t)
        <5>1. CASE t = d
          BY <4>4, <5>1
        <5>2. CASE t # d
          <6>1. t = NoTask /\ fate' = Become({d}, "dropped")
            BY <5>2, <4>4, <3>2
          <6> QED
            BY <6>1, <1>4, Becomes
        <5> QED
          BY <5>1, <5>2
      <4>6. Stepped(u, r2)
        BY <3>1 DEF ProcessEffect
      <4> QED
        BY <4>3, <4>5, <4>6, <3>2, <2>0, <1>1, <1>3, OwnHand
    <3>4. ASSUME IsLast(k) \/ t = NoTask, Replaced(r, r2, "run", NoItem)
          PROVE  OwnerInv'
      <4>1. HandStep(r, r2, d, NoTask)
        <5>1. HandStep(r, r2, d, NoItem.task)
          BY <3>4, <1>1, <1>2, ReplacedHand
        <5> QED
          BY <5>1, <1>2
      <4>2. fate' = IF t # d THEN Become({d}, "dropped") ELSE IF IsLast(k) THEN Become({d}, "destroyed") ELSE fate
        BY <3>1 DEF ProcessEffect
      <4>3. \A s \in Tasks : fate'[s] = "live" <=> fate[s] = "live" /\ (s # d \/ s = NoTask)
        <5>1. CASE t # d
          BY <5>1, <4>2, <1>4, Becomes
        <5>2. CASE t = d /\ IsLast(k)
          BY <5>2, <4>2, <1>4, Becomes
        <5>3. CASE t = d /\ ~IsLast(k)
          BY <5>3, <4>2, <3>4, <1>4
        <5> QED
          BY <5>1, <5>2, <5>3
      <4>4. Stepped(u, r2)
        BY <3>1 DEF ProcessEffect
      <4> QED
        BY <4>1, <4>3, <4>4, <2>0, <1>1, <1>3, OwnHand
    <3> QED
      BY <3>1, <3>3, <3>4 DEF ProcessEffect
  <2> QED
    BY <2>1, <2>2, <1>6, ProcessSteps
<1>7. CASE PushBack(u) \/ FlushPush(u)
  <2> DEFINE d == r.item.task
  <2>1. PICK r2, pc : GoneEffect(u, r2, pc)
    BY <1>7, GoneSteps
  <2>2. Stepped(u, r2) /\ Replaced(r, r2, pc, NoItem)
    BY <2>1 DEF GoneEffect
  <2>3. HandStep(r, r2, d, NoTask)
    <3>1. HandStep(r, r2, d, NoItem.task)
      BY <2>2, <1>1, <1>2, ReplacedHand
    <3> QED
      BY <3>1, <1>2
  <2>4. CASE queue' = [queue EXCEPT ![k] = Append(@, r.item)] /\ fate' = fate
    BY <2>2, <2>3, <2>4, <1>1, <1>3, OwnPush
  <2>5. CASE queue' = queue /\ fate' = Become({d}, "destroyed")
    <3>1. \A s \in Tasks : fate'[s] = "live" <=> fate[s] = "live" /\ (s # d \/ s = NoTask)
      BY <2>5, <1>4, Becomes
    <3> QED
      BY <3>1, <2>2, <2>3, <2>5, <1>1, <1>3, OwnHand, SMTT(30)
  <2> QED
    BY <2>4, <2>5, <1>7 DEF PushBack, FlushPush, Deliver
<1> QED
  BY <1>5, <1>6, <1>7

\* Owners, in the serial stages.
LEMMA OwnSerialSteps ==
    ASSUME OrderInv, ShapeInv, OwnerInv, NEW u \in Units, PopSerial(u) \/ SerialProcess(u) \/ SerialPush(u)
    PROVE  OwnerInv'
<1> DEFINE k == u[1]
           r == unit[u]
<1>1. /\ pipeline' = pipeline /\ UnitApart(r) /\ ShapeOK(k, r) /\ SerialTypeOK /\ r \in UnitRec
      /\ r.pc \notin ItemPcs => r.item = NoItem
  <2>1. ShapeOK(k, r) /\ pipeline' = pipeline
    BY StepKeepsPipeline DEF UnitNext, ShapeInv
  <2> QED
    BY <2>1, TypesHold DEF OwnerInv, ShapeOK
<1>2. NoItem.task = NoTask /\ \A t : t \in UnitTasks(r) => t # NoTask
  BY TasksParts DEF NoItem
<1>3. \A y \in Items(r) : y \in Item /\ (y.task = NoTask \/ y.task \in UnitTasks(r))
  BY <1>1, TasksParts, SlotsShape
<1>4. NoTask \notin Tasks
  BY TypesHold, TaskType
<1>5. CASE PopSerial(u)
  <2>0. queue[k - 1] # <<>> /\ queue' = [queue EXCEPT ![k - 1] = Tail(@)]
    BY <1>5 DEF PopSerial
  <2>1. CASE Catch(u, {Head(queue[k - 1]).task})
    BY <2>0, <2>1, <1>1, OwnCatch
  <2>2. CASE (\E r2, x : PlaceEffect(u, r2, x)) /\ fate' = fate
    <3>1. PICK r2, x : PlaceEffect(u, r2, x)
      BY <2>2
    <3>2. /\ x = Head(queue[k - 1]) /\ Stepped(u, r2) /\ r2.item = r.item
          /\ \A z : z \in Items(r2) <=> z \in Items(r) \/ z = x
      BY <3>1 DEF PlaceEffect
    <3>3. x.task \notin UnitTasks(r)
      <4>1. k - 1 \in 0..N /\ queue[k - 1] \in Seq(Item) /\ QueueApart(queue[k - 1])
        BY TypesHold, UnitsShape DEF OwnerInv
      <4>2. x.task = NoTask \/ x.task \in QueueTasks(queue[k - 1])
        BY <4>1, <3>2, <2>0, TailTasks
      <4> QED
        BY <4>1, <4>2, <1>2, OthersTasks
    <3>4. HandStep(r, r2, NoTask, x.task)
      BY <3>2, <3>3, <1>1, PlaceHand
    <3> QED
      BY <3>2, <3>4, <2>0, <2>2, <1>1, OwnPop
  <2> QED
    BY <2>1, <2>2, <1>5, PopSerialSteps
<1>6. CASE SerialProcess(u)
  <2>0. queue' = queue
    BY <1>6 DEF SerialProcess
  <2>1. CASE Catch(u, {})
    BY <2>0, <2>1, <1>1, OwnCatch
  <2>2. CASE \E r2, y, t : HeadEffect(u, r2, y, t) \/ TurnEffect(u, r2, y, t)
    <3>1. PICK r2, y, t : HeadEffect(u, r2, y, t) \/ TurnEffect(u, r2, y, t)
      BY <2>2
    <3>2. /\ t \in Outcomes(k, y.task) /\ t \in Nat /\ y \in Items(r) /\ Stepped(u, r2) /\ r.pc \in {"serial", "flush"}
          /\ fate' = IF t # y.task THEN Become({y.task}, "dropped") ELSE fate
      BY <3>1 DEF HeadEffect, TurnEffect
    <3>3. t \in {y.task, NoTask} /\ y \in Item /\ r.item = NoItem
      BY <3>2, <1>1, <1>3, OutcomesOf DEF ItemPcs
    <3> DEFINE y2 == [y EXCEPT !.task = t]
    <3>4. y2.task = t
      BY <3>3 DEF Item
    <3>5. HandStep(r, r2, y.task, t)
      <4>1. CASE HeadEffect(u, r2, y, t)
        <5>1. r2.item = r.item /\ \A z : z \in Items(r2) <=> (z \in Items(r) /\ z # y) \/ z = y2
          BY <4>1 DEF HeadEffect
        <5> HIDE DEF y2
        <5>2. HandStep(r, r2, y.task, y2.task)
          BY <5>1, <3>2, <3>3, <3>4, <1>1, <1>2, HeadHand
        <5> QED
          BY <5>2, <3>4
      <4>2. CASE TurnEffect(u, r2, y, t)
        <5>1. r2.item = y2 /\ \A z : z \in Items(r2) <=> z \in Items(r) /\ z # y
          BY <4>2 DEF TurnEffect
        <5> HIDE DEF y2
        <5>2. HandStep(r, r2, y.task, y2.task)
          BY <5>1, <3>2, <3>3, <3>4, <1>1, <1>2, TurnHand
        <5> QED
          BY <5>2, <3>4
      <4> QED
        BY <3>1, <4>1, <4>2
    <3>6. \A s \in Tasks : fate'[s] = "live" <=> fate[s] = "live" /\ (s # y.task \/ s = t)
      <4>1. CASE t = y.task
        BY <4>1, <3>2
      <4>2. CASE t # y.task
        <5>1. t = NoTask /\ fate' = Become({y.task}, "dropped")
          BY <4>2, <3>2, <3>3
        <5> QED
          BY <5>1, <1>4, Becomes
      <4> QED
        BY <4>1, <4>2
    <3>7. y.task = NoTask \/ y.task \in UnitTasks(r)
      BY <3>2, <1>3
    <3> QED
      BY <3>2, <3>3, <3>5, <3>6, <3>7, <2>0, <1>1, OwnHand
  <2> QED
    BY <2>1, <2>2, <1>6, SerialProcessSteps
<1>7. CASE SerialPush(u)
  <2>1. PICK r2, y : AdvanceEffect(u, r2, y) /\ Deliver(k, y)
    BY <1>7, SerialPushSteps
  <2>2. /\ r.pc = "push_serial" /\ y \in Items(r) /\ y \in Item /\ Stepped(u, r2) /\ r2.item = r.item
        /\ \A z : z \in Items(r2) <=> z \in Items(r) /\ z # y
    BY <2>1 DEF AdvanceEffect
  <2>3. r.item = NoItem /\ (y.task = NoTask \/ y.task \in UnitTasks(r))
    BY <2>2, <1>1, <1>3 DEF ItemPcs
  <2>4. HandStep(r, r2, y.task, NoTask)
    <3>1. HandStep(r, r2, y.task, NoItem.task)
      BY <2>2, <2>3, <1>1, <1>2, TurnHand
    <3> QED
      BY <3>1, <1>2
  <2>5. CASE queue' = [queue EXCEPT ![k] = Append(@, y)] /\ fate' = fate
    BY <2>2, <2>3, <2>4, <2>5, <1>1, OwnPush
  <2>6. CASE queue' = queue /\ fate' = Become({y.task}, "destroyed")
    <3>1. \A s \in Tasks : fate'[s] = "live" <=> fate[s] = "live" /\ (s # y.task \/ s = NoTask)
      BY <2>6, <1>4, Becomes
    <3> QED
      BY <3>1, <2>2, <2>3, <2>4, <2>6, <1>1, OwnHand
  <2> QED
    BY <2>1, <2>5, <2>6 DEF Deliver
<1> QED
  BY <1>5, <1>6, <1>7

----------------------------------------------------------------------------
(* Where the units go *)

\* A unit in the catch block.
Caught(u) ==
    /\ unit'[u].pc = (IF u[1] = 1 THEN "left_catch" ELSE "empty_catch")
    /\ \/ Make(u) /\ unit[u].pc = "make" /\ Catch(u, {}) /\ Throws(u[1], NextTask)
       \/ Process(u) /\ unit[u].pc = "process" /\ Catch(u, {}) /\ Throws(u[1], unit[u].item.task)
       \/ /\ SerialProcess(u) /\ unit[u].pc \in {"serial", "flush"} /\ Catch(u, {})
          /\ \E y \in Items(unit[u]) : Throws(u[1], y.task)
       \/ /\ PopSerial(u) /\ unit[u].pc = "pop" /\ Mode(u[1]) = "keep" /\ queue[u[1] - 1] # <<>>
          /\ Catch(u, {Head(queue[u[1] - 1]).task}) /\ Head(queue[u[1] - 1]).plserial < plserial[u[1]]

PcTable(u, p, p2) ==
    \/ Begin(u) /\ p = "new" /\ p2 = "run"
    \/ Leave(u) /\ p \in {"left", "left_catch"} /\ p2 = "gone"
    \/ ReadRun(u) /\ p = "run" /\ p2 = IF IsSource(u[1]) THEN (IF run THEN "make" ELSE "left") ELSE (IF run THEN "pop" ELSE "prev")
    \/ ReadPrev(u) /\ p = "prev" /\ p2 = IF running[u[1] - 1] # 0 THEN "pop" ELSE "empty"
    \/ ReadEmpty(u) /\ p = "empty" /\ (p2 = "pop" \/ (p2 \in {"flush", "left"} /\ queue[u[1] - 1] = <<>>))
    \/ Make(u) /\ p = "make" /\ p2 = "push" /\ \E r2, x : MakeEffect(u, r2, x)
    \/ PopTimeout(u) /\ p = "pop" /\ p2 = "run"
    \/ PopFront(u) /\ p = "pop" /\ p2 = "process"
    \/ Process(u) /\ p = "process" /\ p2 \in {"push", "run"} /\ \E r2, t : ProcessEffect(u, r2, t)
    \/ PushBack(u) /\ p = "push" /\ p2 = "run"
    \/ PopSerial(u) /\ p = "pop" /\ p2 = "serial" /\ \E r2, x : PlaceEffect(u, r2, x)
    \/ /\ SerialProcess(u) /\ <<p, p2>> \in {<<"serial", "push_serial">>, <<"flush", "push_flush">>}
       /\ \E r2, y, t : HeadEffect(u, r2, y, t) \/ TurnEffect(u, r2, y, t)
    \/ SerialWait(u) /\ <<p, p2>> \in {<<"serial", "run">>, <<"flush", "left">>}
    \/ SerialPush(u) /\ p = "push_serial" /\ p2 = "serial"
    \/ FlushPush(u) /\ p = "push_flush" /\ p2 = "flush"
    \/ DrainEmpty(u) /\ p = "empty_catch" /\ p2 = IF queue[u[1] - 1] = <<>> THEN "prev_catch" ELSE "pop_catch"
    \/ DrainPrev(u) /\ p = "prev_catch" /\ p2 = IF running[u[1] - 1] = 0 THEN "left_catch" ELSE "pop_catch"
    \/ DrainPop(u) /\ p = "pop_catch" /\ p2 = "empty_catch"

\* Where a unit is after it was given new local variables.
LEMMA SteppedPc ==
    ASSUME OrderInv, NEW u \in Units, NEW r2, Stepped(u, r2)
    PROVE  unit'[u] = r2 /\ unit'[u].pc = r2.pc /\ \A v \in Units : v # u => unit'[v] = unit[v]
  BY TypesHold DEF Stepped

\* Where a unit is after Goto.
LEMMA GotoPc ==
    ASSUME OrderInv, NEW u \in Units, NEW pc, Goto(u, pc)
    PROVE  unit'[u].pc = pc /\ \A v \in Units : v # u => unit'[v] = unit[v]
<1>1. unit \in [Units -> UnitRec] /\ unit' = [unit EXCEPT ![u].pc = pc]
  BY TypesHold DEF Goto
<1> QED
  BY <1>1 DEF UnitRec

\* Where a unit is after an exception.
LEMMA CatchPc ==
    ASSUME OrderInv, NEW u \in Units, NEW S, Catch(u, S)
    PROVE  /\ unit'[u].pc = (IF u[1] = 1 THEN "left_catch" ELSE "empty_catch")
           /\ \A v \in Units : v # u => unit'[v] = unit[v]
<1>1. PICK r2 : Stepped(u, r2) /\ r2.pc = (IF u[1] = 1 THEN "left_catch" ELSE "empty_catch")
  BY TypesHold, CatchEmpties
<1> QED
  BY <1>1, SteppedPc

\* A step of a unit is one of the table, or an exception.
LEMMA UnitPcs ==
    ASSUME OrderInv, ShapeInv, NEW u \in Units, UnitNext(u)
    PROVE  /\ \A v \in Units : v # u => unit'[v] = unit[v]
           /\ PcTable(u, unit[u].pc, unit'[u].pc) \/ Caught(u)
<1> DEFINE P == /\ \A v \in Units : v # u => unit'[v] = unit[v]
                /\ PcTable(u, unit[u].pc, unit'[u].pc) \/ Caught(u)
<1>1. ASSUME Begin(u) PROVE P
  BY <1>1, GotoPc DEF Begin, PcTable
<1>2. ASSUME Leave(u) PROVE P
  BY <1>2, GotoPc DEF Leave, PcTable
<1>3. ASSUME ReadRun(u) PROVE P
  <2> DEFINE pc == IF IsSource(u[1]) THEN (IF run THEN "make" ELSE "left") ELSE (IF run THEN "pop" ELSE "prev")
  <2>1. Goto(u, pc) /\ unit[u].pc = "run"
    BY <1>3 DEF ReadRun
  <2> HIDE DEF pc
  <2>2. unit'[u].pc = pc /\ \A v \in Units : v # u => unit'[v] = unit[v]
    BY <2>1, GotoPc
  <2> QED
    BY <2>1, <2>2, <1>3 DEF PcTable, pc
<1>4. ASSUME ReadPrev(u) PROVE P
  <2> DEFINE pc == IF running[u[1] - 1] # 0 THEN "pop" ELSE "empty"
  <2>1. Goto(u, pc) /\ unit[u].pc = "prev"
    BY <1>4 DEF ReadPrev
  <2> HIDE DEF pc
  <2>2. unit'[u].pc = pc /\ \A v \in Units : v # u => unit'[v] = unit[v]
    BY <2>1, GotoPc
  <2> QED
    BY <2>1, <2>2, <1>4 DEF PcTable, pc
<1>5. ASSUME ReadEmpty(u) PROVE P
  <2>1. CASE unit[u].pc = "empty" /\ Goto(u, "pop")
    BY <1>5, <2>1, GotoPc DEF PcTable
  <2>2. CASE unit[u].pc = "empty" /\ Goto(u, "left") /\ queue[u[1] - 1] = <<>>
    BY <1>5, <2>2, GotoPc DEF PcTable
  <2>3. CASE \E r2 : GatherEffect(u, r2)
    <3>1. PICK r2 : unit[u].pc = "empty" /\ queue[u[1] - 1] = <<>> /\ Stepped(u, r2) /\ r2.pc = "flush"
      BY <2>3 DEF GatherEffect
    <3> QED
      BY <3>1, <1>5, SteppedPc DEF PcTable
  <2> QED
    BY <2>1, <2>2, <2>3, <1>5, ReadEmptySteps
<1>6. ASSUME Make(u) PROVE P
  <2>0. unit[u].pc = "make"
    BY <1>6 DEF Make
  <2>1. CASE Catch(u, {}) /\ Throws(u[1], NextTask)
    BY <1>6, <2>0, <2>1, CatchPc DEF Caught
  <2>2. CASE \E r2, x : MakeEffect(u, r2, x)
    <3>1. PICK r2, x : MakeEffect(u, r2, x)
      BY <2>2
    <3>2. Stepped(u, r2) /\ r2.pc = "push"
      BY <3>1 DEF MakeEffect, Replaced
    <3> QED
      BY <3>1, <3>2, <2>0, <1>6, SteppedPc DEF PcTable
  <2> QED
    BY <2>1, <2>2, <1>6, MakeSteps
<1>7. ASSUME PopTimeout(u) PROVE P
  BY <1>7, GotoPc DEF PopTimeout, PcTable
<1>8. ASSUME PopFront(u) PROVE P
  <2>1. PICK r2, x : PopFrontEffect(u, r2, x)
    BY <1>8, PopFrontSteps
  <2>2. unit[u].pc = "pop" /\ Stepped(u, r2) /\ r2.pc = "process"
    BY <2>1 DEF PopFrontEffect, Replaced
  <2> QED
    BY <2>2, <1>8, SteppedPc DEF PcTable
<1>9. ASSUME Process(u) PROVE P
  <2>0. unit[u].pc = "process"
    BY <1>9 DEF Process
  <2>1. CASE Catch(u, {}) /\ Throws(u[1], unit[u].item.task)
    BY <1>9, <2>0, <2>1, CatchPc DEF Caught
  <2>2. CASE \E r2, t : ProcessEffect(u, r2, t)
    <3>1. PICK r2, t : ProcessEffect(u, r2, t)
      BY <2>2
    <3>2. Stepped(u, r2) /\ r2.pc \in {"push", "run"}
      BY <3>1 DEF ProcessEffect, Replaced
    <3> QED
      BY <3>1, <3>2, <2>0, <1>9, SteppedPc DEF PcTable
  <2> QED
    BY <2>1, <2>2, <1>9, ProcessSteps
<1>10. ASSUME PushBack(u) \/ FlushPush(u) PROVE P
  <2>1. CASE unit[u].pc = "push" /\ PushBack(u) /\ \E r2 : GoneEffect(u, r2, "run")
    <3>1. PICK r2 : Stepped(u, r2) /\ r2.pc = "run"
      BY <2>1 DEF GoneEffect, Replaced
    <3> QED
      BY <3>1, <2>1, SteppedPc DEF PcTable
  <2>2. CASE unit[u].pc = "push_flush" /\ FlushPush(u) /\ \E r2 : GoneEffect(u, r2, "flush")
    <3>1. PICK r2 : Stepped(u, r2) /\ r2.pc = "flush"
      BY <2>2 DEF GoneEffect, Replaced
    <3> QED
      BY <3>1, <2>2, SteppedPc DEF PcTable
  <2> QED
    BY <2>1, <2>2, <1>10, GoneSteps
<1>11. ASSUME PopSerial(u) PROVE P
  <2>0. unit[u].pc = "pop" /\ Mode(u[1]) = "keep" /\ queue[u[1] - 1] # <<>>
    BY <1>11 DEF PopSerial
  <2>1. CASE Catch(u, {Head(queue[u[1] - 1]).task}) /\ Head(queue[u[1] - 1]).plserial < plserial[u[1]]
    BY <1>11, <2>0, <2>1, CatchPc DEF Caught
  <2>2. CASE \E r2, x : PlaceEffect(u, r2, x)
    <3>1. PICK r2, x : PlaceEffect(u, r2, x)
      BY <2>2
    <3>2. Stepped(u, r2) /\ r2.pc = "serial"
      BY <3>1 DEF PlaceEffect
    <3> QED
      BY <3>1, <3>2, <2>0, <1>11, SteppedPc DEF PcTable
  <2> QED
    BY <2>1, <2>2, <1>11, PopSerialSteps
<1>12. ASSUME SerialProcess(u) PROVE P
  <2>1. CASE Catch(u, {}) /\ unit[u].pc \in {"serial", "flush"} /\ \E y \in Items(unit[u]) : Throws(u[1], y.task)
    BY <1>12, <2>1, CatchPc DEF Caught
  <2>2. CASE \E r2, y, t : HeadEffect(u, r2, y, t) \/ TurnEffect(u, r2, y, t)
    <3>1. PICK r2, y, t : HeadEffect(u, r2, y, t) \/ TurnEffect(u, r2, y, t)
      BY <2>2
    <3>2. Stepped(u, r2) /\ <<unit[u].pc, r2.pc>> \in {<<"serial", "push_serial">>, <<"flush", "push_flush">>}
      <4>1. CASE HeadEffect(u, r2, y, t)
        BY <4>1 DEF HeadEffect
      <4>2. CASE TurnEffect(u, r2, y, t)
        BY <4>2 DEF TurnEffect
      <4> QED
        BY <3>1, <4>1, <4>2
    <3> QED
      BY <3>1, <3>2, <1>12, SteppedPc DEF PcTable
  <2> QED
    BY <2>1, <2>2, <1>12, SerialProcessSteps
<1>13. ASSUME SerialWait(u) PROVE P
  <2> DEFINE pc == IF unit[u].pc = "serial" THEN "run" ELSE "left"
  <2>1. Goto(u, pc) /\ unit[u].pc \in {"serial", "flush"}
    BY <1>13 DEF SerialWait
  <2>2. <<unit[u].pc, pc>> \in {<<"serial", "run">>, <<"flush", "left">>}
    BY <2>1
  <2> HIDE DEF pc
  <2>3. unit'[u].pc = pc /\ \A v \in Units : v # u => unit'[v] = unit[v]
    BY <2>1, GotoPc
  <2> QED
    BY <2>2, <2>3, <1>13 DEF PcTable
<1>14. ASSUME SerialPush(u) PROVE P
  <2>1. PICK r2 : unit[u].pc = "push_serial" /\ Stepped(u, r2) /\ r2.pc = "serial"
    BY <1>14, SerialPushSteps DEF AdvanceEffect
  <2> QED
    BY <2>1, <1>14, SteppedPc DEF PcTable
<1>15. ASSUME DrainEmpty(u) PROVE P
  <2> DEFINE pc == IF queue[u[1] - 1] = <<>> THEN "prev_catch" ELSE "pop_catch"
  <2>1. Goto(u, pc) /\ unit[u].pc = "empty_catch"
    BY <1>15 DEF DrainEmpty
  <2> HIDE DEF pc
  <2>2. unit'[u].pc = pc /\ \A v \in Units : v # u => unit'[v] = unit[v]
    BY <2>1, GotoPc
  <2> QED
    BY <2>1, <2>2, <1>15 DEF PcTable, pc
<1>16. ASSUME DrainPrev(u) PROVE P
  <2> DEFINE pc == IF running[u[1] - 1] = 0 THEN "left_catch" ELSE "pop_catch"
  <2>1. Goto(u, pc) /\ unit[u].pc = "prev_catch"
    BY <1>16 DEF DrainPrev
  <2> HIDE DEF pc
  <2>2. unit'[u].pc = pc /\ \A v \in Units : v # u => unit'[v] = unit[v]
    BY <2>1, GotoPc
  <2> QED
    BY <2>1, <2>2, <1>16 DEF PcTable, pc
<1>17. ASSUME DrainPop(u) PROVE P
  BY <1>17, GotoPc DEF DrainPop, PcTable
<1> HIDE DEF P
<1>18. P
  BY <1>1, <1>2, <1>3, <1>4, <1>5, <1>6, <1>7, <1>8, <1>9, <1>10, <1>11, <1>12, <1>13, <1>14, <1>15, <1>16, <1>17
     DEF UnitNext
<1> QED
  BY <1>18 DEF P

----------------------------------------------------------------------------
(* NewInv: what becomes of the tasks *)

\* Tasks change their fate only when they are live.
Fated ==
    /\ fate' \in [Tasks -> Fates]
    /\ \A t \in Tasks : fate'[t] = fate[t] \/ (fate[t] = "live" /\ fate'[t] \in {"dropped", "destroyed", "lost"})

\* Live tasks come to an end.
LEMMA BecomeFated ==
    ASSUME NewInv, NEW S, NEW f \in {"dropped", "destroyed", "lost"}, fate' = Become(S, f),
           \A t \in Tasks : t \in S => fate[t] = "live"
    PROVE  Fated
<1>1. fate \in [Tasks -> Fates]
  BY DEF NewInv
<1> QED
  BY <1>1 DEF Fated, Become, Fates

\* Nothing happens to the tasks.
LEMMA SameFated ==
    ASSUME NewInv, fate' = fate
    PROVE  Fated
  BY DEF Fated, NewInv

\* Tasks of the unit and of the queue before it are live.
LEMMA CatchFated ==
    ASSUME OrderInv, ShapeInv, OwnerInv, NewInv, NEW u \in Units, NEW S, Catch(u, S),
           \A t \in S : t = NoTask \/ t \in QueueTasks(queue[u[1] - 1])
    PROVE  Fated
<1>1. unit[u] \in UnitRec /\ ShapeOK(u[1], unit[u]) /\ u[1] - 1 \in 0..N /\ NoTask \notin Tasks
  BY TypesHold, UnitsShape, TaskType DEF ShapeInv
<1>2. \A t : t # NoTask => (t \in Held(unit[u]) <=> t \in UnitTasks(unit[u]))
  BY <1>1, HeldTasks
<1>3. \A t : t \in UnitTasks(unit[u]) \/ t \in QueueTasks(queue[u[1] - 1]) => fate[t] = "live"
  BY <1>1, OthersTasks
<1> DEFINE G == Held(unit[u]) \cup S
<1>4. fate' = Become(G, "lost")
  BY DEF Catch
<1>5. \A t \in Tasks : t \in G => fate[t] = "live"
  BY <1>1, <1>2, <1>3
<1> HIDE DEF G
<1> QED
  BY <1>4, <1>5, BecomeFated

\* A step of a unit ends live tasks only, or makes one.
LEMMA UnitFated ==
    ASSUME OrderInv, ShapeInv, OwnerInv, NewInv, NEW u \in Units, UnitNext(u)
    PROVE  Fated \/ (Make(u) /\ \E r2, x : MakeEffect(u, r2, x))
<1> DEFINE k == u[1]
           r == unit[u]
<1>1. /\ r \in UnitRec /\ k - 1 \in 0..N /\ NoTask \notin Tasks /\ queue[k - 1] \in Seq(Item) /\ QueueApart(queue[k - 1])
  BY TypesHold, UnitsShape, TaskType DEF OwnerInv
<1>2. \A t : t \in UnitTasks(r) \/ t \in QueueTasks(queue[k - 1]) => fate[t] = "live"
  BY <1>1, OthersTasks
<1>3. /\ r.item.task = NoTask \/ r.item.task \in UnitTasks(r)
      /\ \A y \in Items(r) : y.task = NoTask \/ y.task \in UnitTasks(r)
  BY TasksParts
<1>4. queue[k - 1] # <<>> => LET t == Head(queue[k - 1]).task IN t = NoTask \/ t \in QueueTasks(queue[k - 1])
  BY <1>1, TailTasks
<1>5. ASSUME NEW t, t = NoTask \/ t \in UnitTasks(r) \/ t \in QueueTasks(queue[k - 1]),
             NEW f \in {"dropped", "destroyed", "lost"}, fate' = Become({t}, f)
      PROVE  Fated
  <2>1. \A s \in Tasks : s \in {t} => fate[s] = "live"
    BY <1>1, <1>2, <1>5
  <2> QED
    BY <2>1, <1>5, BecomeFated
<1>6. CASE Caught(u)
  <2>1. CASE Catch(u, {})
    BY <2>1, CatchFated
  <2>2. CASE queue[k - 1] # <<>> /\ Catch(u, {Head(queue[k - 1]).task})
    BY <2>2, <1>4, CatchFated
  <2> QED
    BY <2>1, <2>2, <1>6 DEF Caught
<1>7. CASE /\ UNCHANGED fate
  BY <1>7, SameFated
<1>8. CASE Process(u) /\ \E r2, t : ProcessEffect(u, r2, t)
  <2>1. PICK t : fate' = IF t # r.item.task THEN Become({r.item.task}, "dropped")
                         ELSE IF IsLast(k) THEN Become({r.item.task}, "destroyed") ELSE fate
    BY <1>8 DEF ProcessEffect
  <2> QED
    BY <2>1, <1>3, <1>5, SameFated
<1>9. CASE \E r2, y, t : HeadEffect(u, r2, y, t) \/ TurnEffect(u, r2, y, t)
  <2>1. PICK y, t : y \in Items(r) /\ fate' = IF t # y.task THEN Become({y.task}, "dropped") ELSE fate
    BY <1>9 DEF HeadEffect, TurnEffect
  <2> QED
    BY <2>1, <1>3, <1>5, SameFated
<1>10. CASE SerialPush(u)
  <2>1. PICK y : y \in Items(r) /\ Deliver(k, y)
    BY <1>10, SerialPushSteps DEF AdvanceEffect
  <2>2. fate' = fate \/ fate' = Become({y.task}, "destroyed")
    BY <2>1 DEF Deliver
  <2> QED
    BY <2>1, <2>2, <1>3, <1>5, SameFated
<1>11. CASE FlushPush(u)
  <2>2. fate' = fate \/ fate' = Become({r.item.task}, "destroyed")
    BY <1>11 DEF FlushPush, Deliver
  <2> QED
    BY <2>2, <1>3, <1>5, SameFated
<1>12. CASE DrainPop(u)
  <2>1. fate' = fate \/ (queue[k - 1] # <<>> /\ fate' = Become({Head(queue[k - 1]).task}, "destroyed"))
    BY <1>12 DEF DrainPop
  <2> QED
    BY <2>1, <1>4, <1>5, SameFated
<1>13. PcTable(u, r.pc, unit'[u].pc) \/ Caught(u)
  BY UnitPcs
<1>14. CASE PcTable(u, r.pc, unit'[u].pc)
  <2>1. CASE \/ Begin(u) \/ Leave(u) \/ ReadRun(u) \/ ReadPrev(u) \/ ReadEmpty(u) \/ PopTimeout(u) \/ PopFront(u)
             \/ PushBack(u) \/ SerialWait(u) \/ DrainEmpty(u) \/ DrainPrev(u)
    <3>1. UNCHANGED fate
      BY <2>1 DEF Begin, Leave, ReadRun, ReadPrev, ReadEmpty, PopTimeout, PopFront, PushBack, SerialWait, DrainEmpty, DrainPrev
    <3> QED
      BY <3>1, <1>7
  <2>2. CASE PopSerial(u) /\ \E r2, x : PlaceEffect(u, r2, x)
    <3>1. CASE Catch(u, {Head(queue[k - 1]).task}) /\ queue[k - 1] # <<>>
      BY <3>1, <1>4, CatchFated
    <3>2. CASE UNCHANGED fate
      BY <3>2, <1>7
    <3> QED
      BY <3>1, <3>2, <2>2 DEF PopSerial
  <2> QED
    BY <2>1, <2>2, <1>8, <1>9, <1>10, <1>11, <1>12, <1>14 DEF PcTable
<1> QED
  BY <1>6, <1>13, <1>14

\* The next task of a first stage that makes them.
LEMMA NextMade ==
    ASSUME pipeline \in Pipelines, NEW m \in 0..pipeline.tasks, Unmade(m)
    PROVE  NextTask = m + 1
<1>1. pipeline.tasks \in Nat /\ m \in Nat
  BY TaskType
<1>2. {x \in Tasks : fate[x] # "new"} = 1..m
  <2>1. \A x \in Tasks : fate[x] = "new" <=> x > m
    BY DEF Unmade
  <2> QED
    BY <2>1, <1>1 DEF Tasks
<1>3. Cardinality(1..m) = m
  BY <1>1, FS_Interval
<1> QED
  BY <1>2, <1>3 DEF NextTask

\* The task made is the next one, and the last one ends the run.
LEMMA MadeTask ==
    ASSUME OrderInv, ShapeInv, NewInv, NEW u \in Units, unit[u].pc = "make"
    PROVE  /\ pipeline.feed = "self" /\ u[1] = 1 /\ NextTask \in Tasks /\ fate[NextTask] = "new" /\ NextTask \in Nat
           /\ \E m \in 0..pipeline.tasks : Unmade(m) /\ NextTask = m + 1
<1>1. ShapeOK(u[1], unit[u]) /\ pipeline \in Pipelines /\ pipeline.tasks \in Nat
  BY TypesHold, TaskType DEF ShapeInv
<1>2. IsSource(u[1])
  BY <1>1 DEF ShapeOK
<1>3. pipeline.feed = "self" /\ u[1] = 1
  BY <1>2 DEF IsSource
<1>4. PICK m \in 0..pipeline.tasks : Unmade(m)
  BY <1>3 DEF NewInv
<1>5. m # pipeline.tasks /\ \A t \in Tasks : fate[t] = "new" <=> t > m
  BY <1>4 DEF Unmade
<1>6. NextTask = m + 1
  BY <1>1, <1>4, NextMade
<1>7. m + 1 \in Tasks /\ m + 1 > m /\ m + 1 \in Nat
  BY <1>1, <1>5 DEF Tasks
<1> QED
  BY <1>3, <1>4, <1>5, <1>6, <1>7

\* The task that is made has an owner.
LEMMA OwnMake ==
    ASSUME OrderInv, ShapeInv, OwnerInv, NewInv, NEW u \in Units, Make(u)
    PROVE  OwnerInv'
<1> DEFINE t == NextTask
           r == unit[u]
<1>1. pipeline' = pipeline /\ queue' = queue /\ r.pc = "make" /\ UnitApart(r)
  BY DEF Make, OwnerInv
<1>2. t \in Tasks /\ fate[t] = "new" /\ NoTask \notin Tasks /\ fate \in [Tasks -> Fates]
  BY <1>1, MadeTask, TypesHold, TaskType DEF NewInv
<1>3. CASE Catch(u, {})
  BY <1>1, <1>3, OwnCatch
<1>4. CASE /\ \E r2, x : MakeEffect(u, r2, x) 
           /\ fate' = [fate EXCEPT ![t] = "live"]
  <2>1. PICK r2, x : MakeEffect(u, r2, x)
    BY <1>4
  <2>2. Stepped(u, r2) /\ Replaced(r, r2, "push", x) /\ x.task = t
    BY <2>1 DEF MakeEffect
  <2> HIDE DEF t
  <2>3. r.item = NoItem /\ NoItem.task = NoTask
    BY <1>1 DEF ShapeInv, ShapeOK, ItemPcs, NoItem
  <2>4. \A s \in UnitTasks(r) : fate[s] = "live" /\ s # NoTask
    <3>1. 0 \in 0..N
      BY TypesHold
    <3> QED
      BY <3>1, OthersTasks
  <2>5. HandStep(r, r2, NoTask, t)
    <3>1. HandStep(r, r2, r.item.task, x.task)
      BY <2>2, <2>4, <1>1, <1>2, ReplacedHand
    <3> QED
      BY <3>1, <2>2, <2>3
  <2>6. UnitChange(u, r2, {}, {t})
    BY <2>4, <2>5, <1>2, <1>4 DEF UnitChange, HandStep
  <2> QED
    BY <2>2, <2>6, <1>1, OwnUnit
<1>5. \/ Catch(u, {})
      \/ fate' = [fate EXCEPT ![t] = "live"]
  BY DEF Make, NextTask
<1>6. Catch(u, {}) \/ \E r2, x : MakeEffect(u, r2, x)
  BY MakeSteps
<1> QED
  BY <1>3, <1>4, <1>5, <1>6

\* Every step of a unit keeps the owners.
LEMMA UnitOwners ==
    ASSUME OrderInv, ShapeInv, OwnerInv, NewInv, NEW u \in Units, UnitNext(u)
    PROVE  OwnerInv'
  BY OwnPlainSteps, OwnDrainPop, OwnItemSteps, OwnSerialSteps, OwnMake DEF UnitNext

\* What a step of a unit does to the queues and to m_run.
LEMMA QueueSteps ==
    ASSUME OrderInv, ShapeInv, NEW u \in Units, UnitNext(u)
    PROVE  \/ queue' = queue
           \/ /\ queue[u[1] - 1] # <<>> /\ queue' = [queue EXCEPT ![u[1] - 1] = Tail(@)]
              /\ unit[u].pc \in {"pop", "pop_catch"}
           \/ /\ ~IsLast(u[1]) /\ unit[u].pc \in {"push", "push_serial", "push_flush"}
              /\ \E x : queue' = [queue EXCEPT ![u[1]] = Append(@, x)]
<1>1. unit[u].pc = "push" => ~IsLast(u[1])
  BY DEF ShapeInv, ShapeOK
<1> QED
  BY <1>1 DEF UnitNext, Begin, Leave, ReadRun, ReadPrev, ReadEmpty, Make, PopTimeout, PopFront, Process, PushBack,
         PopSerial, SerialProcess, SerialWait, SerialPush, FlushPush, Deliver, DrainEmpty, DrainPrev, DrainPop

\* No unit sets m_run.
LEMMA RunSteps ==
    ASSUME NewInv, NEW u \in Units, UnitNext(u)
    PROVE  run' \in BOOLEAN /\ (run' => run)
<1>1. run \in BOOLEAN
  BY DEF NewInv
<1>2. CASE Make(u)
  <2>1. CASE run' = FALSE
    BY <2>1
  <2>2. CASE \E t : run' = (run /\ t < pipeline.tasks)
    <3>1. PICK t : run' = (run /\ t < pipeline.tasks)
      BY <2>2
    <3>2. CASE run /\ t < pipeline.tasks
      BY <3>1, <3>2, Zenon
    <3>3. CASE ~(run /\ t < pipeline.tasks)
      BY <3>1, <3>3, Zenon
    <3> QED
      BY <3>2, <3>3
  <2> QED
    BY <2>1, <2>2, <1>2 DEF Make, Catch
<1>3. CASE ~Make(u)
  <2>1. run' = run \/ run' = FALSE
    BY <1>3 DEF UnitNext, Begin, Leave, ReadRun, ReadPrev, ReadEmpty, PopTimeout, PopFront, Process, PushBack,
         PopSerial, SerialProcess, SerialWait, SerialPush, FlushPush, DrainEmpty, DrainPrev, DrainPop, Catch
  <2>2. CASE run' = run
    BY <2>2, <1>1, Zenon
  <2>3. CASE run' = FALSE
    BY <2>3, Zenon
  <2> QED
    BY <2>1, <2>2, <2>3
<1> QED
  BY <1>2, <1>3

\* Tasks of callers of enqueue.
LEMMA BatchTasks ==
    ASSUME pipeline \in Pipelines
    PROVE  /\ \A c \in Callers : \A i \in 1..Len(Batch(c)) : Batch(c)[i] \in Tasks
           /\ \A c, d \in Callers : \A i \in 1..Len(Batch(c)), j \in 1..Len(Batch(d)) :
                Batch(c)[i] = Batch(d)[j] => c = d /\ i = j
           /\ pipeline.feed = "self" => Callers = {} /\ pipeline.tasks > 0
           /\ Stages # {} /\ \A k \in Stages : <<k, 1>> \in Units
<1>1. pipeline.batches \in Seq(Seq(Nat)) /\ pipeline.stages \in Seq([mode : {"none", "generate", "keep"}, units : Nat \ {0}])
      /\ pipeline.stages # <<>>
  BY PipelineAssumption
<1>2. \A c \in Callers : DOMAIN Batch(c) = 1..Len(Batch(c))
  BY <1>1 DEF Callers, Batch
<1>3. \A c \in Callers : \A i \in 1..Len(Batch(c)) : Batch(c)[i] \in Tasks
  BY <1>2, PipelineAssumption DEF Callers, Batch, Tasks
<1>4. \A c, d \in Callers : \A i \in 1..Len(Batch(c)), j \in 1..Len(Batch(d)) : Batch(c)[i] = Batch(d)[j] => c = d /\ i = j
  <2>1. \A c, d \in DOMAIN pipeline.batches : \A i \in DOMAIN pipeline.batches[c], j \in DOMAIN pipeline.batches[d] :
           pipeline.batches[c][i] = pipeline.batches[d][j] => c = d /\ i = j
    BY PipelineAssumption, Zenon
  <2>2. \A c, d \in Callers : \A i \in DOMAIN Batch(c), j \in DOMAIN Batch(d) : Batch(c)[i] = Batch(d)[j] => c = d /\ i = j
    BY <2>1, Zenon DEF Callers, Batch
  <2> SUFFICES ASSUME NEW c \in Callers, NEW d \in Callers, NEW i \in 1..Len(Batch(c)), NEW j \in 1..Len(Batch(d)),
                      Batch(c)[i] = Batch(d)[j]
               PROVE  c = d /\ i = j
    OBVIOUS
  <2>3. i \in DOMAIN Batch(c) /\ j \in DOMAIN Batch(d)
    BY <1>2
  <2> QED
    BY <2>2, <2>3, Zenon
<1>5. pipeline.feed = "self" => Callers = {} /\ pipeline.tasks > 0
  <2>1. pipeline.feed = "self" => pipeline.batches = <<>> /\ pipeline.tasks > 0
    BY PipelineAssumption
  <2> QED
    BY <2>1 DEF Callers
<1>6. Stages # {}
  <2>1. Len(pipeline.stages) \in Nat /\ Len(pipeline.stages) # 0
    BY <1>1
  <2>2. 1 \in 1..Len(pipeline.stages)
    BY <2>1
  <2> QED
    BY <2>2 DEF Stages, N
<1>7. \A k \in Stages : <<k, 1>> \in Units
  <2> TAKE k \in Stages
  <2>1. pipeline.stages[k] \in [mode : {"none", "generate", "keep"}, units : Nat \ {0}]
    BY <1>1, Elements DEF Stages, N
  <2>2. 1 \in 1..pipeline.stages[k].units
    BY <2>1
  <2> QED
    BY <2>2 DEF Units
<1> QED
  BY <1>3, <1>4, <1>5, <1>6, <1>7

\* NewInv of the next state, read with the pipeline of this one.
LEMMA NewPrimed ==
    ASSUME pipeline' = pipeline, fate' \in [Tasks -> Fates], run' \in BOOLEAN,
           \A c \in Callers : \A i \in 1..Len(Batch(c)) : i > caller'[c].done => fate'[Batch(c)[i]] = "new",
           pipeline.feed = "self" =>
             /\ queue'[0] = <<>>
             /\ \E m \in 0..pipeline.tasks :
                  /\ \A t \in Tasks : fate'[t] = "new" <=> t > m
                  /\ m = pipeline.tasks => ~run' /\ \A u \in Units : unit'[u].pc # "make"
    PROVE  NewInv'
<1>1. Units' = Units /\ Callers' = Callers /\ Tasks' = Tasks /\ \A c : Batch(c)' = Batch(c)
  BY SamePipeline DEF Tasks
<1>2. pipeline'.feed = pipeline.feed /\ pipeline'.tasks = pipeline.tasks
  OBVIOUS
<1>3. \A m \in 0..pipeline.tasks : 
         /\ \A t \in Tasks : fate'[t] = "new" <=> t > m
         /\ m = pipeline.tasks => ~run' /\ \A u \in Units : unit'[u].pc # "make"
         => Unmade(m)'
  BY <1>1, <1>2 DEF Unmade
<1> QED
  BY <1>1, <1>2, <1>3 DEF NewInv

\* Every step of a unit keeps what is new.
LEMMA UnitNew ==
    ASSUME OrderInv, ShapeInv, OwnerInv, NewInv, NEW u \in Units, UnitNext(u)
    PROVE  NewInv'
<1>1. /\ pipeline' = pipeline /\ caller' = caller /\ run' \in BOOLEAN /\ (run' => run) /\ pipeline \in Pipelines
      /\ fate \in [Tasks -> Fates] /\ u[1] \in 1..N /\ queue \in [0..N -> Seq(Item)] /\ N \in Nat
  BY StepKeepsPipeline, RunSteps, TypesHold, UnitsShape DEF NewInv
<1>2. /\ \A c \in Callers : \A i \in 1..Len(Batch(c)) : i > caller[c].done => fate[Batch(c)[i]] = "new"
      /\ pipeline.feed = "self" => queue[0] = <<>> /\ \E m \in 0..pipeline.tasks : Unmade(m)
  BY DEF NewInv
<1>3. pipeline.feed = "self" => queue'[0] = <<>>
  <2> SUFFICES ASSUME queue[0] = <<>>
               PROVE  queue'[0] = <<>>
    BY <1>2
  <2>1. CASE queue' = queue
    BY <2>1
  <2>2. CASE queue[u[1] - 1] # <<>> /\ queue' = [queue EXCEPT ![u[1] - 1] = Tail(@)]
    <3>1. u[1] - 1 # 0
      BY <2>2
    <3> QED
      BY <3>1, <2>2, <1>1
  <2>3. CASE \E x : queue' = [queue EXCEPT ![u[1]] = Append(@, x)]
    <3>1. u[1] # 0
      BY <1>1
    <3> QED
      BY <3>1, <2>3, <1>1
  <2> QED
    BY <2>1, <2>2, <2>3, QueueSteps
<1>4. CASE Fated
  <2>1. fate' \in [Tasks -> Fates] /\ \A t \in Tasks : fate'[t] = "new" <=> fate[t] = "new"
    BY <1>4 DEF Fated
  <2>2. \A c \in Callers : \A i \in 1..Len(Batch(c)) : i > caller'[c].done => fate'[Batch(c)[i]] = "new"
    BY <2>1, <1>1, <1>2, BatchTasks
  <2>3. ASSUME ~run
        PROVE  \A v \in Units : unit[v].pc # "make" => unit'[v].pc # "make"
    <3> TAKE v \in Units
    <3>1. CASE v # u
      BY <3>1, UnitPcs
    <3>2. CASE v = u
      <4>1. CASE Caught(u)
        BY <4>1, <3>2 DEF Caught
      <4>2. CASE PcTable(u, unit[u].pc, unit'[u].pc)
        BY <4>2, <3>2, <2>3 DEF PcTable
      <4> QED
        BY <4>1, <4>2, UnitPcs
    <3> QED
      BY <3>1, <3>2
  <2>4. ASSUME NEW m \in 0..pipeline.tasks, Unmade(m)
        PROVE  /\ \A t \in Tasks : fate'[t] = "new" <=> t > m
               /\ m = pipeline.tasks => ~run' /\ \A v \in Units : unit'[v].pc # "make"
    BY <2>1, <2>3, <2>4, <1>1 DEF Unmade
  <2>5. pipeline.feed = "self" =>
          \E m \in 0..pipeline.tasks :
            /\ \A t \in Tasks : fate'[t] = "new" <=> t > m
            /\ m = pipeline.tasks => ~run' /\ \A v \in Units : unit'[v].pc # "make"
    BY <2>4, <1>2
  <2> QED
    BY <2>1, <2>2, <2>5, <1>1, <1>3, NewPrimed
<1>5. CASE Make(u) /\ \E r2, x : MakeEffect(u, r2, x)
  <2> DEFINE t == NextTask
  <2>1. unit[u].pc = "make" /\ unit'[u].pc = "push" /\ \A v \in Units : v # u => unit'[v] = unit[v]
    BY <1>5, SteppedPc DEF MakeEffect, Replaced
  <2>2. /\ pipeline.feed = "self" /\ u[1] = 1 /\ t \in Tasks /\ t \in Nat
        /\ \E m \in 0..pipeline.tasks : Unmade(m) /\ t = m + 1
    BY <2>1, MadeTask
  <2>3. fate' = [fate EXCEPT ![t] = "live"] /\ (run' <=> run /\ t < pipeline.tasks)
    <3>1. CASE Catch(u, {})
      BY <3>1, <2>1, CatchPc
    <3> QED
      BY <3>1, <1>5 DEF Make, NextTask
  <2> HIDE DEF t
  <2>4. PICK m \in 0..pipeline.tasks : Unmade(m) /\ t = m + 1
    BY <2>2
  <2>5. pipeline.tasks \in Nat /\ m \in Nat /\ t <= pipeline.tasks
    BY <2>2, <1>1, TaskType DEF Tasks
  <2>6. fate' \in [Tasks -> Fates]
    BY <2>2, <2>3, <1>1 DEF Fates
  <2>7. \A s \in Tasks : fate'[s] = "new" <=> s > t
    <3> TAKE s \in Tasks
    <3>1. fate'[s] = IF s = t THEN "live" ELSE fate[s]
      BY <2>2, <2>3, <1>1
    <3>2. (fate[s] = "new" <=> s > m) /\ s \in Nat
      BY <2>4, <2>5 DEF Unmade, Tasks
    <3> QED
      BY <3>1, <3>2, <2>4, <2>5
  <2>8. \A v \in Units : unit'[v].pc # "make"
    <3> TAKE v \in Units
    <3>1. CASE v = u
      BY <3>1, <2>1
    <3>2. CASE v # u
      <4>1. unit'[v] = unit[v]
        BY <3>2, <2>1
      <4>2. ShapeOK(v[1], unit[v])
        BY DEF ShapeInv
      <4>3. v[1] # 1
        <5>1. IsSource(1)
          BY <2>2 DEF IsSource
        <5>2. ASSUME v[1] = 1
              PROVE  v = u
          <6>1. pipeline.stages[1].units = 1
            BY <2>2, <1>1, PipelineAssumption
          <6>2. \A w \in Units : w[1] = 1 => w = <<1, 1>>
            BY <6>1 DEF Units
          <6> QED
            BY <6>2, <5>2, <2>2
        <5> QED
          BY <5>2, <3>2
      <4>4. ~IsSource(v[1])
        BY <4>3 DEF IsSource
      <4> QED
        BY <4>1, <4>2, <4>4 DEF ShapeOK
    <3> QED
      BY <3>1, <3>2
  <2>9. t \in 0..pipeline.tasks /\ (t = pipeline.tasks => ~run')
    BY <2>2, <2>3, <2>5
  <2>10. Callers = {}
    BY <2>2, <1>1, BatchTasks
  <2> QED
    BY <2>6, <2>7, <2>8, <2>9, <2>10, <1>1, <1>3, NewPrimed
<1> QED
  BY <1>4, <1>5, UnitFated

----------------------------------------------------------------------------
(* The callers of enqueue *)

\* enqueue_impl pushes a task that is new.
LEMMA PushedTask ==
    ASSUME OrderInv, NewInv, NEW c \in Callers, EnqueuePush(c)
    PROVE  LET i == caller[c].done + 1
           IN  /\ i \in 1..Len(Batch(c)) /\ Batch(c)[i] \in Tasks /\ fate[Batch(c)[i]] = "new" /\ i \in Nat
               /\ caller[c].base + i \in Nat
<1> DEFINE i == caller[c].done + 1
<1>1. mutex = c /\ pipeline \in Pipelines /\ caller \in [Callers -> [done : Nat, base : Nat]] /\ CallerInv
  BY DEF EnqueuePush, OrderInv, SerialTypeOK
<1>2. caller[c].done < Len(Batch(c)) /\ caller[c].done \in Nat /\ caller[c].base \in Nat /\ Len(Batch(c)) \in Nat
  BY <1>1, CallersShape DEF CallerInv
<1>3. i \in 1..Len(Batch(c)) /\ i > caller[c].done /\ i \in Nat /\ caller[c].base + i \in Nat
  BY <1>2
<1> HIDE DEF i
<1>4. Batch(c)[i] \in Tasks
  BY <1>1, <1>3, BatchTasks
<1>5. fate[Batch(c)[i]] = "new"
  BY <1>3 DEF NewInv
<1> QED
  BY <1>3, <1>4, <1>5 DEF i

\* The task that is enqueued is owned by the first queue.
LEMMA OwnEnqueue ==
    ASSUME OrderInv, OwnerInv, NewInv, NEW c \in Callers, EnqueuePush(c)
    PROVE  OwnerInv'
<1> DEFINE i == caller[c].done + 1
           t == Batch(c)[i]
           x == [plserial |-> caller[c].base + i, task |-> t]
           q == queue[0]
           q2 == Append(q, x)
           u == <<1, 1>>
<1>1. i \in 1..Len(Batch(c)) /\ t \in Tasks /\ fate[t] = "new" /\ caller[c].base + i \in Nat
  BY PushedTask
<1>2. pipeline' = pipeline /\ unit' = unit /\ queue' = [queue EXCEPT ![0] = q2] /\ fate' = [fate EXCEPT ![t] = "live"]
  BY DEF EnqueuePush
<1>3. pipeline \in Pipelines /\ N \in Nat /\ Stages = 1..N /\ 0 \in 0..N /\ q \in Seq(Item) /\ unit \in [Units -> UnitRec]
      /\ fate \in [Tasks -> Fates] /\ QueueApart(q)
  <2>1. pipeline \in Pipelines /\ N \in Nat /\ Stages = 1..N /\ 0 \in 0..N /\ unit \in [Units -> UnitRec]
    BY TypesHold
  <2> QED
    BY <2>1, TypesHold DEF NewInv, OwnerInv
<1>4. u \in Units
  BY <1>3, BatchTasks
<1>5. t \in Nat /\ t # NoTask
  BY <1>1, <1>3, TaskType
<1> HIDE DEF t, i
<1>6. x \in Item /\ x.task = t
  BY <1>1, <1>5 DEF Item
<1> HIDE DEF x, u
<1>7. \A s : /\ ~(s \in UnitTasks(unit[u]) /\ s \in QueueTasks(q))
             /\ s \in UnitTasks(unit[u]) \/ s \in QueueTasks(q) => s \in Tasks /\ fate[s] = "live" /\ s # NoTask
  BY <1>3, <1>4, OthersTasks
<1>8. /\ QueueApart(q2)
      /\ \A s : s \in QueueTasks(q2) <=> s \in QueueTasks(q) \/ (s = t /\ s # NoTask)
  BY <1>1, <1>3, <1>6, <1>7, AppendTasks
<1>9. Stepped(u, unit[u]) /\ UnitApart(unit[u])
  BY <1>2, <1>3, <1>4 DEF Stepped, OwnerInv
<1> HIDE DEF q2
<1>10. \A s \in Tasks : fate'[s] = "live" <=> fate[s] = "live" \/ s = t
  BY <1>1, <1>2, <1>3
<1>11. MoveChange(u, 0, unit[u], q2, {}, {t})
  BY <1>1, <1>5, <1>7, <1>8, <1>9, <1>10 DEF MoveChange
<1> QED
  BY <1>2, <1>3, <1>4, <1>9, <1>11, OwnMove

\* What is not enqueued yet is new.
LEMMA NewEnqueue ==
    ASSUME OrderInv, NewInv, NEW c \in Callers, EnqueuePush(c)
    PROVE  NewInv'
<1> DEFINE i == caller[c].done + 1
           t == Batch(c)[i]
<1>1. i \in 1..Len(Batch(c)) /\ t \in Tasks /\ fate[t] = "new" /\ i \in Nat
  BY PushedTask
<1>2. pipeline' = pipeline /\ run' = run /\ fate' = [fate EXCEPT ![t] = "live"] /\ caller' = [caller EXCEPT ![c].done = i]
  BY DEF EnqueuePush
<1>3. pipeline \in Pipelines /\ caller \in [Callers -> [done : Nat, base : Nat]] /\ fate \in [Tasks -> Fates] /\ run \in BOOLEAN
  BY DEF OrderInv, SerialTypeOK, NewInv
<1>4. pipeline.feed # "self"
  BY <1>3, BatchTasks
<1>5. \A d \in Callers : caller[d].done \in Nat /\ caller'[d].done = IF d = c THEN i ELSE caller[d].done
  BY <1>2, <1>3
<1>6. ASSUME NEW d \in Callers, NEW j \in 1..Len(Batch(d)), j > caller'[d].done
      PROVE  fate'[Batch(d)[j]] = "new"
  <2>1. j > caller[d].done /\ ~(d = c /\ j = i)
    <3>1. caller[c].done < i /\ Len(Batch(d)) \in Nat
      BY <1>1, <1>3, <1>5, CallersShape
    <3> QED
      BY <3>1, <1>5, <1>6, <1>1
  <2>2. Batch(d)[j] # t /\ Batch(d)[j] \in Tasks
    BY <2>1, <1>1, <1>3, BatchTasks
  <2>3. fate[Batch(d)[j]] = "new"
    BY <2>1 DEF NewInv
  <2> QED
    BY <2>2, <2>3, <1>1, <1>2, <1>3
<1>7. fate' \in [Tasks -> Fates]
  BY <1>1, <1>2, <1>3 DEF Fates
<1> QED
  BY <1>2, <1>3, <1>4, <1>6, <1>7, NewPrimed

\* The steps of no unit.
LEMMA OtherTasks ==
    ASSUME OrderInv, ShapeInv, OwnerInv, NewInv,
           (\E c \in Callers : CallerNext(c)) \/ Stop \/ Wait \/ Done \/ UNCHANGED vars
    PROVE  OwnerInv' /\ NewInv'
<1>1. CASE \E c \in Callers : EnqueuePush(c)
  BY <1>1, OwnEnqueue, NewEnqueue
<1>2. ASSUME (\E c \in Callers : Enqueue(c)) \/ Stop \/ Wait \/ Done \/ UNCHANGED vars
      PROVE  OwnerInv' /\ NewInv'
  <2>1. pipeline' = pipeline /\ queue' = queue /\ unit' = unit /\ fate' = fate /\ (run' = run \/ run' = FALSE)
    BY <1>2 DEF Enqueue, Stop, Wait, Done, vars
  <2>2. /\ OneOwner(Own(queue, unit), fate) /\ (\A k \in 0..N : QueueApart(queue[k])) /\ \A u \in Units : UnitApart(unit[u])
    BY DEF OwnerInv
  <2>3. OwnerInv'
    BY <2>1, <2>2, OwnPrimed
  <2>4. /\ fate \in [Tasks -> Fates] /\ run \in BOOLEAN
        /\ \A c \in Callers : \A i \in 1..Len(Batch(c)) : i > caller[c].done => fate[Batch(c)[i]] = "new"
        /\ pipeline.feed = "self" => queue[0] = <<>> /\ \E m \in 0..pipeline.tasks : Unmade(m)
    BY DEF NewInv
  <2>5. \A c \in Callers : caller'[c].done = caller[c].done
    <3>1. caller \in [Callers -> [done : Nat, base : Nat]]
      BY DEF OrderInv, SerialTypeOK
    <3>2. caller' = caller \/ \E c \in Callers : caller' = [caller EXCEPT ![c].base = plserial[0]]
      BY <1>2 DEF Enqueue, Stop, Wait, Done, vars
    <3> QED
      BY <3>1, <3>2
  <2>6. run' \in BOOLEAN /\ (run' => run)
    <3>1. CASE run' = run
      BY <3>1, <2>4, Zenon
    <3>2. CASE run' = FALSE
      BY <3>2, Zenon
    <3> QED
      BY <3>1, <3>2, <2>1
  <2>7. ASSUME NEW m \in 0..pipeline.tasks, Unmade(m)
        PROVE  /\ \A t \in Tasks : fate'[t] = "new" <=> t > m
               /\ m = pipeline.tasks => ~run' /\ \A u \in Units : unit'[u].pc # "make"
    BY <2>1, <2>6, <2>7 DEF Unmade
  <2>8. pipeline.feed = "self" =>
          /\ queue'[0] = <<>>
          /\ \E m \in 0..pipeline.tasks :
               /\ \A t \in Tasks : fate'[t] = "new" <=> t > m
               /\ m = pipeline.tasks => ~run' /\ \A u \in Units : unit'[u].pc # "make"
    BY <2>1, <2>4, <2>7
  <2>9. NewInv'
    BY <2>1, <2>4, <2>5, <2>6, <2>8, NewPrimed
  <2> QED
    BY <2>3, <2>9
<1> QED
  BY <1>1, <1>2 DEF CallerNext

\* At first no one has a task.
LEMMA InitTasks ==
    ASSUME Init
    PROVE  OwnerInv /\ NewInv
<1>1. pipeline \in Pipelines /\ pipeline.tasks \in Nat /\ N \in Nat
  BY TaskType, StagesShape DEF Init
<1>2. \A k \in 0..N : queue[k] = <<>>
  BY DEF Init
<1>3. \A k \in 0..N : (\A t : t \notin QueueTasks(queue[k])) /\ QueueApart(queue[k])
  BY <1>2, QueueParts DEF QueueApart
<1>4. \A u \in Units : (\A t : t \notin UnitTasks(unit[u])) /\ UnitApart(unit[u])
  <2> TAKE u \in Units
  <2> DEFINE c0 == [i \in 0..(Window - 1) |-> NoItem]
  <2>1. unit[u].item = NoItem /\ unit[u].cache = c0 /\ unit[u].overflow = {}
    BY DEF Init
  <2>2. \A i \in Slots : c0[i] = NoItem
    BY DEF Slots
  <2> HIDE DEF c0
  <2>3. Empty(unit[u])
    BY <2>1, <2>2, BareIsEmpty DEF Empty
  <2> QED
    BY <2>3, EmptyHasNone
<1>5. fate \in [Tasks -> Fates] /\ \A t \in Tasks : fate[t] = "new"
  BY DEF Init, Fates
<1>6. OneOwner(Own(queue, unit), fate)
  <2> DEFINE own == Own(queue, unit)
  <2>1. \A o \in Owners : \A t : t \notin own[o]
    <3> TAKE o \in Owners
    <3>1. CASE \E k \in 0..N : o = <<"queue", k>>
      <4>1. PICK k \in 0..N : own[o] = QueueTasks(queue[k])
        BY <3>1, OwnAt
      <4> QED
        BY <4>1, <1>3
    <3>2. CASE \E u \in Units : o = <<"unit", u>>
      <4>1. PICK u \in Units : own[o] = UnitTasks(unit[u])
        BY <3>2, OwnAt
      <4> QED
        BY <4>1, <1>4
    <3> QED
      BY <3>1, <3>2, OwnAt
  <2> HIDE DEF own
  <2>2. OneOwner(own, fate)
    BY <2>1, <1>5 DEF OneOwner
  <2> QED
    BY <2>2 DEF own
<1>7. OwnerInv
  BY <1>3, <1>4, <1>6 DEF OwnerInv
<1>8. \A c \in Callers : \A i \in 1..Len(Batch(c)) : i > caller[c].done => fate[Batch(c)[i]] = "new"
  BY <1>1, <1>5, BatchTasks
<1>9. pipeline.feed = "self" => queue[0] = <<>> /\ \E m \in 0..pipeline.tasks : Unmade(m)
  <2> SUFFICES ASSUME pipeline.feed = "self"
               PROVE  queue[0] = <<>> /\ \E m \in 0..pipeline.tasks : Unmade(m)
    OBVIOUS
  <2>1. pipeline.tasks > 0
    BY <1>1, BatchTasks
  <2>2. \A t \in Tasks : t > 0
    BY <1>1 DEF Tasks
  <2>3. Unmade(0)
    BY <2>1, <2>2, <1>5 DEF Unmade
  <2>4. 0 \in 0..pipeline.tasks /\ 0 \in 0..N
    BY <1>1
  <2> QED
    BY <2>3, <2>4, <1>2
<1>10. run \in BOOLEAN
  BY DEF Init
<1> QED
  BY <1>5, <1>7, <1>8, <1>9, <1>10 DEF NewInv

\* The inductive invariant of the tasks.
TaskInv == OrderInv /\ ShapeInv /\ OwnerInv /\ NewInv

\* Every step keeps the invariant.
LEMMA NextTasks ==
    ASSUME TaskInv, [Next]_vars
    PROVE  TaskInv'
<1>1. OrderInv /\ ShapeInv /\ OwnerInv /\ NewInv
  BY DEF TaskInv
<1>2. OrderInv' /\ ShapeInv'
  BY <1>1, NextOrder, NextShape
<1>3. CASE \E u \in Units : UnitNext(u)
  BY <1>1, <1>2, <1>3, UnitOwners, UnitNew DEF TaskInv
<1>4. CASE (\E c \in Callers : CallerNext(c)) \/ Stop \/ Wait \/ Done \/ UNCHANGED vars
  BY <1>1, <1>2, <1>4, OtherTasks DEF TaskInv
<1> QED
  BY <1>3, <1>4, NextCases

----------------------------------------------------------------------------
(* OnePlace *)

\* The place w of the task t is in a queue, or is of the unit u.
InQueue(t, w, k) == \E i \in 1..Len(queue[k]) : w = <<"queue", k, i>> /\ queue[k][i].task = t
OfUnit(t, w, u) ==
    \/ w = <<"item", u>> /\ unit[u].item.task = t
    \/ \E i \in Slots : w = <<"cache", u, i>> /\ unit[u].cache[i].task = t
    \/ \E x \in unit[u].overflow : w = <<"overflow", u, x>> /\ x.task = t

\* The places of Where, by owner.
LEMMA WhereParts ==
    ASSUME OrderInv, NEW t, NEW w
    PROVE  w \in Where(t) <=> (\E k \in 0..N : InQueue(t, w, k)) \/ (\E u \in Units : OfUnit(t, w, u))
<1>1. \A k \in 0..N : DOMAIN queue[k] = 1..Len(queue[k])
  BY TypesHold
<1>2. \A u \in Units : DOMAIN unit[u].cache = Slots
  BY TypesHold, SlotsShape
<1>3. w \in InQueues(t) <=> \E k \in 0..N : InQueue(t, w, k)
  BY <1>1 DEF InQueue, InQueues
<1>4. w \in InHands(t) <=> \E u \in Units : w = <<"item", u>> /\ unit[u].item.task = t
  BY DEF InHands
<1>5. w \in InWindows(t) <=> \E u \in Units : \E i \in Slots : w = <<"cache", u, i>> /\ unit[u].cache[i].task = t
  BY <1>2 DEF InWindows
<1>6. w \in InOverflows(t) <=> \E u \in Units : \E x \in unit[u].overflow : w = <<"overflow", u, x>> /\ x.task = t
  BY DEF InOverflows
<1>7. (\E u \in Units : OfUnit(t, w, u)) <=>
         \/ \E u \in Units : w = <<"item", u>> /\ unit[u].item.task = t
         \/ \E u \in Units : \E i \in Slots : w = <<"cache", u, i>> /\ unit[u].cache[i].task = t
         \/ \E u \in Units : \E x \in unit[u].overflow : w = <<"overflow", u, x>> /\ x.task = t
  BY DEF OfUnit
<1>8. w \in Where(t) <=> w \in InQueues(t) \/ w \in InHands(t) \/ w \in InWindows(t) \/ w \in InOverflows(t)
  BY DEF Where
<1> QED
  BY <1>3, <1>4, <1>5, <1>6, <1>7, <1>8

\* A task is once in a queue, and once in a unit.
LEMMA OnceInQueue ==
    ASSUME OwnerInv, NEW k \in 0..N, NEW t, t # NoTask
    PROVE  /\ (\E w : InQueue(t, w, k)) <=> t \in QueueTasks(queue[k])
           /\ \A w1, w2 : InQueue(t, w1, k) /\ InQueue(t, w2, k) => w1 = w2
<1>1. QueueApart(queue[k])
  BY DEF OwnerInv
<1>2. (\E w : InQueue(t, w, k)) <=> t \in QueueTasks(queue[k])
  <2>1. ASSUME NEW w, InQueue(t, w, k)
        PROVE  t \in QueueTasks(queue[k])
    BY <2>1, QueueParts DEF InQueue
  <2>2. ASSUME t \in QueueTasks(queue[k])
        PROVE  \E w : InQueue(t, w, k)
    <3>1. PICK i \in 1..Len(queue[k]) : t = queue[k][i].task
      BY <2>2, QueueParts
    <3>2. InQueue(t, <<"queue", k, i>>, k)
      BY <3>1 DEF InQueue
    <3> QED
      BY <3>2
  <2> QED
    BY <2>1, <2>2
<1>3. ASSUME NEW w1, NEW w2, InQueue(t, w1, k), InQueue(t, w2, k)
      PROVE  w1 = w2
  <2>1. PICK i \in 1..Len(queue[k]) : w1 = <<"queue", k, i>> /\ queue[k][i].task = t
    BY <1>3 DEF InQueue
  <2>2. PICK j \in 1..Len(queue[k]) : w2 = <<"queue", k, j>> /\ queue[k][j].task = t
    BY <1>3 DEF InQueue
  <2>3. i = j
    BY <2>1, <2>2, <1>1 DEF QueueApart
  <2> QED
    BY <2>1, <2>2, <2>3
<1> QED
  BY <1>2, <1>3

\* A task is once in a unit.
LEMMA OnceInUnit ==
    ASSUME OrderInv, ShapeInv, OwnerInv, NEW u \in Units, NEW t, t # NoTask
    PROVE  /\ (\E w : OfUnit(t, w, u)) <=> t \in UnitTasks(unit[u])
           /\ \A w1, w2 : OfUnit(t, w1, u) /\ OfUnit(t, w2, u) => w1 = w2
<1> DEFINE r == unit[u]
<1>1. UnitApart(r) /\ SerialApart(r) /\ ShapeOK(u[1], r)
  BY UnitSerials DEF OwnerInv, ShapeInv
<1>2. /\ \A x, y \in Items(r) : x.task # NoTask /\ x.task = y.task => x = y
      /\ \A x \in Items(r) : x.task # NoTask => x.task # r.item.task
  BY <1>1 DEF UnitApart
<1>3. /\ \A i \in Slots : r.cache[i].task = t => r.cache[i] \in Items(r) /\ r.cache[i].plserial # 0
      /\ \A x \in r.overflow : x \in Items(r) /\ x.plserial # 0
  BY <1>1, ItemsParts DEF ShapeOK, NoItem
<1>4. (\E w : OfUnit(t, w, u)) <=> t \in UnitTasks(r)
  <2>1. ASSUME NEW w, OfUnit(t, w, u)
        PROVE  t \in UnitTasks(r)
    BY <2>1, <1>3, TasksParts DEF OfUnit
  <2>2. ASSUME t \in UnitTasks(r)
        PROVE  \E w : OfUnit(t, w, u)
    <3>1. CASE t = r.item.task
      BY <3>1 DEF OfUnit
    <3>2. CASE \E y \in Items(r) : t = y.task
      <4>1. PICK y \in Items(r) : t = y.task
        BY <3>2
      <4>2. CASE y \in r.overflow
        BY <4>1, <4>2 DEF OfUnit
      <4>3. CASE \E i \in Slots : y = r.cache[i]
        BY <4>1, <4>3 DEF OfUnit
      <4> QED
        BY <4>1, <4>2, <4>3, ItemsParts
    <3> QED
      BY <2>2, <3>1, <3>2, TasksParts
  <2> QED
    BY <2>1, <2>2
<1>5. ASSUME NEW w1, NEW w2, OfUnit(t, w1, u), OfUnit(t, w2, u)
      PROVE  w1 = w2
  <2> DEFINE InCache(w) == \E i \in Slots : w = <<"cache", u, i>> /\ r.cache[i].task = t
             InOver(w) == \E x \in r.overflow : w = <<"overflow", u, x>> /\ x.task = t
             InItem(w) == w = <<"item", u>> /\ r.item.task = t
  <2>1. (InItem(w1) \/ InCache(w1) \/ InOver(w1)) /\ (InItem(w2) \/ InCache(w2) \/ InOver(w2))
    BY <1>5 DEF OfUnit
  <2>2. ASSUME NEW a, NEW b, InItem(a), InCache(b) \/ InOver(b)
        PROVE  FALSE
    <3>1. r.item.task = t
      BY <2>2
    <3>2. \E y \in Items(r) : y.task = t
      BY <2>2, <1>3
    <3> QED
      BY <3>1, <3>2, <1>2
  <2>3. ASSUME NEW a, NEW b, InCache(a), InOver(b)
        PROVE  FALSE
    <3>1. PICK i \in Slots : r.cache[i].task = t
      BY <2>3
    <3>2. PICK x \in r.overflow : x.task = t
      BY <2>3
    <3>3. r.cache[i] = x /\ x.plserial # 0
      BY <3>1, <3>2, <1>2, <1>3
    <3> QED
      BY <3>3, <1>1 DEF SerialApart
  <2>4. ASSUME InCache(w1), InCache(w2)
        PROVE  w1 = w2
    <3>1. PICK i \in Slots : w1 = <<"cache", u, i>> /\ r.cache[i].task = t
      BY <2>4
    <3>2. PICK j \in Slots : w2 = <<"cache", u, j>> /\ r.cache[j].task = t
      BY <2>4
    <3>3. r.cache[i] = r.cache[j] /\ r.cache[i].plserial # 0
      BY <3>1, <3>2, <1>2, <1>3
    <3>4. i = j
      BY <3>3, <1>1 DEF SerialApart
    <3> QED
      BY <3>1, <3>2, <3>4
  <2>5. ASSUME InOver(w1), InOver(w2)
        PROVE  w1 = w2
    <3>1. PICK x \in r.overflow : w1 = <<"overflow", u, x>> /\ x.task = t
      BY <2>5
    <3>2. PICK y \in r.overflow : w2 = <<"overflow", u, y>> /\ y.task = t
      BY <2>5
    <3>3. x = y
      BY <3>1, <3>2, <1>2, <1>3
    <3> QED
      BY <3>1, <3>2, <3>3
  <2>6. InItem(w1) /\ InItem(w2) => w1 = w2
    OBVIOUS
  <2> HIDE DEF InItem, InCache, InOver
  <2> QED
    BY <2>1, <2>2, <2>3, <2>4, <2>5, <2>6
<1> QED
  BY <1>4, <1>5

\* A live task is in one place, any other in none.
LEMMA PlacesCount ==
    ASSUME TaskInv
    PROVE  OnePlace
<1>0. OrderInv /\ ShapeInv /\ OwnerInv /\ NewInv
  BY DEF TaskInv
<1> SUFFICES ASSUME NEW t \in Tasks
             PROVE  Cardinality(Where(t)) = IF fate[t] = "live" THEN 1 ELSE 0
  BY DEF OnePlace
<1> DEFINE own == Own(queue, unit)
<1>1. t # NoTask
  BY <1>0, TypesHold, TaskType
<1>2. /\ \A o1, o2 \in Owners : t \in own[o1] /\ t \in own[o2] => o1 = o2
      /\ \A o \in Owners : t \in own[o] => fate[t] = "live"
      /\ fate[t] = "live" => \E o \in Owners : t \in own[o]
  <2>1. OneOwner(own, fate)
    BY <1>0 DEF OwnerInv
  <2> HIDE DEF own
  <2> QED
    BY <2>1 DEF OneOwner
<1>3. /\ \A k \in 0..N : <<"queue", k>> \in Owners /\ (t \in own[<<"queue", k>>] <=> \E w : InQueue(t, w, k))
      /\ \A u \in Units : <<"unit", u>> \in Owners /\ (t \in own[<<"unit", u>>] <=> \E w : OfUnit(t, w, u))
      /\ \A o \in Owners : (\E k \in 0..N : o = <<"queue", k>>) \/ \E u \in Units : o = <<"unit", u>>
  <2>1. /\ \A k \in 0..N : <<"queue", k>> \in Owners /\ (t \in own[<<"queue", k>>] <=> t \in QueueTasks(queue[k]))
        /\ \A u \in Units : <<"unit", u>> \in Owners /\ (t \in own[<<"unit", u>>] <=> t \in UnitTasks(unit[u]))
        /\ \A o \in Owners : (\E k \in 0..N : o = <<"queue", k>>) \/ \E u \in Units : o = <<"unit", u>>
    BY OwnAt
  <2> HIDE DEF own
  <2> QED
    BY <2>1, <1>0, <1>1, OnceInQueue, OnceInUnit
<1> HIDE DEF own
<1>4. \A w : w \in Where(t) <=> (\E k \in 0..N : InQueue(t, w, k)) \/ (\E u \in Units : OfUnit(t, w, u))
  BY <1>0, WhereParts
<1>5. CASE fate[t] = "live"
  <2>1. PICK o \in Owners : t \in own[o]
    BY <1>2, <1>5
  <2>2. \E w : w \in Where(t)
    <3>1. CASE \E k \in 0..N : o = <<"queue", k>>
      BY <3>1, <2>1, <1>3, <1>4
    <3>2. CASE \E u \in Units : o = <<"unit", u>>
      BY <3>2, <2>1, <1>3, <1>4
    <3> QED
      BY <3>1, <3>2, <1>3
  <2>3. ASSUME NEW w1 \in Where(t), NEW w2 \in Where(t)
        PROVE  w1 = w2
    <3>1. ASSUME NEW k \in 0..N, NEW u \in Units, NEW a, NEW b, InQueue(t, a, k), OfUnit(t, b, u)
          PROVE  FALSE
      <4>1. <<"queue", k>> = <<"unit", u>>
        BY <3>1, <1>2, <1>3
      <4> QED
        BY <4>1
    <3>2. ASSUME NEW k \in 0..N, NEW l \in 0..N, InQueue(t, w1, k), InQueue(t, w2, l)
          PROVE  w1 = w2
      <4>1. <<"queue", k>> = <<"queue", l>>
        BY <3>2, <1>2, <1>3
      <4>2. k = l
        BY <4>1
      <4> QED
        BY <4>2, <3>2, <1>0, <1>1, OnceInQueue
    <3>3. ASSUME NEW u \in Units, NEW v \in Units, OfUnit(t, w1, u), OfUnit(t, w2, v)
          PROVE  w1 = w2
      <4>1. <<"unit", u>> = <<"unit", v>>
        BY <3>3, <1>2, <1>3
      <4>2. u = v
        BY <4>1
      <4> QED
        BY <4>2, <3>3, <1>0, <1>1, OnceInUnit
    <3>4. \/ \E k \in 0..N : InQueue(t, w1, k)
          \/ \E u \in Units : OfUnit(t, w1, u)
      BY <1>4
    <3>5. \/ \E k \in 0..N : InQueue(t, w2, k)
          \/ \E u \in Units : OfUnit(t, w2, u)
      BY <1>4
    <3> QED
      BY <3>1, <3>2, <3>3, <3>4, <3>5
  <2>4. PICK w : w \in Where(t)
    BY <2>2
  <2>5. Where(t) = {w}
    BY <2>3, <2>4
  <2>6. Cardinality({w}) = 1
    BY FS_Singleton
  <2> QED
    BY <2>5, <2>6, <1>5
<1>6. CASE fate[t] # "live"
  <2>1. \A w : w \notin Where(t)
    BY <1>2, <1>3, <1>4, <1>6
  <2>2. Where(t) = {}
    BY <2>1
  <2>3. Cardinality({}) = 0
    BY FS_EmptySet
  <2> QED
    BY <2>2, <2>3, <1>6
<1> QED
  BY <1>5, <1>6

\* OnePlace of Pipeline: run_step_first, run_step_mid, run_step_last and run_serial_step_fast
\* neither lose a task nor leave a second pointer to one, for every pipeline that compile and
\* start accept, every queue size and window, and whenever stop() and exceptions come.
THEOREM TasksAreKept == Spec => []OnePlace
<1>1. Init => TaskInv
  BY InitOrder, InitShape, InitTasks DEF TaskInv
<1>2. TaskInv /\ [Next]_vars => TaskInv'
  BY NextTasks
<1>3. TaskInv => OnePlace
  BY PlacesCount
<1> QED
  BY <1>1, <1>2, <1>3, PTL DEF Spec

----------------------------------------------------------------------------
(* Items, from a queue to a unit and from a unit to a queue *)

\* The items after pop_front.
LEMMA TailItems ==
    ASSUME NEW q \in Seq(Item), q # <<>>
    PROVE  Head(q) \in QueueItems(q) /\ \A y \in QueueItems(Tail(q)) : y \in QueueItems(q)
<1>1. /\ Len(q) \in Nat /\ Len(q) >= 1 /\ Head(q) = q[1]
      /\ \A i \in 1..Len(Tail(q)) : Tail(q)[i] = q[i + 1] /\ i + 1 \in 1..Len(q)
  BY TailOfQueue
<1>2. 1 \in 1..Len(q)
  BY <1>1
<1> QED
  BY <1>1, <1>2 DEF QueueItems

\* The items after push_back.
LEMMA AppendItems ==
    ASSUME NEW q \in Seq(Item), NEW x \in Item
    PROVE  \A y \in QueueItems(Append(q, x)) : y \in QueueItems(q) \/ y = x
<1>1. /\ \A i \in 1..Len(Append(q, x)) : i # Len(q) + 1 => Append(q, x)[i] = q[i] /\ i \in 1..Len(q)
      /\ Append(q, x)[Len(q) + 1] = x
  BY AppendToQueue
<1> QED
  BY <1>1 DEF QueueItems

\* Where the serials in the hands of the unit u come from: from there, from the item at the
\* head of the queue before it, or they are new.
FromHand(u, r2) ==
    \A z \in InHand(r2) :
        \/ z.plserial = 0
        \/ \E y \in InHand(unit[u]) : y.plserial = z.plserial
        \/ queue[u[1] - 1] # <<>> /\ Mode(u[1]) # "generate" /\ z.plserial = Head(queue[u[1] - 1]).plserial
        \/ Mode(u[1]) = "generate" /\ z.plserial = plserial[u[1]] + 1 /\ plserial'[u[1]] = plserial[u[1]] + 1

\* The unit that has stepped has an item with a serial if its stage has serials.
HasOne(k, r2) == HasSerials(k) /\ r2.pc \in ItemPcs => r2.item.plserial # 0

\* The item pushed is the unit's.
FromUnit(u, y) ==
    /\ y \in InHand(unit[u]) /\ y \in Item
    /\ HasSerials(u[1]) => y.plserial # 0

\* What is in a unit's hands.
LEMMA InHandParts ==
    ASSUME NEW r, NEW y
    PROVE  y \in InHand(r) <=> y = r.item \/ y \in Items(r)
  BY DEF InHand

\* A stage without a generator has the serials of the one before it.
LEMMA SerialsBefore ==
    ASSUME pipeline \in Pipelines, NEW k \in Stages, Mode(k) # "generate", HasSerials(k)
    PROVE  HasSerials(k - 1)
<1>1. N \in Nat /\ Stages = 1..N
  BY StagesShape
<1>2. CASE \E g \in 1..k : Mode(g) = "generate"
  <2>1. PICK g \in 1..k : Mode(g) = "generate"
    BY <1>2
  <2>2. g \in 1..(k - 1)
    BY <2>1, <1>1
  <2> QED
    BY <2>1, <2>2 DEF HasSerials
<1> QED
  BY <1>2 DEF HasSerials

UnitItemStep(u) == \E r2 : Stepped(u, r2) /\ FromHand(u, r2) /\ HasOne(u[1], r2)

\* Steps that leave the items alone.
LEMMA PlainItems ==
    ASSUME OrderInv, ShapeInv, NEW u \in Units,
           \/ Begin(u) \/ Leave(u) \/ ReadRun(u) \/ ReadPrev(u) \/ ReadEmpty(u) \/ PopTimeout(u) \/ DrainEmpty(u)
           \/ DrainPrev(u) \/ DrainPop(u) \/ SerialWait(u)
    PROVE  UnitItemStep(u)
<1>1. PICK r2 : Stepped(u, r2) /\ r2.item = unit[u].item /\ Items(r2) = Items(unit[u])
  BY PlainHands
<1>2. FromHand(u, r2)
  BY <1>1, InHandParts DEF FromHand
<1>3. UnitNext(u) /\ unit'[u] = r2
  BY <1>1, SteppedPc DEF UnitNext
<1>4. r2.pc \notin ItemPcs
  <2>1. CASE Begin(u)
    BY <2>1, <1>3, GotoPc DEF Begin, ItemPcs
  <2>2. CASE Leave(u)
    BY <2>2, <1>3, GotoPc DEF Leave, ItemPcs
  <2>3. CASE ReadRun(u)
    BY <2>3, <1>3, GotoPc DEF ReadRun, ItemPcs
  <2>4. CASE ReadPrev(u)
    BY <2>4, <1>3, GotoPc DEF ReadPrev, ItemPcs
  <2>5. CASE PopTimeout(u)
    BY <2>5, <1>3, GotoPc DEF PopTimeout, ItemPcs
  <2>6. CASE DrainEmpty(u)
    BY <2>6, <1>3, GotoPc DEF DrainEmpty, ItemPcs
  <2>7. CASE DrainPrev(u)
    BY <2>7, <1>3, GotoPc DEF DrainPrev, ItemPcs
  <2>8. CASE SerialWait(u)
    BY <2>8, <1>3, GotoPc DEF SerialWait, ItemPcs
  <2>9. CASE DrainPop(u)
    BY <2>9, <1>3, GotoPc DEF DrainPop, ItemPcs
  <2>10. CASE ReadEmpty(u)
    <3>1. CASE \E r3 : GatherEffect(u, r3)
      <4>1. PICK r3 : Stepped(u, r3) /\ r3.pc = "flush"
        BY <3>1 DEF GatherEffect
      <4>2. r2.pc = "flush"
        BY <4>1, <1>3, SteppedPc
      <4> QED
        BY <4>2 DEF ItemPcs
    <3>2. CASE Goto(u, "pop") \/ Goto(u, "left")
      BY <3>2, <1>3, GotoPc DEF ItemPcs
    <3> QED
      BY <3>1, <3>2, <2>10, ReadEmptySteps
  <2> QED
    BY <2>1, <2>2, <2>3, <2>4, <2>5, <2>6, <2>7, <2>8, <2>9, <2>10
<1> QED
  BY <1>1, <1>2, <1>4 DEF UnitItemStep, HasOne

\* After an exception there are none.
LEMMA CatchItems ==
    ASSUME OrderInv, NEW u \in Units, NEW S, Catch(u, S)
    PROVE  UnitItemStep(u)
<1>1. PICK r2 : Stepped(u, r2) /\ r2.pc = (IF u[1] = 1 THEN "left_catch" ELSE "empty_catch") /\ Emptied(r2)
  BY TypesHold, CatchEmpties
<1>2. r2.item = NoItem /\ Items(r2) = {}
  BY <1>1, BareIsEmpty DEF Emptied
<1>3. FromHand(u, r2)
  BY <1>2, NoItemType, InHandParts DEF FromHand
<1>4. HasOne(u[1], r2)
  BY <1>1 DEF HasOne, ItemPcs
<1> QED
  BY <1>1, <1>3, <1>4 DEF UnitItemStep

\* Another item, or none.
LEMMA ReplacedItems ==
    ASSUME NEW u, NEW r2, NEW pc, NEW x, Replaced(unit[u], r2, pc, x),
           \/ x.plserial = 0
           \/ x.plserial = unit[u].item.plserial
           \/ queue[u[1] - 1] # <<>> /\ Mode(u[1]) # "generate" /\ x.plserial = Head(queue[u[1] - 1]).plserial
           \/ Mode(u[1]) = "generate" /\ x.plserial = plserial[u[1]] + 1 /\ plserial'[u[1]] = plserial[u[1]] + 1
    PROVE  FromHand(u, r2)
<1>1. r2.item = x /\ Items(r2) = Items(unit[u])
  BY SameItems DEF Replaced
<1> QED
  BY <1>1, InHandParts DEF FromHand

\* The steps of a stage that is not serial.
LEMMA ItemItems ==
    ASSUME OrderInv, ShapeInv, NumberedInv, NEW u \in Units,
           Make(u) \/ PopFront(u) \/ Process(u) \/ PushBack(u) \/ FlushPush(u)
    PROVE  UnitItemStep(u)
<1> DEFINE k == u[1]
           r == unit[u]
<1>1. /\ pipeline \in Pipelines /\ k \in Stages /\ k \in 0..N /\ k - 1 \in 0..N /\ plserial \in [0..N -> Nat]
      /\ queue \in [0..N -> Seq(Item)] /\ ShapeOK(k, r) /\ NoItem.plserial = 0 /\ r \in UnitRec /\ r.item \in Item
  BY TypesHold, UnitsShape, NoItemType, SlotsShape DEF ShapeInv
<1>2. /\ \A l \in 0..N : HasSerials(l) => \A y \in QueueItems(queue[l]) : y.plserial # 0
      /\ HasSerials(k) /\ r.pc \in ItemPcs => r.item.plserial # 0
  BY DEF NumberedInv
<1>3. CASE Make(u)
  <2>1. CASE Catch(u, {})
    BY <2>1, CatchItems
  <2>2. CASE \E r2, x : MakeEffect(u, r2, x) /\ plserial' = [plserial EXCEPT ![k] = Generated(k)]
    <3>1. PICK r2, x : MakeEffect(u, r2, x) /\ plserial' = [plserial EXCEPT ![k] = Generated(k)]
      BY <2>2
    <3>2. /\ Stepped(u, r2) /\ Replaced(r, r2, "push", x) /\ r.pc = "make"
          /\ x.plserial = IF Mode(k) = "generate" THEN plserial[k] + 1 ELSE 0
      BY <3>1 DEF MakeEffect
    <3>3. Mode(k) = "generate" => plserial'[k] = plserial[k] + 1
      BY <3>1, <1>1 DEF Generated
    <3>4. FromHand(u, r2)
      BY <3>2, <3>3, ReplacedItems
    <3>5. IsSource(k)
      BY <3>2, <1>1 DEF ShapeOK
    <3>6. HasSerials(k) => Mode(k) = "generate"
      BY <3>5 DEF IsSource, HasSerials
    <3>7. HasOne(k, r2)
      <4>1. r2.item = x
        BY <3>2 DEF Replaced
      <4>2. plserial[k] + 1 # 0
        BY <1>1
      <4> QED
        BY <4>1, <4>2, <3>2, <3>6 DEF HasOne
    <3> QED
      BY <3>2, <3>4, <3>7 DEF UnitItemStep
  <2> QED
    BY <2>1, <2>2, <1>3, MakeSteps
<1>4. CASE PopFront(u)
  <2>1. PICK r2, x : PopFrontEffect(u, r2, x)
    BY <1>4, PopFrontSteps
  <2>2. /\ Stepped(u, r2) /\ Replaced(r, r2, "process", Numbered(k, x)) /\ x = Head(queue[k - 1]) /\ queue[k - 1] # <<>>
        /\ Numbered(k, x).plserial = IF Mode(k) = "generate" THEN plserial[k] + 1 ELSE x.plserial
    BY <2>1 DEF PopFrontEffect
  <2>3. Mode(k) = "generate" => plserial'[k] = plserial[k] + 1
    BY <1>1, <1>4 DEF Generated, PopFront
  <2>4. FromHand(u, r2)
    BY <2>2, <2>3, ReplacedItems
  <2>5. HasSerials(k) => Numbered(k, x).plserial # 0
    <3>1. CASE Mode(k) = "generate"
      BY <3>1, <2>2, <1>1
    <3>2. CASE Mode(k) # "generate"
      <4>1. x \in QueueItems(queue[k - 1])
        BY <2>2, <1>1, TailItems
      <4> QED
        BY <4>1, <3>2, <2>2, <1>1, <1>2, SerialsBefore
    <3> QED
      BY <3>1, <3>2
  <2>6. HasOne(k, r2)
    <3>1. r2.item = Numbered(k, x)
      BY <2>2 DEF Replaced
    <3> QED
      BY <3>1, <2>5 DEF HasOne
  <2> QED
    BY <2>2, <2>4, <2>6 DEF UnitItemStep
<1>5. CASE Process(u)
  <2>1. CASE Catch(u, {})
    BY <2>1, CatchItems
  <2>2. CASE \E r2, t : ProcessEffect(u, r2, t)
    <3>1. PICK r2, t : ProcessEffect(u, r2, t)
      BY <2>2
    <3> DEFINE x == [r.item EXCEPT !.task = t]
    <3>2. x.plserial = r.item.plserial
      BY <1>1 DEF Item
    <3>3. /\ Stepped(u, r2) /\ r.pc = "process"
          /\ Replaced(r, r2, "push", x) \/ Replaced(r, r2, "run", NoItem)
      BY <3>1 DEF ProcessEffect
    <3> HIDE DEF x
    <3>4. FromHand(u, r2)
      BY <3>2, <3>3, <1>1, ReplacedItems
    <3>5. HasOne(k, r2)
      <4>1. r2.item = x \/ r2.pc = "run"
        BY <3>3 DEF Replaced
      <4> QED
        BY <4>1, <3>2, <3>3, <1>2 DEF HasOne, ItemPcs
    <3> QED
      BY <3>3, <3>4, <3>5 DEF UnitItemStep
  <2> QED
    BY <2>1, <2>2, <1>5, ProcessSteps
<1>6. CASE PushBack(u) \/ FlushPush(u)
  <2>1. PICK r2, pc : GoneEffect(u, r2, pc) /\ pc \in {"run", "flush"}
    BY <1>6, GoneSteps
  <2>2. Stepped(u, r2) /\ Replaced(r, r2, pc, NoItem)
    BY <2>1 DEF GoneEffect
  <2>3. FromHand(u, r2)
    BY <2>2, <1>1, ReplacedItems
  <2>4. HasOne(k, r2)
    BY <2>1, <2>2 DEF HasOne, ItemPcs, Replaced
  <2> QED
    BY <2>2, <2>3, <2>4 DEF UnitItemStep
<1> QED
  BY <1>3, <1>4, <1>5, <1>6

\* The steps of a serial stage.
LEMMA SerialItems ==
    ASSUME OrderInv, ShapeInv, NEW u \in Units, PopSerial(u) \/ SerialProcess(u) \/ SerialPush(u)
    PROVE  UnitItemStep(u)
<1> DEFINE k == u[1]
           r == unit[u]
<1>1. \A y \in Items(r) : y \in Item /\ y.plserial # 0
  BY TypesHold, SlotsShape, ItemsParts
<1>2. CASE PopSerial(u)
  <2>1. CASE Catch(u, {Head(queue[k - 1]).task})
    BY <2>1, CatchItems
  <2>2. CASE \E r2, x : PlaceEffect(u, r2, x)
    <3>1. PICK r2, x : PlaceEffect(u, r2, x)
      BY <2>2
    <3>2. /\ Stepped(u, r2) /\ r2.pc = "serial" /\ r2.item = r.item /\ \A z : z \in Items(r2) <=> z \in Items(r) \/ z = x
          /\ x = Head(queue[k - 1]) /\ queue[k - 1] # <<>> /\ Mode(k) = "keep"
      BY <3>1 DEF PlaceEffect
    <3>3. FromHand(u, r2)
      BY <3>2, InHandParts DEF FromHand
    <3> QED
      BY <3>2, <3>3 DEF UnitItemStep, HasOne, ItemPcs
  <2> QED
    BY <2>1, <2>2, <1>2, PopSerialSteps
<1>3. CASE SerialProcess(u)
  <2>1. CASE Catch(u, {})
    BY <2>1, CatchItems
  <2>2. CASE \E r2, y, t : HeadEffect(u, r2, y, t)
    <3>1. PICK r2, y, t : HeadEffect(u, r2, y, t)
      BY <2>2
    <3> DEFINE y2 == [y EXCEPT !.task = t]
    <3>2. /\ Stepped(u, r2) /\ r2.pc = "push_serial" /\ r2.item = r.item /\ y \in Items(r)
          /\ \A z : z \in Items(r2) <=> (z \in Items(r) /\ z # y) \/ z = y2
      BY <3>1 DEF HeadEffect
    <3>3. y2.plserial = y.plserial
      BY <3>2, <1>1 DEF Item
    <3> HIDE DEF y2
    <3>4. FromHand(u, r2)
      BY <3>2, <3>3, InHandParts DEF FromHand
    <3> QED
      BY <3>2, <3>4 DEF UnitItemStep, HasOne, ItemPcs
  <2>3. CASE \E r2, y, t : TurnEffect(u, r2, y, t)
    <3>1. PICK r2, y, t : TurnEffect(u, r2, y, t)
      BY <2>3
    <3> DEFINE y2 == [y EXCEPT !.task = t]
    <3>2. /\ Stepped(u, r2) /\ r2.pc = "push_flush" /\ r2.item = y2 /\ y \in Items(r)
          /\ \A z : z \in Items(r2) <=> z \in Items(r) /\ z # y
      BY <3>1 DEF TurnEffect
    <3>3. y2.plserial = y.plserial /\ y.plserial # 0
      BY <3>2, <1>1 DEF Item
    <3> HIDE DEF y2
    <3>4. FromHand(u, r2)
      BY <3>2, <3>3, InHandParts DEF FromHand
    <3> QED
      BY <3>2, <3>3, <3>4 DEF UnitItemStep, HasOne
  <2> QED
    BY <2>1, <2>2, <2>3, <1>3, SerialProcessSteps
<1>4. CASE SerialPush(u)
  <2>1. PICK r2, y : AdvanceEffect(u, r2, y)
    BY <1>4, SerialPushSteps
  <2>2. /\ Stepped(u, r2) /\ r2.pc = "serial" /\ r2.item = r.item /\ \A z : z \in Items(r2) <=> z \in Items(r) /\ z # y
    BY <2>1 DEF AdvanceEffect
  <2>3. FromHand(u, r2)
    BY <2>2, InHandParts DEF FromHand
  <2> QED
    BY <2>2, <2>3 DEF UnitItemStep, HasOne, ItemPcs
<1> QED
  BY <1>2, <1>3, <1>4

\* All steps of a unit.
LEMMA UnitItems ==
    ASSUME OrderInv, ShapeInv, NumberedInv, NEW u \in Units, UnitNext(u)
    PROVE  UnitItemStep(u)
  BY PlainItems, ItemItems, SerialItems DEF UnitNext

\* What becomes of the queues.
LEMMA QueueItemSteps ==
    ASSUME OrderInv, ShapeInv, NumberedInv, NEW u \in Units, UnitNext(u)
    PROVE  \/ queue' = queue
           \/ queue[u[1] - 1] # <<>> /\ queue' = [queue EXCEPT ![u[1] - 1] = Tail(@)]
           \/ \E y : FromUnit(u, y) /\ queue' = [queue EXCEPT ![u[1]] = Append(@, y)]
<1> DEFINE k == u[1]
           r == unit[u]
<1>1. r.item \in Item /\ (HasSerials(k) /\ r.pc \in ItemPcs => r.item.plserial # 0) /\ \A y \in Items(r) : y.plserial # 0 /\ y \in Item
  BY TypesHold, SlotsShape, ItemsParts DEF NumberedInv
<1>2. CASE PushBack(u) \/ FlushPush(u)
  <2>1. r.pc \in ItemPcs /\ (queue' = queue \/ queue' = [queue EXCEPT ![k] = Append(@, r.item)])
    BY <1>2 DEF PushBack, FlushPush, Deliver, ItemPcs
  <2>2. FromUnit(u, r.item)
    BY <2>1, <1>1, InHandParts DEF FromUnit
  <2> QED
    BY <2>1, <2>2
<1>3. CASE SerialPush(u)
  <2>1. PICK y : y \in Items(r) /\ Deliver(k, y)
    BY <1>3, SerialPushSteps DEF AdvanceEffect
  <2>2. FromUnit(u, y)
    BY <2>1, <1>1, InHandParts DEF FromUnit
  <2> QED
    BY <2>1, <2>2 DEF Deliver
<1>4. CASE ~(PushBack(u) \/ FlushPush(u) \/ SerialPush(u))
  BY <1>4 DEF UnitNext, Begin, Leave, ReadRun, ReadPrev, ReadEmpty, Make, PopTimeout, PopFront, Process,
         PopSerial, SerialProcess, SerialWait, DrainEmpty, DrainPrev, DrainPop
<1> QED
  BY <1>2, <1>3, <1>4

----------------------------------------------------------------------------
(* Items have serials *)

\* What the next state must satisfy.
LEMMA NumberedPrimed ==
    ASSUME pipeline' = pipeline,
           \A k \in 0..N : HasSerials(k) => \A y \in QueueItems(queue'[k]) : y.plserial # 0,
           \A u \in Units : HasSerials(u[1]) /\ unit'[u].pc \in ItemPcs => unit'[u].item.plserial # 0
    PROVE  NumberedInv'
<1>1. N' = N /\ Units' = Units
  BY SamePipeline
<1>2. \A k : HasSerials(k)' <=> HasSerials(k)
  BY DEF HasSerials, Mode
<1> QED
  BY <1>1, <1>2 DEF NumberedInv

\* The items of a queue after a step of a unit: they were there, or the unit has pushed one.
LEMMA QueuedItems ==
    ASSUME OrderInv, ShapeInv, NumberedInv, NEW u \in Units, UnitNext(u), NEW j \in 0..N, NEW z \in QueueItems(queue'[j])
    PROVE  z \in QueueItems(queue[j]) \/ (j = u[1] /\ FromUnit(u, z))
<1>1. queue \in [0..N -> Seq(Item)] /\ u[1] \in 0..N /\ u[1] - 1 \in 0..N
  BY TypesHold, UnitsShape
<1>2. CASE queue' = queue
  BY <1>2
<1>3. CASE queue[u[1] - 1] # <<>> /\ queue' = [queue EXCEPT ![u[1] - 1] = Tail(@)]
  <2>1. CASE j = u[1] - 1
    <3>1. queue'[j] = Tail(queue[j]) /\ queue[j] \in Seq(Item) /\ queue[j] # <<>>
      BY <1>1, <1>3, <2>1
    <3> QED
      BY <3>1, TailItems
  <2>2. CASE j # u[1] - 1
    BY <1>1, <1>3, <2>2
  <2> QED
    BY <2>1, <2>2
<1>4. CASE \E y : FromUnit(u, y) /\ queue' = [queue EXCEPT ![u[1]] = Append(@, y)]
  <2>1. PICK y : FromUnit(u, y) /\ queue' = [queue EXCEPT ![u[1]] = Append(@, y)]
    BY <1>4
  <2>2. CASE j = u[1]
    <3>1. queue'[j] = Append(queue[j], y) /\ queue[j] \in Seq(Item) /\ y \in Item
      BY <1>1, <2>1, <2>2 DEF FromUnit
    <3>2. z \in QueueItems(queue[j]) \/ z = y
      BY <3>1, AppendItems
    <3> QED
      BY <3>2, <2>1, <2>2
  <2>3. CASE j # u[1]
    BY <1>1, <2>1, <2>3
  <2> QED
    BY <2>2, <2>3
<1> QED
  BY <1>2, <1>3, <1>4, QueueItemSteps

\* Every step of a unit keeps the serials.
LEMMA UnitNumbered ==
    ASSUME OrderInv, ShapeInv, NumberedInv, NEW u \in Units, UnitNext(u)
    PROVE  NumberedInv'
<1>1. pipeline' = pipeline
  BY StepKeepsPipeline
<1>2. /\ \A l \in 0..N : HasSerials(l) => \A y \in QueueItems(queue[l]) : y.plserial # 0
      /\ \A v \in Units : HasSerials(v[1]) /\ unit[v].pc \in ItemPcs => unit[v].item.plserial # 0
  BY DEF NumberedInv
<1>3. PICK r2 : Stepped(u, r2) /\ FromHand(u, r2) /\ HasOne(u[1], r2)
  BY UnitItems DEF UnitItemStep
<1>4. unit'[u] = r2 /\ \A v \in Units : v # u => unit'[v] = unit[v]
  BY <1>3, SteppedPc
<1>5. \A v \in Units : HasSerials(v[1]) /\ unit'[v].pc \in ItemPcs => unit'[v].item.plserial # 0
  BY <1>2, <1>3, <1>4 DEF HasOne
<1>6. ASSUME NEW k \in 0..N, HasSerials(k), NEW y \in QueueItems(queue'[k])
      PROVE  y.plserial # 0
  <2>1. y \in QueueItems(queue[k]) \/ (k = u[1] /\ FromUnit(u, y))
    BY QueuedItems
  <2> QED
    BY <2>1, <1>2, <1>6 DEF FromUnit
<1> QED
  BY <1>1, <1>5, <1>6, NumberedPrimed

\* enqueue_impl pushes one more item, with the next serial.
LEMMA EnqueuedItems ==
    ASSUME OrderInv, NEW c \in Callers, EnqueuePush(c)
    PROVE  \E x \in Item : /\ x.plserial = Issued[0] + 1 /\ x.plserial # 0
                           /\ 0 \in 0..N /\ queue' = [queue EXCEPT ![0] = Append(@, x)]
                           /\ Issued'[0] = Issued[0] + 1 /\ \A j \in 0..N : j # 0 => Issued'[j] = Issued[j]
                           /\ Issued'[0] \in Nat /\ Issued[0] \in Nat
<1> DEFINE i == caller[c].done + 1
           s == caller[c].base + i
           x == [plserial |-> s, task |-> Batch(c)[i]]
<1>1. pipeline \in Pipelines /\ caller \in [Callers -> [done : Nat, base : Nat]] /\ N \in Nat /\ 0 \in 0..N
      /\ mutex = c /\ c # 0 /\ Batch(c) \in Seq(Nat) /\ plserial \in [0..N -> Nat]
  BY TypesHold, CallersShape DEF OrderInv, SerialTypeOK, EnqueuePush
<1>2. i \in 1..Len(Batch(c)) /\ i \in Nat /\ s \in Nat
  BY <1>1, CallersShape DEF OrderInv, CallerInv
<1>3. x \in Item
  BY <1>1, <1>2 DEF Item
<1>4. Issued[0] = caller[c].base + caller[c].done /\ Issued[0] \in Nat
  BY <1>1 DEF Issued
<1>5. Issued[0] + 1 = s /\ s # 0
  BY <1>1, <1>4
<1>6. pipeline' = pipeline /\ caller'[c].done = i /\ caller'[c].base = caller[c].base
  BY <1>1 DEF EnqueuePush
<1>7. /\ N' = N
      /\ Issued'[0] = IF mutex' # 0 THEN caller'[mutex'].base + caller'[mutex'].done ELSE plserial'[0]
  <2>1. N' = N
    BY <1>6, SamePipeline
  <2> QED
    BY <2>1, <1>1 DEF Issued
<1>8. Issued'[0] = s
  <2>1. CASE mutex' = mutex
    BY <2>1, <1>1, <1>6, <1>7
  <2>2. CASE mutex' = 0 /\ plserial' = [plserial EXCEPT ![0] = s]
    BY <2>2, <1>1, <1>7
  <2> QED
    BY <2>1, <2>2 DEF EnqueuePush
<1>9. \A j \in 0..N : j # 0 => Issued'[j] = Issued[j]
  <2>1. \A j \in 0..N : j # 0 => plserial'[j] = plserial[j]
    BY <1>1 DEF EnqueuePush
  <2>2. \A j : Mode(j)' = Mode(j)
    BY <1>6, SamePipeline
  <2> QED
    BY <2>1, <2>2, <1>7 DEF Issued
<1>10. queue' = [queue EXCEPT ![0] = Append(@, x)]
  BY DEF EnqueuePush
<1>11. x.plserial = s
  OBVIOUS
<1> HIDE DEF x, s, i
<1> QED
  BY <1>1, <1>2, <1>3, <1>4, <1>5, <1>8, <1>9, <1>10, <1>11

\* The steps of no unit leave the queues alone, or one item is pushed.
LEMMA OtherItems ==
    ASSUME OrderInv, (\E c \in Callers : CallerNext(c)) \/ Stop \/ Wait \/ Done \/ UNCHANGED vars
    PROVE  queue' = queue \/ \E c \in Callers : EnqueuePush(c)
  BY DEF CallerNext, Enqueue, Stop, Wait, Done, vars

\* enqueue gives serials, and stop and wait change none.
LEMMA OtherNumbered ==
    ASSUME OrderInv, NumberedInv, (\E c \in Callers : CallerNext(c)) \/ Stop \/ Wait \/ Done \/ UNCHANGED vars
    PROVE  NumberedInv'
<1>1. pipeline' = pipeline /\ unit' = unit
  BY NoUnit
<1>2. /\ \A l \in 0..N : HasSerials(l) => \A y \in QueueItems(queue[l]) : y.plserial # 0
      /\ \A v \in Units : HasSerials(v[1]) /\ unit[v].pc \in ItemPcs => unit[v].item.plserial # 0
  BY DEF NumberedInv
<1>3. \A v \in Units : HasSerials(v[1]) /\ unit'[v].pc \in ItemPcs => unit'[v].item.plserial # 0
  BY <1>1, <1>2
<1>4. CASE queue' = queue
  <2>1. \A k \in 0..N : HasSerials(k) => \A y \in QueueItems(queue'[k]) : y.plserial # 0
    BY <1>4, <1>2
  <2> QED
    BY <2>1, <1>1, <1>3, NumberedPrimed
<1>5. CASE \E c \in Callers : EnqueuePush(c)
  <2>1. PICK c \in Callers : EnqueuePush(c)
    BY <1>5
  <2>2. PICK x \in Item : x.plserial # 0 /\ 0 \in 0..N /\ queue' = [queue EXCEPT ![0] = Append(@, x)]
    BY <2>1, EnqueuedItems
  <2>3. queue \in [0..N -> Seq(Item)]
    BY TypesHold
  <2>4. ASSUME NEW k \in 0..N, HasSerials(k), NEW y \in QueueItems(queue'[k])
        PROVE  y.plserial # 0
    <3>1. CASE k = 0
      <4>1. queue'[k] = Append(queue[k], x) /\ queue[k] \in Seq(Item)
        BY <2>2, <2>3, <3>1
      <4>2. y \in QueueItems(queue[k]) \/ y = x
        BY <4>1, AppendItems
      <4> QED
        BY <4>2, <2>2, <2>4, <1>2
    <3>2. CASE k # 0
      BY <3>2, <2>2, <2>3, <2>4, <1>2
    <3> QED
      BY <3>1, <3>2
  <2> QED
    BY <2>4, <1>1, <1>3, NumberedPrimed
<1> QED
  BY <1>4, <1>5, OtherItems

\* At first there are no items.
LEMMA InitNumbered ==
    ASSUME Init
    PROVE  NumberedInv
<1>1. \A k \in 0..N : queue[k] = <<>>
  BY DEF Init
<1>2. \A y : y \notin QueueItems(<<>>)
  BY DEF QueueItems
<1>3. \A u \in Units : unit[u].pc = "new"
  BY DEF Init
<1> QED
  BY <1>1, <1>2, <1>3 DEF NumberedInv, ItemPcs

----------------------------------------------------------------------------
(* Nothing comes to a serial stage late *)

\* What the next state must satisfy.
LEMMA AheadPrimed ==
    ASSUME pipeline' = pipeline,
           \A k \in Stages : Mode(k) = "keep" =>
             /\ \A g \in 0..N : Generates(g) /\ g <= k /\ Same(g, k) => plserial'[k] <= Issued'[g] + 1
             /\ \A j \in 0..(k - 1) : Same(j, k) => \A y \in QueueItems(queue'[j]) : NotBefore(y, plserial'[k])
             /\ \A u \in Units : u[1] < k /\ Same(u[1], k) => \A y \in InHand(unit'[u]) : NotBefore(y, plserial'[k])
    PROVE  AheadInv'
<1>1. N' = N /\ Units' = Units /\ Stages' = Stages /\ \A k : Mode(k)' = Mode(k)
  BY SamePipeline
<1>2. /\ \A g, k : Same(g, k)' <=> Same(g, k)
      /\ \A g : Generates(g)' <=> Generates(g)
  BY <1>1 DEF Same, Generates
<1> QED
  BY <1>1, <1>2 DEF AheadInv, AheadOf

\* What is in a unit's hands is at a place of the unit.
LEMMA HandPlace ==
    ASSUME NEW u \in Units, NEW y \in InHand(unit[u])
    PROVE  \E w \in Holds(unit[u]) : SerialIn(unit[u], w) = y.plserial
<1> DEFINE r == unit[u]
<1>1. y = r.item \/ y \in r.overflow \/ \E i \in 0..(Window - 1) : y = r.cache[i]
  BY InHandParts, ItemsParts DEF Slots
<1>2. /\ <<"item", 0>> \in Holds(r) /\ SerialIn(r, <<"item", 0>>) = r.item.plserial
      /\ \A i \in 0..(Window - 1) : <<"cache", i>> \in Holds(r) /\ SerialIn(r, <<"cache", i>>) = r.cache[i].plserial
      /\ \A x \in r.overflow : <<"over", x>> \in Holds(r) /\ SerialIn(r, <<"over", x>>) = x.plserial
  BY HoldShape
<1> HIDE DEF r
<1>3. \E w \in Holds(r) : SerialIn(r, w) = y.plserial
  BY <1>1, <1>2
<1> QED
  BY <1>3 DEF r

\* Serials in the hands of different units, and in queues, are different.
LEMMA HandsDiffer ==
    ASSUME OrderInv, NEW u \in Units, NEW y \in InHand(unit[u]), y.plserial # 0
    PROVE  /\ \A v \in Units : v # u /\ Same(v[1], u[1]) => \A z \in InHand(unit[v]) : z.plserial # y.plserial
           /\ \A j \in 0..N : Same(j, u[1]) => \A z \in QueueItems(queue[j]) : z.plserial # y.plserial
           /\ \A g \in 0..N : Generates(g) /\ g <= u[1] /\ Same(g, u[1]) => y.plserial <= Issued[g]
<1>1. PICK w \in Holds(unit[u]) : SerialIn(unit[u], w) = y.plserial
  BY HandPlace
<1> DEFINE p == <<"unit", u, w>>
<1>2. p \in Places(queue, unit) /\ StageOf(p) = u[1] /\ SerialAt(queue, unit, p) = y.plserial
  BY <1>1, UnitPlace
<1>3. ASSUME NEW v \in Units, v # u, Same(v[1], u[1]), NEW z \in InHand(unit[v]), z.plserial = y.plserial
      PROVE  FALSE
  <2>1. PICK w2 \in Holds(unit[v]) : SerialIn(unit[v], w2) = z.plserial
    BY HandPlace
  <2> DEFINE p2 == <<"unit", v, w2>>
  <2>2. p2 \in Places(queue, unit) /\ StageOf(p2) = v[1] /\ SerialAt(queue, unit, p2) = z.plserial
    BY <2>1, UnitPlace
  <2>3. p2 # p
    BY <1>3
  <2> HIDE DEF p, p2
  <2> QED
    BY <1>2, <1>3, <2>2, <2>3 DEF OrderInv, Fine, Unique
<1>4. ASSUME NEW j \in 0..N, Same(j, u[1]), NEW z \in QueueItems(queue[j]), z.plserial = y.plserial
      PROVE  FALSE
  <2>1. PICK i \in 1..Len(queue[j]) : z = queue[j][i]
    BY DEF QueueItems
  <2> DEFINE p2 == <<"queue", j, i>>
  <2>2. p2 \in Places(queue, unit) /\ StageOf(p2) = j /\ SerialAt(queue, unit, p2) = z.plserial
    BY <2>1, QueuePlace
  <2>3. p2 # p
    OBVIOUS
  <2> HIDE DEF p, p2
  <2> QED
    BY <1>2, <1>4, <2>2, <2>3 DEF OrderInv, Fine, Unique
<1>5. \A g \in 0..N : Generates(g) /\ g <= u[1] /\ Same(g, u[1]) => y.plserial <= Issued[g]
  <2> HIDE DEF p
  <2> QED
    BY <1>2 DEF OrderInv, Fine, Bounded
<1> QED
  BY <1>3, <1>4, <1>5

\* Who changes m_plserial.
LEMMA SerialCounts ==
    ASSUME OrderInv, ShapeInv, NEW u \in Units, UnitNext(u), NEW j \in 0..N
    PROVE  \/ plserial'[j] = plserial[j]
           \/ j = u[1] /\ Begin(u) /\ Mode(j) = "keep" /\ plserial'[j] = 1
           \/ j = u[1] /\ SerialPush(u) /\ Mode(j) = "keep" /\ plserial'[j] = plserial[j] + 1
           \/ j = u[1] /\ Mode(j) = "generate" /\ plserial'[j] = plserial[j] + 1
<1>1. plserial \in [0..N -> Nat] /\ u[1] \in 0..N
  BY TypesHold, UnitsShape
<1>2. CASE Begin(u)
  BY <1>1, <1>2 DEF Begin
<1>3. CASE SerialPush(u)
  <2>1. Mode(u[1]) = "keep"
    BY <1>3, SerialPushSteps DEF AdvanceEffect
  <2> QED
    BY <1>1, <1>3, <2>1 DEF SerialPush
<1>4. CASE plserial' = plserial
  BY <1>4
<1>5. CASE plserial' = [plserial EXCEPT ![u[1]] = Generated(u[1])]
  BY <1>1, <1>5 DEF Generated
<1>6. CASE ~(Begin(u) \/ SerialPush(u))
  BY <1>4, <1>5, <1>6 DEF UnitNext, Leave, ReadRun, ReadPrev, ReadEmpty, Make, PopTimeout, PopFront, Process, PushBack,
         PopSerial, SerialProcess, SerialWait, FlushPush, DrainEmpty, DrainPrev, DrainPop
<1> QED
  BY <1>2, <1>3, <1>6

\* No serial is taken back.
LEMMA IssuedGrows ==
    ASSUME OrderInv, ShapeInv, NEW u \in Units, UnitNext(u)
    PROVE  Issued \in [0..N -> Nat] /\ \A g \in 0..N : Issued'[g] >= Issued[g] /\ Issued'[g] \in Nat
<1>1. Issued \in [0..N -> Nat] /\ plserial \in [0..N -> Nat] /\ u[1] # 0 /\ pipeline \in Pipelines
  BY TypesHold, UnitsShape, IssuedType
<1>2. pipeline' = pipeline /\ mutex' = mutex /\ caller' = caller
  BY StepKeepsPipeline
<1>3. N' = N /\ \A k : Mode(k)' = Mode(k)
  BY <1>2, SamePipeline
<1>4. ASSUME NEW g \in 0..N
      PROVE  Issued'[g] >= Issued[g] /\ Issued'[g] \in Nat
  <2>1. CASE g = 0
    <3>1. plserial'[g] = plserial[g]
      BY <2>1, <1>1, SerialCounts
    <3>2. Issued'[g] = Issued[g]
      BY <3>1, <2>1, <1>2, <1>3 DEF Issued
    <3>3. Issued[g] \in Nat
      BY <1>1
    <3> QED
      BY <3>2, <3>3
  <2>2. CASE g # 0 /\ Mode(g) = "generate"
    <3>1. plserial'[g] = plserial[g] \/ plserial'[g] = plserial[g] + 1
      BY <2>2, SerialCounts
    <3>2. Issued'[g] = plserial'[g] /\ Issued[g] = plserial[g]
      BY <2>2, <1>3 DEF Issued
    <3> QED
      BY <3>1, <3>2, <1>1
  <2>3. CASE g # 0 /\ Mode(g) # "generate"
    BY <2>3, <1>3 DEF Issued
  <2> QED
    BY <2>1, <2>2, <2>3
<1> QED
  BY <1>1, <1>4

\* Types after a step.
LEMMA NextTypes ==
    ASSUME OrderInv, NEW u \in Units, UnitNext(u)
    PROVE  /\ unit' \in [Units -> UnitRec] /\ queue' \in [0..N -> Seq(Item)]
           /\ \A v \in Units : \A y \in InHand(unit'[v]) : y.plserial \in Nat
           /\ \A j \in 0..N : \A y \in QueueItems(queue'[j]) : y.plserial \in Nat
<1>1. OrderInv'
  BY NextOrder DEF Next
<1>2. pipeline' = pipeline
  BY StepKeepsPipeline
<1>3. N' = N /\ Units' = Units
  BY <1>2, SamePipeline
<1>4. unit' \in [Units -> UnitRec] /\ queue' \in [0..N -> Seq(Item)]
  BY <1>1, <1>3 DEF OrderInv, SerialTypeOK
<1>5. \A v \in Units : \A y \in InHand(unit'[v]) : y \in Item
  BY <1>4, SlotsShape, InHandParts
<1>6. \A j \in 0..N : \A y \in QueueItems(queue'[j]) : y \in Item
  <2> TAKE j \in 0..N
  <2>1. queue'[j] \in Seq(Item)
    BY <1>4
  <2> QED
    BY <2>1 DEF QueueItems
<1> QED
  BY <1>4, <1>5, <1>6 DEF Item

\* Every step of a unit: it moves serials on, gives out the next one, or is the serial stage's own.
LEMMA UnitAhead ==
    ASSUME OrderInv, ShapeInv, NumberedInv, AheadInv, NEW u \in Units, UnitNext(u)
    PROVE  AheadInv'
<1>1. pipeline' = pipeline /\ pipeline \in Pipelines /\ N \in Nat /\ Stages = 1..N /\ plserial \in [0..N -> Nat]
      /\ queue \in [0..N -> Seq(Item)]
  BY StepKeepsPipeline, TypesHold
<1>2. u[1] \in Stages /\ u[1] \in 0..N /\ u[1] - 1 \in 0..N /\ u[1] # 0
  BY <1>1, UnitsShape
<1>3. Issued \in [0..N -> Nat] /\ \A g \in 0..N : Issued'[g] >= Issued[g] /\ Issued'[g] \in Nat
  BY IssuedGrows
<1>4. /\ \A v \in Units : \A y \in InHand(unit'[v]) : y.plserial \in Nat
      /\ \A j \in 0..N : \A y \in QueueItems(queue'[j]) : y.plserial \in Nat
  BY NextTypes
<1>5. PICK r2 : Stepped(u, r2) /\ FromHand(u, r2)
  BY UnitItems DEF UnitItemStep
<1>6. unit'[u] = r2 /\ \A v \in Units : v # u => unit'[v] = unit[v]
  BY <1>5, SteppedPc
<1>7. \A v \in Units : v[1] \in 0..N
  BY <1>1, UnitsShape
<1>8. ASSUME NEW k \in Stages, Mode(k) = "keep"
      PROVE  /\ \A g \in 0..N : Generates(g) /\ g <= k /\ Same(g, k) => plserial'[k] <= Issued'[g] + 1
             /\ \A j \in 0..(k - 1) : Same(j, k) => \A y \in QueueItems(queue'[j]) : NotBefore(y, plserial'[k])
             /\ \A v \in Units : v[1] < k /\ Same(v[1], k) => \A y \in InHand(unit'[v]) : NotBefore(y, plserial'[k])
  <2> DEFINE e == plserial[k]
  <2>1. k \in 0..N /\ k \in Nat /\ k >= 1 /\ e \in Nat /\ \A j \in 0..(k - 1) : j \in 0..N /\ j < k
    BY <1>1
  <2>2. /\ \A g \in 0..N : Generates(g) /\ g <= k /\ Same(g, k) => e <= Issued[g] + 1
        /\ \A j \in 0..(k - 1) : Same(j, k) => \A y \in QueueItems(queue[j]) : NotBefore(y, e)
        /\ \A v \in Units : v[1] < k /\ Same(v[1], k) => \A y \in InHand(unit[v]) : NotBefore(y, e)
    BY <1>8 DEF AheadInv, AheadOf
  <2> HIDE DEF e
  <2>3. CASE plserial'[k] = e
    <3>1. ASSUME NEW g \in 0..N, Generates(g), g <= k, Same(g, k)
          PROVE  plserial'[k] <= Issued'[g] + 1
      <4>1. e <= Issued[g] + 1 /\ Issued'[g] >= Issued[g] /\ Issued[g] \in Nat /\ Issued'[g] \in Nat
        BY <2>2, <3>1, <1>3
      <4> QED
        BY <4>1, <2>1, <2>3
    <3>2. ASSUME NEW j \in 0..(k - 1), Same(j, k), NEW y \in QueueItems(queue'[j])
          PROVE  NotBefore(y, e)
      <4>1. y \in QueueItems(queue[j]) \/ (j = u[1] /\ FromUnit(u, y))
        BY <2>1, QueuedItems
      <4>2. CASE y \in QueueItems(queue[j])
        BY <4>2, <3>2, <2>2
      <4>3. CASE j = u[1] /\ FromUnit(u, y)
        BY <4>3, <3>2, <2>1, <2>2 DEF FromUnit
      <4> QED
        BY <4>1, <4>2, <4>3
    <3>3. ASSUME NEW v \in Units, v[1] < k, Same(v[1], k), NEW z \in InHand(unit'[v])
          PROVE  NotBefore(z, e)
      <4>1. CASE v # u
        BY <4>1, <3>3, <2>2, <1>6
      <4>2. CASE v = u
        <5>0. z \in InHand(r2) /\ u[1] < k /\ Same(u[1], k)
          BY <4>2, <3>3, <1>6
        <5>1. CASE z.plserial = 0
          BY <5>1 DEF NotBefore
        <5>2. CASE \E y \in InHand(unit[u]) : y.plserial = z.plserial
          BY <5>0, <5>2, <2>2 DEF NotBefore
        <5>3. CASE queue[u[1] - 1] # <<>> /\ Mode(u[1]) # "generate" /\ z.plserial = Head(queue[u[1] - 1]).plserial
          <6>1. Same(u[1] - 1, k)
            <7>1. Same(u[1] - 1, u[1])
              BY <5>3, <1>1, <1>2, SameAsPrev
            <7> QED
              BY ONLY <7>1, <5>0, <1>1, <1>2, <2>1, SameIsEquivalence
          <6>2. u[1] - 1 \in 0..(k - 1)
            BY <5>0, <1>1, <1>2, <2>1
          <6>3. Head(queue[u[1] - 1]) \in QueueItems(queue[u[1] - 1])
            BY <5>3, <1>1, <1>2, TailItems
          <6>4. NotBefore(Head(queue[u[1] - 1]), e)
            BY <6>1, <6>2, <6>3, <2>2
          <6> QED
            BY <6>4, <5>3 DEF NotBefore
        <5>4. CASE Mode(u[1]) = "generate" /\ z.plserial = plserial[u[1]] + 1
          <6>1. Generates(u[1]) /\ u[1] <= k
            BY <5>4, <5>0, <1>1, <1>2, <2>1 DEF Generates
          <6>2. e <= Issued[u[1]] + 1
            BY <6>1, <5>0, <1>2, <2>2
          <6>3. Issued[u[1]] = plserial[u[1]]
            BY <5>4, <1>2 DEF Issued
          <6> QED
            BY <6>2, <6>3, <5>4, <1>1, <1>2, <2>1 DEF NotBefore
        <5> QED
          BY <5>0, <5>1, <5>2, <5>3, <5>4, <1>5 DEF FromHand
      <4> QED
        BY <4>1, <4>2
    <3> QED
      BY <3>1, <3>2, <3>3, <2>3
  <2>4. CASE Begin(u) /\ plserial'[k] = 1
    <3>1. ASSUME NEW g \in 0..N
          PROVE  1 <= Issued'[g] + 1
      <4>1. Issued'[g] \in Nat
        BY <1>3
      <4> QED
        BY <4>1
    <3>2. \A y : y.plserial \in Nat => NotBefore(y, 1)
      BY DEF NotBefore
    <3> QED
      BY <2>4, <3>1, <3>2, <1>4, <2>1
  <2>5. CASE k = u[1] /\ SerialPush(u) /\ plserial'[k] = e + 1
    <3>1. PICK r3, x : AdvanceEffect(u, r3, x) /\ Deliver(u[1], x)
      BY <2>5, SerialPushSteps
    <3>2. x \in InHand(unit[u]) /\ x.plserial = e /\ x.plserial # 0
      BY <3>1, <2>5, InHandParts DEF AdvanceEffect, e
    <3>3. /\ \A v \in Units : v # u /\ Same(v[1], k) => \A z \in InHand(unit[v]) : z.plserial # e
          /\ \A j \in 0..N : Same(j, k) => \A z \in QueueItems(queue[j]) : z.plserial # e
          /\ \A g \in 0..N : Generates(g) /\ g <= k /\ Same(g, k) => e <= Issued[g]
      BY <3>2, <2>5, HandsDiffer
    <3>4. \A z : z.plserial \in Nat /\ NotBefore(z, e) /\ z.plserial # e => NotBefore(z, e + 1)
      BY <2>1 DEF NotBefore
    <3>5. ASSUME NEW g \in 0..N, Generates(g), g <= k, Same(g, k)
          PROVE  e + 1 <= Issued'[g] + 1
      <4>1. e <= Issued[g] /\ Issued'[g] >= Issued[g] /\ Issued[g] \in Nat
        BY <3>3, <3>5, <1>3
      <4>2. Issued'[g] \in Nat
        BY <1>3
      <4> QED
        BY <4>1, <4>2, <2>1
    <3>6. ASSUME NEW j \in 0..(k - 1), Same(j, k), NEW y \in QueueItems(queue'[j])
          PROVE  NotBefore(y, e + 1)
      <4>1. y \in QueueItems(queue[j]) /\ j \in 0..N /\ y.plserial \in Nat
        BY <2>1, <2>5, <1>4, QueuedItems
      <4> QED
        BY <4>1, <3>3, <3>4, <3>6, <2>2
    <3>7. ASSUME NEW v \in Units, v[1] < k, Same(v[1], k), NEW z \in InHand(unit'[v])
          PROVE  NotBefore(z, e + 1)
      <4>1. v # u
        BY <3>7, <2>1, <2>5
      <4>2. z \in InHand(unit[v]) /\ z.plserial \in Nat
        BY <4>1, <1>4, <1>6
      <4> QED
        BY <4>1, <4>2, <3>3, <3>4, <3>7, <2>2
    <3> QED
      BY <3>5, <3>6, <3>7, <2>5
  <2> QED
    BY <2>1, <2>3, <2>4, <2>5, <1>8, SerialCounts DEF e
<1> QED
  BY <1>1, <1>8, AheadPrimed

\* enqueue gives out the next serial.
LEMMA OtherAhead ==
    ASSUME OrderInv, AheadInv, (\E c \in Callers : CallerNext(c)) \/ Stop \/ Wait \/ Done \/ UNCHANGED vars
    PROVE  AheadInv'
<1>1. /\ pipeline' = pipeline /\ pipeline \in Pipelines /\ unit' = unit /\ N \in Nat /\ Stages = 1..N
      /\ plserial \in [0..N -> Nat] /\ queue \in [0..N -> Seq(Item)]
  BY NoUnit, TypesHold
<1>2. \A k \in 0..N : k # 0 => plserial'[k] = plserial[k]
  BY <1>1 DEF CallerNext, Enqueue, EnqueuePush, Stop, Wait, Done, vars
<1>3. \A k \in Stages : Mode(k) = "keep" =>
             /\ \A g \in 0..N : Generates(g) /\ g <= k /\ Same(g, k) => plserial[k] <= Issued[g] + 1
             /\ \A j \in 0..(k - 1) : Same(j, k) => \A y \in QueueItems(queue[j]) : NotBefore(y, plserial[k])
             /\ \A u \in Units : u[1] < k /\ Same(u[1], k) => \A y \in InHand(unit[u]) : NotBefore(y, plserial[k])
  BY DEF AheadInv, AheadOf
<1>4. Issued \in [0..N -> Nat]
  BY IssuedType, TypesHold
<1>5. ASSUME queue' = queue, \A g \in 0..N : Issued'[g] = Issued[g]
      PROVE  AheadInv'
  <2>1. \A k \in Stages : plserial'[k] = plserial[k]
    BY <1>1, <1>2
  <2>2. ASSUME NEW k \in Stages, Mode(k) = "keep"
        PROVE /\ \A g \in 0..N : Generates(g) /\ g <= k /\ Same(g, k) => plserial'[k] <= Issued'[g] + 1
              /\ \A j \in 0..(k - 1) : Same(j, k) => \A y \in QueueItems(queue'[j]) : NotBefore(y, plserial'[k])
              /\ \A u \in Units : u[1] < k /\ Same(u[1], k) => \A y \in InHand(unit'[u]) : NotBefore(y, plserial'[k])
    BY <1>1, <1>3, <1>5, <2>1, <2>2
  <2> QED
    BY <2>2, <1>1, AheadPrimed
<1>6. CASE \E c \in Callers : EnqueuePush(c)
  <2>1. PICK c \in Callers : EnqueuePush(c)
    BY <1>6
  <2>2. PICK x \in Item : /\ x.plserial = Issued[0] + 1
                          /\ 0 \in 0..N /\ queue' = [queue EXCEPT ![0] = Append(@, x)]
                          /\ Issued'[0] = Issued[0] + 1 /\ \A j \in 0..N : j # 0 => Issued'[j] = Issued[j]
                          /\ Issued[0] \in Nat
    BY <2>1, EnqueuedItems
  <2>3. ASSUME NEW k \in Stages, Mode(k) = "keep"
        PROVE /\ \A g \in 0..N : Generates(g) /\ g <= k /\ Same(g, k) => plserial'[k] <= Issued'[g] + 1
              /\ \A j \in 0..(k - 1) : Same(j, k) => \A y \in QueueItems(queue'[j]) : NotBefore(y, plserial'[k])
              /\ \A u \in Units : u[1] < k /\ Same(u[1], k) => \A y \in InHand(unit'[u]) : NotBefore(y, plserial'[k])
    <3>1. plserial'[k] = plserial[k] /\ plserial[k] \in Nat /\ k \in Nat /\ k >= 1 /\ \A j \in 0..(k - 1) : j \in 0..N
      BY <1>1, <1>2
    <3>2. /\ \A g \in 0..N : Generates(g) /\ g <= k /\ Same(g, k) => plserial[k] <= Issued[g] + 1
          /\ \A j \in 0..(k - 1) : Same(j, k) => \A y \in QueueItems(queue[j]) : NotBefore(y, plserial[k])
          /\ \A u \in Units : u[1] < k /\ Same(u[1], k) => \A y \in InHand(unit[u]) : NotBefore(y, plserial[k])
      BY <1>3, <2>3
    <3>3. ASSUME NEW g \in 0..N, Generates(g), g <= k, Same(g, k)
          PROVE  plserial[k] <= Issued'[g] + 1
      <4>1. plserial[k] <= Issued[g] + 1 /\ Issued[g] \in Nat
        BY <3>2, <3>3, <1>4
      <4>2. Issued'[g] = Issued[g] \/ Issued'[g] = Issued[g] + 1
        BY <2>2
      <4> QED
        BY <4>1, <4>2, <3>1
    <3>4. ASSUME NEW j \in 0..(k - 1), Same(j, k), NEW y \in QueueItems(queue'[j])
          PROVE  NotBefore(y, plserial[k])
      <4>1. CASE j = 0
        <5>1. queue'[j] = Append(queue[j], x) /\ queue[j] \in Seq(Item)
          BY <2>2, <1>1, <4>1
        <5>2. y \in QueueItems(queue[j]) \/ y = x
          BY <5>1, AppendItems
        <5>3. CASE y \in QueueItems(queue[j])
          BY <5>3, <3>2, <3>4
        <5>4. CASE y = x
          <6>1. Generates(0) /\ 0 <= k
            BY <3>1 DEF Generates
          <6>2. plserial[k] <= Issued[0] + 1
            BY <6>1, <3>2, <3>4, <4>1, <2>2
          <6> QED
            BY <6>2, <5>4, <2>2, <3>1 DEF NotBefore
        <5> QED
          BY <5>2, <5>3, <5>4
      <4>2. CASE j # 0
        <5>1. queue'[j] = queue[j]
          BY <4>2, <3>1, <2>2, <1>1
        <5> QED
          BY <5>1, <3>2, <3>4
      <4> QED
        BY <4>1, <4>2
    <3> QED
      BY <3>1, <3>2, <3>3, <3>4, <1>1
  <2> QED
    BY <2>3, <1>1, AheadPrimed
<1>7. CASE \E c \in Callers : Enqueue(c)
  <2>1. PICK c \in Callers : Enqueue(c)
    BY <1>7
  <2>2. queue' = queue /\ plserial' = plserial /\ mutex = 0 /\ mutex' = c /\ c # 0
        /\ caller' = [caller EXCEPT ![c].base = plserial[0]] /\ caller[c].done < Len(Batch(c))
    BY <2>1, <1>1, CallersShape DEF Enqueue
  <2>3. caller[c].done = 0
    <3>1. Len(Batch(c)) \in Nat
      BY <1>1, CallersShape
    <3>2. caller[c].done \in {0, Len(Batch(c))}
      BY <2>2 DEF OrderInv, CallerInv
    <3> QED
      BY <3>1, <3>2, <2>2
  <2>4. caller \in [Callers -> [done : Nat, base : Nat]]
    BY DEF OrderInv, SerialTypeOK
  <2>5. caller'[c].base = plserial[0] /\ caller'[c].done = 0
    BY <2>2, <2>3, <2>4
  <2>6. N' = N /\ (\A k : Mode(k)' = Mode(k)) /\ 0 \in 0..N
    BY <1>1, SamePipeline
  <2>7. plserial[0] + 0 = plserial[0]
    BY <2>6, <1>1
  <2>8. \A g \in 0..N : Issued'[g] = Issued[g]
    BY <2>2, <2>5, <2>6, <2>7 DEF Issued
  <2> QED
    BY <1>5, <2>2, <2>8
<1>8. CASE Stop \/ Wait \/ Done \/ UNCHANGED vars
  <2>1. queue' = queue /\ plserial' = plserial /\ mutex' = mutex /\ caller' = caller
    BY <1>8 DEF Stop, Wait, Done, vars
  <2>2. N' = N /\ \A k : Mode(k)' = Mode(k)
    BY <1>1, SamePipeline
  <2>3. \A g \in 0..N : Issued'[g] = Issued[g]
    BY <2>1, <2>2 DEF Issued
  <2> QED
    BY <1>5, <2>1, <2>3
<1> QED
  BY <1>6, <1>7, <1>8 DEF CallerNext

\* At first nothing is expected.
LEMMA InitAhead ==
    ASSUME Init
    PROVE  AheadInv
<1>1. OrderInv
  BY InitOrder
<1>2. pipeline \in Pipelines /\ N \in Nat /\ Stages = 1..N /\ Issued \in [0..N -> Nat]
  BY <1>1, TypesHold, IssuedType
<1>3. \A k \in 0..N : plserial[k] = 0
  BY DEF Init
<1>4. \A u \in Units : \A y \in InHand(unit[u]) : y.plserial = 0
  <2> TAKE u \in Units
  <2>1. ASSUME NEW y \in InHand(unit[u])
        PROVE  y.plserial = 0
    <3>1. PICK w \in Holds(unit[u]) : SerialIn(unit[u], w) = y.plserial
      BY HandPlace
    <3>2. <<"unit", u, w>> \in Places(queue, unit) /\ SerialAt(queue, unit, <<"unit", u, w>>) = SerialIn(unit[u], w)
      BY UnitPlace
    <3> QED
      BY <3>1, <3>2, EmptyHolds
  <2> QED
    BY <2>1
<1>5. \A j \in 0..N : queue[j] = <<>>
  BY DEF Init
<1>6. \A y : y \notin QueueItems(<<>>)
  BY DEF QueueItems
<1>7. ASSUME NEW k \in Stages
      PROVE  AheadOf(k)
  <2>1. plserial[k] = 0 /\ \A j \in 0..(k - 1) : j \in 0..N
    BY <1>2, <1>3
  <2>2. \A g \in 0..N : 0 <= Issued[g] + 1
    BY <1>2
  <2> QED
    BY <2>1, <2>2, <1>4, <1>5, <1>6 DEF AheadOf, NotBefore
<1> QED
  BY <1>7 DEF AheadInv

\* CHECK_SERIAL of run_serial_step_fast never fails: what a serial stage pops is not before
\* the serial it expects.
LEMMA NoneComesLate ==
    ASSUME OrderInv, NumberedInv, AheadInv, NEW u \in Units, Mode(u[1]) = "keep", queue[u[1] - 1] # <<>>
    PROVE  Head(queue[u[1] - 1]).plserial >= plserial[u[1]]
<1> DEFINE k == u[1]
           x == Head(queue[k - 1])
<1>1. /\ pipeline \in Pipelines /\ k \in Stages /\ k - 1 \in 0..N /\ k \in Nat /\ queue \in [0..N -> Seq(Item)]
      /\ k # 0 /\ N \in Nat /\ Stages = 1..N
  BY TypesHold, UnitsShape
<1>2. x \in QueueItems(queue[k - 1])
  BY <1>1, TailItems
<1>3. HasSerials(k - 1)
  <2>1. k \in DOMAIN pipeline.stages /\ pipeline.stages[k].mode = "keep"
    <3>1. pipeline.stages \in Seq([mode : {"none", "generate", "keep"}, units : Nat \ {0}])
      BY <1>1, PipelineAssumption
    <3> QED
      BY <3>1, <1>1 DEF Mode, N
  <2>2. \A p \in Pipelines : \A l \in DOMAIN p.stages : p.stages[l].mode = "keep" =>
              p.feed = "enqueue" \/ \E g \in 1..(l - 1) : p.stages[g].mode = "generate"
    BY PipelineAssumption
  <2>3. pipeline.feed = "enqueue" \/ \E g \in 1..(k - 1) : pipeline.stages[g].mode = "generate"
    BY <2>1, <2>2, <1>1
  <2> QED
    BY <2>3 DEF HasSerials, Mode
<1>4. x.plserial # 0
  BY <1>1, <1>2, <1>3 DEF NumberedInv
<1>5. AheadOf(k)
  BY <1>1 DEF AheadInv
<1>6. Same(k - 1, k) /\ k - 1 \in 0..(k - 1)
  BY <1>1, SameAsPrev
<1>7. NotBefore(x, plserial[k])
  BY <1>2, <1>5, <1>6 DEF AheadOf
<1> QED
  BY <1>4, <1>7 DEF NotBefore

\* The invariant of the serials alone: it holds whenever stop() and exceptions come.
LateInv == OrderInv /\ ShapeInv /\ NumberedInv /\ AheadInv

\* What a serial stage finds in the queue before it is not before the serial it expects.
SerialsInTime ==
    \A u \in Units : Mode(u[1]) = "keep" /\ queue[u[1] - 1] # <<>> => Head(queue[u[1] - 1]).plserial >= plserial[u[1]]

\* CHECK_SERIAL of run_serial_step_fast (thread/pipeline.cpp:635) never throws: in no pipeline, at no queue
\* size and window, does an item come to a serial stage that has gone beyond its serial.
THEOREM CheckSerialHolds == Spec => []SerialsInTime
<1>1. Init => LateInv
  BY InitOrder, InitShape, InitNumbered, InitAhead DEF LateInv
<1>2. ASSUME LateInv, [Next]_vars
      PROVE  LateInv'
  <2>1. OrderInv /\ ShapeInv /\ NumberedInv /\ AheadInv
    BY <1>2 DEF LateInv
  <2>2. OrderInv' /\ ShapeInv'
    BY <1>2, <2>1, NextOrder, NextShape
  <2>3. NumberedInv' /\ AheadInv'
    BY <1>2, <2>1, NextCases, UnitNumbered, UnitAhead, OtherNumbered, OtherAhead
  <2> QED
    BY <2>2, <2>3 DEF LateInv
<1>3. LateInv => SerialsInTime
  BY NoneComesLate DEF LateInv, SerialsInTime
<1>4. LateInv /\ [Next]_vars => LateInv'
  BY <1>2
<1> QED
  BY <1>1, <1>3, <1>4, PTL DEF Spec

----------------------------------------------------------------------------
(* m_running_exec_units *)

\* Who comes, goes or stays.
LEMMA BusySteps ==
    ASSUME OrderInv, ShapeInv, NEW u \in Units, UnitNext(u)
    PROVE  \/ Begin(u) /\ unit[u].pc = "new" /\ unit'[u].pc = "run"
           \/ Leave(u) /\ unit[u].pc \in {"left", "left_catch"} /\ unit'[u].pc = "gone"
           \/ running' = running /\ unit[u].pc \notin {"new", "gone"} /\ unit'[u].pc \notin {"new", "gone"}
<1>1. PcTable(u, unit[u].pc, unit'[u].pc) \/ Caught(u)
  BY UnitPcs
<1>2. CASE Begin(u) \/ Leave(u)
  BY <1>1, <1>2, GotoPc DEF Begin, Leave
<1>3. CASE ~(Begin(u) \/ Leave(u))
  <2>1. running' = running
    BY <1>3 DEF UnitNext, ReadRun, ReadPrev, ReadEmpty, Make, PopTimeout, PopFront, Process, PushBack,
         PopSerial, SerialProcess, SerialWait, SerialPush, FlushPush, DrainEmpty, DrainPrev, DrainPop
  <2>2. CASE Caught(u)
    <3>1. unit'[u].pc \in {"left_catch", "empty_catch"}
      BY <2>2 DEF Caught
    <3>2. unit[u].pc \in {"make", "process", "serial", "flush", "pop"}
      BY <2>2 DEF Caught
    <3> QED
      BY <3>1, <3>2, <2>1
  <2>3. CASE PcTable(u, unit[u].pc, unit'[u].pc)
    <3>1. unit[u].pc \notin {"new", "gone"} /\ unit'[u].pc \notin {"new", "gone"}
      BY <2>3, <1>3 DEF PcTable
    <3> QED
      BY <3>1, <2>1
  <2> QED
    BY <1>1, <2>2, <2>3
<1> QED
  BY <1>2, <1>3

\* The units counted.
LEMMA BusyParts ==
    ASSUME NEW k, NEW v
    PROVE  v \in Busy(k) <=> v \in Units /\ v[1] = k /\ unit[v].pc \notin {"new", "gone"}
  BY DEF Busy

\* The units counted after a step.
LEMMA BusyPrimed ==
    ASSUME pipeline' = pipeline, NEW k, NEW v
    PROVE  v \in Busy(k)' <=> v \in Units /\ v[1] = k /\ unit'[v].pc \notin {"new", "gone"}
<1>1. Units' = Units
  BY SamePipeline
<1> QED
  BY <1>1 DEF Busy

\* What the next state must satisfy.
LEMMA CountPrimed ==
    ASSUME pipeline' = pipeline, running' = [k \in 0..N |-> Cardinality(Busy(k)')], \A k \in 0..N : IsFiniteSet(Busy(k)')
    PROVE  CountInv'
<1>1. N' = N
  BY SamePipeline
<1> QED
  BY <1>1 DEF CountInv

\* The count follows the units that begin and leave.
LEMMA UnitCount ==
    ASSUME OrderInv, ShapeInv, CountInv, NEW u \in Units, UnitNext(u)
    PROVE  CountInv'
<1> DEFINE k == u[1]
<1>1. pipeline' = pipeline /\ pipeline \in Pipelines /\ k \in 0..N
  BY StepKeepsPipeline, TypesHold, UnitsShape
<1>2. \A v \in Units : v # u => unit'[v] = unit[v]
  BY UnitPcs
<1>3. running = [j \in 0..N |-> Cardinality(Busy(j))] /\ \A j \in 0..N : IsFiniteSet(Busy(j))
  BY DEF CountInv
<1>4. ASSUME NEW j \in 0..N, j # k
      PROVE  Busy(j)' = Busy(j)
  <2>1. \A v : v \in Busy(j)' <=> v \in Busy(j)
    BY <1>1, <1>2, <1>4, BusyParts, BusyPrimed
  <2> QED
    BY <2>1
<1>5. CASE Begin(u) /\ unit[u].pc = "new" /\ unit'[u].pc = "run"
  <2>1. Busy(k)' = Busy(k) \cup {u}
    <3>1. \A v : v \in Busy(k)' <=> v \in Busy(k) \/ v = u
      BY <1>1, <1>2, <1>5, BusyParts, BusyPrimed
    <3> QED
      BY <3>1
  <2>2. u \notin Busy(k)
    BY <1>5, BusyParts
  <2>3. IsFiniteSet(Busy(k)') /\ Cardinality(Busy(k)') = Cardinality(Busy(k)) + 1
    BY <2>1, <2>2, <1>1, <1>3, FS_AddElement
  <2>4. running' = [running EXCEPT ![k] = @ + 1]
    BY <1>5 DEF Begin
  <2>5. \A j \in 0..N : Cardinality(Busy(j)') = IF j = k THEN Cardinality(Busy(j)) + 1 ELSE Cardinality(Busy(j))
    BY <2>3, <1>4
  <2>6. running' = [j \in 0..N |-> Cardinality(Busy(j)')]
    BY <2>4, <2>5, <1>1, <1>3
  <2>7. \A j \in 0..N : IsFiniteSet(Busy(j)')
    BY <2>3, <1>3, <1>4
  <2> QED
    BY <2>6, <2>7, <1>1, CountPrimed
<1>6. CASE Leave(u) /\ unit[u].pc \in {"left", "left_catch"} /\ unit'[u].pc = "gone"
  <2>1. Busy(k)' = Busy(k) \ {u}
    <3>1. \A v : v \in Busy(k)' <=> v \in Busy(k) /\ v # u
      BY <1>1, <1>2, <1>6, BusyParts, BusyPrimed
    <3> QED
      BY <3>1
  <2>2. u \in Busy(k)
    BY <1>6, BusyParts
  <2>3. IsFiniteSet(Busy(k)') /\ Cardinality(Busy(k)') = Cardinality(Busy(k)) - 1
    BY <2>1, <2>2, <1>1, <1>3, FS_RemoveElement
  <2>4. running' = [running EXCEPT ![k] = @ - 1]
    BY <1>6 DEF Leave
  <2>5. \A j \in 0..N : Cardinality(Busy(j)') = IF j = k THEN Cardinality(Busy(j)) - 1 ELSE Cardinality(Busy(j))
    BY <2>3, <1>4
  <2>6. running' = [j \in 0..N |-> Cardinality(Busy(j)')]
    BY <2>4, <2>5, <1>1, <1>3
  <2>7. \A j \in 0..N : IsFiniteSet(Busy(j)')
    BY <2>3, <1>3, <1>4
  <2> QED
    BY <2>6, <2>7, <1>1, CountPrimed
<1>7. CASE running' = running /\ unit[u].pc \notin {"new", "gone"} /\ unit'[u].pc \notin {"new", "gone"}
  <2>1. Busy(k)' = Busy(k)
    <3>1. \A v : v \in Busy(k)' <=> v \in Busy(k)
      BY <1>1, <1>2, <1>7, BusyParts, BusyPrimed
    <3> QED
      BY <3>1
  <2>2. \A j \in 0..N : Busy(j)' = Busy(j)
    BY <2>1, <1>4
  <2>3. running' = [j \in 0..N |-> Cardinality(Busy(j)')]
    BY <2>2, <1>3, <1>7
  <2>4. \A j \in 0..N : IsFiniteSet(Busy(j)')
    BY <2>2, <1>3
  <2> QED
    BY <2>3, <2>4, <1>1, CountPrimed
<1> QED
  BY <1>5, <1>6, <1>7, BusySteps

\* No one else counts.
LEMMA OtherCount ==
    ASSUME CountInv, (\E c \in Callers : CallerNext(c)) \/ Stop \/ Wait \/ Done \/ UNCHANGED vars
    PROVE  CountInv'
<1>1. pipeline' = pipeline /\ unit' = unit /\ running' = running
  BY NoUnit
<1>2. N' = N /\ Units' = Units
  BY <1>1, SamePipeline
<1>3. \A k : Busy(k)' = Busy(k)
  BY <1>1, <1>2 DEF Busy
<1> QED
  BY <1>1, <1>2, <1>3 DEF CountInv

\* At first no unit has begun.
LEMMA InitCount ==
    ASSUME Init
    PROVE  CountInv
<1>1. \A u \in Units : unit[u].pc = "new"
  BY DEF Init
<1>2. \A k : Busy(k) = {}
  BY <1>1 DEF Busy
<1>3. running = [k \in 0..N |-> 0]
  BY DEF Init
<1> QED
  BY <1>2, <1>3, FS_EmptySet DEF CountInv

\* Once all units have begun, a count of 0 says that those of the stage are gone.
LEMMA NoneRuns ==
    ASSUME CountInv, Started, NEW k \in 0..N, running[k] = 0, NEW u \in Units, u[1] = k
    PROVE  unit[u].pc = "gone"
<1>1. IsFiniteSet(Busy(k)) /\ Cardinality(Busy(k)) = 0
  BY DEF CountInv
<1>2. Busy(k) = {}
  BY <1>1, FS_EmptySet
<1>3. u \notin Busy(k)
  BY <1>2
<1> QED
  BY <1>3, BusyParts DEF Started

----------------------------------------------------------------------------
(* The ends: who resets m_run, and what an exception loses *)

\* What is lost after a step.
LEMMA LostPrimed ==
    ASSUME pipeline' = pipeline
    PROVE  NoLost' <=> \A t \in Tasks : fate'[t] # "lost"
<1>1. Tasks' = Tasks
  BY DEF Tasks
<1> QED
  BY <1>1 DEF NoLost

\* A task that process threw for is lost.
LEMMA ThrownIsLost ==
    ASSUME OrderInv, ShapeInv, pipeline' = pipeline, NEW u \in Units, NEW S, Catch(u, S), NEW t, Throws(u[1], t),
           t = unit[u].item.task \/ \E y \in Items(unit[u]) : t = y.task
    PROVE  ~NoLost'
<1>1. pipeline \in Pipelines /\ unit[u] \in UnitRec /\ ShapeOK(u[1], unit[u])
  BY TypesHold DEF ShapeInv
<1>2. t \in Tasks /\ t # NoTask
  <2>1. <<u[1], t>> \in pipeline.throws
    BY DEF Throws
  <2>2. \A p \in Pipelines : p.drops \cup p.throws \subseteq (DOMAIN p.stages) \X (1..p.tasks)
    BY PipelineAssumption
  <2>3. <<u[1], t>> \in (DOMAIN pipeline.stages) \X (1..pipeline.tasks)
    BY <2>1, <2>2, <1>1
  <2>4. t \in Tasks
    BY <2>3 DEF Tasks
  <2> QED
    BY <2>4, <1>1, TaskType
<1>3. t \in UnitTasks(unit[u])
  BY <1>2, TasksParts
<1>4. t \in Held(unit[u])
  BY <1>1, <1>2, <1>3, HeldTasks
<1>5. fate' = Become(Held(unit[u]) \cup S, "lost")
  BY DEF Catch
<1>6. fate'[t] = "lost"
  BY <1>2, <1>4, <1>5 DEF Become
<1> QED
  BY <1>2, <1>6, LostPrimed

\* What is lost stays lost.
LEMMA LostStays ==
    ASSUME OrderInv, ShapeInv, OwnerInv, NewInv, NEW u \in Units, UnitNext(u), NoLost'
    PROVE  NoLost
<1>1. pipeline' = pipeline
  BY StepKeepsPipeline
<1>2. \A t \in Tasks : fate'[t] # "lost"
  BY <1>1, LostPrimed
<1>3. CASE Fated
  BY <1>2, <1>3 DEF Fated, NoLost
<1>4. CASE Make(u) /\ \E r2, x : MakeEffect(u, r2, x)
  <2>1. unit[u].pc = "make"
    BY <1>4 DEF Make
  <2>2. NextTask \in Tasks /\ fate[NextTask] = "new" /\ fate \in [Tasks -> Fates]
    BY <2>1, MadeTask DEF NewInv
  <2>3. unit'[u].pc = "push"
    <3>1. PICK r2, x : Stepped(u, r2) /\ r2.pc = "push"
      BY <1>4 DEF MakeEffect, Replaced
    <3> QED
      BY <3>1, SteppedPc
  <2>4. ~Catch(u, {})
    BY <2>3, CatchPc
  <2>5. fate' = [fate EXCEPT ![NextTask] = "live"]
    BY <1>4, <2>4 DEF Make, NextTask
  <2> QED
    BY <2>2, <2>5, <1>2 DEF NoLost
<1> QED
  BY <1>3, <1>4, UnitFated

\* An exception: m_run is reset, and a task is lost unless it comes from the first stage, that makes the tasks.
LEMMA CaughtEnds ==
    ASSUME OrderInv, ShapeInv, NumberedInv, AheadInv, NewInv, NEW u \in Units, UnitNext(u), Caught(u)
    PROVE  /\ MayStop /\ run' = FALSE
           /\ ~NoLost' \/ (pipeline.feed = "self" /\ u[1] = 1)
<1>1. pipeline' = pipeline
  BY StepKeepsPipeline
<1>2. CASE Make(u) /\ unit[u].pc = "make" /\ Catch(u, {}) /\ Throws(u[1], NextTask)
  <2>1. pipeline.feed = "self" /\ u[1] = 1
    BY <1>2, MadeTask
  <2> QED
    BY <2>1, <1>2 DEF Throws, Catch
<1>3. CASE Process(u) /\ unit[u].pc = "process" /\ Catch(u, {}) /\ Throws(u[1], unit[u].item.task)
  <2>1. ~NoLost'
    BY <1>1, <1>3, ThrownIsLost
  <2> QED
    BY <2>1, <1>3 DEF Throws, Catch
<1>4. CASE SerialProcess(u) /\ Catch(u, {}) /\ \E y \in Items(unit[u]) : Throws(u[1], y.task)
  <2>1. PICK y \in Items(unit[u]) : Throws(u[1], y.task)
    BY <1>4
  <2>2. ~NoLost'
    BY <1>1, <1>4, <2>1, ThrownIsLost
  <2> QED
    BY <2>1, <2>2, <1>4 DEF Throws, Catch
<1>5. CASE Mode(u[1]) = "keep" /\ queue[u[1] - 1] # <<>> /\ Head(queue[u[1] - 1]).plserial < plserial[u[1]]
  <2>1. Head(queue[u[1] - 1]).plserial >= plserial[u[1]]
    BY <1>5, NoneComesLate
  <2>2. plserial[u[1]] \in Nat /\ Head(queue[u[1] - 1]).plserial \in Nat
    <3>1. u[1] \in 0..N /\ u[1] - 1 \in 0..N /\ queue \in [0..N -> Seq(Item)] /\ plserial \in [0..N -> Nat]
      BY TypesHold, UnitsShape
    <3>2. Head(queue[u[1] - 1]) \in Item
      BY <3>1, <1>5
    <3> QED
      BY <3>1, <3>2 DEF Item
  <2> QED
    BY <2>1, <2>2, <1>5
<1> QED
  BY <1>2, <1>3, <1>4, <1>5 DEF Caught

\* Who resets m_run: the first stage with its last task, or an exception.
LEMMA RunFalls ==
    ASSUME OrderInv, ShapeInv, NumberedInv, AheadInv, NewInv, EndInv, NEW u \in Units, UnitNext(u), run, ~run'
    PROVE  MayStop /\ (~NoLost' \/ pipeline.feed = "self")
<1>1. PcTable(u, unit[u].pc, unit'[u].pc) \/ Caught(u)
  BY UnitPcs
<1>2. CASE Caught(u)
  BY <1>2, CaughtEnds
<1>3. CASE Make(u) /\ ~Caught(u)
  <2>1. unit[u].pc = "make"
    BY <1>3 DEF Make
  <2>2. pipeline.feed = "self" /\ NextTask \in Nat
    BY <2>1, MadeTask
  <2>3. MayStop
    <3>1. CASE Catch(u, {}) /\ Throws(u[1], NextTask)
      BY <3>1 DEF Throws
    <3>2. CASE run' = (run /\ NextTask < pipeline.tasks) /\ (NextTask < pipeline.tasks \/ MayStop)
      <4>1. CASE NextTask < pipeline.tasks
        BY <4>1, <3>2, Zenon
      <4> QED
        BY <4>1, <3>2
    <3> QED
      BY <3>1, <3>2, <1>3 DEF Make, NextTask
  <2> QED
    BY <2>2, <2>3
<1>4. CASE ~Make(u) /\ ~Caught(u)
  <2>1. PcTable(u, unit[u].pc, unit'[u].pc)
    BY <1>1, <1>4
  <2>2. ~Leave(u)
    <3>1. unit[u].pc \in {"left", "left_catch"} => unit[u].pc \in AfterPcs
      BY DEF AfterPcs, EndPcs
    <3>2. unit[u].pc \in AfterPcs => ~run
      BY DEF EndInv, EndOK
    <3> QED
      BY <3>1, <3>2 DEF Leave
  <2>3. run' = run
    <3>1. CASE ~Process(u) /\ ~PopSerial(u) /\ ~SerialProcess(u)
      BY <3>1, <2>2, <1>4 DEF UnitNext, Begin, ReadRun, ReadPrev, ReadEmpty, PopTimeout, PopFront, PushBack,
           SerialWait, SerialPush, FlushPush, DrainEmpty, DrainPrev, DrainPop
    <3>2. CASE Process(u) \/ PopSerial(u) \/ SerialProcess(u)
      <4>1. unit[u].pc \in {"process", "pop", "serial", "flush"}
        BY <3>2 DEF Process, PopSerial, SerialProcess, IsTurn
      <4>2. unit'[u].pc \notin {"left_catch", "empty_catch"}
        BY <4>1, <2>1 DEF PcTable
      <4>3. \A S : ~Catch(u, S)
        BY <4>2, CatchPc
      <4> QED
        BY <3>2, <4>3 DEF Process, PopSerial, SerialProcess
    <3> QED
      BY <3>1, <3>2
  <2> QED
    BY <2>3
<1> QED
  BY <1>2, <1>3, <1>4

----------------------------------------------------------------------------
(* What is over stays over *)

\* A stage that is over after a step.
LEMMA OverPrimed ==
    ASSUME pipeline' = pipeline, NEW k
    PROVE  Over(k)' <=> IF k = 0 THEN main' >= 0 ELSE \A v \in Units : v[1] = k => unit'[v].pc = "gone"
<1>1. Units' = Units
  BY SamePipeline
<1> QED
  BY <1>1 DEF Over

\* A stage that is over stays over.
LEMMA OverStays ==
    ASSUME OrderInv, ShapeInv, NEW u \in Units, UnitNext(u), NEW k, Over(k)
    PROVE  Over(k)'
<1>1. pipeline' = pipeline /\ main' = main
  BY StepKeepsPipeline
<1>2. unit[u].pc # "gone" /\ \A v \in Units : v # u => unit'[v] = unit[v]
  BY BusySteps, UnitPcs
<1>3. CASE k = 0
  BY <1>1, <1>3, OverPrimed DEF Over
<1>4. CASE k # 0
  <2>1. \A v \in Units : v[1] = k => unit[v].pc = "gone"
    BY <1>4 DEF Over
  <2>2. \A v \in Units : v[1] = k => unit'[v].pc = "gone"
    BY <2>1, <1>2
  <2> QED
    BY <2>2, <1>1, <1>4, OverPrimed
<1> QED
  BY <1>3, <1>4

\* No one pushes to a queue behind a stage that is over.
LEMMA PrevDoneStays ==
    ASSUME OrderInv, ShapeInv, NEW u \in Units, UnitNext(u), NEW k \in Stages, PrevDone(k)
    PROVE  PrevDone(k)'
<1>1. Over(k - 1) /\ queue[k - 1] = <<>>
  BY DEF PrevDone
<1>2. Over(k - 1)'
  BY <1>1, OverStays
<1>3. u[1] \in Stages /\ u[1] \in 0..N /\ u[1] - 1 \in 0..N /\ queue \in [0..N -> Seq(Item)] /\ N \in Nat /\ Stages = 1..N
      /\ k - 1 \in 0..N
  BY TypesHold, UnitsShape
<1>4. queue'[k - 1] = <<>>
  <2>1. CASE queue' = queue
    BY <2>1, <1>1
  <2>2. CASE queue[u[1] - 1] # <<>> /\ queue' = [queue EXCEPT ![u[1] - 1] = Tail(@)]
    BY <2>2, <1>1, <1>3
  <2>3. CASE unit[u].pc \in {"push", "push_serial", "push_flush"} /\ \E x : queue' = [queue EXCEPT ![u[1]] = Append(@, x)]
    <3>1. u[1] # k - 1
      BY <2>3, <1>1, <1>3, SMTT(30) DEF Over
    <3> QED
      BY <3>1, <2>3, <1>1, <1>3
  <2> QED
    BY <2>1, <2>2, <2>3, QueueSteps
<1> QED
  BY <1>2, <1>4 DEF PrevDone

\* The queue behind the last stage is empty.
LEMMA LastStaysEmpty ==
    ASSUME OrderInv, ShapeInv, NEW u \in Units, UnitNext(u), queue[N] = <<>>
    PROVE  queue'[N] = <<>>
<1>1. u[1] \in 1..N /\ queue \in [0..N -> Seq(Item)] /\ N \in Nat /\ N \in 0..N /\ u[1] - 1 # N
  BY TypesHold, UnitsShape
<1>2. CASE queue' = queue
  BY <1>2
<1>3. CASE queue' = [queue EXCEPT ![u[1] - 1] = Tail(@)]
  BY <1>3, <1>1
<1>4. CASE ~IsLast(u[1]) /\ \E x : queue' = [queue EXCEPT ![u[1]] = Append(@, x)]
  BY <1>4, <1>1 DEF IsLast
<1> QED
  BY <1>2, <1>3, <1>4, QueueSteps

\* What the next state must satisfy.
LEMMA MainPrimed ==
    ASSUME pipeline' = pipeline, main' \in -1..N,
           main' >= 0 => mutex' = 0 /\ \A c \in Callers : caller'[c].done = Len(Batch(c)),
           \A u \in Units : u[1] <= main' => unit'[u].pc = "gone",
           pipeline.feed = "self" => main' >= 0,
           pipeline.feed = "enqueue" /\ ~run' /\ NoLost' => main' >= 0,
           queue'[N] = <<>>
    PROVE  MainInv'
<1>1. N' = N /\ Units' = Units /\ Callers' = Callers /\ \A c : Batch(c)' = Batch(c)
  BY SamePipeline
<1> QED
  BY <1>1 DEF MainInv

\* Every step of a unit keeps what stop and wait rely on.
LEMMA UnitMain ==
    ASSUME OrderInv, ShapeInv, NumberedInv, AheadInv, OwnerInv, NewInv, MainInv, EndInv, NEW u \in Units, UnitNext(u)
    PROVE  MainInv'
<1>1. pipeline' = pipeline /\ mutex' = mutex /\ caller' = caller /\ main' = main
  BY StepKeepsPipeline
<1>2. unit[u].pc # "gone" /\ \A v \in Units : v # u => unit'[v] = unit[v]
  BY BusySteps, UnitPcs
<1>3. /\ main \in -1..N
      /\ main >= 0 => mutex = 0 /\ \A c \in Callers : caller[c].done = Len(Batch(c))
      /\ \A v \in Units : v[1] <= main => unit[v].pc = "gone"
      /\ pipeline.feed = "self" => main >= 0
      /\ pipeline.feed = "enqueue" /\ ~run /\ NoLost => main >= 0
      /\ queue[N] = <<>>
  BY DEF MainInv
<1>4. queue'[N] = <<>>
  BY <1>3, LastStaysEmpty
<1>5. \A v \in Units : v[1] <= main => unit'[v].pc = "gone"
  BY <1>2, <1>3
<1>6. ASSUME pipeline.feed = "enqueue", ~run', NoLost'
      PROVE  main >= 0
  <2>1. NoLost
    BY <1>6, LostStays
  <2>2. ~run
    <3>1. pipeline.feed # "self"
      BY <1>6
    <3> QED
      BY <3>1, <1>6, RunFalls
  <2> QED
    BY <2>1, <2>2, <1>3, <1>6
<1> QED
  BY <1>1, <1>3, <1>4, <1>5, <1>6, MainPrimed

\* What the next state must satisfy.
LEMMA EndPrimed ==
    ASSUME pipeline' = pipeline, ~run' => \A v \in Units : unit'[v].pc # "new",
           \A v \in Units : EndOK(v[1], unit[v].pc)'
    PROVE  EndInv'
<1>1. Units' = Units
  BY SamePipeline
<1> QED
  BY <1>1 DEF EndInv, Started

\* Nothing comes to the stage that makes the tasks.
LEMMA SourceIsFirst ==
    ASSUME OrderInv, ShapeInv, NewInv, MainInv, NEW u \in Units, IsSource(u[1])
    PROVE  PrevDone(u[1])
<1>1. u[1] = 1 /\ pipeline.feed = "self"
  BY DEF IsSource
<1>2. main >= 0 /\ queue[0] = <<>>
  BY <1>1 DEF MainInv, NewInv
<1>3. u[1] - 1 = 0
  BY <1>1
<1> QED
  BY <1>2, <1>3 DEF PrevDone, Over

----------------------------------------------------------------------------
(* The units' ends *)

\* A unit that does not step is where it was, and what it has read still holds.
LEMMA EndStays ==
    ASSUME OrderInv, ShapeInv, OwnerInv, NewInv, EndInv, NEW u \in Units, UnitNext(u), NEW v \in Units, v # u
    PROVE  EndOK(v[1], unit[v].pc)'
<1>1. unit'[v] = unit[v] /\ EndOK(v[1], unit[v].pc) /\ (NoLost' => NoLost) /\ (run' => run)
  BY UnitPcs, LostStays, RunSteps DEF EndInv
<1>2. v[1] \in Stages
  BY TypesHold, UnitsShape
<1>3. (Over(v[1] - 1) => Over(v[1] - 1)') /\ (PrevDone(v[1]) => PrevDone(v[1])')
  BY <1>2, OverStays, PrevDoneStays
<1> QED
  BY <1>1, <1>3 DEF EndOK

\* A unit that steps, by what it reads.
LEMMA EndStep ==
    ASSUME ~EarlyStop, OrderInv, ShapeInv, NumberedInv, AheadInv, OwnerInv, NewInv, CountInv, MainInv, EndInv,
           NEW u \in Units, UnitNext(u)
    PROVE  EndOK(u[1], unit[u].pc)'
<1> DEFINE k == u[1]
           p == unit[u].pc
           p2 == unit'[u].pc
<1>1. pipeline \in Pipelines /\ k \in Stages /\ k - 1 \in 0..N /\ k \in Nat /\ k # 0 /\ ShapeOK(k, unit[u])
      /\ pipeline.feed \in {"enqueue", "self"}
  BY TypesHold, UnitsShape, PipelineAssumption DEF ShapeInv
<1>2. (NoLost' => NoLost) /\ (run' => run)
  BY LostStays, RunSteps
<1>3. /\ p \in AfterPcs => ~run
      /\ p = "empty" /\ (k > 1 \/ NoLost) => Over(k - 1)
      /\ p \in {"flush", "push_flush", "left"} /\ (k > 1 \/ NoLost) => PrevDone(k)
      /\ p \in {"left_catch", "gone"} /\ NoLost => PrevDone(k)
      /\ p \in DrainPcs => ~NoLost
  BY DEF EndInv, EndOK
<1>4. (Over(k - 1) => Over(k - 1)') /\ (PrevDone(k) => PrevDone(k)')
  BY <1>1, OverStays, PrevDoneStays
<1>5. /\ IF IsSource(k) THEN p \in SourcePcs ELSE p # "make"
      /\ p \in DrainPcs => k # 1
  BY <1>1 DEF ShapeOK
<1>6. k > 1 \/ k = 1
  BY <1>1
<1>7. IsSource(k) => PrevDone(k)
  BY SourceIsFirst
<1>8. CASE Caught(u)
  <2>1. run' = FALSE /\ (~NoLost' \/ (pipeline.feed = "self" /\ k = 1)) /\ p2 = (IF k = 1 THEN "left_catch" ELSE "empty_catch")
    BY <1>8, CaughtEnds DEF Caught
  <2>2. CASE ~NoLost'
    <3>1. p2 \notin {"empty", "flush", "push_flush", "left"}
      BY <2>1
    <3> QED
      BY <2>1, <2>2, <3>1 DEF EndOK
  <2>3. CASE pipeline.feed = "self" /\ k = 1
    <3>1. PrevDone(k)' /\ p2 = "left_catch"
      BY <2>1, <2>3, <1>4, <1>7 DEF IsSource
    <3> QED
      BY <2>1, <3>1 DEF EndOK, DrainPcs
  <2> QED
    BY <2>1, <2>2, <2>3
<1>9. CASE PcTable(u, p, p2)
  <2>1. CASE ReadRun(u) /\ p = "run" /\ p2 = IF IsSource(k) THEN (IF run THEN "make" ELSE "left") ELSE (IF run THEN "pop" ELSE "prev")
    <3>1. CASE p2 = "left"
      <4>1. ~run' /\ PrevDone(k)'
        BY <2>1, <3>1, <1>2, <1>4, <1>7
      <4> QED
        BY <3>1, <4>1 DEF EndOK, DrainPcs
    <3>2. CASE p2 # "left"
      <4>1. p2 \in {"make", "pop", "prev"} /\ (p2 = "prev" => ~run')
        BY <2>1, <3>2, <1>2
      <4> QED
        BY <4>1 DEF EndOK, DrainPcs, AfterPcs, EndPcs
    <3> QED
      BY <3>1, <3>2
  <2>2. CASE ReadPrev(u) /\ p = "prev" /\ p2 = IF running[k - 1] # 0 THEN "pop" ELSE "empty"
    <3>1. ~run /\ ~run'
      BY <2>2, <1>2, <1>3 DEF AfterPcs
    <3>2. CASE p2 = "pop"
      BY <3>2 DEF EndOK, DrainPcs, AfterPcs, EndPcs
    <3>3. CASE p2 = "empty"
      <4>1. running[k - 1] = 0
        BY <2>2, <3>3
      <4>2. k > 1 \/ NoLost' => Over(k - 1)
        <5>1. CASE k > 1
          <6>1. Started
            BY <3>1 DEF EndInv
          <6>2. \A v \in Units : v[1] = k - 1 => unit[v].pc = "gone"
            BY <6>1, <4>1, <1>1, NoneRuns
          <6>3. k - 1 # 0
            BY <5>1, <1>1
          <6> QED
            BY <6>2, <6>3 DEF Over
        <5>2. CASE k = 1 /\ NoLost'
          <6>1. ~IsSource(k)
            BY <2>2, <1>5 DEF SourcePcs
          <6>2. pipeline.feed = "enqueue"
            BY <6>1, <5>2, <1>1 DEF IsSource
          <6>3. main >= 0
            BY <6>2, <5>2, <3>1, <1>2 DEF MainInv
          <6>4. k - 1 = 0
            BY <5>2
          <6> QED
            BY <6>3, <6>4 DEF Over
        <5> QED
          BY <5>1, <5>2, <1>6
      <4> QED
        BY <4>2, <3>1, <3>3, <1>4 DEF EndOK, DrainPcs
    <3> QED
      BY <3>2, <3>3, <2>2
  <2>3. CASE ReadEmpty(u) /\ p = "empty" /\ (p2 = "pop" \/ (p2 \in {"flush", "left"} /\ queue[k - 1] = <<>>))
    <3>1. ~run'
      BY <2>3, <1>2, <1>3 DEF AfterPcs
    <3>2. CASE p2 = "pop"
      BY <3>2 DEF EndOK, DrainPcs, AfterPcs, EndPcs
    <3>3. CASE p2 \in {"flush", "left"} /\ queue[k - 1] = <<>>
      <4>1. k > 1 \/ NoLost' => PrevDone(k)'
        BY <2>3, <3>3, <1>2, <1>3, <1>4 DEF PrevDone
      <4> QED
        BY <4>1, <3>1, <3>3 DEF EndOK, DrainPcs
    <3> QED
      BY <3>2, <3>3, <2>3
  <2>4. CASE p \in {"flush", "push_flush"} /\ p2 \in {"flush", "push_flush", "left"}
    <3>1. ~run' /\ (k > 1 \/ NoLost' => PrevDone(k)')
      BY <2>4, <1>2, <1>3, <1>4 DEF AfterPcs
    <3> QED
      BY <2>4, <3>1 DEF EndOK, DrainPcs
  <2>5. CASE Leave(u) /\ p \in {"left", "left_catch"} /\ p2 = "gone"
    <3>1. run' = FALSE
      BY <2>5 DEF Leave
    <3>2. NoLost' => PrevDone(k)'
      BY <2>5, <1>2, <1>3, <1>4
    <3> QED
      BY <2>5, <3>1, <3>2 DEF EndOK, DrainPcs
  <2>6. CASE p \in DrainPcs /\ p2 \in DrainPcs \cup {"left_catch"}
    <3>1. ~NoLost' /\ ~run'
      BY <2>6, <1>2, <1>3 DEF AfterPcs, EndPcs, DrainPcs
    <3>2. p2 \notin {"empty", "flush", "push_flush", "left"}
      BY <2>6 DEF DrainPcs
    <3> QED
      BY <3>1, <3>2 DEF EndOK
  <2>7. CASE p2 \in {"run", "push", "process", "serial", "push_serial", "pop"}
    BY <2>7 DEF EndOK, DrainPcs, AfterPcs, EndPcs
  <2> QED
    BY <1>9, <2>1, <2>2, <2>3, <2>4, <2>5, <2>6, <2>7 DEF PcTable, DrainPcs
<1> QED
  BY <1>8, <1>9, UnitPcs

\* Every step of a unit keeps what the units have read.
LEMMA UnitEnd ==
    ASSUME ~EarlyStop, OrderInv, ShapeInv, NumberedInv, AheadInv, OwnerInv, NewInv, CountInv, MainInv, EndInv,
           NEW u \in Units, UnitNext(u)
    PROVE  EndInv'
<1>1. pipeline' = pipeline
  BY StepKeepsPipeline
<1>2. ASSUME ~run'
      PROVE  \A v \in Units : unit'[v].pc # "new"
  <2>1. Started
    <3>1. CASE ~run
      BY <3>1 DEF EndInv
    <3>2. CASE run
      <4>1. MayStop
        BY <1>2, <3>2, RunFalls
      <4> QED
        BY <4>1 DEF MayStop
    <3> QED
      BY <3>1, <3>2
  <2>2. \A v \in Units : v # u => unit'[v] = unit[v]
    BY UnitPcs
  <2>3. unit'[u].pc # "new"
    BY BusySteps
  <2> QED
    BY <2>1, <2>2, <2>3 DEF Started
<1>3. \A v \in Units : EndOK(v[1], unit[v].pc)'
  BY EndStep, EndStays
<1> QED
  BY <1>1, <1>2, <1>3, EndPrimed

----------------------------------------------------------------------------
(* enqueue, stop and wait *)

\* What the steps of no unit leave alone.
LEMMA OtherEffects ==
    ASSUME OrderInv, NewInv, MainInv, (\E c \in Callers : CallerNext(c)) \/ Stop \/ Wait \/ Done \/ UNCHANGED vars
    PROVE  /\ run' \in BOOLEAN /\ (run' => run)
           /\ NoLost' => NoLost
           /\ \A k : Over(k) => Over(k)'
           /\ \A k \in Stages : PrevDone(k) => PrevDone(k)'
           /\ queue'[N] = queue[N]
<1>1. pipeline' = pipeline /\ unit' = unit /\ pipeline \in Pipelines /\ N \in Nat /\ Stages = 1..N /\ queue \in [0..N -> Seq(Item)]
  BY NoUnit, TypesHold
<1>2. /\ main \in -1..N /\ fate \in [Tasks -> Fates] /\ run \in BOOLEAN
      /\ main >= 0 => mutex = 0
  BY DEF MainInv, NewInv
<1>3. run' \in BOOLEAN /\ (run' => run)
  <2>1. run' = run \/ run' = FALSE
    BY DEF CallerNext, Enqueue, EnqueuePush, Stop, Wait, Done, vars
  <2>2. CASE run' = run
    BY <2>2, <1>2, Zenon
  <2>3. CASE run' = FALSE
    BY <2>3, Zenon
  <2> QED
    BY <2>1, <2>2, <2>3
<1>4. CASE \E c \in Callers : EnqueuePush(c)
  <2>1. PICK c \in Callers : EnqueuePush(c)
    BY <1>4
  <2> DEFINE t == Batch(c)[caller[c].done + 1]
  <2>2. t \in Tasks /\ fate[t] = "new"
    BY <2>1, PushedTask
  <2>3. fate' = [fate EXCEPT ![t] = "live"] /\ main' = main /\ mutex = c
    BY <2>1 DEF EnqueuePush
  <2> HIDE DEF t
  <2>4. NoLost' => NoLost
    BY <2>2, <2>3, <1>1, <1>2, LostPrimed DEF NoLost
  <2>5. main < 0
    <3>1. c # 0
      BY <1>1, CallersShape
    <3> QED
      BY <3>1, <2>3, <1>2
  <2>6. \A k : Over(k) => Over(k)'
    BY <1>1, <2>3, OverPrimed DEF Over
  <2>7. \A k \in 0..N : k # 0 => queue'[k] = queue[k]
    <3>1. PICK x : queue' = [queue EXCEPT ![0] = Append(@, x)]
      BY <2>1 DEF EnqueuePush
    <3> QED
      BY <3>1, <1>1
  <2>8. ASSUME NEW k \in Stages, PrevDone(k)
        PROVE  PrevDone(k)'
    <3>1. k - 1 # 0
      BY <2>5, <2>8, <1>2 DEF PrevDone, Over
    <3>2. k - 1 \in 0..N
      BY <1>1
    <3> QED
      BY <3>1, <3>2, <2>6, <2>7, <2>8 DEF PrevDone
  <2>9. N # 0 /\ N \in 0..N
    <3>1. Stages # {}
      BY <1>1, BatchTasks
    <3> QED
      BY <3>1, <1>1
  <2> QED
    BY <1>3, <2>4, <2>6, <2>7, <2>8, <2>9
<1>5. CASE (\E c \in Callers : Enqueue(c)) \/ Stop \/ Wait \/ Done \/ UNCHANGED vars
  <2>1. queue' = queue /\ fate' = fate
    BY <1>5 DEF Enqueue, Stop, Wait, Done, vars
  <2>2. main >= 0 => main' >= 0
    BY <1>2, <1>5 DEF Enqueue, Stop, Wait, Done, vars
  <2>3. NoLost' => NoLost
    BY <2>1, <1>1, LostPrimed DEF NoLost
  <2>4. \A k : Over(k) => Over(k)'
    BY <1>1, <2>2, OverPrimed DEF Over
  <2>5. \A k : PrevDone(k) => PrevDone(k)'
    BY <2>1, <2>4 DEF PrevDone
  <2> QED
    BY <1>3, <2>1, <2>3, <2>4, <2>5
<1> QED
  BY <1>4, <1>5 DEF CallerNext

\* enqueue, stop and wait keep what the units have read.
LEMMA OtherEnd ==
    ASSUME ~EarlyStop, OrderInv, NewInv, MainInv, EndInv,
           (\E c \in Callers : CallerNext(c)) \/ Stop \/ Wait \/ Done \/ UNCHANGED vars
    PROVE  EndInv'
<1>1. pipeline' = pipeline /\ unit' = unit /\ pipeline \in Pipelines
  BY NoUnit, TypesHold
<1>2. /\ run' => run
      /\ NoLost' => NoLost
      /\ \A k : Over(k) => Over(k)'
      /\ \A k \in Stages : PrevDone(k) => PrevDone(k)'
  BY OtherEffects
<1>3. ASSUME ~run'
      PROVE  \A v \in Units : unit'[v].pc # "new"
  <2>1. Started
    <3>1. CASE ~run
      BY <3>1 DEF EndInv
    <3>2. CASE run
      <4>1. Stop
        <5>1. CASE ~Stop
          <6>1. run' = run
            BY <5>1 DEF CallerNext, Enqueue, EnqueuePush, Wait, Done, vars
          <6> QED
            BY <6>1, <1>3, <3>2
        <5> QED
          BY <5>1
      <4> QED
        BY <4>1 DEF Stop, MayStop
    <3> QED
      BY <3>1, <3>2
  <2> QED
    BY <2>1, <1>1 DEF Started
<1>4. ASSUME NEW v \in Units
      PROVE  EndOK(v[1], unit[v].pc)'
  <2>1. EndOK(v[1], unit[v].pc) /\ unit'[v] = unit[v] /\ v[1] \in Stages
    BY <1>1, UnitsShape DEF EndInv
  <2>2. (Over(v[1] - 1) => Over(v[1] - 1)') /\ (PrevDone(v[1]) => PrevDone(v[1])')
    BY <2>1, <1>2
  <2> QED
    BY <2>1, <2>2, <1>2 DEF EndOK
<1> QED
  BY <1>1, <1>3, <1>4, EndPrimed

\* enqueue, stop and wait, and what they rely on.
LEMMA OtherMain ==
    ASSUME OrderInv, NewInv, MainInv, (\E c \in Callers : CallerNext(c)) \/ Stop \/ Wait \/ Done \/ UNCHANGED vars
    PROVE  MainInv'
<1>1. /\ pipeline' = pipeline /\ unit' = unit /\ pipeline \in Pipelines /\ N \in Nat
      /\ caller \in [Callers -> [done : Nat, base : Nat]] /\ mutex \in Callers \cup {0}
  BY NoUnit, TypesHold DEF SerialTypeOK
<1>2. (run' => run) /\ (NoLost' => NoLost) /\ queue'[N] = queue[N]
  BY OtherEffects
<1>3. /\ main \in -1..N
      /\ main >= 0 => mutex = 0 /\ \A c \in Callers : caller[c].done = Len(Batch(c))
      /\ \A v \in Units : v[1] <= main => unit[v].pc = "gone"
      /\ pipeline.feed = "self" => main >= 0
      /\ pipeline.feed = "enqueue" /\ ~run /\ NoLost => main >= 0
      /\ queue[N] = <<>>
  BY DEF MainInv
<1>4. \A u \in Units : u[1] \in Nat /\ u[1] # 0
  BY <1>1, UnitsShape
<1>5. \A c \in Callers : Len(Batch(c)) \in Nat /\ c # 0
  BY <1>1, CallersShape
<1>6. CASE \E c \in Callers : CallerNext(c)
  <2>1. PICK c \in Callers : CallerNext(c)
    BY <1>6
  <2>2. main' = main /\ run' = run
    BY <2>1 DEF CallerNext, Enqueue, EnqueuePush
  <2>3. ~(main >= 0)
    BY <2>1, <1>3, <1>5 DEF CallerNext, Enqueue, EnqueuePush
  <2>4. pipeline.feed = "enqueue" /\ ~run' /\ NoLost' => main' >= 0
    BY <2>2, <1>2, <1>3
  <2> QED
    BY <2>2, <2>3, <2>4, <1>1, <1>2, <1>3, MainPrimed
<1>7. CASE Stop
  <2>1. main' = 0 /\ mutex' = mutex /\ caller' = caller /\ \A c \in Callers : caller[c].done = Len(Batch(c))
    BY <1>7 DEF Stop
  <2>2. mutex = 0
    <3>1. ASSUME mutex \in Callers
          PROVE  FALSE
      <4>1. caller[mutex].done < Len(Batch(mutex))
        BY <3>1 DEF OrderInv, CallerInv
      <4> QED
        BY <4>1, <3>1, <2>1, <1>5
    <3> QED
      BY <3>1, <1>1
  <2>3. main' \in -1..N /\ main' >= 0 /\ \A u \in Units : ~(u[1] <= main')
    BY <2>1, <1>1, <1>4
  <2> QED
    BY <2>1, <2>2, <2>3, <1>1, <1>2, <1>3, MainPrimed
<1>8. CASE Wait
  <2>1. /\ main' = main + 1 /\ main \in 0..(N - 1) /\ mutex' = mutex /\ caller' = caller
        /\ \A u \in Units : u[1] = main + 1 => unit[u].pc = "gone"
    BY <1>8 DEF Wait
  <2>2. main' \in -1..N /\ main' >= 0 /\ main >= 0
    BY <2>1, <1>1
  <2>3. ASSUME NEW u \in Units, u[1] <= main'
        PROVE  unit'[u].pc = "gone"
    <3>1. u[1] <= main \/ u[1] = main + 1
      BY <2>1, <2>3, <1>4, <1>1
    <3> QED
      BY <3>1, <2>1, <1>1, <1>3
  <2> QED
    BY <2>1, <2>2, <2>3, <1>1, <1>2, <1>3, MainPrimed
<1>9. CASE Done \/ UNCHANGED vars
  <2>1. main' = main /\ mutex' = mutex /\ caller' = caller
    BY <1>9 DEF Done, vars
  <2>2. pipeline.feed = "enqueue" /\ ~run' /\ NoLost' => main' >= 0
    <3>1. run' = run
      BY <1>9 DEF Done, vars
    <3> QED
      BY <3>1, <2>1, <1>2, <1>3
  <2> QED
    BY <2>1, <2>2, <1>1, <1>2, <1>3, MainPrimed
<1> QED
  BY <1>6, <1>7, <1>8, <1>9

\* At first no unit has begun, and nothing has ended.
LEMMA InitEnds ==
    ASSUME Init
    PROVE  MainInv /\ EndInv
<1>1. pipeline \in Pipelines /\ N \in Nat
  BY StagesShape DEF Init
<1>2. pipeline.feed \in {"enqueue", "self"}
  BY <1>1, PipelineAssumption
<1>3. run = TRUE /\ mutex = 0 /\ main = (IF pipeline.feed = "enqueue" THEN -1 ELSE 0) /\ (\A u \in Units : unit[u].pc = "new")
      /\ queue[N] = <<>>
  BY <1>1 DEF Init
<1>4. \A u \in Units : u[1] \in Nat /\ u[1] # 0
  BY <1>1, UnitsShape
<1>5. pipeline.feed = "self" => Callers = {}
  BY <1>1, BatchTasks
<1>6. MainInv
  <2>1. main \in -1..N /\ \A u \in Units : ~(u[1] <= main)
    BY <1>1, <1>2, <1>3, <1>4
  <2>2. main >= 0 => pipeline.feed = "self"
    BY <1>2, <1>3
  <2> QED
    BY <2>1, <2>2, <1>2, <1>3, <1>5 DEF MainInv
<1>7. EndInv
  BY <1>3 DEF EndInv, EndOK, AfterPcs, DrainPcs, EndPcs
<1> QED
  BY <1>6, <1>7

----------------------------------------------------------------------------
(* NothingLost *)

\* The inductive invariant.
LossInv == TaskInv /\ NumberedInv /\ AheadInv /\ CountInv /\ MainInv /\ EndInv

\* Every step keeps the invariant.
LEMMA NextLoss ==
    ASSUME ~EarlyStop, LossInv, [Next]_vars
    PROVE  LossInv'
<1>1. OrderInv /\ ShapeInv /\ OwnerInv /\ NewInv /\ NumberedInv /\ AheadInv /\ CountInv /\ MainInv /\ EndInv /\ TaskInv
  BY DEF LossInv, TaskInv
<1>2. TaskInv'
  BY <1>1, NextTasks
<1>3. ASSUME NEW u \in Units, UnitNext(u)
      PROVE  NumberedInv' /\ AheadInv' /\ CountInv' /\ MainInv' /\ EndInv'
  BY <1>1, <1>3, UnitNumbered, UnitAhead, UnitCount, UnitMain, UnitEnd
<1>4. ASSUME (\E c \in Callers : CallerNext(c)) \/ Stop \/ Wait \/ Done \/ UNCHANGED vars
      PROVE  NumberedInv' /\ AheadInv' /\ CountInv' /\ MainInv' /\ EndInv'
  BY <1>1, <1>4, OtherNumbered, OtherAhead, OtherCount, OtherMain, OtherEnd
<1>5. NumberedInv' /\ AheadInv' /\ CountInv' /\ MainInv' /\ EndInv'
  BY <1>3, <1>4, NextCases
<1> QED
  BY <1>2, <1>5 DEF LossInv

\* A unit that is gone has nothing.
LEMMA GoneHasNone ==
    ASSUME ShapeInv, NEW u \in Units, unit[u].pc = "gone"
    PROVE  UnitTasks(unit[u]) = {}
<1> DEFINE r == unit[u]
<1>1. ShapeOK(u[1], r)
  BY DEF ShapeInv
<1>2. r.pc \notin ItemPcs /\ r.pc \in BarePcs /\ r.pc \in {"new"} \cup EndPcs
  BY DEF ItemPcs, BarePcs, EndPcs
<1>3. r.item = NoItem /\ (\A i \in Slots : r.cache[i] = NoItem) /\ r.overflow = {}
  BY <1>1, <1>2 DEF ShapeOK
<1>4. Empty(r)
  BY <1>3, BareIsEmpty DEF Empty
<1> QED
  BY <1>4, EmptyHasNone

\* The invariant implies that nothing is lost.
LEMMA LossFollows ==
    ASSUME LossInv
    PROVE  NothingLost
<1>1. OrderInv /\ ShapeInv /\ OwnerInv /\ NewInv /\ MainInv /\ EndInv /\ TaskInv
  BY DEF LossInv, TaskInv
<1>2. pipeline \in Pipelines /\ N \in Nat /\ Stages = 1..N
  BY <1>1, TypesHold
<1>3. OnePlace
  BY <1>1, PlacesCount
<1>4. LeavesNothing
  <2> SUFFICES ASSUME NEW u \in Units, u[1] > 1, unit[u].pc = "left"
               PROVE  queue[u[1] - 1] = <<>>
    BY DEF LeavesNothing
  <2>1. PrevDone(u[1])
    BY <1>1 DEF EndInv, EndOK
  <2> QED
    BY <2>1 DEF PrevDone
<1>5. Complete
  <2> SUFFICES ASSUME main = N, \A t \in Tasks : fate[t] # "lost", NEW t \in Tasks
               PROVE  fate[t] \in {"new", "dropped", "destroyed"}
    BY DEF Complete
  <2>1. NoLost
    BY DEF NoLost
  <2>2. \A u \in Units : unit[u].pc = "gone"
    <3> TAKE u \in Units
    <3>1. u[1] \in 1..N
      BY <1>2, UnitsShape
    <3>2. u[1] <= main
      BY <3>1, <1>2
    <3> QED
      BY <3>2, <1>1 DEF MainInv
  <2>3. ASSUME NEW k \in 0..N
        PROVE  queue[k] = <<>>
    <3>1. CASE k = N
      BY <3>1, <1>1 DEF MainInv
    <3>2. CASE k # N
      <4>1. k + 1 \in Stages /\ k + 1 - 1 = k
        BY <3>2, <1>2
      <4> DEFINE u == <<k + 1, 1>>
      <4>2. u \in Units /\ u[1] = k + 1
        BY <4>1, <1>2, BatchTasks
      <4> HIDE DEF u
      <4>3. PrevDone(k + 1)
        BY <4>2, <2>1, <2>2, <1>1 DEF EndInv, EndOK
      <4> QED
        BY <4>1, <4>3 DEF PrevDone
    <3> QED
      BY <3>1, <3>2
  <2>4. fate[t] # "live"
    <3> SUFFICES ASSUME fate[t] = "live"
                 PROVE  FALSE
      OBVIOUS
    <3> DEFINE own == Own(queue, unit)
    <3>1. PICK o \in Owners : t \in own[o]
      BY <1>1 DEF OwnerInv, OneOwner
    <3>2. CASE \E k \in 0..N : o = <<"queue", k>>
      <4>1. PICK k \in 0..N : t \in QueueTasks(queue[k])
        BY <3>1, <3>2, OwnAt
      <4> QED
        BY <4>1, <2>3, QueueParts
    <3>3. CASE \E u \in Units : o = <<"unit", u>>
      <4>1. PICK u \in Units : t \in UnitTasks(unit[u])
        BY <3>1, <3>3, OwnAt
      <4> QED
        BY <4>1, <2>2, <1>1, GoneHasNone
    <3> QED
      BY <3>2, <3>3, OwnAt
  <2>5. fate[t] \in Fates
    BY <1>1 DEF NewInv
  <2> QED
    BY <2>4, <2>5 DEF Fates
<1> QED
  BY <1>3, <1>4, <1>5 DEF NothingLost

\* NothingLost of Pipeline, for every pipeline that compile and start accept, every queue size and
\* window: every task is in one place until it comes to its end, a unit whose loop has ended has left
\* nothing in the queue before it (the assertion of run_wrapper), and when wait() has returned all
\* tasks have come to their end, if process did not throw. Nobody calls stop(), and process does
\* not throw, before all units have begun: m_running_exec_units counts only these.
THEOREM NothingIsLost ==
    ASSUME ~EarlyStop
    PROVE  Spec => []NothingLost
<1>1. Init => LossInv
  BY InitOrder, InitShape, InitTasks, InitNumbered, InitAhead, InitCount, InitEnds DEF LossInv, TaskInv
<1>2. LossInv /\ [Next]_vars => LossInv'
  BY NextLoss
<1>3. LossInv => NothingLost
  BY LossFollows
<1> QED
  BY <1>1, <1>2, <1>3, PTL DEF Spec
=============================================================================
