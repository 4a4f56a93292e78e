--------------------------- MODULE PipelineProofs ---------------------------
(***************************************************************************)
(* The serial stages of a pipeline restore the order, for every pipeline,  *)
(* queue size and window.                                                  *)
(*                                                                         *)
(* What makes it true is that no two items between two stages that give    *)
(* out serials have the same serial: the proof follows the items from      *)
(* place to place (queues, the units' items, windows and overflows).  The  *)
(* rest is the window: the item with the serial s is s - expected places   *)
(* behind the head, and what is in the overflow comes later.               *)
(***************************************************************************)
EXTENDS Pipeline, FiniteSetTheorems, WellFoundedInduction, TLAPS

\* An item of a queue or of a unit: its serial number and its task.
Item == [plserial : Nat, task : Nat]

\* The places of the code of a unit.
Pcs == {"new", "run", "prev", "empty", "pop", "make", "process", "push", "serial", "push_serial", "flush",
        "push_flush", "left", "gone", "left_catch", "empty_catch", "prev_catch", "pop_catch"}

\* The local variables of a unit.
UnitRec == [pc : Pcs, item : Item, head : 0..(Window - 1),
            cache : [0..(Window - 1) -> Item], overflow : SUBSET Item]

\* Types of what the proofs look at.
SerialTypeOK ==
    /\ pipeline \in Pipelines
    /\ queue \in [0..N -> Seq(Item)]
    /\ plserial \in [0..N -> Nat]
    /\ unit \in [Units -> UnitRec]
    /\ caller \in [Callers -> [done : Nat, base : Nat]]
    /\ mutex \in Callers \cup {0}
    /\ log \in [Stages -> Seq(Nat)]

----------------------------------------------------------------------------
(* Places of items, and the serials there *)

\* The places of a unit with the local variables r.
Holds(r) ==
    {<<"item", 0>>} \cup {<<"cache", i>> : i \in 0..(Window - 1)} \cup {<<"over", x>> : x \in r.overflow}

\* The serial at the place w of a unit.
SerialIn(r, w) ==
    IF w[1] = "item" THEN r.item.plserial
    ELSE IF w[1] = "cache" THEN r.cache[w[2]].plserial
    ELSE w[2].plserial

\* All places, <<"queue", stage, position>> and <<"unit", unit, place of the unit>>.
PlacesOf(q, k) == {<<"queue", k, i>> : i \in 1..Len(q[k])}
PlacesIn(un, u) == {<<"unit", u, w>> : w \in Holds(un[u])}
QueuePlaces(q) == UNION {PlacesOf(q, k) : k \in 0..N}
UnitPlaces(un) == UNION {PlacesIn(un, u) : u \in Units}
Places(q, un) == QueuePlaces(q) \cup UnitPlaces(un)

\* The serial at a place, and the stage the place belongs to.
SerialAt(q, un, p) == IF p[1] = "queue" THEN q[p[2]][p[3]].plserial ELSE SerialIn(un[p[2]], p[3])
StageOf(p) == IF p[1] = "queue" THEN p[2] ELSE p[2][1]

\* No stage between k and l gives out serials.
Same(k, l) ==
    \A j \in Stages : (k < j /\ j <= l) \/ (l < j /\ j <= k) => Mode(j) # "generate"

\* enqueue and the stages that generate give out serials.
Generates(g) == g = 0 \/ Mode(g) = "generate"

\* The last serial given out by enqueue or by a stage.
Issued ==
    [g \in 0..N |-> IF g = 0 THEN IF mutex # 0 THEN caller[mutex].base + caller[mutex].done ELSE plserial[0]
                    ELSE IF Mode(g) = "generate" THEN plserial[g] ELSE 0]

\* No two items have the same serial from the same generator, and none has one that was not given out.
Unique(q, un) ==
    \A p1, p2 \in Places(q, un) :
        SerialAt(q, un, p1) # 0 /\ SerialAt(q, un, p1) = SerialAt(q, un, p2) /\ Same(StageOf(p1), StageOf(p2))
            => p1 = p2

\* No item has a serial its generator has not given out.
Bounded(q, un, iss) ==
    \A p \in Places(q, un) : \A g \in 0..N :
        Generates(g) /\ g <= StageOf(p) /\ Same(g, StageOf(p)) => SerialAt(q, un, p) <= iss[g]

\* What is always true of the serials in the queues and in the hands of the units.
Fine(q, un, iss) == Unique(q, un) /\ Bounded(q, un, iss)

\* Only who holds m_mutexForInqueue is in the middle of its tasks, and it counts from the serial of the head.
CallerInv ==
    \A c \in Callers :
        IF mutex = c THEN caller[c].base = plserial[0] /\ caller[c].done < Len(Batch(c))
                     ELSE caller[c].done \in {0, Len(Batch(c))}

----------------------------------------------------------------------------
(* The serial stages *)

\* Where a unit of a serial stage is: it waits for input, flushes, ends, or has something of the window.
WaitPcs == {"run", "prev", "empty", "pop"}
FlushPcs == {"flush", "push_flush"}
EndPcs == {"left", "gone", "left_catch", "empty_catch", "prev_catch", "pop_catch"}
SerialPcs == {"serial", "push_serial"}
KeepPcs == {"new"} \cup WaitPcs \cup SerialPcs \cup FlushPcs \cup EndPcs

\* The window: the place of a serial, and what is beyond it.
WindowOK(r, e) ==
    /\ e >= 1
    /\ \A i \in 0..(Window - 1) :
         LET s == r.cache[i].plserial IN s # 0 => e <= s /\ s < e + Window /\ i = (r.head + (s - e)) % Window
    /\ \A x \in r.overflow : x.plserial > e

\* The serials process was called for are below e, and increase.
LogBelow(lg, e) == \A i \in 1..Len(lg) : lg[i] < e
Increasing(lg) == \A i, j \in 1..Len(lg) : i < j => lg[i] < lg[j]

\* Nothing is in the window or in the overflow.
Fresh(r) == (\A i \in 0..(Window - 1) : r.cache[i].plserial = 0) /\ r.overflow = {}

\* A serial stage whose unit has the local variables r, that expects e and has processed lg.
StageInv(r, e, lg) ==
    /\ r.pc \in KeepPcs
    /\ Increasing(lg)
    /\ r.pc = "new" => lg = <<>> /\ Fresh(r)
    /\ r.pc \in WaitPcs \cup SerialPcs => WindowOK(r, e)
    /\ r.pc \in WaitPcs \cup {"serial"} => LogBelow(lg, e)
    /\ r.pc \in WaitPcs => r.cache[r.head].plserial # e
    /\ r.pc = "push_serial" => r.cache[r.head].plserial = e /\ LogBelow(lg, e + 1)
    /\ r.pc \in FlushPcs => \A x \in r.overflow : x.plserial >= 1 /\ LogBelow(lg, x.plserial)

\* The serial stages; the others never are where only these go, and log nothing.
KeepInv ==
    \A u \in Units : IF Mode(u[1]) = "keep" THEN StageInv(unit[u], plserial[u[1]], log[u[1]])
                     ELSE unit[u].pc \notin SerialPcs \cup FlushPcs /\ log[u[1]] = <<>>

\* The inductive invariant.
OrderInv == SerialTypeOK /\ Fine(queue, unit, Issued) /\ CallerInv /\ KeepInv
----------------------------------------------------------------------------
(* Stages and units *)

\* The elements of a sequence.
LEMMA Elements ==
    ASSUME NEW S, NEW s \in Seq(S)
    PROVE  Len(s) \in Nat /\ \A k \in 1..Len(s) : s[k] \in S
  OBVIOUS

\* What PipelineAssumption says of the stages.
LEMMA StagesShape ==
    ASSUME pipeline \in Pipelines
    PROVE  /\ N \in Nat /\ Stages = 1..N
           /\ \A k \in Stages : Mode(k) \in {"none", "generate", "keep"}
           /\ \A k \in Stages : IsSource(k) => Mode(k) # "keep"
           /\ Window \in Nat /\ Window >= 1 /\ QueueSize \in Nat
<1>1. pipeline.stages \in Seq([mode : {"none", "generate", "keep"}, units : Nat \ {0}])
  BY PipelineAssumption
<1>2. \A k \in 1..Len(pipeline.stages) : pipeline.stages[k] \in [mode : {"none", "generate", "keep"}, units : Nat \ {0}]
  BY <1>1, Elements
<1> QED
  BY <1>1, <1>2, PipelineAssumption DEF N, Stages, Mode, IsSource

\* What PipelineAssumption says of the units: a stage with a mode has one.
LEMMA UnitsShape ==
    ASSUME pipeline \in Pipelines, NEW u \in Units
    PROVE  /\ u[1] \in Stages /\ u[1] \in 1..N /\ u[1] \in 0..N /\ u[1] - 1 \in 0..N /\ u[1] - 1 + 1 = u[1]
           /\ u[1] # 0 /\ u[1] \in Nat
           /\ \A v \in Units : Mode(u[1]) # "none" /\ v[1] = u[1] => v = u
<1>1. pipeline.stages \in Seq([mode : {"none", "generate", "keep"}, units : Nat \ {0}])
  BY PipelineAssumption
<1>2. \A k \in Stages : Mode(k) # "none" => pipeline.stages[k].units = 1
  BY <1>1, PipelineAssumption DEF N, Stages, Mode
<1>3. \A v \in Units : v[1] \in Stages /\ v[2] \in 1..pipeline.stages[v[1]].units /\ v = <<v[1], v[2]>>
  BY DEF Units
<1>4. \A v \in Units : Mode(v[1]) # "none" => v[2] = 1
  BY <1>2, <1>3
<1>5. N \in Nat /\ Stages = 1..N
  BY StagesShape
<1> QED
  BY <1>3, <1>4, <1>5

\* What PipelineAssumption says of the callers of enqueue.
LEMMA CallersShape ==
    ASSUME pipeline \in Pipelines, NEW c \in Callers
    PROVE  c # 0 /\ Batch(c) \in Seq(Nat) /\ Len(Batch(c)) \in Nat
  BY PipelineAssumption DEF Callers, Batch

----------------------------------------------------------------------------
(* Generators *)

\* Stages with the same generator before them.
LEMMA SameIsEquivalence ==
    ASSUME pipeline \in Pipelines, NEW k \in 0..N, NEW l \in 0..N, NEW m \in 0..N
    PROVE  /\ Same(k, k)
           /\ Same(k, l) => Same(l, k)
           /\ Same(k, l) /\ Same(l, m) => Same(k, m)
<1>1. N \in Nat /\ Stages = 1..N
  BY StagesShape
<1> QED
  BY <1>1 DEF Same

\* What one generator has given out does not come before it.
LEMMA SameNotBefore ==
    ASSUME pipeline \in Pipelines, NEW g \in 0..N, NEW k \in 0..N, NEW l \in 0..N,
           Generates(g), g <= k, Same(g, k), Same(k, l)
    PROVE  g <= l /\ Same(g, l)
<1>1. N \in Nat /\ Stages = 1..N
  BY StagesShape
<1>2. Same(g, l)
  BY SameIsEquivalence
<1>3. g <= l
  BY <1>1 DEF Same, Generates
<1> QED
  BY <1>2, <1>3

\* A stage that does not generate is of the same generator as the one before it.
LEMMA SameAsPrev ==
    ASSUME pipeline \in Pipelines, NEW k \in Stages, Mode(k) # "generate"
    PROVE  Same(k - 1, k) /\ Same(k, k - 1)
<1>1. N \in Nat /\ Stages = 1..N
  BY StagesShape
<1> QED
  BY <1>1 DEF Same

----------------------------------------------------------------------------
(* Places *)

\* A place is of a queue or of a unit.
LEMMA PlaceKinds ==
    ASSUME NEW q, NEW un, NEW p \in Places(q, un)
    PROVE  \/ \E k \in 0..N : \E i \in 1..Len(q[k]) : p = <<"queue", k, i>>
           \/ \E u \in Units : \E w \in Holds(un[u]) : p = <<"unit", u, w>>
<1>1. (\E k \in 0..N : p \in PlacesOf(q, k)) \/ (\E u \in Units : p \in PlacesIn(un, u))
  <2>1. CASE p \in QueuePlaces(q)
    BY ONLY <2>1, Zenon DEF QueuePlaces
  <2>2. CASE p \in UnitPlaces(un)
    BY ONLY <2>2, Zenon DEF UnitPlaces
  <2> QED
    BY <2>1, <2>2 DEF Places
<1> QED
  BY <1>1 DEF PlacesOf, PlacesIn

\* A place of a queue.
LEMMA QueuePlace ==
    ASSUME NEW q, NEW un, NEW k \in 0..N, NEW i \in 1..Len(q[k])
    PROVE  /\ <<"queue", k, i>> \in Places(q, un)
           /\ StageOf(<<"queue", k, i>>) = k
           /\ SerialAt(q, un, <<"queue", k, i>>) = q[k][i].plserial
<1>1. <<"queue", k, i>> \in PlacesOf(q, k)
  BY DEF PlacesOf
<1>2. <<"queue", k, i>> \in Places(q, un)
  <2>1. <<"queue", k, i>> \in QueuePlaces(q)
    BY ONLY <1>1, k \in 0..N, Zenon DEF QueuePlaces
  <2> QED
    BY <2>1 DEF Places
<1> QED
  BY <1>2 DEF StageOf, SerialAt

\* A place of a unit.
LEMMA UnitPlace ==
    ASSUME NEW q, NEW un, NEW u \in Units, NEW w \in Holds(un[u])
    PROVE  /\ <<"unit", u, w>> \in Places(q, un)
           /\ StageOf(<<"unit", u, w>>) = u[1]
           /\ SerialAt(q, un, <<"unit", u, w>>) = SerialIn(un[u], w)
<1>1. <<"unit", u, w>> \in PlacesIn(un, u)
  BY DEF PlacesIn
<1>2. <<"unit", u, w>> \in Places(q, un)
  <2>1. <<"unit", u, w>> \in UnitPlaces(un)
    BY ONLY <1>1, u \in Units, Zenon DEF UnitPlaces
  <2> QED
    BY <2>1 DEF Places
<1> QED
  BY <1>2 DEF StageOf, SerialAt

\* All the places are there.
AllPlaces(q, un) ==
    /\ \A k \in 0..N : \A i \in 1..Len(q[k]) :
         /\ <<"queue", k, i>> \in Places(q, un) /\ StageOf(<<"queue", k, i>>) = k
         /\ SerialAt(q, un, <<"queue", k, i>>) = q[k][i].plserial
    /\ \A u \in Units : \A w \in Holds(un[u]) :
         /\ <<"unit", u, w>> \in Places(q, un) /\ StageOf(<<"unit", u, w>>) = u[1]
         /\ SerialAt(q, un, <<"unit", u, w>>) = SerialIn(un[u], w)

\* The same as QueuePlace and UnitPlace, for all places at once.
LEMMA PlacesShape ==
    ASSUME NEW q, NEW un
    PROVE  AllPlaces(q, un)
<1>1. ASSUME NEW k \in 0..N, NEW i \in 1..Len(q[k])
      PROVE  /\ <<"queue", k, i>> \in Places(q, un) /\ StageOf(<<"queue", k, i>>) = k
             /\ SerialAt(q, un, <<"queue", k, i>>) = q[k][i].plserial
  BY QueuePlace
<1>2. ASSUME NEW u \in Units, NEW w \in Holds(un[u])
      PROVE  /\ <<"unit", u, w>> \in Places(q, un) /\ StageOf(<<"unit", u, w>>) = u[1]
             /\ SerialAt(q, un, <<"unit", u, w>>) = SerialIn(un[u], w)
  BY UnitPlace
<1> QED
  BY <1>1, <1>2 DEF AllPlaces

\* The stage of a place is one of the pipeline, or its head.
LEMMA PlaceStage ==
    ASSUME pipeline \in Pipelines, NEW q, NEW un, NEW p \in Places(q, un)
    PROVE  StageOf(p) \in 0..N
<1>1. CASE \E k \in 0..N : \E i \in 1..Len(q[k]) : p = <<"queue", k, i>>
  BY <1>1 DEF StageOf
<1>2. CASE \E u \in Units : \E w \in Holds(un[u]) : p = <<"unit", u, w>>
  <2>1. PICK u \in Units : \E w \in Holds(un[u]) : p = <<"unit", u, w>>
    BY <1>2
  <2> QED
    BY <2>1, UnitsShape DEF StageOf
<1> QED
  BY <1>1, <1>2, PlaceKinds

\* Items that move keep their serials: if every place that holds a serial has got it from a place of
\* its own of the same generator, or is the place f of a serial s that was not given out before.
Moved(q, un, q2, un2, M, f) ==
    /\ \A p \in Places(q2, un2) : p # f /\ SerialAt(q2, un2, p) # 0 =>
          /\ M[p] \in Places(q, un) /\ SerialAt(q, un, M[p]) = SerialAt(q2, un2, p)
          /\ Same(StageOf(p), StageOf(M[p]))
    /\ \A p1, p2 \in Places(q2, un2) :
          p1 # f /\ p2 # f /\ SerialAt(q2, un2, p1) # 0 /\ SerialAt(q2, un2, p2) # 0 /\ M[p1] = M[p2] => p1 = p2

\* The serial at f is new to its generator.
NewSerial(q, un, q2, un2, f, iss, iss2) ==
    f \in Places(q2, un2) =>
        /\ \A p \in Places(q, un) : Same(StageOf(p), StageOf(f)) => SerialAt(q, un, p) # SerialAt(q2, un2, f)
        /\ \A g \in 0..N : Generates(g) /\ g <= StageOf(f) /\ Same(g, StageOf(f)) => SerialAt(q2, un2, f) <= iss2[g]

\* Items that move keep their serials: the serials stay unique and bounded.
LEMMA FineMoved ==
    ASSUME pipeline \in Pipelines, NEW q, NEW un, NEW q2, NEW un2, NEW M, NEW f,
           NEW iss \in [0..N -> Nat], NEW iss2 \in [0..N -> Nat],
           \A p \in Places(q2, un2) : SerialAt(q2, un2, p) \in Nat,
           \A g \in 0..N : iss[g] <= iss2[g],
           Fine(q, un, iss), Moved(q, un, q2, un2, M, f), NewSerial(q, un, q2, un2, f, iss, iss2)
    PROVE  Fine(q2, un2, iss2)
<1> DEFINE P == Places(q, un)
           P2 == Places(q2, un2)
           S(p) == SerialAt(q, un, p)
           S2(p) == SerialAt(q2, un2, p)
<1>1. \A p \in P : StageOf(p) \in 0..N
  BY PlaceStage
<1>2. \A p \in P2 : StageOf(p) \in 0..N
  BY PlaceStage
<1>3. \A p \in P2 : p # f /\ S2(p) # 0 => M[p] \in P /\ S(M[p]) = S2(p) /\ Same(StageOf(p), StageOf(M[p]))
  BY DEF Moved
<1>4. \A p1, p2 \in P2 : p1 # f /\ p2 # f /\ S2(p1) # 0 /\ S2(p2) # 0 /\ M[p1] = M[p2] => p1 = p2
  BY DEF Moved
<1>5. f \in P2 => \A p \in P : Same(StageOf(p), StageOf(f)) => S(p) # S2(f)
  BY DEF NewSerial
<1>6. f \in P2 => \A g \in 0..N : Generates(g) /\ g <= StageOf(f) /\ Same(g, StageOf(f)) => S2(f) <= iss2[g]
  BY DEF NewSerial
<1>7. \A p1, p2 \in P : S(p1) # 0 /\ S(p1) = S(p2) /\ Same(StageOf(p1), StageOf(p2)) => p1 = p2
  BY DEF Fine, Unique
<1>8. \A p \in P : \A g \in 0..N : Generates(g) /\ g <= StageOf(p) /\ Same(g, StageOf(p)) => S(p) <= iss[g]
  BY DEF Fine, Bounded
<1>9. \A p \in P2 : S2(p) \in Nat
  OBVIOUS
<1>10. \A k, l, m \in 0..N : Same(k, k) /\ (Same(k, l) => Same(l, k)) /\ (Same(k, l) /\ Same(l, m) => Same(k, m))
  BY SameIsEquivalence
<1>11. \A g, k, l \in 0..N : Generates(g) /\ g <= k /\ Same(g, k) /\ Same(k, l) => g <= l /\ Same(g, l)
  BY SameNotBefore
<1> HIDE DEF P, P2, S, S2
<1>12. ASSUME NEW p1 \in P2, NEW p2 \in P2, S2(p1) # 0, S2(p1) = S2(p2), Same(StageOf(p1), StageOf(p2))
       PROVE  p1 = p2
  <2>1. CASE p1 # f /\ p2 # f
    <3>1. Same(StageOf(M[p1]), StageOf(M[p2]))
      <4>1. StageOf(M[p1]) \in 0..N /\ StageOf(M[p2]) \in 0..N /\ StageOf(p1) \in 0..N /\ StageOf(p2) \in 0..N
        BY <1>1, <1>2, <1>3, <1>12, <2>1
      <4>2. Same(StageOf(M[p1]), StageOf(p1)) /\ Same(StageOf(p2), StageOf(M[p2]))
        BY <4>1, <1>3, <1>10, <1>12, <2>1
      <4> QED
        BY <4>1, <4>2, <1>10, <1>12
    <3>2. M[p1] = M[p2]
      BY <3>1, <1>3, <1>7, <1>12, <2>1
    <3> QED
      BY <3>2, <1>4, <1>12, <2>1
  <2>2. CASE p1 = f /\ p2 # f
    <3>1. Same(StageOf(M[p2]), StageOf(f))
      <4>1. StageOf(M[p2]) \in 0..N /\ StageOf(f) \in 0..N /\ StageOf(p2) \in 0..N
        BY <1>1, <1>2, <1>3, <1>12, <2>2
      <4>2. Same(StageOf(M[p2]), StageOf(p2)) /\ Same(StageOf(p2), StageOf(f))
        BY <4>1, <1>3, <1>10, <1>12, <2>2
      <4> QED
        BY <4>1, <4>2, <1>10
    <3> QED
      BY <3>1, <1>3, <1>5, <1>12, <2>2
  <2>3. CASE p2 = f /\ p1 # f
    <3>1. Same(StageOf(M[p1]), StageOf(f))
      <4>1. StageOf(M[p1]) \in 0..N /\ StageOf(f) \in 0..N /\ StageOf(p1) \in 0..N
        BY <1>1, <1>2, <1>3, <1>12, <2>3
      <4>2. Same(StageOf(M[p1]), StageOf(p1)) /\ Same(StageOf(p1), StageOf(f))
        BY <4>1, <1>3, <1>10, <1>12, <2>3
      <4> QED
        BY <4>1, <4>2, <1>10
    <3> QED
      BY <3>1, <1>3, <1>5, <1>12, <2>3
  <2> QED
    BY <2>1, <2>2, <2>3
<1>13. ASSUME NEW p \in P2, NEW g \in 0..N, Generates(g), g <= StageOf(p), Same(g, StageOf(p))
       PROVE  S2(p) <= iss2[g]
  <2>1. CASE p = f
    BY <2>1, <1>6, <1>13
  <2>2. CASE S2(p) = 0
    BY <2>2
  <2>3. CASE p # f /\ S2(p) # 0
    <3>1. StageOf(M[p]) \in 0..N /\ StageOf(p) \in 0..N /\ M[p] \in P
      BY <2>3, <1>1, <1>2, <1>3
    <3>2. g <= StageOf(M[p]) /\ Same(g, StageOf(M[p]))
      BY <3>1, <2>3, <1>3, <1>11, <1>13
    <3>3. S2(p) <= iss[g]
      BY <3>1, <3>2, <2>3, <1>3, <1>8, <1>13
    <3>4. S2(p) \in Nat /\ iss[g] \in Nat /\ iss2[g] \in Nat /\ iss[g] <= iss2[g]
      BY <1>9
    <3> QED
      BY <3>3, <3>4
  <2> QED
    BY <2>1, <2>2, <2>3
<1> QED
  BY <1>12, <1>13 DEF Fine, Unique, Bounded, P2, S2
----------------------------------------------------------------------------
(* Steps of a unit, a queue before it and a queue behind it *)

\* The components of a place.
LEMMA PlaceParts ==
    ASSUME NEW q, NEW un, NEW p \in Places(q, un)
    PROVE  \/ /\ p[1] = "queue" /\ p[2] \in 0..N /\ p[3] \in 1..Len(q[p[2]]) /\ p = <<"queue", p[2], p[3]>>
              /\ StageOf(p) = p[2] /\ SerialAt(q, un, p) = q[p[2]][p[3]].plserial
           \/ /\ p[1] = "unit" /\ p[2] \in Units /\ p[3] \in Holds(un[p[2]]) /\ p = <<"unit", p[2], p[3]>>
              /\ StageOf(p) = p[2][1] /\ SerialAt(q, un, p) = SerialIn(un[p[2]], p[3])
<1>1. CASE \E k \in 0..N : \E i \in 1..Len(q[k]) : p = <<"queue", k, i>>
  BY <1>1 DEF StageOf, SerialAt
<1>2. CASE \E u \in Units : \E w \in Holds(un[u]) : p = <<"unit", u, w>>
  BY <1>2 DEF StageOf, SerialAt
<1> QED
  BY <1>1, <1>2, PlaceKinds

\* Serials are numbers.
LEMMA SerialInType ==
    ASSUME NEW r \in UnitRec, NEW w \in Holds(r)
    PROVE  SerialIn(r, w) \in Nat
<1>1. CASE w = <<"item", 0>>
  BY <1>1 DEF SerialIn, UnitRec, Item
<1>2. CASE \E i \in 0..(Window - 1) : w = <<"cache", i>>
  <2>1. PICK i \in 0..(Window - 1) : w = <<"cache", i>>
    BY <1>2
  <2>2. r.cache \in [0..(Window - 1) -> Item]
    BY DEF UnitRec
  <2>3. r.cache[i] \in Item
    BY <2>2
  <2> QED
    BY <2>1, <2>3 DEF SerialIn, Item
<1>3. CASE \E x \in r.overflow : w = <<"over", x>>
  BY <1>3 DEF SerialIn, UnitRec, Item
<1> QED
  BY <1>1, <1>2, <1>3 DEF Holds

\* The two kinds of places.
IsQueuePlace(q, p) == \E k \in 0..N : \E i \in 1..Len(q[k]) : p = <<"queue", k, i>>
IsUnitPlace(un, p) == \E u \in Units : \E w \in Holds(un[u]) : p = <<"unit", u, w>>

\* PlaceKinds with the kinds as predicates.
LEMMA TwoKinds ==
    ASSUME NEW q, NEW un, NEW p \in Places(q, un)
    PROVE  IsQueuePlace(q, p) \/ IsUnitPlace(un, p)
  BY PlaceKinds DEF IsQueuePlace, IsUnitPlace

\* The types of the queues and of the units.
Typed(q, un) == q \in [0..N -> Seq(Item)] /\ un \in [Units -> UnitRec]

\* Serials are numbers, at every place.
LEMMA SerialAtType ==
    ASSUME NEW q, NEW un, Typed(q, un), NEW p \in Places(q, un)
    PROVE  SerialAt(q, un, p) \in Nat
<1>1. CASE IsQueuePlace(q, p)
  <2>0. PICK k \in 0..N : \E i \in 1..Len(q[k]) : p = <<"queue", k, i>>
    BY <1>1 DEF IsQueuePlace
  <2>1. PICK i \in 1..Len(q[k]) : p = <<"queue", k, i>>
    BY <2>0
  <2>2. q[k] \in Seq(Item)
    BY DEF Typed
  <2>3. q[k][i] \in Item
    BY <2>2, Elements
  <2> QED
    BY <2>1, <2>3 DEF SerialAt, Item
<1>2. CASE IsUnitPlace(un, p)
  <2>0. PICK u \in Units : \E w \in Holds(un[u]) : p = <<"unit", u, w>>
    BY <1>2 DEF IsUnitPlace
  <2>1. PICK w \in Holds(un[u]) : p = <<"unit", u, w>>
    BY <2>0
  <2>2. un[u] \in UnitRec
    BY DEF Typed
  <2>3. SerialIn(un[u], w) \in Nat
    BY <2>2, SerialInType
  <2> QED
    BY <2>1, <2>3 DEF SerialAt
<1> QED
  BY <1>1, <1>2, TwoKinds

\* The next serial of a generator is one no item of it has.
LEMMA GeneratedIsNew ==
    ASSUME pipeline \in Pipelines, NEW q, NEW un, Typed(q, un),
           NEW q2, NEW un2, NEW f,
           NEW iss \in [0..N -> Nat], NEW iss2 \in [0..N -> Nat], Fine(q, un, iss),
           f \in Places(q2, un2) =>
                Generates(StageOf(f)) /\ SerialAt(q2, un2, f) = iss[StageOf(f)] + 1
                /\ iss2[StageOf(f)] = iss[StageOf(f)] + 1
    PROVE  NewSerial(q, un, q2, un2, f, iss, iss2)
<1> SUFFICES ASSUME f \in Places(q2, un2)
             PROVE  /\ \A p \in Places(q, un) : Same(StageOf(p), StageOf(f)) =>
                                                   SerialAt(q, un, p) # SerialAt(q2, un2, f)
                    /\ \A g \in 0..N : Generates(g) /\ g <= StageOf(f) /\ Same(g, StageOf(f)) =>
                                                   SerialAt(q2, un2, f) <= iss2[g]
  BY DEF NewSerial
<1> DEFINE k == StageOf(f)
<1>1. k \in 0..N /\ N \in Nat /\ Stages = 1..N /\ Generates(k)
  BY PlaceStage, StagesShape
<1>0. f \in Places(q2, un2) /\ SerialAt(q2, un2, f) = iss[k] + 1 /\ iss2[k] = iss[k] + 1
  OBVIOUS
<1> HIDE DEF k
<1>2. ASSUME NEW p \in Places(q, un), Same(StageOf(p), k)
      PROVE  SerialAt(q, un, p) # SerialAt(q2, un2, f)
  <2>1. StageOf(p) \in 0..N
    BY PlaceStage
  <2>2. k <= StageOf(p)
    BY <1>1, <1>2, <2>1 DEF Same, Generates
  <2>3. Same(k, StageOf(p))
    BY <1>1, <1>2, <2>1, SameIsEquivalence
  <2>4. SerialAt(q, un, p) <= iss[k]
    BY <1>1, <2>2, <2>3 DEF Fine, Bounded
  <2>5. SerialAt(q, un, p) \in Nat /\ iss[k] \in Nat
    BY <1>1, SerialAtType
  <2> QED
    BY <2>4, <2>5, <1>0
<1>3. ASSUME NEW g \in 0..N, Generates(g), g <= k, Same(g, k)
      PROVE  SerialAt(q2, un2, f) <= iss2[g]
  <2>1. g = k
    BY <1>1, <1>3 DEF Same, Generates
  <2>2. iss2[k] \in Nat
    BY <1>1
  <2> QED
    BY <2>1, <2>2, <1>0
<1> QED
  BY <1>2, <1>3 DEF k

\* No place, no place of a unit, and the mark of what has just been popped.
NoPlace == <<"none", 0, 0>>
NoHold == <<"none", 0>>
Popped == <<"popped", 0>>

\* NoPlace is not a place.
LEMMA NoPlaceIsNone ==
    ASSUME NEW q, NEW un
    PROVE  NoPlace \notin Places(q, un)
  BY PlaceParts DEF NoPlace

\* The unit with r2 has its items from the unit with r, each from a place of its own, except at the place fw.
UnitMap(r, r2, F, fw) ==
    /\ \A w \in Holds(r2) : w # fw /\ SerialIn(r2, w) # 0 => F[w] \in Holds(r) /\ SerialIn(r, F[w]) = SerialIn(r2, w)
    /\ \A w1, w2 \in Holds(r2) :
         w1 # fw /\ w2 # fw /\ SerialIn(r2, w1) # 0 /\ SerialIn(r2, w2) # 0 /\ F[w1] = F[w2] => w1 = w2

\* At fw there is a serial the stage has given out just now.
FreshAt(k, r2, fw, iss, iss2) ==
    fw \in Holds(r2) => Mode(k) = "generate" /\ SerialIn(r2, fw) = iss[k] + 1 /\ iss2[k] = iss[k] + 1

\* Only the unit changes.
LEMMA FineUnit ==
    ASSUME pipeline \in Pipelines, NEW q, NEW un, Typed(q, un),
           NEW u \in Units, NEW r2 \in UnitRec, NEW F, NEW fw,
           NEW iss \in [0..N -> Nat], NEW iss2 \in [0..N -> Nat], \A g \in 0..N : iss[g] <= iss2[g],
           Fine(q, un, iss), UnitMap(un[u], r2, F, fw), FreshAt(u[1], r2, fw, iss, iss2)
    PROVE  Fine(q, [un EXCEPT ![u] = r2], iss2)
<1> DEFINE un2 == [un EXCEPT ![u] = r2]
           f == <<"unit", u, fw>>
           M == [p \in Places(q, un2) |-> IF p[1] = "unit" /\ p[2] = u THEN <<"unit", u, F[p[3]]>> ELSE p]
<1>1. Typed(q, un2) /\ un2[u] = r2 /\ \A v \in Units : v # u => un2[v] = un[v]
  BY DEF Typed
<1> HIDE DEF un2
<1>2. \A p \in Places(q, un2) : SerialAt(q, un2, p) \in Nat
  BY <1>1, SerialAtType
<1>3. NewSerial(q, un, q, un2, f, iss, iss2)
  <2>1. ASSUME f \in Places(q, un2)
        PROVE  Generates(StageOf(f)) /\ SerialAt(q, un2, f) = iss[StageOf(f)] + 1
                /\ iss2[StageOf(f)] = iss[StageOf(f)] + 1
    <3>1. fw \in Holds(r2) /\ StageOf(f) = u[1] /\ SerialAt(q, un2, f) = SerialIn(r2, fw)
      BY <2>1, <1>1, PlaceParts
    <3> QED
      BY <3>1 DEF FreshAt, Generates
  <2> QED
    BY <2>1, GeneratedIsNew
<1>4. ASSUME NEW p \in Places(q, un2), p # f, SerialAt(q, un2, p) # 0
      PROVE  /\ M[p] \in Places(q, un) /\ SerialAt(q, un, M[p]) = SerialAt(q, un2, p)
             /\ Same(StageOf(p), StageOf(M[p]))
             /\ (p[1] = "unit" /\ p[2] = u) => p[3] \in Holds(r2) /\ p[3] # fw /\ SerialIn(r2, p[3]) # 0
             /\ p = <<p[1], p[2], p[3]>>
  <2>0. StageOf(p) \in 0..N
    BY PlaceStage
  <2>1. CASE p[1] = "queue"
    <3>1. M[p] = p
      BY <2>1
    <3>0. /\ p = <<"queue", p[2], p[3]>> /\ p[2] \in 0..N /\ p[3] \in 1..Len(q[p[2]])
          /\ SerialAt(q, un2, p) = q[p[2]][p[3]].plserial
      BY <2>1, PlaceParts
    <3>2. p \in Places(q, un) /\ SerialAt(q, un, p) = SerialAt(q, un2, p)
      <4>1. <<"queue", p[2], p[3]>> \in Places(q, un)
            /\ SerialAt(q, un, <<"queue", p[2], p[3]>>) = q[p[2]][p[3]].plserial
        BY <3>0, QueuePlace, ZenonT(30)
      <4> QED
        BY <4>1, <3>0
    <3>3. p = <<p[1], p[2], p[3]>>
      BY <2>1, PlaceParts
    <3> QED
      BY <3>1, <3>2, <3>3, <2>0, <2>1, SameIsEquivalence
  <2>2. CASE p[1] = "unit" /\ p[2] # u
    <3>1. M[p] = p
      BY <2>2
    <3>2. p \in Places(q, un) /\ SerialAt(q, un, p) = SerialAt(q, un2, p)
      BY <2>2, <1>1, PlaceParts, UnitPlace
    <3>3. p = <<p[1], p[2], p[3]>>
      BY <2>2, PlaceParts
    <3> QED
      BY <3>1, <3>2, <3>3, <2>0, <2>2, SameIsEquivalence
  <2>3. CASE p[1] = "unit" /\ p[2] = u
    <3>1. /\ p = <<"unit", u, p[3]>> /\ p[3] \in Holds(r2) /\ SerialAt(q, un2, p) = SerialIn(r2, p[3])
          /\ StageOf(p) = u[1]
      BY <2>3, <1>1, PlaceParts
    <3>2. p[3] # fw
      BY <3>1, <1>4
    <3>3. F[p[3]] \in Holds(un[u]) /\ SerialIn(un[u], F[p[3]]) = SerialIn(r2, p[3])
      BY <3>1, <3>2, <1>4 DEF UnitMap
    <3>4. M[p] = <<"unit", u, F[p[3]]>>
      BY <2>3
    <3>5. \A w \in Holds(un[u]) :
            /\ <<"unit", u, w>> \in Places(q, un) /\ StageOf(<<"unit", u, w>>) = u[1]
            /\ SerialAt(q, un, <<"unit", u, w>>) = SerialIn(un[u], w)
      BY UnitPlace
    <3>6. /\ M[p] \in Places(q, un) /\ StageOf(M[p]) = u[1]
          /\ SerialAt(q, un, M[p]) = SerialIn(un[u], F[p[3]])
      BY <3>3, <3>4, <3>5
    <3> QED
      BY <3>1, <3>2, <3>3, <3>6, <2>0, <1>4, SameIsEquivalence
  <2> QED
    BY <2>1, <2>2, <2>3, PlaceParts
<1>5. ASSUME NEW p1 \in Places(q, un2), NEW p2 \in Places(q, un2), p1 # f, p2 # f,
             SerialAt(q, un2, p1) # 0, SerialAt(q, un2, p2) # 0, M[p1] = M[p2]
      PROVE  p1 = p2
  <2>1. /\ (p1[1] = "unit" /\ p1[2] = u) => p1[3] \in Holds(r2) /\ p1[3] # fw /\ SerialIn(r2, p1[3]) # 0
        /\ (p2[1] = "unit" /\ p2[2] = u) => p2[3] \in Holds(r2) /\ p2[3] # fw /\ SerialIn(r2, p2[3]) # 0
        /\ p1 = <<p1[1], p1[2], p1[3]>> /\ p2 = <<p2[1], p2[2], p2[3]>>
    BY <1>4, <1>5
  <2>2. CASE p1[1] = "unit" /\ p1[2] = u /\ p2[1] = "unit" /\ p2[2] = u
    <3>1. F[p1[3]] = F[p2[3]]
      BY <1>5, <2>2
    <3>2. p1[3] = p2[3]
      BY <3>1, <2>1, <2>2 DEF UnitMap
    <3> QED
      BY <3>2, <2>1, <2>2
  <2>3. CASE ~(p1[1] = "unit" /\ p1[2] = u) /\ ~(p2[1] = "unit" /\ p2[2] = u)
    BY <1>5, <2>3
  <2>4. CASE (p1[1] = "unit" /\ p1[2] = u) /\ ~(p2[1] = "unit" /\ p2[2] = u)
    BY <1>5, <2>4
  <2>5. CASE ~(p1[1] = "unit" /\ p1[2] = u) /\ (p2[1] = "unit" /\ p2[2] = u)
    BY <1>5, <2>5
  <2> QED
    BY <2>2, <2>3, <2>4, <2>5
<1>6. Moved(q, un, q, un2, M, f)
  <2> HIDE DEF M, f
  <2> QED
    BY <1>4, <1>5 DEF Moved
<1>7. Fine(q, un2, iss2)
  <2> HIDE DEF M, f
  <2> QED
    BY <1>2, <1>3, <1>6, FineMoved
<1> QED
  BY <1>7 DEF un2

\* The unit pops the item x from the queue before its stage k, and has its items from the unit with r or from x.
PopMap(k, r, x, r2, F, fw) ==
    /\ \A w \in Holds(r2) : w # fw /\ SerialIn(r2, w) # 0 =>
         IF F[w] = Popped THEN x.plserial = SerialIn(r2, w) /\ Mode(k) # "generate"
                          ELSE F[w] \in Holds(r) /\ SerialIn(r, F[w]) = SerialIn(r2, w)
    /\ \A w1, w2 \in Holds(r2) :
         w1 # fw /\ w2 # fw /\ SerialIn(r2, w1) # 0 /\ SerialIn(r2, w2) # 0 /\ F[w1] = F[w2] => w1 = w2

\* What pop_front leaves of a queue.
LEMMA TailOfQueue ==
    ASSUME NEW S, NEW s \in Seq(S), s # <<>>
    PROVE  /\ Len(Tail(s)) = Len(s) - 1 /\ Len(s) \in Nat /\ Len(s) >= 1 /\ Tail(s) \in Seq(S)
           /\ \A i \in 1..Len(Tail(s)) : Tail(s)[i] = s[i + 1] /\ i + 1 \in 1..Len(s)
           /\ Head(s) = s[1] /\ Head(s) \in S
  OBVIOUS

\* A pop moves the items in the queue before the stage, and what the unit takes.
LEMMA FinePop ==
    ASSUME pipeline \in Pipelines, NEW q, NEW un, Typed(q, un),
           NEW u \in Units, NEW r2 \in UnitRec, NEW F, NEW fw,
           NEW iss \in [0..N -> Nat], NEW iss2 \in [0..N -> Nat], \A g \in 0..N : iss[g] <= iss2[g],
           Fine(q, un, iss), q[u[1] - 1] # <<>>,
           PopMap(u[1], un[u], Head(q[u[1] - 1]), r2, F, fw), FreshAt(u[1], r2, fw, iss, iss2)
    PROVE  Fine([q EXCEPT ![u[1] - 1] = Tail(@)], [un EXCEPT ![u] = r2], iss2)
<1> DEFINE un2 == [un EXCEPT ![u] = r2]
           k == u[1] - 1
           q2 == [q EXCEPT ![k] = Tail(@)]
           f == <<"unit", u, fw>>
           From(p) == IF p[1] = "unit" /\ p[2] = u
                        THEN IF F[p[3]] = Popped THEN <<"queue", k, 1>> ELSE <<"unit", u, F[p[3]]>>
                        ELSE IF p[1] = "queue" /\ p[2] = k THEN <<"queue", k, p[3] + 1>> ELSE p
           M == [p \in Places(q2, un2) |-> From(p)]
<1>0. k \in 0..N /\ u[1] \in 1..N /\ u[1] \in 0..N /\ u[1] \in Stages
  BY UnitsShape
<1>1. un2 \in [Units -> UnitRec] /\ un2[u] = r2 /\ \A v \in Units : v # u => un2[v] = un[v]
  BY DEF Typed
<1>2. q[k] \in Seq(Item) /\ q[k] # <<>>
  BY <1>0 DEF Typed
<1>3. /\ Len(Tail(q[k])) = Len(q[k]) - 1 /\ Len(q[k]) \in Nat /\ Len(q[k]) >= 1 /\ Tail(q[k]) \in Seq(Item)
      /\ \A i \in 1..Len(Tail(q[k])) : Tail(q[k])[i] = q[k][i + 1] /\ i + 1 \in 1..Len(q[k])
      /\ Head(q[k]) = q[k][1]
  BY <1>2, TailOfQueue
<1>4. q2 \in [0..N -> Seq(Item)] /\ q2[k] = Tail(q[k]) /\ \A l \in 0..N : l # k => q2[l] = q[l]
  BY <1>0, <1>3 DEF Typed
<1>5. PopMap(u[1], un[u], q[k][1], r2, F, fw)
  BY <1>3
<1>6. Fine(q2, un2, iss2)
  <2> HIDE DEF un2, q2, k
  <2>1. \A p \in Places(q2, un2) : SerialAt(q2, un2, p) \in Nat
    <3>1. Typed(q2, un2)
      BY <1>1, <1>4 DEF Typed
    <3> QED
      BY <3>1, SerialAtType
  <2>2. NewSerial(q, un, q2, un2, f, iss, iss2)
    <3>1. ASSUME f \in Places(q2, un2)
          PROVE  Generates(StageOf(f)) /\ SerialAt(q2, un2, f) = iss[StageOf(f)] + 1
                  /\ iss2[StageOf(f)] = iss[StageOf(f)] + 1
      <4>1. fw \in Holds(r2) /\ StageOf(f) = u[1] /\ SerialAt(q2, un2, f) = SerialIn(r2, fw)
        BY <3>1, <1>1, PlaceParts
      <4> QED
        BY <4>1 DEF FreshAt, Generates
    <3> QED
      BY <3>1, GeneratedIsNew
  <2>3. AllPlaces(q, un)
    BY PlacesShape
  <2>5. \A l \in 0..N : Same(l, l)
    BY SameIsEquivalence
  <2>6. Mode(u[1]) # "generate" => Same(u[1], k)
    BY <1>0, SameAsPrev DEF k
  <2>7. ASSUME NEW p \in Places(q2, un2), p # f, SerialAt(q2, un2, p) # 0
        PROVE  /\ From(p) \in Places(q, un) /\ SerialAt(q, un, From(p)) = SerialAt(q2, un2, p)
               /\ Same(StageOf(p), StageOf(From(p)))
               /\ (p[1] = "unit" /\ p[2] = u) => p[3] \in Holds(r2) /\ p[3] # fw /\ SerialIn(r2, p[3]) # 0
               /\ (p[1] = "queue") => p[3] \in Nat /\ p[3] >= 1
               /\ p = <<p[1], p[2], p[3]>> /\ p[1] \in {"queue", "unit"}
    <3>1. CASE p[1] = "queue" /\ p[2] = k
      <4>1. /\ p = <<"queue", k, p[3]>> /\ p[3] \in 1..Len(Tail(q[k])) /\ StageOf(p) = k
            /\ SerialAt(q2, un2, p) = Tail(q[k])[p[3]].plserial
        BY <3>1, <1>4, PlaceParts
      <4>2. From(p) = <<"queue", k, p[3] + 1>> /\ p[3] + 1 \in 1..Len(q[k]) /\ p[3] \in Nat /\ p[3] >= 1
        BY <3>1, <4>1, <1>3
      <4>3. Tail(q[k])[p[3]] = q[k][p[3] + 1]
        BY <4>1, <1>3
      <4> HIDE DEF From
      <4> QED
        BY <3>1, <4>1, <4>2, <4>3, <2>3, <2>5, <1>0, SMTT(30) DEF AllPlaces
    <3>2. CASE p[1] = "queue" /\ p[2] # k
      <4>0. /\ p = <<"queue", p[2], p[3]>> /\ p[2] \in 0..N /\ p[3] \in 1..Len(q2[p[2]]) /\ StageOf(p) = p[2]
            /\ SerialAt(q2, un2, p) = q2[p[2]][p[3]].plserial
        BY <3>2, PlaceParts
      <4>1. /\ p = <<"queue", p[2], p[3]>> /\ p[2] \in 0..N /\ p[3] \in 1..Len(q[p[2]]) /\ StageOf(p) = p[2]
            /\ SerialAt(q2, un2, p) = q[p[2]][p[3]].plserial /\ p[3] \in Nat /\ p[3] >= 1
        BY <3>2, <4>0, <1>4
      <4>2. From(p) = p
        BY <3>2
      <4> HIDE DEF From
      <4> QED
        BY <3>2, <4>1, <4>2, <2>3, <2>5 DEF AllPlaces
    <3>3. CASE p[1] = "unit" /\ p[2] # u
      <4>1. /\ p = <<"unit", p[2], p[3]>> /\ p[2] \in Units /\ p[3] \in Holds(un[p[2]]) /\ StageOf(p) = p[2][1]
            /\ SerialAt(q2, un2, p) = SerialIn(un[p[2]], p[3]) /\ StageOf(p) \in 0..N
        BY <3>3, <1>1, PlaceParts, PlaceStage
      <4>2. From(p) = p
        BY <3>3
      <4> HIDE DEF From
      <4> QED
        BY <3>3, <4>1, <4>2, <2>3, <2>5 DEF AllPlaces
    <3>4. CASE p[1] = "unit" /\ p[2] = u
      <4>1. /\ p = <<"unit", u, p[3]>> /\ p[3] \in Holds(r2) /\ StageOf(p) = u[1]
            /\ SerialAt(q2, un2, p) = SerialIn(r2, p[3])
        BY <3>4, <1>1, PlaceParts
      <4>2. p[3] # fw /\ SerialIn(r2, p[3]) # 0
        BY <4>1, <2>7
      <4>3. CASE F[p[3]] = Popped
        <5>1. From(p) = <<"queue", k, 1>>
          BY <3>4, <4>3
        <5>2. q[k][1].plserial = SerialIn(r2, p[3]) /\ Mode(u[1]) # "generate"
          BY <4>1, <4>2, <4>3, <1>5 DEF PopMap
        <5>3. 1 \in 1..Len(q[k])
          BY <1>3
        <5> HIDE DEF From
        <5> QED
          BY <3>4, <4>1, <4>2, <5>1, <5>2, <5>3, <2>3, <2>6, <1>0 DEF AllPlaces
      <4>4. CASE F[p[3]] # Popped
        <5>1. From(p) = <<"unit", u, F[p[3]]>>
          BY <3>4, <4>4
        <5>2. F[p[3]] \in Holds(un[u]) /\ SerialIn(un[u], F[p[3]]) = SerialIn(r2, p[3])
          BY <4>1, <4>2, <4>4, <1>5 DEF PopMap
        <5> HIDE DEF From
        <5> QED
          BY <3>4, <4>1, <4>2, <5>1, <5>2, <2>3, <2>5, <1>0 DEF AllPlaces
      <4> QED
        BY <4>3, <4>4
    <3>5. p[1] \in {"queue", "unit"}
      BY PlaceParts
    <3> QED
      BY <3>1, <3>2, <3>3, <3>4, <3>5
  <2>8. ASSUME NEW p1 \in Places(q2, un2), NEW p2 \in Places(q2, un2), p1 # f, p2 # f,
               SerialAt(q2, un2, p1) # 0, SerialAt(q2, un2, p2) # 0, From(p1) = From(p2)
        PROVE  p1 = p2
    <3>1. /\ (p1[1] = "unit" /\ p1[2] = u) => p1[3] \in Holds(r2) /\ p1[3] # fw /\ SerialIn(r2, p1[3]) # 0
          /\ (p2[1] = "unit" /\ p2[2] = u) => p2[3] \in Holds(r2) /\ p2[3] # fw /\ SerialIn(r2, p2[3]) # 0
          /\ (p1[1] = "queue" => p1[3] \in Nat /\ p1[3] >= 1) /\ (p2[1] = "queue" => p2[3] \in Nat /\ p2[3] >= 1)
          /\ p1 = <<p1[1], p1[2], p1[3]>> /\ p2 = <<p2[1], p2[2], p2[3]>>
          /\ p1[1] \in {"queue", "unit"} /\ p2[1] \in {"queue", "unit"}
      <4> HIDE DEF From
      <4> QED
        BY <2>7, <2>8
    <3>2. CASE p1[1] = "unit" /\ p1[2] = u /\ p2[1] = "unit" /\ p2[2] = u
      <4>1. F[p1[3]] = F[p2[3]]
        BY <2>8, <3>2
      <4>2. p1[3] = p2[3]
        BY <4>1, <3>1, <3>2, <1>5 DEF PopMap
      <4> QED
        BY <4>2, <3>1, <3>2
    <3>3. CASE ~(p1[1] = "unit" /\ p1[2] = u) /\ ~(p2[1] = "unit" /\ p2[2] = u)
      <4>1. CASE p1[1] = "queue" /\ p1[2] = k /\ p2[1] = "queue" /\ p2[2] = k
        BY <2>8, <3>1, <3>3, <4>1
      <4>2. CASE ~(p1[1] = "queue" /\ p1[2] = k) /\ ~(p2[1] = "queue" /\ p2[2] = k)
        BY <2>8, <3>3, <4>2
      <4>3. CASE (p1[1] = "queue" /\ p1[2] = k) /\ ~(p2[1] = "queue" /\ p2[2] = k)
        BY <2>8, <3>1, <3>3, <4>3
      <4>4. CASE ~(p1[1] = "queue" /\ p1[2] = k) /\ (p2[1] = "queue" /\ p2[2] = k)
        BY <2>8, <3>1, <3>3, <4>4
      <4> QED
        BY <4>1, <4>2, <4>3, <4>4
    <3>4. CASE (p1[1] = "unit" /\ p1[2] = u) /\ ~(p2[1] = "unit" /\ p2[2] = u)
      BY <2>8, <3>1, <3>4
    <3>5. CASE ~(p1[1] = "unit" /\ p1[2] = u) /\ (p2[1] = "unit" /\ p2[2] = u)
      BY <2>8, <3>1, <3>5
    <3> QED
      BY <3>2, <3>3, <3>4, <3>5
  <2>9. \A p \in Places(q2, un2) : M[p] = From(p)
    OBVIOUS
  <2> HIDE DEF M, f, From
  <2>10. Moved(q, un, q2, un2, M, f)
    BY <2>7, <2>8, <2>9 DEF Moved
  <2> QED
    BY <2>1, <2>2, <2>10, FineMoved
<1> QED
  BY <1>6

\* The unit pushes what is at its place w0, and has its items from its other places.
PushMap(r, x, r2, F, w0) ==
    /\ w0 \in Holds(r) /\ SerialIn(r, w0) = x.plserial
    /\ \A w \in Holds(r2) : SerialIn(r2, w) # 0 =>
         F[w] # w0 /\ F[w] \in Holds(r) /\ SerialIn(r, F[w]) = SerialIn(r2, w)
    /\ \A w1, w2 \in Holds(r2) : SerialIn(r2, w1) # 0 /\ SerialIn(r2, w2) # 0 /\ F[w1] = F[w2] => w1 = w2

\* What push_back makes of a queue.
LEMMA AppendToQueue ==
    ASSUME NEW S, NEW s \in Seq(S), NEW x \in S
    PROVE  /\ Append(s, x) \in Seq(S) /\ Len(s) \in Nat /\ Len(Append(s, x)) = Len(s) + 1
           /\ \A i \in 1..Len(Append(s, x)) : i # Len(s) + 1 => Append(s, x)[i] = s[i] /\ i \in 1..Len(s)
           /\ Append(s, x)[Len(s) + 1] = x /\ Len(s) + 1 \in 1..Len(Append(s, x))
  OBVIOUS

\* A push moves an item of the unit to the queue behind its stage.
LEMMA FinePush ==
    ASSUME pipeline \in Pipelines, NEW q, NEW un, Typed(q, un),
           NEW u \in Units, NEW r2 \in UnitRec, NEW F, NEW w0, NEW x \in Item,
           NEW iss \in [0..N -> Nat],
           Fine(q, un, iss), PushMap(un[u], x, r2, F, w0)
    PROVE  Fine([q EXCEPT ![u[1]] = Append(@, x)], [un EXCEPT ![u] = r2], iss)
<1> DEFINE un2 == [un EXCEPT ![u] = r2]
           k == u[1]
           q2 == [q EXCEPT ![k] = Append(@, x)]
           n == Len(q[k]) + 1
           From(p) == IF p[1] = "unit" /\ p[2] = u THEN <<"unit", u, F[p[3]]>>
                      ELSE IF p = <<"queue", k, n>> THEN <<"unit", u, w0>> ELSE p
           M == [p \in Places(q2, un2) |-> From(p)]
<1>0. k \in 0..N /\ u[1] \in 0..N
  BY UnitsShape
<1>1. un2 \in [Units -> UnitRec] /\ un2[u] = r2 /\ \A v \in Units : v # u => un2[v] = un[v]
  BY DEF Typed
<1>2. q[k] \in Seq(Item)
  BY <1>0 DEF Typed
<1>3. /\ Append(q[k], x) \in Seq(Item) /\ Len(q[k]) \in Nat /\ Len(Append(q[k], x)) = Len(q[k]) + 1
      /\ \A i \in 1..Len(Append(q[k], x)) : i # n => Append(q[k], x)[i] = q[k][i] /\ i \in 1..Len(q[k])
      /\ Append(q[k], x)[n] = x /\ n \in 1..Len(Append(q[k], x))
  BY <1>2, AppendToQueue
<1>4. q2 \in [0..N -> Seq(Item)] /\ q2[k] = Append(q[k], x) /\ \A l \in 0..N : l # k => q2[l] = q[l]
  BY <1>0, <1>3 DEF Typed
<1>5. Fine(q2, un2, iss)
  <2> HIDE DEF un2, q2, k, n
  <2>1. \A p \in Places(q2, un2) : SerialAt(q2, un2, p) \in Nat
    <3>1. Typed(q2, un2)
      BY <1>1, <1>4 DEF Typed
    <3> QED
      BY <3>1, SerialAtType
  <2>2. NewSerial(q, un, q2, un2, NoPlace, iss, iss)
    BY NoPlaceIsNone DEF NewSerial
  <2>3. AllPlaces(q, un)
    BY PlacesShape
  <2>5. \A l \in 0..N : Same(l, l)
    BY SameIsEquivalence
  <2>6. u[1] = k
    BY DEF k
  <2>7. ASSUME NEW p \in Places(q2, un2), SerialAt(q2, un2, p) # 0
        PROVE  /\ From(p) \in Places(q, un) /\ SerialAt(q, un, From(p)) = SerialAt(q2, un2, p)
               /\ Same(StageOf(p), StageOf(From(p)))
               /\ (p[1] = "unit" /\ p[2] = u) => p[3] \in Holds(r2) /\ SerialIn(r2, p[3]) # 0 /\ F[p[3]] # w0
               /\ p = <<p[1], p[2], p[3]>> /\ p[1] \in {"queue", "unit"}
    <3>1. CASE p = <<"queue", k, n>>
      <4>1. StageOf(p) = k /\ SerialAt(q2, un2, p) = x.plserial /\ p[1] = "queue" /\ p = <<p[1], p[2], p[3]>>
        BY <3>1, <1>3, <1>4 DEF StageOf, SerialAt
      <4>2. From(p) = <<"unit", u, w0>>
        BY <3>1
      <4>3. w0 \in Holds(un[u]) /\ SerialIn(un[u], w0) = x.plserial
        BY DEF PushMap
      <4> HIDE DEF From
      <4> QED
        BY <4>1, <4>2, <4>3, <2>3, <2>5, <2>6, <1>0 DEF AllPlaces
    <3>2. CASE p[1] = "queue" /\ p # <<"queue", k, n>>
      <4>0. /\ p = <<"queue", p[2], p[3]>> /\ p[2] \in 0..N /\ p[3] \in 1..Len(q2[p[2]]) /\ StageOf(p) = p[2]
            /\ SerialAt(q2, un2, p) = q2[p[2]][p[3]].plserial
        BY <3>2, PlaceParts
      <4>1. p[3] \in 1..Len(q[p[2]]) /\ SerialAt(q2, un2, p) = q[p[2]][p[3]].plserial
        <5>1. CASE p[2] # k
          BY <5>1, <4>0, <1>4
        <5>2. CASE p[2] = k
          <6>1. p[3] # n
            BY <5>2, <4>0, <3>2
          <6> QED
            BY <5>2, <6>1, <4>0, <1>3, <1>4
        <5> QED
          BY <5>1, <5>2
      <4>2. From(p) = p
        BY <3>2
      <4> HIDE DEF From
      <4> QED
        BY <3>2, <4>0, <4>1, <4>2, <2>3, <2>5 DEF AllPlaces
    <3>3. CASE p[1] = "unit" /\ p[2] # u
      <4>1. /\ p = <<"unit", p[2], p[3]>> /\ p[2] \in Units /\ p[3] \in Holds(un[p[2]]) /\ StageOf(p) = p[2][1]
            /\ SerialAt(q2, un2, p) = SerialIn(un[p[2]], p[3]) /\ StageOf(p) \in 0..N
        BY <3>3, <1>1, PlaceParts, PlaceStage
      <4>2. From(p) = p
        BY <3>3
      <4> HIDE DEF From
      <4> QED
        BY <3>3, <4>1, <4>2, <2>3, <2>5 DEF AllPlaces
    <3>4. CASE p[1] = "unit" /\ p[2] = u
      <4>1. /\ p = <<"unit", u, p[3]>> /\ p[3] \in Holds(r2) /\ StageOf(p) = u[1]
            /\ SerialAt(q2, un2, p) = SerialIn(r2, p[3])
        BY <3>4, <1>1, PlaceParts
      <4>2. F[p[3]] # w0 /\ F[p[3]] \in Holds(un[u]) /\ SerialIn(un[u], F[p[3]]) = SerialIn(r2, p[3])
        BY <4>1, <2>7 DEF PushMap
      <4>3. From(p) = <<"unit", u, F[p[3]]>>
        BY <3>4
      <4> HIDE DEF From
      <4> QED
        BY <3>4, <4>1, <4>2, <4>3, <2>3, <2>5, <2>7, <1>0 DEF AllPlaces
    <3>5. p[1] \in {"queue", "unit"}
      BY PlaceParts
    <3> QED
      BY <3>1, <3>2, <3>3, <3>4, <3>5
  <2>8. ASSUME NEW p1 \in Places(q2, un2), NEW p2 \in Places(q2, un2),
               SerialAt(q2, un2, p1) # 0, SerialAt(q2, un2, p2) # 0, From(p1) = From(p2)
        PROVE  p1 = p2
    <3>1. /\ (p1[1] = "unit" /\ p1[2] = u) => p1[3] \in Holds(r2) /\ SerialIn(r2, p1[3]) # 0 /\ F[p1[3]] # w0
          /\ (p2[1] = "unit" /\ p2[2] = u) => p2[3] \in Holds(r2) /\ SerialIn(r2, p2[3]) # 0 /\ F[p2[3]] # w0
          /\ p1 = <<p1[1], p1[2], p1[3]>> /\ p2 = <<p2[1], p2[2], p2[3]>>
          /\ p1[1] \in {"queue", "unit"} /\ p2[1] \in {"queue", "unit"}
      <4> HIDE DEF From
      <4> QED
        BY <2>7, <2>8
    <3>2. CASE p1[1] = "unit" /\ p1[2] = u /\ p2[1] = "unit" /\ p2[2] = u
      <4>1. F[p1[3]] = F[p2[3]]
        BY <2>8, <3>2
      <4>2. p1[3] = p2[3]
        BY <4>1, <3>1, <3>2 DEF PushMap
      <4> QED
        BY <4>2, <3>1, <3>2
    <3>3. CASE ~(p1[1] = "unit" /\ p1[2] = u) /\ ~(p2[1] = "unit" /\ p2[2] = u)
      BY <2>8, <3>1, <3>3
    <3>4. CASE (p1[1] = "unit" /\ p1[2] = u) /\ ~(p2[1] = "unit" /\ p2[2] = u)
      BY <2>8, <3>1, <3>4
    <3>5. CASE ~(p1[1] = "unit" /\ p1[2] = u) /\ (p2[1] = "unit" /\ p2[2] = u)
      BY <2>8, <3>1, <3>5
    <3> QED
      BY <3>2, <3>3, <3>4, <3>5
  <2>9. \A p \in Places(q2, un2) : M[p] = From(p)
    OBVIOUS
  <2> HIDE DEF M, From
  <2>10. Moved(q, un, q2, un2, M, NoPlace)
    BY <2>7, <2>8, <2>9 DEF Moved
  <2>11. \A g \in 0..N : iss[g] <= iss[g]
    OBVIOUS
  <2> QED
    BY <2>1, <2>2, <2>10, <2>11, FineMoved
<1> QED
  BY <1>5

\* enqueue pushes an item with the next serial.
LEMMA FineEnqueue ==
    ASSUME pipeline \in Pipelines, NEW q, NEW un, Typed(q, un), NEW x \in Item,
           NEW iss \in [0..N -> Nat], NEW iss2 \in [0..N -> Nat], \A g \in 0..N : iss[g] <= iss2[g],
           Fine(q, un, iss), x.plserial = iss[0] + 1, iss2[0] = iss[0] + 1
    PROVE  Fine([q EXCEPT ![0] = Append(@, x)], un, iss2)
<1> DEFINE q2 == [q EXCEPT ![0] = Append(@, x)]
           n == Len(q[0]) + 1
           f == <<"queue", 0, n>>
           M == [p \in Places(q2, un) |-> p]
<1>0. 0 \in 0..N
  BY StagesShape
<1>2. q[0] \in Seq(Item)
  BY <1>0 DEF Typed
<1>3. /\ Append(q[0], x) \in Seq(Item) /\ Len(q[0]) \in Nat /\ Len(Append(q[0], x)) = Len(q[0]) + 1
      /\ \A i \in 1..Len(Append(q[0], x)) : i # n => Append(q[0], x)[i] = q[0][i] /\ i \in 1..Len(q[0])
      /\ Append(q[0], x)[n] = x /\ n \in 1..Len(Append(q[0], x))
  BY <1>2, AppendToQueue
<1>4. q2 \in [0..N -> Seq(Item)] /\ q2[0] = Append(q[0], x) /\ \A l \in 0..N : l # 0 => q2[l] = q[l]
  BY <1>0, <1>3 DEF Typed
<1>5. Fine(q2, un, iss2)
  <2> HIDE DEF q2, n
  <2>1. \A p \in Places(q2, un) : SerialAt(q2, un, p) \in Nat
    <3>1. Typed(q2, un)
      BY <1>4 DEF Typed
    <3> QED
      BY <3>1, SerialAtType
  <2>2. NewSerial(q, un, q2, un, f, iss, iss2)
    <3>1. StageOf(f) = 0 /\ Generates(StageOf(f)) /\ SerialAt(q2, un, f) = iss[StageOf(f)] + 1
                  /\ iss2[StageOf(f)] = iss[StageOf(f)] + 1
      BY <1>3, <1>4 DEF StageOf, SerialAt, Generates
    <3> QED
      BY <3>1, GeneratedIsNew
  <2>3. AllPlaces(q, un)
    BY PlacesShape
  <2>5. \A l \in 0..N : Same(l, l)
    BY SameIsEquivalence
  <2>7. ASSUME NEW p \in Places(q2, un), p # f
        PROVE  /\ p \in Places(q, un) /\ SerialAt(q, un, p) = SerialAt(q2, un, p)
               /\ Same(StageOf(p), StageOf(p))
    <3>0. StageOf(p) \in 0..N
      BY PlaceStage
    <3>2. CASE p[1] = "queue"
      <4>0. /\ p = <<"queue", p[2], p[3]>> /\ p[2] \in 0..N /\ p[3] \in 1..Len(q2[p[2]]) /\ StageOf(p) = p[2]
            /\ SerialAt(q2, un, p) = q2[p[2]][p[3]].plserial
        BY <3>2, PlaceParts
      <4>1. p[3] \in 1..Len(q[p[2]]) /\ SerialAt(q2, un, p) = q[p[2]][p[3]].plserial
        <5>1. CASE p[2] # 0
          BY <5>1, <4>0, <1>4
        <5>2. CASE p[2] = 0
          <6>1. p[3] # n
            BY <5>2, <4>0, <2>7
          <6> QED
            BY <5>2, <6>1, <4>0, <1>3, <1>4
        <5> QED
          BY <5>1, <5>2
      <4> QED
        BY <3>2, <4>0, <4>1, <2>3, <2>5 DEF AllPlaces
    <3>3. CASE p[1] = "unit"
      <4>1. /\ p = <<"unit", p[2], p[3]>> /\ p[2] \in Units /\ p[3] \in Holds(un[p[2]]) /\ StageOf(p) = p[2][1]
            /\ SerialAt(q2, un, p) = SerialIn(un[p[2]], p[3])
        BY <3>3, PlaceParts
      <4> QED
        BY <3>0, <4>1, <2>3, <2>5 DEF AllPlaces
    <3> QED
      BY <3>2, <3>3, PlaceParts
  <2>9. \A p \in Places(q2, un) : M[p] = p
    OBVIOUS
  <2> HIDE DEF M, f
  <2>10. Moved(q, un, q2, un, M, f)
    BY <2>7, <2>9 DEF Moved
  <2> QED
    BY <2>1, <2>2, <2>10, FineMoved
<1> QED
  BY <1>5
----------------------------------------------------------------------------
(* The next state *)

\* The pipeline does not change while it runs.
LEMMA SamePipeline ==
    ASSUME pipeline' = pipeline
    PROVE  /\ N' = N /\ Stages' = Stages /\ Units' = Units /\ Callers' = Callers
           /\ \A k : Mode(k)' = Mode(k)
           /\ \A c : Batch(c)' = Batch(c)
<1>1. N' = N
  BY DEF N
<1>2. Stages' = Stages
  BY <1>1 DEF Stages
<1> QED
  BY <1>1, <1>2 DEF Units, Callers, Mode, Batch

\* Fine of the next state, read with the pipeline of this one.
LEMMA FinePrimed ==
    ASSUME pipeline' = pipeline, Fine(queue', unit', Issued')
    PROVE  Fine(queue, unit, Issued)'
<1>1. N' = N /\ Stages' = Stages /\ Units' = Units /\ \A k : Mode(k)' = Mode(k)
  BY SamePipeline
<1>2. Places(queue, unit)' = Places(queue', unit')
  BY <1>1 DEF Places, QueuePlaces, UnitPlaces, PlacesOf, PlacesIn
<1>3. \A k, l : Same(k, l)' = Same(k, l)
  BY <1>1 DEF Same
<1>4. Unique(queue, unit)'
  BY <1>2, <1>3 DEF Fine, Unique
<1>5. Bounded(queue, unit, Issued)'
  BY <1>1, <1>2, <1>3 DEF Fine, Bounded, Generates
<1> QED
  BY <1>4, <1>5 DEF Fine

\* The step of a unit that leaves it with the local variables r2.
Stepped(u, r2) == r2 \in UnitRec /\ unit' = [unit EXCEPT ![u] = r2]

\* What a step of the unit u leaves to the others.
Others(u) ==
    /\ pipeline' = pipeline /\ mutex' = mutex /\ caller' = caller
    /\ queue' \in [0..N -> Seq(Item)] /\ plserial' \in [0..N -> Nat] /\ log' \in [Stages -> Seq(Nat)]
    /\ \A k \in 0..N : k # u[1] => plserial'[k] = plserial[k]
    /\ \A k \in Stages : k # u[1] => log'[k] = log[k]

\* The part of KeepInv for the unit u.
OwnStage(u, r2, e, lg) ==
    IF Mode(u[1]) = "keep" THEN StageInv(r2, e, lg) ELSE r2.pc \notin SerialPcs \cup FlushPcs /\ lg = <<>>

\* The invariant after the step of a unit, from what the step does to its own stage and to the serials.
LEMMA UnitStep ==
    ASSUME OrderInv, NEW u \in Units, NEW r2, Stepped(u, r2), Others(u),
           OwnStage(u, r2, plserial'[u[1]], log'[u[1]]), Fine(queue', unit', Issued')
    PROVE  OrderInv'
<1>0. pipeline \in Pipelines /\ pipeline' = pipeline /\ mutex' = mutex /\ caller' = caller
  BY DEF OrderInv, SerialTypeOK, Others
<1>1. N' = N /\ Stages' = Stages /\ Units' = Units /\ Callers' = Callers /\ (\A k : Mode(k)' = Mode(k))
      /\ \A c : Batch(c)' = Batch(c)
  BY <1>0, SamePipeline
<1>2. unit' \in [Units -> UnitRec] /\ unit'[u] = r2 /\ \A v \in Units : v # u => unit'[v] = unit[v]
  BY DEF OrderInv, SerialTypeOK, Stepped
<1>3. SerialTypeOK'
  BY <1>0, <1>1, <1>2 DEF OrderInv, SerialTypeOK, Others
<1>4. Fine(queue, unit, Issued)'
  BY <1>0, FinePrimed
<1>5. CallerInv'
  <2>1. plserial'[0] = plserial[0]
    BY <1>0, UnitsShape, StagesShape DEF Others
  <2>2. CallerInv
    BY DEF OrderInv
  <2> QED
    BY <1>0, <1>1, <2>1, <2>2 DEF CallerInv
<1>6. KeepInv'
  <2>1. ASSUME NEW v \in Units
        PROVE  IF Mode(v[1]) = "keep" THEN StageInv(unit'[v], plserial'[v[1]], log'[v[1]])
               ELSE unit'[v].pc \notin SerialPcs \cup FlushPcs /\ log'[v[1]] = <<>>
    <3>1. CASE v = u
      BY <1>2, <3>1 DEF OwnStage
    <3>2. CASE v # u
      <4>1. IF Mode(v[1]) = "keep" THEN StageInv(unit[v], plserial[v[1]], log[v[1]])
            ELSE unit[v].pc \notin SerialPcs \cup FlushPcs /\ log[v[1]] = <<>>
        BY DEF OrderInv, KeepInv
      <4>2. v[1] \in Stages /\ v[1] \in 0..N /\ (Mode(v[1]) = "keep" => v[1] # u[1])
        BY <1>0, <3>2, UnitsShape
      <4>3. CASE v[1] # u[1]
        BY <4>1, <4>2, <4>3, <3>2, <1>2 DEF Others
      <4>4. CASE v[1] = u[1]
        BY <4>1, <4>2, <4>4, <3>2, <1>2 DEF OwnStage
      <4> QED
        BY <4>3, <4>4
    <3> QED
      BY <3>1, <3>2
  <2> QED
    BY <1>1, <2>1 DEF KeepInv
<1> QED
  BY <1>3, <1>4, <1>5, <1>6 DEF OrderInv

\* Of the items only some tasks change, or some are gone.
Lesser(r, r2) ==
    /\ r2.item.plserial \in {0, r.item.plserial}
    /\ \A i \in 0..(Window - 1) : r2.cache[i].plserial \in {0, r.cache[i].plserial}
    /\ r2.overflow \subseteq r.overflow

\* Every item stays at its place.
Itself(r2) == [w \in Holds(r2) |-> w]

\* The places of a unit.
LEMMA HoldParts ==
    ASSUME NEW r, NEW w \in Holds(r)
    PROVE  \/ w = <<"item", 0>> /\ SerialIn(r, w) = r.item.plserial
           \/ w[1] = "cache" /\ w[2] \in 0..(Window - 1) /\ w = <<"cache", w[2]>>
              /\ SerialIn(r, w) = r.cache[w[2]].plserial
           \/ w[1] = "over" /\ w[2] \in r.overflow /\ w = <<"over", w[2]>> /\ SerialIn(r, w) = w[2].plserial
  BY DEF Holds, SerialIn

\* The same, the other way round.
LEMMA HoldShape ==
    ASSUME NEW r
    PROVE  /\ <<"item", 0>> \in Holds(r) /\ SerialIn(r, <<"item", 0>>) = r.item.plserial
           /\ \A i \in 0..(Window - 1) : <<"cache", i>> \in Holds(r) /\ SerialIn(r, <<"cache", i>>) = r.cache[i].plserial
           /\ \A x \in r.overflow : <<"over", x>> \in Holds(r) /\ SerialIn(r, <<"over", x>>) = x.plserial
  BY DEF Holds, SerialIn

\* An item that is still there is where it was.
LEMMA LesserHolds ==
    ASSUME NEW r, NEW r2, Lesser(r, r2), NEW w \in Holds(r2), SerialIn(r2, w) # 0
    PROVE  w \in Holds(r) /\ SerialIn(r, w) = SerialIn(r2, w) /\ w # NoHold /\ w # Popped
<1>1. CASE w = <<"item", 0>>
  <2>1. SerialIn(r2, w) = r2.item.plserial
    BY <1>1, HoldShape
  <2>2. SerialIn(r, w) = r.item.plserial /\ w \in Holds(r)
    BY <1>1, HoldShape
  <2> QED
    BY <1>1, <2>1, <2>2 DEF Lesser, NoHold, Popped
<1>2. CASE w[1] = "cache" /\ w[2] \in 0..(Window - 1) /\ w = <<"cache", w[2]>>
  <2> DEFINE i == w[2]
  <2>1. SerialIn(r2, w) = r2.cache[i].plserial
    BY <1>2, HoldShape
  <2>2. SerialIn(r, w) = r.cache[i].plserial /\ w \in Holds(r)
    BY <1>2, HoldShape
  <2> QED
    BY <1>2, <2>1, <2>2 DEF Lesser, NoHold, Popped
<1>3. CASE w[1] = "over" /\ w[2] \in r2.overflow /\ w = <<"over", w[2]>>
  <2> DEFINE x == w[2]
  <2>0. x \in r.overflow
    BY <1>3 DEF Lesser
  <2>1. SerialIn(r2, w) = x.plserial
    BY <1>3, HoldShape
  <2>2. SerialIn(r, w) = x.plserial /\ w \in Holds(r)
    BY <1>3, <2>0, HoldShape
  <2> QED
    BY <1>3, <2>1, <2>2 DEF NoHold, Popped
<1> QED
  BY <1>1, <1>2, <1>3, HoldParts

\* Lesser as a movement of items.
LEMMA LesserMap ==
    ASSUME NEW r, NEW r2, Lesser(r, r2)
    PROVE  UnitMap(r, r2, Itself(r2), NoHold)
  BY LesserHolds DEF UnitMap, Itself

\* The same when a popped item is thrown away.
LEMMA LesserPop ==
    ASSUME NEW k, NEW x, NEW r, NEW r2, Lesser(r, r2)
    PROVE  PopMap(k, r, x, r2, Itself(r2), NoHold)
  BY LesserHolds DEF PopMap, Itself

\* NoHold is not a place of a unit.
LEMMA NoHoldIsNone ==
    ASSUME NEW r, NEW k, NEW iss, NEW iss2
    PROVE  NoHold \notin Holds(r) /\ FreshAt(k, r, NoHold, iss, iss2)
<1>1. NoHold \notin Holds(r)
  BY HoldParts DEF NoHold
<1> QED
  BY <1>1 DEF FreshAt

\* The type of what was given out.
LEMMA IssuedType ==
    ASSUME SerialTypeOK
    PROVE  Issued \in [0..N -> Nat] /\ Typed(queue, unit)
<1>1. \A g \in 0..N : plserial[g] \in Nat
  BY DEF SerialTypeOK
<1>2. mutex # 0 => caller[mutex].base + caller[mutex].done \in Nat
  BY DEF SerialTypeOK
<1>3. 0 \in 0..N
  BY StagesShape DEF SerialTypeOK
<1> QED
  BY <1>1, <1>2, <1>3 DEF Issued, Typed, SerialTypeOK

\* No serial is given out.
LEMMA SameIssued ==
    ASSUME SerialTypeOK, NEW u \in Units, Others(u), Mode(u[1]) = "keep" \/ plserial' = plserial
    PROVE  Issued' = Issued
<1>0. pipeline \in Pipelines /\ pipeline' = pipeline /\ mutex' = mutex /\ caller' = caller
  BY DEF SerialTypeOK, Others
<1>1. N' = N /\ \A k : Mode(k)' = Mode(k)
  BY <1>0, SamePipeline
<1>2. u[1] # 0 /\ 0 \in 0..N
  BY <1>0, UnitsShape, StagesShape
<1>3. \A g \in 0..N : g = 0 \/ Mode(g) = "generate" => plserial'[g] = plserial[g]
  BY <1>2 DEF Others
<1> QED
  BY <1>0, <1>1, <1>2, <1>3 DEF Issued

\* The stage of the unit u gives out its next serial.
LEMMA NextIssued ==
    ASSUME SerialTypeOK, NEW u \in Units, Others(u), Mode(u[1]) = "generate",
           plserial' = [plserial EXCEPT ![u[1]] = Generated(u[1])]
    PROVE  /\ Issued' \in [0..N -> Nat] /\ \A g \in 0..N : Issued[g] <= Issued'[g]
           /\ Issued'[u[1]] = Issued[u[1]] + 1 /\ Issued[u[1]] = plserial[u[1]]
<1>0. pipeline \in Pipelines /\ pipeline' = pipeline /\ mutex' = mutex /\ caller' = caller
  BY DEF SerialTypeOK, Others
<1>1. N' = N /\ \A k : Mode(k)' = Mode(k)
  BY <1>0, SamePipeline
<1>2. u[1] # 0 /\ 0 \in 0..N /\ u[1] \in 0..N
  BY <1>0, UnitsShape, StagesShape
<1>3. plserial \in [0..N -> Nat] /\ plserial'[u[1]] = plserial[u[1]] + 1
  BY <1>2 DEF Generated, SerialTypeOK
<1>4. Issued \in [0..N -> Nat]
  BY IssuedType
<1>5. \A g \in 0..N : g # u[1] => Issued'[g] = Issued[g]
  BY <1>0, <1>1, <1>2 DEF Issued, Others
<1>6. Issued'[u[1]] = plserial[u[1]] + 1 /\ Issued[u[1]] = plserial[u[1]]
  BY <1>0, <1>1, <1>2, <1>3 DEF Issued
<1>7. Issued' \in [0..N -> Nat]
  <2>1. DOMAIN Issued' = 0..N /\ Issued' = [g \in 0..N |-> Issued'[g]]
    BY <1>1 DEF Issued
  <2>2. \A g \in 0..N : Issued'[g] \in Nat
    BY <1>3, <1>4, <1>5, <1>6, <1>2
  <2> QED
    BY <2>1, <2>2
<1>8. \A g \in 0..N : Issued[g] <= Issued'[g]
  <2> TAKE g \in 0..N
  <2>1. Issued[g] \in Nat /\ Issued'[g] \in Nat
    BY <1>4, <1>7
  <2>2. CASE g = u[1]
    BY <2>1, <2>2, <1>6
  <2>3. CASE g # u[1]
    BY <2>1, <2>3, <1>5
  <2> QED
    BY <2>2, <2>3
<1> QED
  BY <1>6, <1>7, <1>8

\* A step of a unit that moves no item and gives out no serial.
LEMMA QuietStep ==
    ASSUME OrderInv, NEW u \in Units, NEW r2, Stepped(u, r2), Others(u), queue' = queue,
           Mode(u[1]) = "keep" \/ plserial' = plserial, Lesser(unit[u], r2),
           OwnStage(u, r2, plserial'[u[1]], log'[u[1]])
    PROVE  OrderInv'
<1>1. SerialTypeOK /\ Fine(queue, unit, Issued) /\ pipeline \in Pipelines
  BY DEF OrderInv, SerialTypeOK
<1>2. Issued' = Issued /\ Issued \in [0..N -> Nat] /\ Typed(queue, unit)
  BY <1>1, SameIssued, IssuedType
<1>3. UnitMap(unit[u], r2, Itself(r2), NoHold) /\ FreshAt(u[1], r2, NoHold, Issued, Issued)
  BY LesserMap, NoHoldIsNone
<1>4. r2 \in UnitRec /\ unit' = [unit EXCEPT ![u] = r2]
  BY DEF Stepped
<1>5. \A g \in 0..N : Issued[g] <= Issued[g]
  BY <1>2
<1>6. Fine(queue, [unit EXCEPT ![u] = r2], Issued)
  BY <1>1, <1>2, <1>3, <1>4, <1>5, FineUnit
<1>7. Fine(queue', unit', Issued')
  BY <1>2, <1>4, <1>6
<1> QED
  BY <1>7, UnitStep

\* The local variables but for the place of the code.
SamePlaces(r, r2) == r2.item = r.item /\ r2.head = r.head /\ r2.cache = r.cache /\ r2.overflow = r.overflow

\* What Goto does.
LEMMA GotoFields ==
    ASSUME SerialTypeOK, NEW u \in Units, NEW pc \in Pcs, Goto(u, pc)
    PROVE  \E r2 : Stepped(u, r2) /\ r2.pc = pc /\ SamePlaces(unit[u], r2)
<1> DEFINE r == unit[u]
           r2 == [r EXCEPT !.pc = pc]
<1>1. r \in UnitRec
  BY DEF SerialTypeOK
<1>2. r2 \in UnitRec /\ r2.pc = pc /\ SamePlaces(r, r2)
  BY <1>1 DEF UnitRec, SamePlaces
<1>3. unit' = [unit EXCEPT ![u] = r2]
  BY DEF Goto, SerialTypeOK
<1> QED
  BY <1>2, <1>3 DEF Stepped

\* Nothing changes, so nothing is gone.
LEMMA SameIsLesser ==
    ASSUME NEW r, NEW r2, SamePlaces(r, r2)
    PROVE  Lesser(r, r2)
  BY DEF SamePlaces, Lesser

\* A step that changes only the unit.
LEMMA OthersSame ==
    ASSUME SerialTypeOK, NEW u, UNCHANGED <<pipeline, queue, plserial, mutex, caller, log>>
    PROVE  Others(u)
  BY DEF SerialTypeOK, Others

\* A step of a unit to another place of its code.
LEMMA GotoStep ==
    ASSUME OrderInv, NEW u \in Units, NEW pc \in Pcs, Goto(u, pc),
           UNCHANGED <<pipeline, queue, plserial, mutex, caller, log>>,
           \A r2 : r2.pc = pc /\ SamePlaces(unit[u], r2) => OwnStage(u, r2, plserial[u[1]], log[u[1]])
    PROVE  OrderInv'
<1>1. SerialTypeOK
  BY DEF OrderInv
<1>2. PICK r2 : Stepped(u, r2) /\ r2.pc = pc /\ SamePlaces(unit[u], r2)
  BY <1>1, GotoFields
<1>3. Others(u) /\ Lesser(unit[u], r2)
  BY <1>1, <1>2, OthersSame, SameIsLesser
<1>4. OwnStage(u, r2, plserial'[u[1]], log'[u[1]])
  BY <1>2
<1>5. queue' = queue /\ plserial' = plserial
  OBVIOUS
<1> QED
  BY <1>2, <1>3, <1>4, <1>5, QuietStep

\* What KeepInv says of a unit.
LEMMA OwnInv ==
    ASSUME OrderInv, NEW u \in Units
    PROVE  OwnStage(u, unit[u], plserial[u[1]], log[u[1]])
  BY DEF OrderInv, KeepInv, OwnStage

\* Steps within the wait for input, and to the end.
LEMMA StageWaits ==
    ASSUME NEW r, NEW r2, NEW e, NEW lg, SamePlaces(r, r2), StageInv(r, e, lg),
           r.pc \in WaitPcs, r2.pc \in WaitPcs
    PROVE  StageInv(r2, e, lg)
<1>1. r2.pc \in KeepPcs /\ r2.pc \notin SerialPcs /\ r2.pc \notin FlushPcs /\ r2.pc # "new"
      /\ r2.pc # "serial" /\ r2.pc # "push_serial"
  BY DEF KeepPcs, WaitPcs, SerialPcs, FlushPcs
<1>2. WindowOK(r, e) /\ LogBelow(lg, e) /\ Increasing(lg) /\ r.cache[r.head].plserial # e
  BY DEF StageInv
<1>3. WindowOK(r2, e) /\ r2.cache[r2.head].plserial # e
  BY <1>2 DEF WindowOK, SamePlaces
<1> QED
  BY <1>1, <1>2, <1>3 DEF StageInv

\* The same, for a stage that ends.
LEMMA StageEnds ==
    ASSUME NEW r2, NEW e, NEW lg, Increasing(lg), r2.pc \in EndPcs
    PROVE  StageInv(r2, e, lg)
<1>1. r2.pc \in KeepPcs /\ r2.pc \notin SerialPcs /\ r2.pc \notin FlushPcs /\ r2.pc # "new"
      /\ r2.pc # "serial" /\ r2.pc # "push_serial" /\ r2.pc \notin WaitPcs
  BY DEF KeepPcs, WaitPcs, SerialPcs, FlushPcs, EndPcs
<1> QED
  BY <1>1 DEF StageInv

\* A serial stage goes back to wait when the head of the window is not the next item.
LEMMA StageTurns ==
    ASSUME NEW r, NEW r2, NEW e, NEW lg, SamePlaces(r, r2), StageInv(r, e, lg),
           r.pc = "serial", r2.pc = "run", r.cache[r.head].plserial # e
    PROVE  StageInv(r2, e, lg)
<1>1. r2.pc \in KeepPcs /\ r2.pc \notin SerialPcs /\ r2.pc \notin FlushPcs /\ r2.pc # "new"
      /\ r2.pc # "serial" /\ r2.pc # "push_serial"
  BY DEF KeepPcs, WaitPcs, SerialPcs, FlushPcs
<1>2. WindowOK(r, e) /\ LogBelow(lg, e) /\ Increasing(lg)
  BY DEF StageInv, SerialPcs
<1>3. WindowOK(r2, e) /\ r2.cache[r2.head].plserial # e
  BY <1>2 DEF WindowOK, SamePlaces
<1> QED
  BY <1>1, <1>2, <1>3 DEF StageInv

\* A step of a unit that changes only its place of the code keeps the invariant.
LEMMA PcStep ==
    ASSUME OrderInv, NEW u \in Units, NEW pc \in Pcs, Goto(u, pc),
           UNCHANGED <<pipeline, queue, plserial, mutex, caller, log>>,
           pc \notin SerialPcs \cup FlushPcs,
           Mode(u[1]) = "keep" =>
              \/ unit[u].pc \in WaitPcs /\ pc \in WaitPcs
              \/ pc \in EndPcs
              \/ unit[u].pc = "serial" /\ pc = "run" /\ unit[u].cache[unit[u].head].plserial # plserial[u[1]]
    PROVE  OrderInv'
<1> DEFINE r == unit[u]
           e == plserial[u[1]]
           lg == log[u[1]]
<1>1. OwnStage(u, r, e, lg)
  BY OwnInv
<1>2. ASSUME NEW r2, r2.pc = pc, SamePlaces(r, r2)
      PROVE  OwnStage(u, r2, e, lg)
  <2>1. CASE Mode(u[1]) # "keep"
    BY <1>1, <1>2, <2>1 DEF OwnStage
  <2>2. CASE Mode(u[1]) = "keep"
    <3>1. StageInv(r, e, lg)
      BY <1>1, <2>2 DEF OwnStage
    <3>2. Increasing(lg)
      BY <3>1 DEF StageInv
    <3>3. StageInv(r2, e, lg)
      BY <3>1, <3>2, <1>2, <2>2, StageWaits, StageEnds, StageTurns
    <3> QED
      BY <3>3, <2>2 DEF OwnStage
  <2> QED
    BY <2>1, <2>2
<1> QED
  BY <1>2, GotoStep

\* run_wrapper: the unit has left.
LEMMA LeaveStep ==
    ASSUME OrderInv, NEW u \in Units, Leave(u)
    PROVE  OrderInv'
<1>1. "gone" \in Pcs /\ "gone" \in EndPcs /\ "gone" \notin SerialPcs \cup FlushPcs
  BY DEF EndPcs, SerialPcs, FlushPcs, Pcs
<1> QED
  BY <1>1, PcStep DEF Leave

\* isPrevRunning: the read of m_run.
LEMMA ReadRunStep ==
    ASSUME OrderInv, NEW u \in Units, ReadRun(u)
    PROVE  OrderInv'
<1> DEFINE pc == IF IsSource(u[1]) THEN (IF run THEN "make" ELSE "left") ELSE (IF run THEN "pop" ELSE "prev")
<1>1. pc \in Pcs /\ pc \notin SerialPcs \cup FlushPcs
  BY DEF SerialPcs, FlushPcs, Pcs
<1>2. Mode(u[1]) = "keep" => unit[u].pc \in WaitPcs /\ pc \in WaitPcs
  <2>1. Mode(u[1]) = "keep" => ~IsSource(u[1])
    BY UnitsShape, StagesShape DEF OrderInv, SerialTypeOK
  <2> QED
    BY <2>1 DEF ReadRun, WaitPcs
<1>3. Goto(u, pc) /\ UNCHANGED <<pipeline, queue, plserial, mutex, caller, log>>
  BY DEF ReadRun
<1> HIDE DEF pc
<1> QED
  BY <1>1, <1>2, <1>3, PcStep

\* isPrevRunning: the read of the previous stage's count.
LEMMA ReadPrevStep ==
    ASSUME OrderInv, NEW u \in Units, ReadPrev(u)
    PROVE  OrderInv'
<1> DEFINE pc == IF running[u[1] - 1] # 0 THEN "pop" ELSE "empty"
<1>1. pc \in Pcs /\ pc \notin SerialPcs \cup FlushPcs /\ pc \in WaitPcs /\ unit[u].pc \in WaitPcs
  BY DEF ReadPrev, SerialPcs, FlushPcs, WaitPcs, Pcs
<1>3. Goto(u, pc) /\ UNCHANGED <<pipeline, queue, plserial, mutex, caller, log>>
  BY DEF ReadPrev
<1> HIDE DEF pc
<1> QED
  BY <1>1, <1>3, PcStep

\* pop_front finds nothing.
LEMMA PopTimeoutStep ==
    ASSUME OrderInv, NEW u \in Units, PopTimeout(u)
    PROVE  OrderInv'
<1>1. "run" \in Pcs /\ "run" \notin SerialPcs \cup FlushPcs /\ "run" \in WaitPcs /\ unit[u].pc \in WaitPcs
  BY DEF PopTimeout, SerialPcs, FlushPcs, WaitPcs, Pcs
<1> QED
  BY <1>1, PcStep DEF PopTimeout

\* The catch block of run_wrapper: is the queue empty?
LEMMA DrainEmptyStep ==
    ASSUME OrderInv, NEW u \in Units, DrainEmpty(u)
    PROVE  OrderInv'
<1> DEFINE pc == IF queue[u[1] - 1] = <<>> THEN "prev_catch" ELSE "pop_catch"
<1>1. pc \in Pcs /\ pc \notin SerialPcs \cup FlushPcs /\ pc \in EndPcs
  BY DEF SerialPcs, FlushPcs, EndPcs, Pcs
<1>3. Goto(u, pc) /\ UNCHANGED <<pipeline, queue, plserial, mutex, caller, log>>
  BY DEF DrainEmpty
<1> HIDE DEF pc
<1> QED
  BY <1>1, <1>3, PcStep

\* The catch block of run_wrapper: is the previous stage running?
LEMMA DrainPrevStep ==
    ASSUME OrderInv, NEW u \in Units, DrainPrev(u)
    PROVE  OrderInv'
<1> DEFINE pc == IF running[u[1] - 1] = 0 THEN "left_catch" ELSE "pop_catch"
<1>1. pc \in Pcs /\ pc \notin SerialPcs \cup FlushPcs /\ pc \in EndPcs
  BY DEF SerialPcs, FlushPcs, EndPcs, Pcs
<1>3. Goto(u, pc) /\ UNCHANGED <<pipeline, queue, plserial, mutex, caller, log>>
  BY DEF DrainPrev
<1> HIDE DEF pc
<1> QED
  BY <1>1, <1>3, PcStep

\* run_serial_step_fast: the end of the inner loop, and of the flush.
LEMMA SerialWaitStep ==
    ASSUME OrderInv, NEW u \in Units, SerialWait(u)
    PROVE  OrderInv'
<1> DEFINE pc == IF unit[u].pc = "serial" THEN "run" ELSE "left"
<1>1. pc \in Pcs /\ pc \notin SerialPcs \cup FlushPcs /\ (unit[u].pc # "serial" => pc \in EndPcs)
  BY DEF SerialPcs, FlushPcs, EndPcs, Pcs
<1>2. unit[u].pc = "serial" => pc = "run" /\ unit[u].cache[unit[u].head].plserial # plserial[u[1]]
  BY DEF SerialWait, IsTurn
<1>3. Goto(u, pc) /\ UNCHANGED <<pipeline, queue, plserial, mutex, caller, log>>
  BY DEF SerialWait
<1> HIDE DEF pc
<1> QED
  BY <1>1, <1>2, <1>3, PcStep

\* run_wrapper: the unit begins, a serial stage expects 1.
LEMMA BeginStep ==
    ASSUME OrderInv, NEW u \in Units, Begin(u)
    PROVE  OrderInv'
<1>1. SerialTypeOK /\ pipeline \in Pipelines /\ Goto(u, "run") /\ u[1] \in 0..N
  BY UnitsShape DEF OrderInv, SerialTypeOK, Begin
<1>2. PICK r2 : Stepped(u, r2) /\ r2.pc = "run" /\ SamePlaces(unit[u], r2)
  <2>1. "run" \in Pcs
    BY DEF Pcs
  <2> QED
    BY <1>1, <2>1, GotoFields
<1>3. Others(u)
  BY <1>1 DEF Begin, Others, SerialTypeOK
<1>4. Lesser(unit[u], r2)
  BY <1>2, SameIsLesser
<1>5. queue' = queue /\ log' = log /\ (Mode(u[1]) = "keep" \/ plserial' = plserial)
  BY DEF Begin
<1>6. OwnStage(u, unit[u], plserial[u[1]], log[u[1]])
  BY OwnInv
<1>7. OwnStage(u, r2, plserial'[u[1]], log'[u[1]])
  <2>1. CASE Mode(u[1]) # "keep"
    <3>1. r2.pc \notin SerialPcs \cup FlushPcs
      BY <1>2 DEF SerialPcs, FlushPcs
    <3> QED
      BY <3>1, <2>1, <1>5, <1>6 DEF OwnStage
  <2>2. CASE Mode(u[1]) = "keep"
    <3>1. log[u[1]] = <<>> /\ Fresh(unit[u]) /\ unit[u].head \in 0..(Window - 1)
      BY <1>1, <1>6, <2>2 DEF OwnStage, StageInv, Begin, SerialTypeOK, UnitRec
    <3>2. plserial'[u[1]] = 1
      BY <1>1, <2>2 DEF Begin, SerialTypeOK
    <3>3. WindowOK(r2, 1) /\ r2.cache[r2.head].plserial # 1
      BY <1>2, <3>1 DEF Fresh, SamePlaces, WindowOK
    <3>4. LogBelow(<<>>, 1) /\ Increasing(<<>>)
      BY DEF LogBelow, Increasing
    <3>5. r2.pc \in KeepPcs /\ r2.pc \notin SerialPcs /\ r2.pc \notin FlushPcs /\ r2.pc # "new"
          /\ r2.pc # "serial" /\ r2.pc # "push_serial"
      BY <1>2 DEF KeepPcs, WaitPcs, SerialPcs, FlushPcs
    <3>6. StageInv(r2, 1, <<>>)
      BY <3>3, <3>4, <3>5 DEF StageInv
    <3> QED
      BY <3>1, <3>2, <3>6, <2>2, <1>5 DEF OwnStage
  <2> QED
    BY <2>1, <2>2
<1> QED
  BY <1>2, <1>3, <1>4, <1>5, <1>7, QuietStep

\* The empty item.
LEMMA NoItemType == NoItem \in Item /\ NoItem.plserial = 0
  BY DEF NoItem, Item, NoTask

\* The types of the local variables.
LEMMA WindowType ==
    ASSUME NEW r \in UnitRec
    PROVE  /\ Window \in Nat /\ Window >= 1 /\ r.head \in 0..(Window - 1) /\ r.head \in Nat /\ r.head < Window
           /\ r.cache \in [0..(Window - 1) -> Item] /\ r.overflow \subseteq Item /\ r.item \in Item /\ r.pc \in Pcs
           /\ r.item.plserial \in Nat
           /\ \A i \in 0..(Window - 1) : r.cache[i] \in Item /\ r.cache[i].plserial \in Nat /\ r.cache[i].task \in Nat
           /\ \A x \in r.overflow : x \in Item /\ x.plserial \in Nat /\ x.task \in Nat
<1>1. Window \in Nat /\ Window >= 1
  BY PipelineAssumption
<1>2. /\ r.head \in 0..(Window - 1) /\ r.cache \in [0..(Window - 1) -> Item] /\ r.overflow \in SUBSET Item
      /\ r.item \in Item /\ r.pc \in Pcs
  BY DEF UnitRec
<1>3. \A x \in Item : x.plserial \in Nat /\ x.task \in Nat
  BY DEF Item
<1>4. \A i \in 0..(Window - 1) : r.cache[i] \in Item
  BY <1>2
<1> QED
  BY <1>1, <1>2, <1>3, <1>4

\* What an exception does to the local variables.
LEMMA CatchFields ==
    ASSUME SerialTypeOK, NEW u \in Units, NEW S, Catch(u, S)
    PROVE  \E r2 : Stepped(u, r2) /\ r2.pc \in {"left_catch", "empty_catch"} /\ Lesser(unit[u], r2)
<1> DEFINE pc == IF u[1] = 1 THEN "left_catch" ELSE "empty_catch"
           c == [i \in 0..(Window - 1) |-> NoItem]
           r2 == [pc |-> pc, item |-> NoItem, head |-> 0, cache |-> c, overflow |-> {}]
<1>1. pc \in Pcs /\ pc \in {"left_catch", "empty_catch"}
  BY DEF Pcs
<1>2. c \in [0..(Window - 1) -> Item] /\ \A i \in 0..(Window - 1) : c[i] = NoItem
  BY NoItemType
<1>3. unit' = [unit EXCEPT ![u] = r2]
  BY DEF Catch
<1>4. 0 \in 0..(Window - 1)
  BY PipelineAssumption
<1> HIDE DEF c, pc
<1>5. r2 \in UnitRec
  BY <1>1, <1>2, <1>4, NoItemType DEF UnitRec
<1>6. Lesser(unit[u], r2)
  BY <1>2, NoItemType DEF Lesser
<1> QED
  BY <1>1, <1>3, <1>5, <1>6 DEF Stepped

\* A unit that leaves with an exception.
LEMMA OwnEnds ==
    ASSUME NEW u, NEW r2, NEW e, NEW lg, r2.pc \in EndPcs,
           IF Mode(u[1]) = "keep" THEN Increasing(lg) ELSE lg = <<>>
    PROVE  OwnStage(u, r2, e, lg)
<1>1. r2.pc \notin SerialPcs \cup FlushPcs
  BY DEF EndPcs, SerialPcs, FlushPcs
<1> QED
  BY <1>1, StageEnds DEF OwnStage

\* What a stage has processed is in order.
LEMMA LogInv ==
    ASSUME OrderInv, NEW u \in Units
    PROVE  IF Mode(u[1]) = "keep" THEN Increasing(log[u[1]]) ELSE log[u[1]] = <<>>
  BY OwnInv DEF OwnStage, StageInv

\* An exception keeps the invariant.
LEMMA CatchStep ==
    ASSUME OrderInv, NEW u \in Units, NEW S, Catch(u, S), Others(u), queue' = queue, plserial' = plserial,
           IF Mode(u[1]) = "keep" THEN Increasing(log'[u[1]]) ELSE log'[u[1]] = <<>>
    PROVE  OrderInv'
<1>1. SerialTypeOK
  BY DEF OrderInv
<1>2. PICK r2 : Stepped(u, r2) /\ r2.pc \in {"left_catch", "empty_catch"} /\ Lesser(unit[u], r2)
  BY <1>1, CatchFields
<1>3. r2.pc \in EndPcs
  BY <1>2 DEF EndPcs
<1>4. OwnStage(u, r2, plserial'[u[1]], log'[u[1]])
  BY <1>3, OwnEnds
<1> QED
  BY <1>2, <1>4, QuietStep

\* A unit that is not in a serial stage.
LEMMA NotKeep ==
    ASSUME OrderInv, NEW u \in Units, unit[u].pc \in {"make", "process", "push"}
    PROVE  Mode(u[1]) # "keep"
  BY OwnInv DEF OwnStage, StageInv, KeepPcs, WaitPcs, SerialPcs, FlushPcs, EndPcs

\* The own stage of a unit that is not in a serial stage.
LEMMA OwnPlain ==
    ASSUME OrderInv, NEW u \in Units, Mode(u[1]) # "keep", NEW r2, NEW e, r2.pc \notin SerialPcs \cup FlushPcs
    PROVE  OwnStage(u, r2, e, log[u[1]])
  BY OwnInv DEF OwnStage

\* Process, for stages that are not serial.
LEMMA ProcessStep ==
    ASSUME OrderInv, NEW u \in Units, Process(u)
    PROVE  OrderInv'
<1> DEFINE r == unit[u]
           k == u[1]
           x == r.item
<1>1. SerialTypeOK /\ r \in UnitRec /\ Mode(k) # "keep"
  BY NotKeep DEF OrderInv, SerialTypeOK, Process
<1>2. UNCHANGED <<pipeline, queue, plserial, mutex, caller, log>>
  BY DEF Process
<1>3. Others(u)
  BY <1>1, <1>2, OthersSame
<1>4. CASE \E t \in Outcomes(k, x.task) : unit' = [unit EXCEPT
                     ![u] = IF ~IsLast(k) /\ (t # NoTask \/ keepSerial)
                              THEN [@ EXCEPT !.pc = "push", !.item.task = t]
                              ELSE [@ EXCEPT !.pc = "run", !.item = NoItem]]
  <2>1. PICK t \in Outcomes(k, x.task) : unit' = [unit EXCEPT
                     ![u] = IF ~IsLast(k) /\ (t # NoTask \/ keepSerial)
                              THEN [@ EXCEPT !.pc = "push", !.item.task = t]
                              ELSE [@ EXCEPT !.pc = "run", !.item = NoItem]]
    BY <1>4
  <2>2. t \in Nat /\ x \in Item
    BY <1>1, <2>1 DEF Outcomes, UnitRec, Item, NoTask
  <2> DEFINE r2 == IF ~IsLast(k) /\ (t # NoTask \/ keepSerial)
                     THEN [r EXCEPT !.pc = "push", !.item.task = t]
                     ELSE [r EXCEPT !.pc = "run", !.item = NoItem]
  <2>3. unit' = [unit EXCEPT ![u] = r2]
    BY <2>1, <1>1 DEF SerialTypeOK
  <2>4. "push" \in Pcs /\ "run" \in Pcs
    BY DEF Pcs
  <2>5. r2 \in UnitRec /\ r2.pc \in {"push", "run"} /\ r2.item.plserial \in {0, x.plserial}
        /\ r2.cache = r.cache /\ r2.overflow = r.overflow
    <3>1. CASE ~IsLast(k) /\ (t # NoTask \/ keepSerial)
      <4> DEFINE y == [x EXCEPT !.task = t]
      <4>1. y \in Item /\ y.plserial = x.plserial
        BY <2>2 DEF Item
      <4>2. r2 = [r EXCEPT !.pc = "push", !.item = y]
        BY <3>1
      <4> HIDE DEF y, r2
      <4>3. r2 \in UnitRec /\ r2.pc = "push" /\ r2.item = y /\ r2.cache = r.cache /\ r2.overflow = r.overflow
        BY <4>1, <4>2, <2>4, <1>1 DEF UnitRec
      <4> QED
        BY <4>1, <4>3
    <3>2. CASE ~(~IsLast(k) /\ (t # NoTask \/ keepSerial))
      <4>1. r2 = [r EXCEPT !.pc = "run", !.item = NoItem]
        BY <3>2
      <4> HIDE DEF r2
      <4>2. r2 \in UnitRec /\ r2.pc = "run" /\ r2.item = NoItem /\ r2.cache = r.cache /\ r2.overflow = r.overflow
        BY <4>1, <2>4, <1>1, NoItemType DEF UnitRec
      <4> QED
        BY <4>2, NoItemType
    <3> QED
      BY <3>1, <3>2
  <2> HIDE DEF r2
  <2>6. Stepped(u, r2) /\ Lesser(r, r2) /\ r2.pc \notin SerialPcs \cup FlushPcs
    BY <2>3, <2>5 DEF Stepped, Lesser, SerialPcs, FlushPcs
  <2>7. OwnStage(u, r2, plserial'[u[1]], log'[u[1]])
    BY <2>6, <1>1, <1>2, OwnPlain
  <2> QED
    BY <2>6, <2>7, <1>2, <1>3, QuietStep
<1>5. CASE Catch(u, {})
  <2>1. IF Mode(u[1]) = "keep" THEN Increasing(log'[u[1]]) ELSE log'[u[1]] = <<>>
    BY <1>2, LogInv
  <2> QED
    BY <2>1, <1>2, <1>3, <1>5, CatchStep
<1> QED
  BY <1>4, <1>5 DEF Process

----------------------------------------------------------------------------
(* Serials are given out *)

\* The item of the unit is replaced; its serial is new if its stage generates them.
Replaced(r, r2, pc, x) ==
    r2 \in UnitRec /\ r2.pc = pc /\ r2.item = x /\ r2.head = r.head /\ r2.cache = r.cache /\ r2.overflow = r.overflow

\* What a step that replaces the item does to the local variables.
LEMMA ReplacedFields ==
    ASSUME SerialTypeOK, NEW u \in Units, NEW pc \in Pcs, NEW x \in Item,
           unit' = [unit EXCEPT ![u].pc = pc, ![u].item = x]
    PROVE  \E r2 : Stepped(u, r2) /\ Replaced(unit[u], r2, pc, x)
<1> DEFINE r == unit[u]
           r2 == [r EXCEPT !.pc = pc, !.item = x]
<1>1. r \in UnitRec
  BY DEF SerialTypeOK
<1>2. Replaced(r, r2, pc, x)
  BY <1>1 DEF UnitRec, Replaced
<1>3. unit' = [unit EXCEPT ![u] = r2]
  BY DEF SerialTypeOK
<1> QED
  BY <1>2, <1>3 DEF Stepped, Replaced

\* What a stage that generates serials gives to its items.
LEMMA NumberedType ==
    ASSUME SerialTypeOK, NEW u \in Units, NEW x \in Item
    PROVE  /\ Numbered(u[1], x) \in Item /\ Numbered(u[1], x).task = x.task
           /\ Mode(u[1]) = "generate" => Numbered(u[1], x).plserial = plserial[u[1]] + 1
           /\ Mode(u[1]) # "generate" => Numbered(u[1], x) = x
           /\ Generated(u[1]) \in Nat
           /\ Mode(u[1]) # "generate" => [plserial EXCEPT ![u[1]] = Generated(u[1])] = plserial
           /\ [plserial EXCEPT ![u[1]] = Generated(u[1])] \in [0..N -> Nat]
<1>1. u[1] \in 0..N /\ plserial \in [0..N -> Nat]
  BY UnitsShape DEF SerialTypeOK
<1>2. plserial[u[1]] \in Nat
  BY <1>1
<1>3. Generated(u[1]) \in Nat /\ (Mode(u[1]) = "generate" => Generated(u[1]) = plserial[u[1]] + 1)
      /\ (Mode(u[1]) # "generate" => Generated(u[1]) = plserial[u[1]])
  BY <1>2 DEF Generated
<1>4. [plserial EXCEPT ![u[1]] = Generated(u[1])] \in [0..N -> Nat]
  BY <1>1, <1>3
<1>5. Mode(u[1]) # "generate" => [plserial EXCEPT ![u[1]] = Generated(u[1])] = plserial
  BY <1>1, <1>3
<1> QED
  BY <1>3, <1>4, <1>5 DEF Numbered, Item

\* The place of a unit's item.
ItemPlace == <<"item", 0>>

\* Where a new serial may be.
NewPlace(k) == IF Mode(k) = "generate" THEN ItemPlace ELSE NoHold

\* The serial a stage gives out is the next one.
LEMMA GenerateFresh ==
    ASSUME SerialTypeOK, NEW u \in Units, Others(u), NEW x \in Item, NEW r2, NEW pc,
           Replaced(unit[u], r2, pc, Numbered(u[1], x)),
           plserial' = [plserial EXCEPT ![u[1]] = Generated(u[1])]
    PROVE  /\ FreshAt(u[1], r2, NewPlace(u[1]), Issued, Issued')
           /\ Issued \in [0..N -> Nat] /\ Issued' \in [0..N -> Nat] /\ \A g \in 0..N : Issued[g] <= Issued'[g]
<1>0. Issued \in [0..N -> Nat]
  BY IssuedType
<1>1. CASE Mode(u[1]) = "generate"
  <2>1. /\ Issued' \in [0..N -> Nat] /\ \A g \in 0..N : Issued[g] <= Issued'[g]
        /\ Issued'[u[1]] = Issued[u[1]] + 1 /\ Issued[u[1]] = plserial[u[1]]
    BY <1>1, NextIssued
  <2>2. SerialIn(r2, ItemPlace) = plserial[u[1]] + 1
    BY <1>1, NumberedType, HoldShape DEF ItemPlace, Replaced
  <2> QED
    BY <1>0, <1>1, <2>1, <2>2 DEF FreshAt, NewPlace
<1>2. CASE Mode(u[1]) # "generate"
  <2>1. plserial' = plserial
    BY <1>2, NumberedType
  <2>2. Issued' = Issued
    BY <2>1, SameIssued
  <2>3. FreshAt(u[1], r2, NewPlace(u[1]), Issued, Issued')
    BY <1>2, NoHoldIsNone DEF NewPlace
  <2>4. \A g \in 0..N : Issued[g] <= Issued[g]
    BY <1>0
  <2> QED
    BY <1>0, <2>2, <2>3, <2>4
<1> QED
  BY <1>1, <1>2

\* The items at the other places of the unit stay where they are.
LEMMA OtherHolds ==
    ASSUME NEW r, NEW r2, NEW pc, NEW x, Replaced(r, r2, pc, x), NEW w \in Holds(r2), w # ItemPlace
    PROVE  w \in Holds(r) /\ SerialIn(r, w) = SerialIn(r2, w) /\ w # Popped
<1>1. CASE w[1] = "cache" /\ w[2] \in 0..(Window - 1) /\ w = <<"cache", w[2]>>
  <2>1. SerialIn(r2, w) = r2.cache[w[2]].plserial
    BY <1>1, HoldShape
  <2>2. SerialIn(r, w) = r.cache[w[2]].plserial /\ w \in Holds(r)
    BY <1>1, HoldShape
  <2> QED
    BY <1>1, <2>1, <2>2 DEF Replaced, Popped
<1>2. CASE w[1] = "over" /\ w[2] \in r2.overflow /\ w = <<"over", w[2]>>
  <2>1. SerialIn(r2, w) = w[2].plserial
    BY <1>2, HoldShape
  <2>2. w[2] \in r.overflow
    BY <1>2 DEF Replaced
  <2>3. SerialIn(r, w) = w[2].plserial /\ w \in Holds(r)
    BY <1>2, <2>2, HoldShape
  <2> QED
    BY <1>2, <2>1, <2>3 DEF Popped
<1> QED
  BY <1>1, <1>2, HoldParts DEF ItemPlace

\* run_step_first: the first stage makes a task.
LEMMA MakeStep ==
    ASSUME OrderInv, NEW u \in Units, Make(u)
    PROVE  OrderInv'
<1> DEFINE r == unit[u]
           k == u[1]
           t == Cardinality({x \in Tasks : fate[x] # "new"}) + 1
           x0 == [NoItem EXCEPT !.task = t]
<1>1. SerialTypeOK /\ pipeline \in Pipelines /\ Mode(k) # "keep" /\ Typed(queue, unit)
      /\ Fine(queue, unit, Issued)
  BY NotKeep, IssuedType DEF OrderInv, SerialTypeOK, Make
<1>2. UNCHANGED <<pipeline, queue, mutex, caller, log>>
  BY DEF Make
<1>3. CASE /\ plserial' = [plserial EXCEPT ![k] = Generated(k)]
           /\ unit' = [unit EXCEPT ![u].pc = "push", ![u].item = Numbered(k, x0)]
  <2>1. t \in Nat
    <3>1. pipeline.tasks \in Nat
      BY <1>1, PipelineAssumption
    <3>2. IsFiniteSet(Tasks)
      BY <3>1, FS_Interval DEF Tasks
    <3>3. IsFiniteSet({x \in Tasks : fate[x] # "new"})
      BY <3>2, FS_Subset
    <3>4. Cardinality({x \in Tasks : fate[x] # "new"}) \in Nat
      BY <3>3, FS_CardinalityType
    <3> QED
      BY <3>4
  <2> HIDE DEF t
  <2>2. x0 \in Item /\ x0.plserial = 0
    BY <2>1 DEF NoItem, Item
  <2> HIDE DEF x0
  <2>3. Numbered(k, x0) \in Item /\ plserial' \in [0..N -> Nat] /\ "push" \in Pcs
    BY <1>1, <1>3, <2>2, NumberedType DEF Pcs
  <2>4. PICK r2 : Stepped(u, r2) /\ Replaced(r, r2, "push", Numbered(k, x0))
    BY <1>1, <1>3, <2>3, ReplacedFields
  <2>5. Others(u)
    BY <1>1, <1>2, <1>3, <2>3 DEF Others, SerialTypeOK
  <2>6. /\ FreshAt(k, r2, NewPlace(k), Issued, Issued')
        /\ Issued \in [0..N -> Nat] /\ Issued' \in [0..N -> Nat] /\ \A g \in 0..N : Issued[g] <= Issued'[g]
    BY <1>1, <1>3, <2>2, <2>4, <2>5, GenerateFresh
  <2>7. UnitMap(r, r2, Itself(r2), NewPlace(k))
    <3>1. ASSUME NEW w \in Holds(r2), w # NewPlace(k), SerialIn(r2, w) # 0
          PROVE  w \in Holds(r) /\ SerialIn(r, w) = SerialIn(r2, w)
      <4>1. w # ItemPlace
        <5>1. SerialIn(r2, ItemPlace) = Numbered(k, x0).plserial
          BY <2>4, HoldShape DEF ItemPlace, Replaced
        <5>2. Mode(k) # "generate" => SerialIn(r2, ItemPlace) = 0
          BY <5>1, <1>1, <2>2, NumberedType
        <5> QED
          BY <3>1, <5>2 DEF NewPlace
      <4> QED
        BY <4>1, <2>4, OtherHolds
    <3> QED
      BY <3>1 DEF UnitMap, Itself
  <2>8. r2 \in UnitRec /\ unit' = [unit EXCEPT ![u] = r2]
    BY <2>4 DEF Stepped
  <2>9. Fine(queue, [unit EXCEPT ![u] = r2], Issued')
    BY <1>1, <2>6, <2>7, <2>8, FineUnit
  <2>10. Fine(queue', unit', Issued')
    BY <2>8, <2>9, <1>2
  <2>11. OwnStage(u, r2, plserial'[u[1]], log'[u[1]])
    <3>1. r2.pc \notin SerialPcs \cup FlushPcs
      BY <2>4 DEF Replaced, SerialPcs, FlushPcs
    <3> QED
      BY <3>1, <1>1, <1>2, OwnPlain
  <2> QED
    BY <2>4, <2>5, <2>10, <2>11, UnitStep
<1>4. CASE Catch(u, {}) /\ plserial' = plserial
  <2>1. IF Mode(u[1]) = "keep" THEN Increasing(log'[u[1]]) ELSE log'[u[1]] = <<>>
    BY <1>2, LogInv
  <2>2. Others(u)
    BY <1>1, <1>2, <1>4, OthersSame
  <2> QED
    BY <2>1, <2>2, <1>2, <1>4, CatchStep
<1> QED
  BY <1>3, <1>4 DEF Make

----------------------------------------------------------------------------
(* Items are popped *)

\* The step of a unit that pops.
LEMMA PopStep ==
    ASSUME OrderInv, NEW u \in Units, NEW r2, Stepped(u, r2), Others(u), NEW F, NEW fw,
           queue[u[1] - 1] # <<>>, queue' = [queue EXCEPT ![u[1] - 1] = Tail(@)],
           Issued' \in [0..N -> Nat], \A g \in 0..N : Issued[g] <= Issued'[g],
           PopMap(u[1], unit[u], Head(queue[u[1] - 1]), r2, F, fw), FreshAt(u[1], r2, fw, Issued, Issued'),
           OwnStage(u, r2, plserial'[u[1]], log'[u[1]])
    PROVE  OrderInv'
<1>1. SerialTypeOK /\ Fine(queue, unit, Issued) /\ pipeline \in Pipelines
  BY DEF OrderInv, SerialTypeOK
<1>2. Issued \in [0..N -> Nat] /\ Typed(queue, unit)
  BY <1>1, IssuedType
<1>3. r2 \in UnitRec /\ unit' = [unit EXCEPT ![u] = r2]
  BY DEF Stepped
<1>4. Fine([queue EXCEPT ![u[1] - 1] = Tail(@)], [unit EXCEPT ![u] = r2], Issued')
  BY <1>1, <1>2, <1>3, FinePop
<1>5. Fine(queue', unit', Issued')
  BY <1>3, <1>4
<1> QED
  BY <1>5, UnitStep

\* The queue before the stage, and what is popped from it.
LEMMA PoppedType ==
    ASSUME SerialTypeOK, NEW u \in Units, queue[u[1] - 1] # <<>>
    PROVE  /\ Head(queue[u[1] - 1]) \in Item
           /\ [queue EXCEPT ![u[1] - 1] = Tail(@)] \in [0..N -> Seq(Item)]
<1>1. u[1] - 1 \in 0..N
  BY UnitsShape DEF SerialTypeOK
<1>2. queue[u[1] - 1] \in Seq(Item)
  BY <1>1 DEF SerialTypeOK
<1>3. Tail(queue[u[1] - 1]) \in Seq(Item) /\ Head(queue[u[1] - 1]) \in Item
  BY <1>2, TailOfQueue
<1> QED
  BY <1>1, <1>3 DEF SerialTypeOK

\* What is popped is thrown away.
LEMMA DropStep ==
    ASSUME OrderInv, NEW u \in Units, NEW r2, Stepped(u, r2), Others(u), Lesser(unit[u], r2),
           queue[u[1] - 1] # <<>>, queue' = [queue EXCEPT ![u[1] - 1] = Tail(@)], plserial' = plserial,
           OwnStage(u, r2, plserial'[u[1]], log'[u[1]])
    PROVE  OrderInv'
<1>1. SerialTypeOK
  BY DEF OrderInv
<1>2. Issued' = Issued /\ Issued \in [0..N -> Nat]
  BY <1>1, SameIssued, IssuedType
<1>3. PopMap(u[1], unit[u], Head(queue[u[1] - 1]), r2, Itself(r2), NoHold)
  BY LesserPop
<1>4. FreshAt(u[1], r2, NoHold, Issued, Issued')
  BY NoHoldIsNone
<1>5. Issued' \in [0..N -> Nat] /\ \A g \in 0..N : Issued[g] <= Issued'[g]
  BY <1>2
<1> QED
  BY <1>3, <1>4, <1>5, PopStep

\* The catch block of run_wrapper: a pop of what is thrown away.
LEMMA DrainPopStep ==
    ASSUME OrderInv, NEW u \in Units, DrainPop(u)
    PROVE  OrderInv'
<1>1. SerialTypeOK /\ Goto(u, "empty_catch")
  BY DEF OrderInv, DrainPop
<1>2. UNCHANGED <<pipeline, plserial, mutex, caller, log>>
  BY DEF DrainPop
<1>3. "empty_catch" \in Pcs /\ "empty_catch" \in EndPcs /\ "empty_catch" \notin SerialPcs \cup FlushPcs
  BY DEF Pcs, EndPcs, SerialPcs, FlushPcs
<1>4. CASE queue' = queue
  BY <1>1, <1>2, <1>3, <1>4, PcStep
<1>5. CASE queue[u[1] - 1] # <<>> /\ queue' = [queue EXCEPT ![u[1] - 1] = Tail(queue[u[1] - 1])]
  <2>1. PICK r2 : Stepped(u, r2) /\ r2.pc = "empty_catch" /\ SamePlaces(unit[u], r2)
    BY <1>1, <1>3, GotoFields
  <2>2. queue' = [queue EXCEPT ![u[1] - 1] = Tail(@)]
    BY <1>5
  <2>3. queue' \in [0..N -> Seq(Item)]
    BY <1>1, <1>5, <2>2, PoppedType
  <2>4. Others(u) /\ Lesser(unit[u], r2)
    BY <1>1, <1>2, <2>1, <2>3, SameIsLesser DEF Others, SerialTypeOK
  <2>5. IF Mode(u[1]) = "keep" THEN Increasing(log'[u[1]]) ELSE log'[u[1]] = <<>>
    BY <1>2, LogInv
  <2>6. OwnStage(u, r2, plserial'[u[1]], log'[u[1]])
    BY <2>1, <2>5, <1>3, OwnEnds
  <2> QED
    BY <1>2, <1>5, <2>1, <2>2, <2>4, <2>6, DropStep
<1> QED
  BY <1>4, <1>5 DEF DrainPop

\* run_step_mid and run_step_last: pop_front, and the serial of a stage that generates them.
LEMMA PopFrontStep ==
    ASSUME OrderInv, NEW u \in Units, PopFront(u)
    PROVE  OrderInv'
<1> DEFINE r == unit[u]
           k == u[1]
           x == Head(queue[k - 1])
           F(r2) == [w \in Holds(r2) |-> IF w = ItemPlace THEN Popped ELSE w]
<1>1. SerialTypeOK /\ pipeline \in Pipelines /\ Mode(k) # "keep" /\ queue[k - 1] # <<>>
  BY DEF OrderInv, SerialTypeOK, PopFront
<1>2. /\ UNCHANGED <<pipeline, mutex, caller, log>> /\ queue' = [queue EXCEPT ![k - 1] = Tail(@)]
      /\ plserial' = [plserial EXCEPT ![k] = Generated(k)]
      /\ unit' = [unit EXCEPT ![u].pc = "process", ![u].item = Numbered(k, x)]
  BY DEF PopFront
<1>3. x \in Item /\ queue' \in [0..N -> Seq(Item)]
  BY <1>1, <1>2, PoppedType
<1> HIDE DEF x
<1>4. Numbered(k, x) \in Item /\ plserial' \in [0..N -> Nat] /\ "process" \in Pcs
  BY <1>1, <1>2, <1>3, NumberedType DEF Pcs
<1>5. PICK r2 : Stepped(u, r2) /\ Replaced(r, r2, "process", Numbered(k, x))
  BY <1>1, <1>2, <1>4, ReplacedFields
<1>6. Others(u)
  BY <1>1, <1>2, <1>3, <1>4 DEF Others, SerialTypeOK
<1>7. /\ FreshAt(k, r2, NewPlace(k), Issued, Issued')
      /\ Issued \in [0..N -> Nat] /\ Issued' \in [0..N -> Nat] /\ \A g \in 0..N : Issued[g] <= Issued'[g]
  BY <1>1, <1>2, <1>3, <1>5, <1>6, GenerateFresh
<1>8. PopMap(k, r, x, r2, F(r2), NewPlace(k))
  <2>1. ASSUME NEW w \in Holds(r2), w # ItemPlace
        PROVE  w \in Holds(r) /\ SerialIn(r, w) = SerialIn(r2, w) /\ w # Popped
    BY <1>5, <2>1, OtherHolds
  <2>2. ItemPlace # NewPlace(k) => SerialIn(r2, ItemPlace) = x.plserial /\ Mode(k) # "generate"
    <3>1. SerialIn(r2, ItemPlace) = Numbered(k, x).plserial
      BY <1>5, HoldShape DEF ItemPlace, Replaced
    <3> QED
      BY <3>1, <1>1, <1>3, NumberedType DEF NewPlace
  <2> QED
    BY <2>1, <2>2 DEF PopMap
<1>9. OwnStage(u, r2, plserial'[u[1]], log'[u[1]])
  <2>1. r2.pc \notin SerialPcs \cup FlushPcs
    BY <1>5 DEF Replaced, SerialPcs, FlushPcs
  <2> QED
    BY <2>1, <1>1, <1>2, OwnPlain
<1> HIDE DEF F
<1> QED
  BY <1>1, <1>2, <1>5, <1>6, <1>7, <1>8, <1>9, PopStep DEF x

----------------------------------------------------------------------------
(* Items are pushed *)

\* The step of a unit that pushes.
LEMMA PushStep ==
    ASSUME OrderInv, NEW u \in Units, NEW r2, Stepped(u, r2), Others(u), NEW F, NEW w0, NEW x \in Item,
           Mode(u[1]) = "keep" \/ plserial' = plserial,
           queue' = [queue EXCEPT ![u[1]] = Append(@, x)], PushMap(unit[u], x, r2, F, w0),
           OwnStage(u, r2, plserial'[u[1]], log'[u[1]])
    PROVE  OrderInv'
<1>1. SerialTypeOK /\ Fine(queue, unit, Issued) /\ pipeline \in Pipelines
  BY DEF OrderInv, SerialTypeOK
<1>2. Issued' = Issued /\ Issued \in [0..N -> Nat] /\ Typed(queue, unit)
  BY <1>1, SameIssued, IssuedType
<1>3. r2 \in UnitRec /\ unit' = [unit EXCEPT ![u] = r2]
  BY DEF Stepped
<1>4. Fine([queue EXCEPT ![u[1]] = Append(@, x)], [unit EXCEPT ![u] = r2], Issued)
  BY <1>1, <1>2, <1>3, FinePush
<1>5. Fine(queue', unit', Issued')
  BY <1>2, <1>3, <1>4
<1> QED
  BY <1>5, UnitStep

\* The type of the queues after a push.
LEMMA PushedType ==
    ASSUME SerialTypeOK, NEW k \in 0..N, NEW x \in Item
    PROVE  [queue EXCEPT ![k] = Append(@, x)] \in [0..N -> Seq(Item)]
<1>1. queue[k] \in Seq(Item)
  BY DEF SerialTypeOK
<1>2. Append(queue[k], x) \in Seq(Item)
  BY <1>1, AppendToQueue
<1> QED
  BY <1>2 DEF SerialTypeOK

\* The unit pushes its item.
LEMMA PushItem ==
    ASSUME NEW r, NEW r2, NEW pc, Replaced(r, r2, pc, NoItem)
    PROVE  PushMap(r, r.item, r2, Itself(r2), ItemPlace) /\ Lesser(r, r2)
<1>1. SerialIn(r2, ItemPlace) = 0
  BY HoldShape, NoItemType DEF ItemPlace, Replaced
<1>2. ItemPlace \in Holds(r) /\ SerialIn(r, ItemPlace) = r.item.plserial
  BY HoldShape DEF ItemPlace
<1>3. ASSUME NEW w \in Holds(r2), SerialIn(r2, w) # 0
      PROVE  w # ItemPlace /\ w \in Holds(r) /\ SerialIn(r, w) = SerialIn(r2, w)
  BY <1>1, <1>3, OtherHolds
<1>4. Lesser(r, r2)
  BY NoItemType DEF Replaced, Lesser
<1> QED
  BY <1>2, <1>3, <1>4 DEF PushMap, Itself

\* run_step_first and run_step_mid: push_back.
LEMMA PushBackStep ==
    ASSUME OrderInv, NEW u \in Units, PushBack(u)
    PROVE  OrderInv'
<1> DEFINE r == unit[u]
<1>1. SerialTypeOK /\ r \in UnitRec /\ Mode(u[1]) # "keep" /\ u[1] \in 0..N
  BY NotKeep, UnitsShape DEF OrderInv, SerialTypeOK, PushBack
<1>2. /\ UNCHANGED <<pipeline, plserial, mutex, caller, log>> /\ queue' = [queue EXCEPT ![u[1]] = Append(@, r.item)]
      /\ unit' = [unit EXCEPT ![u].pc = "run", ![u].item = NoItem]
  BY DEF PushBack
<1>3. "run" \in Pcs /\ NoItem \in Item /\ r.item \in Item
  BY <1>1, NoItemType, WindowType DEF Pcs
<1>4. PICK r2 : Stepped(u, r2) /\ Replaced(r, r2, "run", NoItem)
  BY <1>1, <1>2, <1>3, ReplacedFields
<1>5. queue' \in [0..N -> Seq(Item)]
  BY <1>1, <1>2, <1>3, PushedType
<1>6. Others(u)
  BY <1>1, <1>2, <1>5 DEF Others, SerialTypeOK
<1>7. PushMap(r, r.item, r2, Itself(r2), ItemPlace)
  BY <1>4, PushItem
<1>8. OwnStage(u, r2, plserial'[u[1]], log'[u[1]])
  <2>1. r2.pc \notin SerialPcs \cup FlushPcs
    BY <1>4 DEF Replaced, SerialPcs, FlushPcs
  <2> QED
    BY <2>1, <1>1, <1>2, OwnPlain
<1> QED
  BY <1>2, <1>3, <1>4, <1>6, <1>7, <1>8, PushStep

\* run_serial_step_fast: the push of what was left in the overflow.
LEMMA FlushPushStep ==
    ASSUME OrderInv, NEW u \in Units, FlushPush(u)
    PROVE  OrderInv'
<1> DEFINE r == unit[u]
<1>1. SerialTypeOK /\ r \in UnitRec /\ u[1] \in 0..N /\ r.pc = "push_flush"
  BY UnitsShape DEF OrderInv, SerialTypeOK, FlushPush
<1>2. /\ UNCHANGED <<pipeline, plserial, mutex, caller, log>>
      /\ unit' = [unit EXCEPT ![u].pc = "flush", ![u].item = NoItem]
  BY DEF FlushPush
<1>3. "flush" \in Pcs /\ NoItem \in Item /\ r.item \in Item
  BY <1>1, NoItemType, WindowType DEF Pcs
<1>4. PICK r2 : Stepped(u, r2) /\ Replaced(r, r2, "flush", NoItem)
  BY <1>1, <1>2, <1>3, ReplacedFields
<1>5. OwnStage(u, r, plserial[u[1]], log[u[1]])
  BY OwnInv
<1>6. Mode(u[1]) = "keep" /\ StageInv(r, plserial[u[1]], log[u[1]])
  BY <1>1, <1>5 DEF OwnStage, FlushPcs
<1>7. StageInv(r2, plserial[u[1]], log[u[1]])
  <2>1. r2.pc \in KeepPcs /\ r2.pc \notin WaitPcs /\ r2.pc \notin SerialPcs /\ r2.pc # "new" /\ r2.pc \in FlushPcs
        /\ r2.pc # "serial" /\ r2.pc # "push_serial"
    BY <1>4 DEF Replaced, KeepPcs, WaitPcs, SerialPcs, FlushPcs
  <2>2. Increasing(log[u[1]]) /\ \A x \in r.overflow : x.plserial >= 1 /\ LogBelow(log[u[1]], x.plserial)
    BY <1>1, <1>6 DEF StageInv, FlushPcs
  <2>3. r2.overflow = r.overflow
    BY <1>4 DEF Replaced
  <2> QED
    BY <2>1, <2>2, <2>3 DEF StageInv
<1>8. OwnStage(u, r2, plserial'[u[1]], log'[u[1]])
  BY <1>2, <1>6, <1>7 DEF OwnStage
<1>9. PushMap(r, r.item, r2, Itself(r2), ItemPlace) /\ Lesser(r, r2)
  BY <1>4, PushItem
<1>10. CASE queue' = queue
  <2>1. Others(u)
    BY <1>1, <1>2, <1>10, OthersSame
  <2> QED
    BY <1>2, <1>4, <1>8, <1>9, <1>10, <2>1, QuietStep
<1>11. CASE queue' = [queue EXCEPT ![u[1]] = Append(@, r.item)]
  <2>1. queue' \in [0..N -> Seq(Item)]
    BY <1>1, <1>3, <1>11, PushedType
  <2>2. Others(u)
    BY <1>1, <1>2, <2>1 DEF Others, SerialTypeOK
  <2> QED
    BY <1>2, <1>3, <1>4, <1>8, <1>9, <1>11, <2>2, PushStep
<1> QED
  BY <1>10, <1>11 DEF FlushPush, Deliver

----------------------------------------------------------------------------
(* The callers *)

\* What the callers and the owner leave alone.
LEMMA NoUnitStep ==
    ASSUME OrderInv, UNCHANGED <<pipeline, unit, log>>, SerialTypeOK', CallerInv',
           plserial' \in [0..N -> Nat], \A k \in Stages : plserial'[k] = plserial[k],
           Fine(queue', unit', Issued')
    PROVE  OrderInv'
<1>1. Fine(queue, unit, Issued)'
  BY FinePrimed
<1>2. KeepInv'
  <2>1. Units' = Units /\ \A k : Mode(k)' = Mode(k)
    BY SamePipeline
  <2>2. ASSUME NEW v \in Units
        PROVE  IF Mode(v[1]) = "keep" THEN StageInv(unit'[v], plserial'[v[1]], log'[v[1]])
               ELSE unit'[v].pc \notin SerialPcs \cup FlushPcs /\ log'[v[1]] = <<>>
    <3>1. v[1] \in Stages
      BY UnitsShape DEF OrderInv, SerialTypeOK
    <3> QED
      BY <3>1 DEF OrderInv, KeepInv
  <2> QED
    BY <2>1, <2>2 DEF KeepInv
<1> QED
  BY <1>1, <1>2 DEF OrderInv

\* enqueue takes the lock and reads the serial.
LEMMA EnqueueStep ==
    ASSUME OrderInv, NEW c \in Callers, Enqueue(c)
    PROVE  OrderInv'
<1>1. SerialTypeOK /\ CallerInv /\ pipeline \in Pipelines /\ Fine(queue, unit, Issued)
  BY DEF OrderInv, SerialTypeOK
<1>2. /\ UNCHANGED <<pipeline, queue, plserial, unit, log>> /\ mutex = 0 /\ mutex' = c
      /\ caller' = [caller EXCEPT ![c].base = plserial[0]] /\ caller[c].done < Len(Batch(c))
  BY DEF Enqueue
<1>3. N' = N /\ Stages' = Stages /\ Units' = Units /\ Callers' = Callers /\ (\A k : Mode(k)' = Mode(k))
      /\ \A d : Batch(d)' = Batch(d)
  BY <1>2, SamePipeline
<1>4. c # 0 /\ Len(Batch(c)) \in Nat /\ 0 \in 0..N
  BY <1>1, CallersShape, StagesShape
<1>5. plserial[0] \in Nat /\ caller[c] \in [done : Nat, base : Nat]
  BY <1>1, <1>4 DEF SerialTypeOK
<1>6. caller'[c].base = plserial[0] /\ caller'[c].done = caller[c].done
      /\ (\A d \in Callers : d # c => caller'[d] = caller[d])
      /\ caller' \in [Callers -> [done : Nat, base : Nat]]
  BY <1>1, <1>2, <1>5 DEF SerialTypeOK
<1>7. SerialTypeOK'
  BY <1>1, <1>2, <1>3, <1>6 DEF SerialTypeOK
<1>8. caller[c].done = 0
  <2>1. caller[c].done \in {0, Len(Batch(c))}
    BY <1>1, <1>2, <1>4 DEF CallerInv
  <2> QED
    BY <2>1, <1>2, <1>4
<1>9. CallerInv'
  <2>1. ASSUME NEW d \in Callers
        PROVE  IF mutex' = d THEN caller'[d].base = plserial'[0] /\ caller'[d].done < Len(Batch(d))
                             ELSE caller'[d].done \in {0, Len(Batch(d))}
    <3>1. CASE d = c
      BY <3>1, <1>2, <1>6
    <3>2. CASE d # c
      <4>1. d # 0
        BY <1>1, CallersShape
      <4>2. caller[d].done \in {0, Len(Batch(d))}
        BY <4>1, <1>1, <1>2 DEF CallerInv
      <4> QED
        BY <4>2, <3>2, <1>2, <1>6
    <3> QED
      BY <3>1, <3>2
  <2> QED
    BY <2>1, <1>3 DEF CallerInv
<1>10. Issued' = Issued
  <2>1. caller'[c].base + caller'[c].done = plserial[0]
    BY <1>5, <1>6, <1>8
  <2> QED
    BY <2>1, <1>2, <1>3, <1>4 DEF Issued
<1>11. Fine(queue', unit', Issued')
  BY <1>1, <1>2, <1>10
<1>12. plserial' \in [0..N -> Nat] /\ \A k \in Stages : plserial'[k] = plserial[k]
  BY <1>1, <1>2 DEF SerialTypeOK
<1> QED
  BY <1>2, <1>7, <1>9, <1>11, <1>12, NoUnitStep

\* enqueue_impl: one push_back of its loop.
LEMMA EnqueuePushStep ==
    ASSUME OrderInv, NEW c \in Callers, EnqueuePush(c)
    PROVE  OrderInv'
<1> DEFINE i == caller[c].done + 1
           s == caller[c].base + i
           x == [plserial |-> s, task |-> Batch(c)[i]]
<1>1. SerialTypeOK /\ CallerInv /\ pipeline \in Pipelines /\ Fine(queue, unit, Issued)
  BY DEF OrderInv, SerialTypeOK
<1>2. /\ UNCHANGED <<pipeline, unit, log>> /\ mutex = c /\ queue' = [queue EXCEPT ![0] = Append(@, x)]
      /\ caller' = [caller EXCEPT ![c].done = i]
      /\ \/ i < Len(Batch(c)) /\ plserial' = plserial /\ mutex' = mutex
         \/ i = Len(Batch(c)) /\ plserial' = [plserial EXCEPT ![0] = s] /\ mutex' = 0
  BY DEF EnqueuePush
<1>3. N' = N /\ Stages' = Stages /\ Units' = Units /\ Callers' = Callers /\ (\A k : Mode(k)' = Mode(k))
      /\ \A d : Batch(d)' = Batch(d)
  BY <1>2, SamePipeline
<1>4. c # 0 /\ Batch(c) \in Seq(Nat) /\ Len(Batch(c)) \in Nat /\ 0 \in 0..N /\ Stages = 1..N /\ N \in Nat
  BY <1>1, CallersShape, StagesShape
<1>5. caller[c].base = plserial[0] /\ caller[c].done < Len(Batch(c)) /\ caller[c].done \in Nat /\ plserial[0] \in Nat
  BY <1>1, <1>2, <1>4 DEF CallerInv, SerialTypeOK
<1>6. i \in Nat /\ s \in Nat /\ i \in 1..Len(Batch(c)) /\ s = plserial[0] + caller[c].done + 1 /\ i <= Len(Batch(c))
  BY <1>4, <1>5, SMTT(30)
<1>7. Batch(c)[i] \in Nat
  BY <1>4, <1>6, Elements
<1>8. x \in Item /\ x.plserial = s
  BY <1>6, <1>7 DEF Item
<1> HIDE DEF x
<1>9. caller'[c].done = i /\ caller'[c].base = plserial[0] /\ (\A d \in Callers : d # c => caller'[d] = caller[d])
      /\ caller' \in [Callers -> [done : Nat, base : Nat]]
  <2>1. caller \in [Callers -> [done : Nat, base : Nat]]
    BY <1>1 DEF SerialTypeOK
  <2> HIDE DEF i
  <2> QED
    BY <2>1, <1>2, <1>5, <1>6
<1>10. queue' \in [0..N -> Seq(Item)]
  BY <1>1, <1>2, <1>4, <1>8, PushedType
<1>11. plserial' \in [0..N -> Nat] /\ (\A k \in 0..N : k # 0 => plserial'[k] = plserial[k])
       /\ (\A k \in Stages : plserial'[k] = plserial[k])
  <2>1. plserial \in [0..N -> Nat]
    BY <1>1 DEF SerialTypeOK
  <2>2. plserial' = plserial \/ plserial' = [plserial EXCEPT ![0] = s]
    BY <1>2
  <2>3. s \in Nat /\ 0 \in 0..N /\ \A k \in Stages : k \in 0..N /\ k # 0
    BY <1>4, <1>6
  <2> HIDE DEF s, i
  <2>4. plserial' \in [0..N -> Nat] /\ \A k \in 0..N : k # 0 => plserial'[k] = plserial[k]
    BY <2>1, <2>2, <2>3
  <2> QED
    BY <2>3, <2>4
<1>12. SerialTypeOK'
  BY <1>1, <1>2, <1>3, <1>9, <1>10, <1>11 DEF SerialTypeOK
<1>13. CallerInv'
  <2>1. ASSUME NEW d \in Callers
        PROVE  IF mutex' = d THEN caller'[d].base = plserial'[0] /\ caller'[d].done < Len(Batch(d))
                             ELSE caller'[d].done \in {0, Len(Batch(d))}
    <3>0. d # 0
      BY <1>1, CallersShape
    <3>1. CASE d = c
      BY <3>0, <3>1, <1>2, <1>9
    <3>2. CASE d # c
      <4>2. caller[d].done \in {0, Len(Batch(d))}
        BY <3>2, <1>1, <1>2 DEF CallerInv
      <4>3. mutex' # d
        BY <3>0, <3>2, <1>2
      <4> QED
        BY <4>2, <4>3, <3>2, <1>9
    <3> QED
      BY <3>1, <3>2
  <2> QED
    BY <2>1, <1>3 DEF CallerInv
<1>14. Issued \in [0..N -> Nat] /\ Typed(queue, unit)
  BY <1>1, IssuedType
<1>15. Issued[0] = plserial[0] + caller[c].done
  BY <1>2, <1>4, <1>5 DEF Issued
<1>16. Issued'[0] = s
  <2>1. CASE i < Len(Batch(c)) /\ plserial' = plserial /\ mutex' = mutex
    BY <2>1, <1>2, <1>3, <1>4, <1>6, <1>9, <1>5 DEF Issued
  <2>2. CASE i = Len(Batch(c)) /\ plserial' = [plserial EXCEPT ![0] = s] /\ mutex' = 0
    <3>1. plserial'[0] = s
      BY <2>2, <1>1, <1>4 DEF SerialTypeOK
    <3> QED
      BY <3>1, <2>2, <1>3, <1>4 DEF Issued
  <2> QED
    BY <2>1, <2>2, <1>2
<1>17. \A g \in 0..N : g # 0 => Issued'[g] = Issued[g]
  BY <1>3, <1>11 DEF Issued
<1>18. Issued' \in [0..N -> Nat] /\ \A g \in 0..N : Issued[g] <= Issued'[g]
  <2>1. DOMAIN Issued' = 0..N /\ Issued' = [g \in 0..N |-> Issued'[g]]
    BY <1>3 DEF Issued
  <2>2. \A g \in 0..N : Issued'[g] \in Nat
    BY <1>6, <1>14, <1>16, <1>17
  <2>3. \A g \in 0..N : Issued[g] <= Issued'[g]
    <3> TAKE g \in 0..N
    <3>1. Issued[g] \in Nat /\ Issued'[g] \in Nat
      BY <2>2, <1>14
    <3>2. CASE g = 0
      BY <3>2, <1>5, <1>6, <1>15, <1>16
    <3>3. CASE g # 0
      BY <3>1, <3>3, <1>17
    <3> QED
      BY <3>2, <3>3
  <2> QED
    BY <2>1, <2>2, <2>3
<1>19. x.plserial = Issued[0] + 1 /\ Issued'[0] = Issued[0] + 1
  BY <1>5, <1>6, <1>8, <1>15, <1>16
<1>20. Fine([queue EXCEPT ![0] = Append(@, x)], unit, Issued')
  BY <1>1, <1>8, <1>14, <1>18, <1>19, FineEnqueue
<1>21. Fine(queue', unit', Issued')
  BY <1>2, <1>20
<1> QED
  BY <1>2, <1>11, <1>12, <1>13, <1>21, NoUnitStep

----------------------------------------------------------------------------
(* The serial stages *)

\* The remainder of numbers below twice the divisor.
LEMMA ModSmall ==
    ASSUME NEW n \in Nat, NEW W \in Nat, W >= 1
    PROVE  (n < W => n % W = n) /\ (W <= n /\ n < 2 * W => n % W = n - W) /\ n % W \in 0..(W - 1)
  OBVIOUS

\* The place of a serial in the window does not change when the window moves.
LEMMA WindowMoves ==
    ASSUME NEW W \in Nat, W >= 1, NEW h \in Nat, h < W, NEW d \in Nat, 1 <= d, d < W
    PROVE  (h + d) % W = (((h + 1) % W) + (d - 1)) % W
<1>1. CASE h + 1 < W
  <2>1. (h + 1) % W = h + 1
    <3>1. h + 1 \in Nat
      OBVIOUS
    <3> QED
      BY <3>1, <1>1, ModSmall
  <2> QED
    BY <2>1
<1>2. CASE h + 1 = W
  <2>1. (h + 1) % W = 0
    BY <1>2, ModSmall
  <2>2. (d - 1) % W = d - 1
    <3>1. d - 1 \in Nat /\ d - 1 < W
      OBVIOUS
    <3> QED
      BY <3>1, ModSmall
  <2>3. (h + d) % W = h + d - W
    <3> DEFINE n == h + d
    <3>1. n \in Nat /\ W <= n /\ n < 2 * W
      BY <1>2
    <3> HIDE DEF n
    <3>2. n % W = n - W
      BY <3>1, ModSmall
    <3> QED
      BY <3>2 DEF n
  <2> QED
    BY <1>2, <2>1, <2>2, <2>3
<1> QED
  BY <1>1, <1>2

\* What process is called for next keeps the log in order.
LEMMA LogAppend ==
    ASSUME NEW lg \in Seq(Nat), NEW s \in Nat, Increasing(lg), LogBelow(lg, s)
    PROVE  /\ Append(lg, s) \in Seq(Nat) /\ Increasing(Append(lg, s))
           /\ \A t \in Nat : s < t => LogBelow(Append(lg, s), t)
<1> DEFINE l2 == Append(lg, s)
<1>1. /\ l2 \in Seq(Nat) /\ Len(lg) \in Nat /\ Len(l2) = Len(lg) + 1
      /\ \A i \in 1..Len(l2) : i # Len(lg) + 1 => l2[i] = lg[i] /\ i \in 1..Len(lg)
      /\ l2[Len(lg) + 1] = s
  BY AppendToQueue
<1>2. \A i \in 1..Len(lg) : lg[i] \in Nat
  BY Elements
<1> HIDE DEF l2
<1>3. Increasing(l2)
  <2>1. ASSUME NEW i \in 1..Len(l2), NEW j \in 1..Len(l2), i < j
        PROVE  l2[i] < l2[j]
    <3>1. i # Len(lg) + 1 /\ i \in 1..Len(lg) /\ l2[i] = lg[i]
      BY <1>1, <2>1
    <3>2. CASE j = Len(lg) + 1
      BY <3>1, <3>2, <1>1 DEF LogBelow
    <3>3. CASE j # Len(lg) + 1
      BY <3>1, <3>3, <2>1, <1>1 DEF Increasing
    <3> QED
      BY <3>2, <3>3
  <2> QED
    BY <2>1 DEF Increasing
<1>4. \A t \in Nat : s < t => LogBelow(l2, t)
  BY <1>1, <1>2 DEF LogBelow
<1> QED
  BY <1>1, <1>3, <1>4 DEF l2

\* A log below s is below what is larger.
LEMMA LogGrows ==
    ASSUME NEW lg \in Seq(Nat), NEW s \in Nat, NEW t \in Nat, s <= t, LogBelow(lg, s)
    PROVE  LogBelow(lg, t)
<1>1. Len(lg) \in Nat /\ \A i \in 1..Len(lg) : lg[i] \in Nat
  BY Elements
<1> QED
  BY <1>1 DEF LogBelow

\* Two places of a unit do not hold the same serial.
LEMMA HoldsUnique ==
    ASSUME OrderInv, NEW u \in Units, NEW w1 \in Holds(unit[u]), NEW w2 \in Holds(unit[u]),
           SerialIn(unit[u], w1) # 0, SerialIn(unit[u], w1) = SerialIn(unit[u], w2)
    PROVE  w1 = w2
<1> DEFINE p1 == <<"unit", u, w1>>
           p2 == <<"unit", u, w2>>
<1>0. AllPlaces(queue, unit)
  BY PlacesShape
<1>1. p1 \in Places(queue, unit) /\ StageOf(p1) = u[1] /\ SerialAt(queue, unit, p1) = SerialIn(unit[u], w1)
  BY <1>0 DEF AllPlaces
<1>2. p2 \in Places(queue, unit) /\ StageOf(p2) = u[1] /\ SerialAt(queue, unit, p2) = SerialIn(unit[u], w2)
  BY <1>0 DEF AllPlaces
<1>3. Same(u[1], u[1])
  BY UnitsShape, SameIsEquivalence DEF OrderInv, SerialTypeOK
<1>4. p1 = p2
  <2> HIDE DEF p1, p2
  <2> QED
    BY <1>1, <1>2, <1>3 DEF OrderInv, Fine, Unique
<1> QED
  BY <1>4

\* What a serial stage pops has a serial that is not in its hands.
LEMMA PoppedUnique ==
    ASSUME OrderInv, NEW u \in Units, Mode(u[1]) = "keep", queue[u[1] - 1] # <<>>, NEW w \in Holds(unit[u]),
           Head(queue[u[1] - 1]).plserial # 0
    PROVE  SerialIn(unit[u], w) # Head(queue[u[1] - 1]).plserial
<1> DEFINE k == u[1] - 1
           p1 == <<"unit", u, w>>
           p2 == <<"queue", k, 1>>
<1>0. pipeline \in Pipelines /\ k \in 0..N /\ u[1] \in Stages /\ queue[k] \in Seq(Item)
  BY UnitsShape DEF OrderInv, SerialTypeOK
<1>1. p1 \in Places(queue, unit) /\ StageOf(p1) = u[1] /\ SerialAt(queue, unit, p1) = SerialIn(unit[u], w)
  BY UnitPlace, ZenonT(30)
<1>2. Head(queue[k]) = queue[k][1] /\ 1 \in 1..Len(queue[k])
  BY <1>0, TailOfQueue
<1>3. p2 \in Places(queue, unit) /\ StageOf(p2) = k /\ SerialAt(queue, unit, p2) = queue[k][1].plserial
  BY <1>0, <1>2, QueuePlace
<1>4. Same(u[1], k)
  BY <1>0, SameAsPrev
<1>5. p1 # p2
  OBVIOUS
<1> QED
  <2> HIDE DEF p1, p2
  <2>1. ~(SerialAt(queue, unit, p1) # 0 /\ SerialAt(queue, unit, p1) = SerialAt(queue, unit, p2))
    BY <1>1, <1>3, <1>4, <1>5 DEF OrderInv, Fine, Unique
  <2> QED
    BY <2>1, <1>1, <1>2, <1>3

\* What the invariant says of a unit of a serial stage.
LEMMA KeepUnit ==
    ASSUME OrderInv, NEW u \in Units, Mode(u[1]) = "keep"
    PROVE  /\ StageInv(unit[u], plserial[u[1]], log[u[1]]) /\ plserial[u[1]] \in Nat /\ log[u[1]] \in Seq(Nat)
           /\ unit[u] \in UnitRec /\ SerialTypeOK /\ pipeline \in Pipelines
           /\ u[1] \in Stages /\ u[1] \in 0..N
<1>1. u[1] \in Stages /\ u[1] \in 0..N /\ pipeline \in Pipelines
  BY UnitsShape DEF OrderInv, SerialTypeOK
<1> QED
  BY <1>1, OwnInv DEF OwnStage, OrderInv, SerialTypeOK

\* The items of the window and of the overflow, and those of the overflow they become.
LEMMA GatheredFields ==
    ASSUME NEW r \in UnitRec
    PROVE  /\ Gathered(r) \in UnitRec /\ Gathered(r).pc = "flush" /\ Gathered(r).item = r.item
           /\ \A i \in 0..(Window - 1) : Gathered(r).cache[i].plserial = 0 /\ Gathered(r).cache[i] = NoItem
           /\ \A x \in r.overflow : x \in Gathered(r).overflow
           /\ \A i \in 0..(Window - 1) : r.cache[i].plserial # 0 => r.cache[i] \in Gathered(r).overflow
           /\ \A x \in Gathered(r).overflow :
                x \in r.overflow \/ \E i \in 0..(Window - 1) : r.cache[i] = x /\ x.plserial # 0
<1> DEFINE D == 0..(Window - 1)
           c == [i \in DOMAIN r.cache |-> NoItem]
           o == r.overflow \cup {r.cache[i] : i \in {j \in DOMAIN r.cache : r.cache[j].plserial # 0}}
<1>1. r.cache \in [D -> Item] /\ DOMAIN r.cache = D /\ r.overflow \subseteq Item /\ \A i \in D : r.cache[i] \in Item
  BY WindowType
<1>2. c \in [D -> Item] /\ \A i \in D : c[i].plserial = 0 /\ c[i] = NoItem
  BY <1>1, NoItemType
<1>3. /\ o \in SUBSET Item /\ \A x \in o : x \in r.overflow \/ \E i \in D : r.cache[i] = x /\ x.plserial # 0
      /\ (\A x \in r.overflow : x \in o) /\ \A i \in D : r.cache[i].plserial # 0 => r.cache[i] \in o
  BY <1>1
<1>4. Gathered(r) = [r EXCEPT !.pc = "flush", !.cache = c, !.overflow = o]
  BY DEF Gathered
<1>5. "flush" \in Pcs
  BY DEF Pcs
<1> HIDE DEF c, o
<1>6. /\ Gathered(r) \in UnitRec /\ Gathered(r).pc = "flush" /\ Gathered(r).item = r.item
      /\ Gathered(r).cache = c /\ Gathered(r).overflow = o
  BY <1>2, <1>3, <1>4, <1>5 DEF UnitRec
<1> QED
  BY <1>2, <1>3, <1>6

\* Gathered moves the items of the window to the overflow.
LEMMA GatheredMap ==
    ASSUME NEW r \in UnitRec
    PROVE  \E F : UnitMap(r, Gathered(r), F, NoHold)
<1> DEFINE r2 == Gathered(r)
           D == 0..(Window - 1)
           At(x) == CHOOSE i \in D : r.cache[i] = x /\ x.plserial # 0
           From(w) == IF w[1] = "over" /\ w[2] \notin r.overflow THEN <<"cache", At(w[2])>> ELSE w
           F == [w \in Holds(r2) |-> From(w)]
<1>1. ASSUME NEW w \in Holds(r2), SerialIn(r2, w) # 0
      PROVE  /\ From(w) \in Holds(r) /\ SerialIn(r, From(w)) = SerialIn(r2, w)
             /\ \/ w = <<"item", 0>> /\ From(w) = w
                \/ w = <<"over", w[2]>> /\ w[2] \in r.overflow /\ From(w) = w
                \/ /\ w = <<"over", w[2]>> /\ At(w[2]) \in D /\ r.cache[At(w[2])] = w[2]
                   /\ From(w) = <<"cache", At(w[2])>>
  <2>1. CASE w = <<"item", 0>>
    <3>1. From(w) = w
      BY <2>1
    <3>2. SerialIn(r2, w) = r2.item.plserial
      BY <2>1, HoldShape
    <3>3. w \in Holds(r) /\ SerialIn(r, w) = r.item.plserial
      BY <2>1, HoldShape
    <3>4. r2.item = r.item
      BY GatheredFields
    <3> HIDE DEF r2, From
    <3> QED
      BY <2>1, <3>1, <3>2, <3>3, <3>4
  <2>2. CASE w[1] = "cache" /\ w[2] \in D
    BY <1>1, <2>2, HoldParts, GatheredFields
  <2>3. CASE w[1] = "over" /\ w[2] \in r2.overflow /\ w = <<"over", w[2]>> /\ SerialIn(r2, w) = w[2].plserial
    <3>1. CASE w[2] \in r.overflow
      <4>1. From(w) = w
        BY <3>1
      <4>2. w \in Holds(r) /\ SerialIn(r, w) = w[2].plserial
        BY <2>3, <3>1, HoldShape
      <4> HIDE DEF From, r2
      <4> QED
        BY <4>1, <4>2, <2>3, <3>1
    <3>2. CASE w[2] \notin r.overflow
      <4>1. From(w) = <<"cache", At(w[2])>>
        BY <2>3, <3>2
      <4>2. \E i \in D : r.cache[i] = w[2] /\ w[2].plserial # 0
        BY <2>3, <3>2, GatheredFields
      <4>3. At(w[2]) \in D /\ r.cache[At(w[2])] = w[2]
        BY <4>2
      <4> HIDE DEF From, r2, At
      <4>4. <<"cache", At(w[2])>> \in Holds(r) /\ SerialIn(r, <<"cache", At(w[2])>>) = r.cache[At(w[2])].plserial
        BY <4>3, HoldShape
      <4> QED
        BY <4>1, <4>3, <4>4, <2>3
    <3> QED
      BY <3>1, <3>2
  <2> QED
    BY <2>1, <2>2, <2>3, HoldParts
<1>2. ASSUME NEW w1 \in Holds(r2), NEW w2 \in Holds(r2), SerialIn(r2, w1) # 0, SerialIn(r2, w2) # 0,
             From(w1) = From(w2)
      PROVE  w1 = w2
  <2> HIDE DEF From, r2, At
  <2> QED
    BY <1>1, <1>2
<1>3. \A w \in Holds(r2) : F[w] = From(w)
  OBVIOUS
<1> HIDE DEF F, From, r2, At
<1>4. UnitMap(r, r2, F, NoHold)
  BY <1>1, <1>2, <1>3 DEF UnitMap
<1> QED
  BY <1>4 DEF r2

\* A step of a serial stage that moves items within the unit.
LEMMA MapStep ==
    ASSUME OrderInv, NEW u \in Units, NEW r2, Stepped(u, r2), Others(u), queue' = queue,
           Mode(u[1]) = "keep", NEW F, UnitMap(unit[u], r2, F, NoHold),
           OwnStage(u, r2, plserial'[u[1]], log'[u[1]])
    PROVE  OrderInv'
<1>1. SerialTypeOK /\ Fine(queue, unit, Issued) /\ pipeline \in Pipelines
  BY DEF OrderInv, SerialTypeOK
<1>2. Issued' = Issued /\ Issued \in [0..N -> Nat] /\ Typed(queue, unit)
  BY <1>1, SameIssued, IssuedType
<1>3. FreshAt(u[1], r2, NoHold, Issued, Issued)
  BY NoHoldIsNone
<1>4. r2 \in UnitRec /\ unit' = [unit EXCEPT ![u] = r2]
  BY DEF Stepped
<1>5. \A g \in 0..N : Issued[g] <= Issued[g]
  BY <1>2
<1>6. Fine(queue, [unit EXCEPT ![u] = r2], Issued)
  BY <1>1, <1>2, <1>3, <1>4, <1>5, FineUnit
<1>7. Fine(queue', unit', Issued')
  BY <1>2, <1>4, <1>6
<1> QED
  BY <1>7, UnitStep

\* isPrevRunning: the queue is empty, and the unit ends or flushes.
LEMMA ReadEmptyStep ==
    ASSUME OrderInv, NEW u \in Units, ReadEmpty(u)
    PROVE  OrderInv'
<1> DEFINE r == unit[u]
           e == plserial[u[1]]
           lg == log[u[1]]
<1>1. SerialTypeOK /\ r.pc = "empty" /\ UNCHANGED <<pipeline, queue, plserial, mutex, caller, log>>
  BY DEF OrderInv, ReadEmpty
<1>2. /\ "pop" \in Pcs /\ "left" \in Pcs /\ "pop" \notin SerialPcs \cup FlushPcs
      /\ "left" \notin SerialPcs \cup FlushPcs /\ "pop" \in WaitPcs /\ r.pc \in WaitPcs
  BY <1>1 DEF Pcs, SerialPcs, FlushPcs, WaitPcs
<1>3. CASE Goto(u, "pop")
  BY <1>1, <1>2, <1>3, PcStep
<1>4. CASE Mode(u[1]) # "keep" /\ unit' = [unit EXCEPT ![u] = [@ EXCEPT !.pc = "left"]]
  <2>1. Goto(u, "left")
    BY <1>1, <1>4 DEF Goto, SerialTypeOK
  <2> QED
    BY <1>1, <1>2, <1>4, <2>1, PcStep
<1>5. CASE Mode(u[1]) = "keep" /\ unit' = [unit EXCEPT ![u] = Gathered(@)]
  <2> DEFINE r2 == Gathered(r)
  <2>1. StageInv(r, e, lg) /\ e \in Nat /\ lg \in Seq(Nat) /\ r \in UnitRec
    BY <1>5, KeepUnit
  <2>2. /\ r2 \in UnitRec /\ r2.pc = "flush"
        /\ \A x \in r2.overflow : x \in r.overflow \/ \E i \in 0..(Window - 1) : r.cache[i] = x /\ x.plserial # 0
    BY <2>1, GatheredFields
  <2>3. PICK F : UnitMap(r, r2, F, NoHold)
    BY <2>1, GatheredMap
  <2> HIDE DEF r2
  <2>4. Stepped(u, r2) /\ Others(u)
    BY <1>1, <1>5, <2>2, OthersSame DEF Stepped, r2
  <2>5. WindowOK(r, e) /\ LogBelow(lg, e) /\ Increasing(lg)
    BY <1>2, <2>1 DEF StageInv
  <2>6. \A x \in r2.overflow : x.plserial >= 1 /\ LogBelow(lg, x.plserial)
    <3> TAKE x \in r2.overflow
    <3>1. x.plserial \in Nat
      BY <2>2, WindowType
    <3>2. e <= x.plserial /\ e >= 1
      <4>1. CASE x \in r.overflow
        BY <4>1, <3>1, <2>1, <2>5 DEF WindowOK
      <4>2. CASE \E i \in 0..(Window - 1) : r.cache[i] = x /\ x.plserial # 0
        BY <4>2, <2>5 DEF WindowOK
      <4> QED
        BY <4>1, <4>2, <2>2
    <3> QED
      BY <3>1, <3>2, <2>1, <2>5, LogGrows
  <2>7. StageInv(r2, e, lg)
    <3>1. r2.pc \in KeepPcs /\ r2.pc \notin WaitPcs /\ r2.pc \notin SerialPcs /\ r2.pc # "new"
          /\ r2.pc # "serial" /\ r2.pc # "push_serial"
      BY <2>2 DEF KeepPcs, WaitPcs, SerialPcs, FlushPcs
    <3> QED
      BY <3>1, <2>5, <2>6 DEF StageInv
  <2>8. OwnStage(u, r2, plserial'[u[1]], log'[u[1]])
    BY <1>1, <1>5, <2>7 DEF OwnStage
  <2> QED
    BY <1>1, <1>5, <2>3, <2>4, <2>8, MapStep
<1> QED
  BY <1>3, <1>4, <1>5 DEF ReadEmpty

\* A set of numbers has a least one.
LEMMA LeastNat ==
    ASSUME NEW T, T \subseteq Nat, T # {}
    PROVE  \E x \in T : \A y \in T : x <= y
<1> DEFINE R == OpToRel(<, Nat)
<1>1. IsWellFoundedOn(R, Nat)
  BY NatLessThanWellFounded
<1>2. \A x, y \in Nat : <<y, x>> \notin R => x <= y
  BY DEF OpToRel
<1> HIDE DEF R
<1>3. \E x \in T : \A y \in T : ~ (<<y, x>> \in R)
  BY <1>1, WFMin
<1> QED
  BY <1>2, <1>3

\* Top is the item with the least serial.
LEMMA TopIsLeast ==
    ASSUME NEW S, S \subseteq Item, S # {}
    PROVE  Top(S) \in S /\ \A y \in S : Top(S).plserial <= y.plserial
<1> DEFINE T == {x.plserial : x \in S}
<1>1. T \subseteq Nat /\ T # {}
  BY DEF Item
<1>2. \E n \in T : \A m \in T : n <= m
  <2> HIDE DEF T
  <2> QED
    BY <1>1, LeastNat
<1>3. \E x \in S : \A y \in S : x.plserial <= y.plserial
  BY <1>2
<1> QED
  BY <1>3 DEF Top

\* What the unit is after process.
SerialDone(r, r2, t) ==
    /\ r2 \in UnitRec /\ r2.pc = "push_serial" /\ r2.item = r.item /\ r2.head = r.head /\ r2.overflow = r.overflow
    /\ \A i \in 0..(Window - 1) : r2.cache[i].plserial = r.cache[i].plserial
    /\ \A i \in 0..(Window - 1) : r2.cache[i] = IF i = r.head THEN [r.cache[i] EXCEPT !.task = t] ELSE r.cache[i]

FlushDone(r, r2, x, t) ==
    /\ r2 \in UnitRec /\ r2.pc = "push_flush" /\ r2.item.plserial = x.plserial /\ r2.head = r.head
    /\ r2.item = [x EXCEPT !.task = t] /\ r2.cache = r.cache /\ r2.overflow = r.overflow \ {x}

\* What process does to the local variables of a serial stage.
LEMMA ProcessedFields ==
    ASSUME NEW r \in UnitRec, NEW t \in Nat
    PROVE  /\ r.pc = "serial" => SerialDone(r, Processed(r, t), t)
           /\ r.pc # "serial" /\ Turn(r) \in Item => FlushDone(r, Processed(r, t), Turn(r), t)
<1> DEFINE D == 0..(Window - 1)
<1>0. "push_serial" \in Pcs /\ "push_flush" \in Pcs
  BY DEF Pcs
<1>1. r.cache \in [D -> Item] /\ r.head \in D /\ r.overflow \in SUBSET Item
  BY WindowType
<1>2. CASE r.pc = "serial"
  <2> DEFINE y == [r.cache[r.head] EXCEPT !.task = t]
             c == [r.cache EXCEPT ![r.head] = y]
             r2 == [r EXCEPT !.pc = "push_serial", !.cache = c]
  <2>1. r.cache[r.head] \in Item
    BY <1>1
  <2>2. y \in Item /\ y.plserial = r.cache[r.head].plserial
    BY <2>1 DEF Item
  <2>3. Processed(r, t) = r2
    BY <1>2 DEF Processed
  <2> HIDE DEF y
  <2>4. /\ c \in [D -> Item] /\ \A i \in D : c[i].plserial = r.cache[i].plserial
        /\ \A i \in D : c[i] = IF i = r.head THEN y ELSE r.cache[i]
    BY <1>1, <2>2
  <2> HIDE DEF c
  <2>5. /\ r2 \in UnitRec /\ r2.pc = "push_serial" /\ r2.item = r.item /\ r2.head = r.head
        /\ r2.overflow = r.overflow /\ r2.cache = c
    BY <1>0, <2>4 DEF UnitRec
  <2> HIDE DEF r2
  <2> QED
    BY <1>2, <2>3, <2>4, <2>5 DEF SerialDone, y
<1>3. CASE r.pc # "serial" /\ Turn(r) \in Item
  <2> DEFINE x == Turn(r)
             y == [x EXCEPT !.task = t]
             o == r.overflow \ {x}
             r2 == [r EXCEPT !.pc = "push_flush", !.item = y, !.overflow = o]
  <2>2. y \in Item /\ y.plserial = x.plserial
    BY <1>3 DEF Item
  <2>3. Processed(r, t) = r2
    BY <1>3 DEF Processed
  <2>4. o \in SUBSET Item
    BY <1>1
  <2> HIDE DEF y, o
  <2>5. /\ r2 \in UnitRec /\ r2.pc = "push_flush" /\ r2.item = y /\ r2.head = r.head
        /\ r2.overflow = o /\ r2.cache = r.cache
    BY <1>0, <2>2, <2>4 DEF UnitRec
  <2> HIDE DEF r2, x
  <2>6. FlushDone(r, r2, x, t)
    BY <2>2, <2>5 DEF FlushDone, o, y
  <2> QED
    BY <1>3, <2>3, <2>6 DEF x
<1> QED
  BY <1>2, <1>3

\* The next item of the overflow becomes the unit's item.
LEMMA FlushMap ==
    ASSUME NEW r, NEW r2, NEW x, NEW t, FlushDone(r, r2, x, t), x \in r.overflow
    PROVE  \E F : UnitMap(r, r2, F, NoHold)
<1> DEFINE F == [w \in Holds(r2) |-> IF w = ItemPlace THEN <<"over", x>> ELSE w]
<1>1. SerialIn(r2, ItemPlace) = x.plserial /\ <<"over", x>> \in Holds(r) /\ SerialIn(r, <<"over", x>>) = x.plserial
  <2>1. SerialIn(r2, ItemPlace) = r2.item.plserial
    BY HoldShape DEF ItemPlace
  <2>2. <<"over", x>> \in Holds(r) /\ SerialIn(r, <<"over", x>>) = x.plserial
    BY HoldShape
  <2> QED
    BY <2>1, <2>2 DEF FlushDone
<1>2. ASSUME NEW w \in Holds(r2), w # ItemPlace
      PROVE  w \in Holds(r) /\ SerialIn(r, w) = SerialIn(r2, w) /\ w # <<"over", x>>
  <2>1. CASE w[1] = "cache" /\ w[2] \in 0..(Window - 1) /\ w = <<"cache", w[2]>>
    <3>1. SerialIn(r2, w) = r2.cache[w[2]].plserial
      BY <2>1, HoldShape
    <3>2. SerialIn(r, w) = r.cache[w[2]].plserial /\ w \in Holds(r)
      BY <2>1, HoldShape
    <3> QED
      BY <2>1, <3>1, <3>2 DEF FlushDone
  <2>2. CASE w[1] = "over" /\ w[2] \in r2.overflow /\ w = <<"over", w[2]>>
    <3>1. SerialIn(r2, w) = w[2].plserial
      BY <2>2, HoldShape
    <3>2. w[2] \in r.overflow /\ w[2] # x
      BY <2>2 DEF FlushDone
    <3>3. SerialIn(r, w) = w[2].plserial /\ w \in Holds(r)
      BY <2>2, <3>2, HoldShape
    <3> QED
      BY <2>2, <3>1, <3>2, <3>3
  <2> QED
    BY <1>2, <2>1, <2>2, HoldParts DEF ItemPlace
<1>3. UnitMap(r, r2, F, NoHold)
  BY <1>1, <1>2 DEF UnitMap
<1> QED
  BY <1>3

\* run_serial_step_fast: process is called for the item whose turn it is, in order.
LEMMA SerialProcessStep ==
    ASSUME OrderInv, NEW u \in Units, SerialProcess(u)
    PROVE  OrderInv'
<1> DEFINE r == unit[u]
           k == u[1]
           x == Turn(r)
           e == plserial[k]
           lg == log[k]
           lg2 == log'[k]
<1>1. Mode(k) = "keep" /\ r.pc \in {"serial", "flush"}
  <2>1. r.pc \in {"serial", "flush"}
    BY DEF SerialProcess, IsTurn
  <2>2. r.pc \in SerialPcs \cup FlushPcs
    BY <2>1 DEF SerialPcs, FlushPcs
  <2> QED
    BY <2>1, <2>2, OwnInv DEF OwnStage
<1>2. /\ StageInv(r, e, lg) /\ e \in Nat /\ lg \in Seq(Nat) /\ r \in UnitRec /\ SerialTypeOK
      /\ k \in Stages /\ k \in 0..N
  BY <1>1, KeepUnit
<1>3. /\ UNCHANGED <<pipeline, queue, plserial, mutex, caller>>
      /\ log' = IF x.task # NoTask THEN [log EXCEPT ![k] = Append(@, x.plserial)] ELSE log
  BY DEF SerialProcess
<1>4. x \in Item /\ x.plserial \in Nat /\ x.task \in Nat /\ LogBelow(lg, x.plserial)
      /\ (r.pc = "serial" => x = r.cache[r.head] /\ x.plserial = e)
      /\ (r.pc = "flush" => x \in r.overflow /\ \A y \in r.overflow : x.plserial <= y.plserial)
  <2>1. CASE r.pc = "serial"
    <3>1. x = r.cache[r.head] /\ x.plserial = e
      BY <2>1 DEF SerialProcess, IsTurn, Turn
    <3>2. LogBelow(lg, e)
      BY <1>2, <2>1 DEF StageInv
    <3> QED
      BY <2>1, <3>1, <3>2, <1>2, WindowType
  <2>2. CASE r.pc = "flush"
    <3>1. x = Top(r.overflow) /\ r.overflow # {} /\ r.overflow \subseteq Item
      BY <2>2, <1>2, WindowType DEF SerialProcess, IsTurn, Turn
    <3>2. x \in r.overflow /\ \A y \in r.overflow : x.plserial <= y.plserial
      BY <3>1, TopIsLeast
    <3>3. LogBelow(lg, x.plserial)
      BY <2>2, <3>2, <1>2 DEF StageInv, FlushPcs
    <3> QED
      BY <2>2, <3>2, <3>3, <1>2, WindowType
  <2> QED
    BY <2>1, <2>2, <1>1
<1> HIDE DEF x
<1>5. Increasing(lg)
  BY <1>2 DEF StageInv
<1>6. /\ lg2 \in Seq(Nat) /\ log' \in [Stages -> Seq(Nat)] /\ Increasing(lg2)
      /\ \A n \in Nat : x.plserial < n => LogBelow(lg2, n)
      /\ \A l \in Stages : l # k => log'[l] = log[l]
  <2>0. log \in [Stages -> Seq(Nat)]
    BY <1>2 DEF SerialTypeOK
  <2>1. CASE x.task # NoTask
    <3>1. /\ Append(lg, x.plserial) \in Seq(Nat) /\ Increasing(Append(lg, x.plserial))
          /\ \A n \in Nat : x.plserial < n => LogBelow(Append(lg, x.plserial), n)
      BY <1>2, <1>4, <1>5, LogAppend
    <3>2. log' = [log EXCEPT ![k] = Append(lg, x.plserial)]
      BY <1>3, <2>1
    <3>3. lg2 = Append(lg, x.plserial) /\ \A l \in Stages : l # k => log'[l] = log[l]
      BY <3>2, <2>0, <1>2
    <3> QED
      BY <3>1, <3>2, <3>3, <2>0
  <2>2. CASE x.task = NoTask
    <3>1. \A n \in Nat : x.plserial < n => LogBelow(lg, n)
      BY <1>2, <1>4, LogGrows
    <3> QED
      BY <2>0, <2>2, <3>1, <1>2, <1>3, <1>5
  <2> QED
    BY <2>1, <2>2
<1> HIDE DEF lg2
<1>7. Others(u)
  BY <1>2, <1>3, <1>6 DEF Others, SerialTypeOK
<1>8. CASE \E t \in Outcomes(k, x.task) : unit' = [unit EXCEPT ![u] = Processed(@, t)]
  <2>1. PICK t \in Outcomes(k, x.task) : unit' = [unit EXCEPT ![u] = Processed(@, t)]
    BY <1>8
  <2>2. t \in Nat
    BY <1>4, <2>1 DEF Outcomes, NoTask
  <2> DEFINE r2 == Processed(r, t)
  <2>3. CASE r.pc = "serial"
    <3>1. SerialDone(r, r2, t)
      BY <2>2, <2>3, <1>2, ProcessedFields
    <3> HIDE DEF r2
    <3>2. Stepped(u, r2) /\ Lesser(r, r2)
      BY <2>1, <3>1 DEF SerialDone, Stepped, Lesser, r2
    <3>3. WindowOK(r, e) /\ r.head \in 0..(Window - 1)
      BY <2>3, <1>2, WindowType DEF StageInv, SerialPcs
    <3>4. WindowOK(r2, e)
      BY <3>1, <3>3 DEF SerialDone, WindowOK
    <3>5. r2.cache[r2.head].plserial = e
      BY <3>1, <3>3, <1>4, <2>3 DEF SerialDone
    <3>6. LogBelow(lg2, e + 1)
      <4>1. x.plserial = e /\ e \in Nat
        BY <1>2, <1>4, <2>3
      <4>2. e + 1 \in Nat /\ e < e + 1
        BY <4>1
      <4> QED
        BY <4>1, <4>2, <1>6
    <3>7. r2.pc = "push_serial" /\ r2.pc \in KeepPcs /\ r2.pc \notin WaitPcs /\ r2.pc \notin FlushPcs
          /\ r2.pc \notin WaitPcs \cup {"serial"} /\ r2.pc # "new"
      BY <3>1 DEF SerialDone, KeepPcs, WaitPcs, SerialPcs, FlushPcs
    <3>8. StageInv(r2, e, lg2)
      BY <3>4, <3>5, <3>6, <3>7, <1>6 DEF StageInv
    <3>9. OwnStage(u, r2, plserial'[u[1]], log'[u[1]])
      BY <3>8, <1>1, <1>3 DEF OwnStage, lg2
    <3> QED
      BY <3>2, <3>9, <1>1, <1>3, <1>7, QuietStep
  <2>4. CASE r.pc = "flush"
    <3>1. FlushDone(r, r2, x, t) /\ x \in r.overflow
      BY <2>2, <2>4, <1>2, <1>4, ProcessedFields DEF x
    <3> HIDE DEF r2
    <3>2. PICK F : UnitMap(r, r2, F, NoHold)
      BY <3>1, FlushMap
    <3>3. Stepped(u, r2)
      BY <2>1, <3>1 DEF FlushDone, Stepped, r2
    <3>4. \A y \in r2.overflow : y.plserial >= 1 /\ LogBelow(lg2, y.plserial)
      <4> TAKE y \in r2.overflow
      <4>1. y \in r.overflow /\ y # x
        BY <3>1 DEF FlushDone
      <4>2. y.plserial \in Nat /\ y.plserial >= 1 /\ x.plserial >= 1
        BY <4>1, <3>1, <2>4, <1>2, WindowType DEF StageInv, FlushPcs
      <4>3. x.plserial # y.plserial
        <5>1. <<"over", x>> \in Holds(r) /\ SerialIn(r, <<"over", x>>) = x.plserial
          BY <3>1, HoldShape
        <5>2. <<"over", y>> \in Holds(r) /\ SerialIn(r, <<"over", y>>) = y.plserial
          BY <4>1, HoldShape
        <5>3. x.plserial = y.plserial => <<"over", x>> = <<"over", y>>
          BY <5>1, <5>2, <4>2, HoldsUnique
        <5> QED
          BY <5>3, <4>1
      <4>4. x.plserial <= y.plserial
        BY <4>1, <2>4, <1>4
      <4>5. x.plserial < y.plserial
        BY <4>2, <4>3, <4>4, <1>4
      <4> QED
        BY <4>2, <4>5, <1>6
    <3>5. r2.pc \in FlushPcs /\ r2.pc \in KeepPcs /\ r2.pc \notin WaitPcs /\ r2.pc \notin SerialPcs
          /\ r2.pc # "serial" /\ r2.pc # "push_serial" /\ r2.pc # "new"
      BY <3>1 DEF FlushDone, KeepPcs, WaitPcs, SerialPcs, FlushPcs
    <3>6. StageInv(r2, e, lg2)
      BY <3>4, <3>5, <1>6 DEF StageInv
    <3>7. OwnStage(u, r2, plserial'[u[1]], log'[u[1]])
      BY <3>6, <1>1, <1>3 DEF OwnStage, lg2
    <3> QED
      BY <3>2, <3>3, <3>7, <1>1, <1>3, <1>7, MapStep
  <2> QED
    BY <2>3, <2>4, <1>1
<1>9. CASE Catch(u, {})
  <2>1. IF Mode(u[1]) = "keep" THEN Increasing(log'[u[1]]) ELSE log'[u[1]] = <<>>
    BY <1>1, <1>6 DEF lg2
  <2> QED
    BY <2>1, <1>3, <1>7, <1>9, CatchStep
<1> QED
  BY <1>8, <1>9 DEF SerialProcess, x

\* The unit after the inner loop's step from e - 1 to e: what Advance does to the window.
Advanced(r, r2, e, h, due) ==
    /\ r2 \in UnitRec /\ r2.pc = "serial" /\ r2.item = r.item /\ r2.head = h
    /\ r2.overflow = r.overflow \ due
    /\ \A i \in 0..(Window - 1) :
         r2.cache[i] = IF due # {} /\ i = h THEN Top(due) ELSE IF i = r.head THEN NoItem ELSE r.cache[i]

\* The item of the overflow that belongs to the next place of the window.
Due(r, e) == {y \in r.overflow : y.plserial = e}

\* What Advance does to the local variables.
LEMMA AdvanceFields ==
    ASSUME NEW r \in UnitRec, NEW e
    PROVE  /\ Advanced(r, Advance(r, e), e, (r.head + 1) % Window, Due(r, e))
           /\ (r.head + 1) % Window \in 0..(Window - 1)
           /\ Due(r, e) # {} => Top(Due(r, e)) \in Due(r, e)
<1> DEFINE D == 0..(Window - 1)
           h == (r.head + 1) % Window
           due == Due(r, e)
           cleared == [r.cache EXCEPT ![r.head] = NoItem]
           c == IF due = {} THEN cleared ELSE [cleared EXCEPT ![h] = Top(due)]
           o == r.overflow \ due
           r2 == [r EXCEPT !.pc = "serial", !.head = h, !.cache = c, !.overflow = o]
<1>1. /\ r.cache \in [D -> Item] /\ r.head \in D /\ r.overflow \in SUBSET Item /\ Window \in Nat /\ Window >= 1
      /\ r.head \in Nat /\ r.head < Window
  BY WindowType
<1>2. h \in D
  <2>1. r.head + 1 \in Nat
    BY <1>1
  <2> QED
    BY <1>1, <2>1, ModSmall
<1>3. due \subseteq Item /\ (due # {} => Top(due) \in due)
  <2>1. due \subseteq Item
    BY <1>1 DEF Due
  <2> HIDE DEF due
  <2> QED
    BY <2>1, TopIsLeast
<1>4. Advance(r, e) = r2
  BY DEF Advance, Due
<1>5. "serial" \in Pcs
  BY DEF Pcs
<1>6. o \in SUBSET Item
  BY <1>1
<1> HIDE DEF h, due
<1>7. c \in [D -> Item] /\ \A i \in D : c[i] = IF due # {} /\ i = h THEN Top(due)
                                              ELSE IF i = r.head THEN NoItem ELSE r.cache[i]
  BY <1>1, <1>2, <1>3, NoItemType
<1> HIDE DEF c, o
<1>8. r2 \in UnitRec /\ r2.pc = "serial" /\ r2.item = r.item /\ r2.head = h /\ r2.overflow = o /\ r2.cache = c
  BY <1>2, <1>5, <1>6, <1>7 DEF UnitRec
<1> HIDE DEF r2
<1>9. Advanced(r, r2, e, h, due)
  BY <1>7, <1>8 DEF Advanced, o
<1> QED
  BY <1>2, <1>3, <1>4, <1>9 DEF h, due

\* Every item but the one of the window's head stays, or comes from the overflow.
LEMMA AdvanceMap ==
    ASSUME NEW r \in UnitRec, NEW e
    PROVE  \E F : /\ PushMap(r, r.cache[r.head], Advance(r, e), F, <<"cache", r.head>>)
                  /\ UnitMap(r, Advance(r, e), F, NoHold)
<1> DEFINE r2 == Advance(r, e)
           h == (r.head + 1) % Window
           due == Due(r, e)
           D == 0..(Window - 1)
           From(w) == IF due # {} /\ w = <<"cache", h>> THEN <<"over", Top(due)>> ELSE w
           F == [w \in Holds(r2) |-> From(w)]
<1>1. Advanced(r, r2, e, h, due) /\ h \in D /\ (due # {} => Top(due) \in due) /\ due \subseteq r.overflow
  BY AdvanceFields DEF Due
<1>2. r.head \in D
  BY WindowType
<1> HIDE DEF r2, h, due
<1>3. ASSUME NEW w \in Holds(r2), SerialIn(r2, w) # 0
      PROVE  /\ From(w) # <<"cache", r.head>> /\ From(w) \in Holds(r) /\ SerialIn(r, From(w)) = SerialIn(r2, w)
             /\ \/ From(w) = w /\ (w[1] = "over" => w[2] \notin due)
                \/ w = <<"cache", h>> /\ due # {} /\ From(w) = <<"over", Top(due)>>
  <2>1. CASE w = <<"item", 0>>
    <3>1. From(w) = w
      BY <2>1
    <3>2. SerialIn(r2, w) = r2.item.plserial
      BY <2>1, HoldShape
    <3>3. SerialIn(r, w) = r.item.plserial /\ w \in Holds(r)
      BY <2>1, HoldShape
    <3>4. w[1] = "item"
      BY <2>1
    <3> HIDE DEF From
    <3> QED
      BY <2>1, <3>1, <3>2, <3>3, <3>4, <1>1 DEF Advanced
  <2>2. CASE w[1] = "cache" /\ w[2] \in D /\ w = <<"cache", w[2]>>
    <3> DEFINE i == w[2]
    <3>1. SerialIn(r2, w) = r2.cache[i].plserial
      BY <2>2, HoldShape
    <3>2. SerialIn(r, w) = r.cache[i].plserial /\ w \in Holds(r)
      BY <2>2, HoldShape
    <3>3. r2.cache[i] = IF due # {} /\ i = h THEN Top(due) ELSE IF i = r.head THEN NoItem ELSE r.cache[i]
      BY <2>2, <1>1 DEF Advanced
    <3>4. CASE due # {} /\ i = h
      <4>1. w = <<"cache", h>> /\ From(w) = <<"over", Top(due)>>
        BY <2>2, <3>4
      <4>2. Top(due) \in r.overflow
        BY <3>4, <1>1
      <4>3. <<"over", Top(due)>> \in Holds(r) /\ SerialIn(r, <<"over", Top(due)>>) = Top(due).plserial
        BY <4>2, HoldShape
      <4>4. <<"over", Top(due)>> # <<"cache", r.head>>
        OBVIOUS
      <4> HIDE DEF From
      <4> QED
        BY <3>1, <3>3, <3>4, <4>1, <4>3, <4>4
    <3>5. CASE ~(due # {} /\ i = h)
      <4>1. From(w) = w
        BY <2>2, <3>5
      <4>2. i # r.head
        BY <3>1, <3>3, <3>5, <1>3, NoItemType
      <4>3. SerialIn(r2, w) = SerialIn(r, w)
        BY <3>1, <3>2, <3>3, <3>5, <4>2
      <4>4. w # <<"cache", r.head>>
        BY <2>2, <4>2
      <4> HIDE DEF From
      <4> QED
        BY <2>2, <3>2, <4>1, <4>3, <4>4
    <3> QED
      BY <3>4, <3>5
  <2>3. CASE w[1] = "over" /\ w[2] \in r2.overflow /\ w = <<"over", w[2]>>
    <3>1. From(w) = w
      BY <2>3
    <3>2. SerialIn(r2, w) = w[2].plserial
      BY <2>3, HoldShape
    <3>3. w[2] \in r.overflow /\ w[2] \notin due
      BY <2>3, <1>1 DEF Advanced
    <3>4. SerialIn(r, w) = w[2].plserial /\ w \in Holds(r)
      BY <2>3, <3>3, HoldShape
    <3>5. w # <<"cache", r.head>>
      BY <2>3
    <3> HIDE DEF From
    <3> QED
      BY <3>1, <3>2, <3>3, <3>4, <3>5
  <2> QED
    BY <2>1, <2>2, <2>3, HoldParts
<1>4. ASSUME NEW w1 \in Holds(r2), NEW w2 \in Holds(r2), SerialIn(r2, w1) # 0, SerialIn(r2, w2) # 0,
             From(w1) = From(w2)
      PROVE  w1 = w2
  <2> HIDE DEF From
  <2>1. CASE From(w1) = w1 /\ From(w2) = w2
    BY <2>1, <1>4
  <2>2. CASE From(w1) # w1 \/ From(w2) # w2
    BY <2>2, <1>1, <1>3, <1>4
  <2> QED
    BY <2>1, <2>2
<1>5. \A w \in Holds(r2) : F[w] = From(w)
  OBVIOUS
<1>6. <<"cache", r.head>> \in Holds(r) /\ SerialIn(r, <<"cache", r.head>>) = r.cache[r.head].plserial
  BY <1>2, HoldShape
<1> HIDE DEF F, From
<1>7. PushMap(r, r.cache[r.head], r2, F, <<"cache", r.head>>)
  BY <1>3, <1>4, <1>5, <1>6 DEF PushMap
<1>8. UnitMap(r, r2, F, NoHold)
  BY <1>3, <1>4, <1>5 DEF UnitMap
<1> QED
  BY <1>7, <1>8 DEF r2

\* The window after the step.
LEMMA AdvanceWindow ==
    ASSUME NEW r \in UnitRec, NEW e \in Nat, WindowOK(r, e)
    PROVE  WindowOK(Advance(r, e + 1), e + 1)
<1> DEFINE r2 == Advance(r, e + 1)
           h == (r.head + 1) % Window
           due == Due(r, e + 1)
           D == 0..(Window - 1)
<1>1. Advanced(r, r2, e + 1, h, due) /\ h \in D /\ (due # {} => Top(due) \in due)
  BY AdvanceFields
<1>2. Window \in Nat /\ Window >= 1 /\ r.head \in Nat /\ r.head < Window /\ r.head \in D
  BY WindowType
<1>3. \A i \in D : r.cache[i].plserial \in Nat
  BY WindowType
<1>4. \A y \in r.overflow : y.plserial \in Nat /\ y.plserial > e
  BY WindowType DEF WindowOK
<1>5. h \in Nat /\ h < Window
  BY <1>1, <1>2
<1> HIDE DEF r2
<1>6. ASSUME NEW i \in D, r2.cache[i].plserial # 0
      PROVE  /\ e + 1 <= r2.cache[i].plserial /\ r2.cache[i].plserial < e + 1 + Window
             /\ i = (r2.head + (r2.cache[i].plserial - (e + 1))) % Window
  <2>1. r2.head = h /\ r2.cache[i] = IF due # {} /\ i = h THEN Top(due) ELSE IF i = r.head THEN NoItem ELSE r.cache[i]
    BY <1>1 DEF Advanced
  <2>2. CASE due # {} /\ i = h
    <3>1. r2.cache[i].plserial = e + 1
      BY <2>1, <2>2, <1>1 DEF Due
    <3> HIDE DEF h
    <3>2. h % Window = h
      BY <1>2, <1>5, ModSmall
    <3>3. h + ((e + 1) - (e + 1)) = h
      BY <1>5
    <3> QED
      BY <2>1, <2>2, <3>1, <3>2, <3>3, <1>2
  <2>3. CASE ~(due # {} /\ i = h)
    <3>1. i # r.head /\ r2.cache[i] = r.cache[i]
      BY <2>1, <2>3, <1>6, NoItemType
    <3> DEFINE s == r.cache[i].plserial
    <3>2. s \in Nat /\ e <= s /\ s < e + Window /\ i = (r.head + (s - e)) % Window
      BY <1>3, <1>6, <3>1 DEF WindowOK
    <3>3. r2.cache[i].plserial = s
      BY <3>1
    <3> HIDE DEF s
    <3>4. s # e
      <4>1. s = e => r.head + (s - e) = r.head
        BY <1>2, <3>2
      <4>2. r.head % Window = r.head
        BY <1>2, ModSmall
      <4> QED
        BY <4>1, <4>2, <3>1, <3>2
    <3> DEFINE d == s - e
    <3>5. d \in Nat /\ 1 <= d /\ d < Window /\ s - (e + 1) = d - 1
      BY <3>2, <3>4, <1>2
    <3>6. i = (r.head + d) % Window
      BY <3>2
    <3> HIDE DEF d
    <3>7. i = (h + (d - 1)) % Window
      BY <3>5, <3>6, <1>2, WindowMoves
    <3> HIDE DEF h
    <3>8. e + 1 <= s /\ s < e + 1 + Window
      BY <3>2, <3>4, <1>2
    <3> QED
      BY <3>3, <3>5, <3>7, <3>8, <2>1
  <2> QED
    BY <2>2, <2>3
<1>7. ASSUME NEW y \in r2.overflow
      PROVE  y.plserial > e + 1
  <2>1. y \in r.overflow /\ y.plserial # e + 1
    BY <1>1 DEF Advanced, Due
  <2> QED
    BY <2>1, <1>4
<1>8. e + 1 >= 1
  OBVIOUS
<1> QED
  BY <1>6, <1>7, <1>8 DEF WindowOK, r2

\* run_serial_step_fast: the push of the window's head, and the next place.
LEMMA SerialPushStep ==
    ASSUME OrderInv, NEW u \in Units, SerialPush(u)
    PROVE  OrderInv'
<1> DEFINE r == unit[u]
           k == u[1]
           x == r.cache[r.head]
           e == plserial[k]
           lg == log[k]
           r2 == Advance(r, e + 1)
<1>1. r.pc = "push_serial" /\ Mode(k) = "keep"
  <2>1. r.pc = "push_serial" /\ r.pc \in SerialPcs
    BY DEF SerialPush, SerialPcs
  <2> QED
    BY <2>1, OwnInv DEF OwnStage
<1>2. /\ StageInv(r, e, lg) /\ e \in Nat /\ lg \in Seq(Nat) /\ r \in UnitRec /\ SerialTypeOK
      /\ k \in Stages /\ k \in 0..N
  BY <1>1, KeepUnit
<1>3. /\ UNCHANGED <<pipeline, mutex, caller, log>> /\ plserial' = [plserial EXCEPT ![k] = @ + 1]
      /\ unit' = [unit EXCEPT ![u] = Advance(@, e + 1)] /\ Deliver(k, x)
  BY DEF SerialPush
<1>4. plserial \in [0..N -> Nat]
  BY <1>2 DEF SerialTypeOK
<1>5. plserial' \in [0..N -> Nat] /\ plserial'[k] = e + 1 /\ \A l \in 0..N : l # k => plserial'[l] = plserial[l]
  BY <1>2, <1>3, <1>4
<1>6. x \in Item
  BY <1>2, WindowType
<1>7. r2 \in UnitRec /\ r2.pc = "serial"
  BY <1>2, AdvanceFields DEF Advanced
<1>8. WindowOK(r, e) /\ LogBelow(lg, e + 1) /\ Increasing(lg)
  BY <1>1, <1>2 DEF StageInv, SerialPcs
<1>9. WindowOK(r2, e + 1)
  BY <1>2, <1>8, AdvanceWindow
<1>10. PICK F : PushMap(r, x, r2, F, <<"cache", r.head>>) /\ UnitMap(r, r2, F, NoHold)
  BY <1>2, AdvanceMap
<1>11. Stepped(u, r2)
  BY <1>3, <1>7 DEF Stepped
<1> HIDE DEF r2
<1>12. StageInv(r2, e + 1, lg)
  <2>1. r2.pc \in KeepPcs /\ r2.pc \notin WaitPcs /\ r2.pc \notin FlushPcs /\ r2.pc # "new" /\ r2.pc # "push_serial"
    BY <1>7 DEF KeepPcs, WaitPcs, SerialPcs, FlushPcs
  <2> QED
    BY <2>1, <1>8, <1>9 DEF StageInv
<1>13. OwnStage(u, r2, plserial'[u[1]], log'[u[1]])
  BY <1>1, <1>3, <1>5, <1>12 DEF OwnStage
<1>14. CASE queue' = queue
  <2>1. Others(u)
    BY <1>2, <1>3, <1>5, <1>14 DEF Others, SerialTypeOK
  <2> QED
    BY <2>1, <1>1, <1>10, <1>11, <1>13, <1>14, MapStep
<1>15. CASE queue' = [queue EXCEPT ![k] = Append(@, x)]
  <2>1. queue' \in [0..N -> Seq(Item)]
    BY <1>2, <1>6, <1>15, PushedType
  <2>2. Others(u)
    BY <1>2, <1>3, <1>5, <2>1 DEF Others, SerialTypeOK
  <2> QED
    BY <2>2, <1>1, <1>6, <1>10, <1>11, <1>13, <1>15, PushStep
<1> QED
  BY <1>3, <1>14, <1>15 DEF Deliver

\* The place of y in the window.
Slot(r, e, y) == (r.head + (y.plserial - e)) % Window

\* The unit after Place: the items of S went into the window.
Placed(r, r2, e, x, S) ==
    /\ r2 \in UnitRec /\ r2.pc = "serial" /\ r2.item = r.item /\ r2.head = r.head
    /\ S \subseteq r.overflow \cup {x} /\ \A y \in S : y.plserial < e + Window
    /\ r2.overflow \subseteq (r.overflow \cup {x}) \ S /\ (x \in r2.overflow => x.plserial > e)
    /\ \A y \in r.overflow \cup {x} : y \in S \/ y \in r2.overflow
    /\ \A i \in 0..(Window - 1) :
         \/ r2.cache[i] \in S /\ i = Slot(r, e, r2.cache[i])
         \/ r2.cache[i] = r.cache[i] /\ \A y \in S : i # Slot(r, e, y)

\* The window with the items of S in it.
WindowWith(r, e, S) ==
    [i \in DOMAIN r.cache |-> IF \E y \in S : i = Slot(r, e, y) THEN CHOOSE y \in S : i = Slot(r, e, y)
                              ELSE r.cache[i]]

\* The places that get an item of S, and those that do not.
InSlots(r, e, S, c) ==
    \A i \in 0..(Window - 1) : \/ c[i] \in S /\ i = Slot(r, e, c[i])
                               \/ c[i] = r.cache[i] /\ \A y \in S : i # Slot(r, e, y)

\* What is in the window after that.
LEMMA WindowWithFields ==
    ASSUME NEW r \in UnitRec, NEW e, NEW S, S \subseteq Item
    PROVE  /\ WindowWith(r, e, S) \in [0..(Window - 1) -> Item]
           /\ InSlots(r, e, S, WindowWith(r, e, S))
<1> DEFINE D == 0..(Window - 1)
           c == WindowWith(r, e, S)
<1>1. r.cache \in [D -> Item] /\ DOMAIN r.cache = D /\ \A i \in D : r.cache[i] \in Item
  BY WindowType
<1>2. c = [i \in D |-> IF \E y \in S : i = Slot(r, e, y) THEN CHOOSE y \in S : i = Slot(r, e, y) ELSE r.cache[i]]
  BY <1>1 DEF WindowWith
<1> HIDE DEF c
<1>3. ASSUME NEW i \in D
      PROVE  /\ c[i] \in Item
             /\ (c[i] \in S /\ i = Slot(r, e, c[i])) \/ (c[i] = r.cache[i] /\ \A y \in S : i # Slot(r, e, y))
  <2>1. CASE \E y \in S : i = Slot(r, e, y)
    <3>1. c[i] = CHOOSE y \in S : i = Slot(r, e, y)
      BY <1>2, <2>1
    <3>2. c[i] \in S /\ i = Slot(r, e, c[i])
      BY <2>1, <3>1
    <3> QED
      BY <3>2
  <2>2. CASE ~ \E y \in S : i = Slot(r, e, y)
    BY <1>1, <1>2, <2>2
  <2> QED
    BY <2>1, <2>2
<1>4. c \in [D -> Item]
  <2>1. c = [i \in D |-> c[i]]
    BY <1>2
  <2> QED
    BY <2>1, <1>3
<1> QED
  BY <1>3, <1>4 DEF c, InSlots

\* Place puts the popped item, and what is due by now, into the window or the overflow.
LEMMA PlaceFields ==
    ASSUME NEW r \in UnitRec, NEW e \in Nat, NEW x \in Item, x \notin r.overflow, x.plserial >= e
    PROVE  \E S : Placed(r, [Place(r, e, x) EXCEPT !.pc = "serial"], e, x, S)
<1> DEFINE D == 0..(Window - 1)
           over == r.overflow \cup {x}
           moved == IF Cardinality(over) >= 2 THEN {y \in over : y.plserial - e < Window} ELSE {}
<1>1. r.overflow \subseteq Item /\ over \subseteq Item /\ Window \in Nat /\ Window >= 1 /\ x.plserial \in Nat
  BY WindowType DEF Item
<1>2. moved \subseteq over /\ \A y \in moved : y.plserial - e < Window
  OBVIOUS
<1>3. "serial" \in Pcs
  BY DEF Pcs
<1>4. CASE x.plserial - e < Window
  <2> DEFINE S == {x}
             c == WindowWith(r, e, S)
             p == [r EXCEPT !.cache = c]
             r2 == [p EXCEPT !.pc = "serial"]
  <2>1. Place(r, e, x) = p
    BY <1>4 DEF Place, WindowWith, Slot
  <2>2. /\ c \in [D -> Item]
        /\ InSlots(r, e, S, c)
    BY WindowWithFields
  <2> HIDE DEF c
  <2>3. p \in UnitRec /\ p.item = r.item /\ p.head = r.head /\ p.overflow = r.overflow /\ p.cache = c
    BY <2>2 DEF UnitRec
  <2> HIDE DEF p
  <2>4. /\ r2 \in UnitRec /\ r2.pc = "serial" /\ r2.item = p.item /\ r2.head = p.head
        /\ r2.overflow = p.overflow /\ r2.cache = p.cache
    BY <2>3, <1>3 DEF UnitRec
  <2> HIDE DEF r2
  <2>5. x.plserial < e + Window
    BY <1>1, <1>4
  <2>6. /\ r2.overflow \subseteq (r.overflow \cup {x}) \ S /\ x \notin r2.overflow
        /\ \A y \in r.overflow \cup {x} : y \in S \/ y \in r2.overflow
    BY <2>3, <2>4
  <2>7. Placed(r, r2, e, x, S)
    BY <2>2, <2>3, <2>4, <2>5, <2>6 DEF Placed, InSlots
  <2> QED
    BY <2>1, <2>7 DEF r2
<1>5. CASE ~(x.plserial - e < Window)
  <2> DEFINE S == moved
             c == WindowWith(r, e, S)
             o == over \ S
             p == [r EXCEPT !.cache = c, !.overflow = o]
             r2 == [p EXCEPT !.pc = "serial"]
  <2>1. Place(r, e, x) = p
    BY <1>5 DEF Place, WindowWith, Slot
  <2>0. S \subseteq Item /\ o \in SUBSET Item
    BY <1>1, <1>2
  <2> HIDE DEF moved, over
  <2>2. /\ c \in [D -> Item]
        /\ InSlots(r, e, S, c)
    BY <2>0, WindowWithFields
  <2> HIDE DEF c, o
  <2>3. p \in UnitRec /\ p.item = r.item /\ p.head = r.head /\ p.overflow = o /\ p.cache = c
    BY <2>0, <2>2 DEF UnitRec
  <2> HIDE DEF p
  <2>4. /\ r2 \in UnitRec /\ r2.pc = "serial" /\ r2.item = p.item /\ r2.head = p.head
        /\ r2.overflow = p.overflow /\ r2.cache = p.cache
    BY <2>3, <1>3 DEF UnitRec
  <2> HIDE DEF r2
  <2>5. \A y \in S : y.plserial < e + Window
    <3> TAKE y \in S
    <3>1. y.plserial \in Nat /\ y.plserial - e < Window
      BY <2>0, <1>2 DEF Item
    <3> QED
      BY <3>1, <1>1
  <2>6. x.plserial > e
    BY <1>1, <1>5
  <2>7. /\ r2.overflow \subseteq (r.overflow \cup {x}) \ S /\ S \subseteq r.overflow \cup {x}
        /\ \A y \in r.overflow \cup {x} : y \in S \/ y \in r2.overflow
    BY <2>3, <2>4, <1>2 DEF o, over
  <2>8. Placed(r, r2, e, x, S)
    BY <2>2, <2>3, <2>4, <2>5, <2>6, <2>7 DEF Placed, InSlots
  <2> QED
    BY <2>1, <2>8 DEF r2
<1> QED
  BY <1>4, <1>5

\* Every item of the window is at the place of its serial.
LEMMA PlacedWindow ==
    ASSUME NEW r \in UnitRec, NEW r2, NEW e \in Nat, NEW x \in Item, NEW S, Placed(r, r2, e, x, S),
           WindowOK(r, e), x.plserial >= e
    PROVE  WindowOK(r2, e)
<1> DEFINE D == 0..(Window - 1)
<1>1. \A y \in r.overflow : y.plserial \in Nat /\ y.plserial > e
  BY WindowType DEF WindowOK
<1>2. x.plserial \in Nat
  BY DEF Item
<1>3. \A y \in S : e <= y.plserial /\ y.plserial < e + Window
  BY <1>1, <1>2 DEF Placed
<1>4. ASSUME NEW i \in D, r2.cache[i].plserial # 0
      PROVE  /\ e <= r2.cache[i].plserial /\ r2.cache[i].plserial < e + Window
             /\ i = (r2.head + (r2.cache[i].plserial - e)) % Window
  <2>1. r2.head = r.head /\ ((r2.cache[i] \in S /\ i = Slot(r, e, r2.cache[i])) \/ r2.cache[i] = r.cache[i])
    BY DEF Placed
  <2>2. CASE r2.cache[i] \in S /\ i = Slot(r, e, r2.cache[i])
    BY <2>1, <2>2, <1>3 DEF Slot
  <2>3. CASE r2.cache[i] = r.cache[i]
    BY <2>1, <2>3, <1>4 DEF WindowOK
  <2> QED
    BY <2>1, <2>2, <2>3
<1>5. \A y \in r2.overflow : y.plserial > e
  BY <1>1 DEF Placed
<1> QED
  BY <1>4, <1>5 DEF WindowOK

\* Place moves the popped item and items of the overflow.
LEMMA PlacedMap ==
    ASSUME NEW k, Mode(k) = "keep", NEW r, NEW r2, NEW e, NEW x, NEW S, Placed(r, r2, e, x, S)
    PROVE  \E F : PopMap(k, r, x, r2, F, NoHold)
<1> DEFINE D == 0..(Window - 1)
           Of(y) == IF y = x THEN Popped ELSE <<"over", y>>
           Kept(w) == w[1] = "item" \/ (w[1] = "cache" /\ r2.cache[w[2]] = r.cache[w[2]])
           Content(w) == IF w[1] = "cache" THEN r2.cache[w[2]] ELSE w[2]
           From(w) == IF Kept(w) THEN w ELSE Of(Content(w))
           F == [w \in Holds(r2) |-> From(w)]
<1>1. ASSUME NEW y \in r.overflow \cup {x}
      PROVE  IF Of(y) = Popped THEN y = x ELSE Of(y) = <<"over", y>> /\ y \in r.overflow
  BY DEF Popped
<1>2. ASSUME NEW w \in Holds(r2)
      PROVE  \/ Kept(w) /\ w \in Holds(r) /\ SerialIn(r, w) = SerialIn(r2, w) /\ w[1] # "over" /\ w # Popped
             \/ /\ ~Kept(w) /\ Content(w) \in r.overflow \cup {x} /\ SerialIn(r2, w) = Content(w).plserial
                /\ \/ /\ w = <<"cache", w[2]>> /\ Content(w) \in S /\ w[2] = Slot(r, e, Content(w))
                   \/ w = <<"over", w[2]>> /\ Content(w) \notin S /\ Content(w) = w[2]
  <2>1. CASE w = <<"item", 0>>
    <3>1. SerialIn(r2, w) = r2.item.plserial
      BY <2>1, HoldShape
    <3>2. SerialIn(r, w) = r.item.plserial /\ w \in Holds(r)
      BY <2>1, HoldShape
    <3>3. Kept(w) /\ w[1] = "item"
      BY <2>1
    <3> HIDE DEF Kept
    <3> QED
      BY <2>1, <3>1, <3>2, <3>3 DEF Placed, Popped
  <2>2. CASE w[1] = "cache" /\ w[2] \in D /\ w = <<"cache", w[2]>>
    <3> DEFINE i == w[2]
    <3>1. SerialIn(r2, w) = r2.cache[i].plserial
      BY <2>2, HoldShape
    <3>2. SerialIn(r, w) = r.cache[i].plserial /\ w \in Holds(r)
      BY <2>2, HoldShape
    <3>3. Content(w) = r2.cache[i]
      BY <2>2
    <3>4. Kept(w) <=> r2.cache[i] = r.cache[i]
      BY <2>2
    <3>5. (r2.cache[i] \in S /\ i = Slot(r, e, r2.cache[i])) \/ r2.cache[i] = r.cache[i]
      BY <2>2 DEF Placed
    <3>6. S \subseteq r.overflow \cup {x}
      BY DEF Placed
    <3>7. w[1] # "over" /\ w # Popped
      BY <2>2 DEF Popped
    <3> HIDE DEF Kept, Content
    <3>8. CASE r2.cache[i] = r.cache[i]
      BY <3>1, <3>2, <3>4, <3>7, <3>8
    <3>9. CASE r2.cache[i] # r.cache[i]
      <4>1. Content(w) \in S /\ i = Slot(r, e, Content(w)) /\ ~Kept(w)
        BY <3>3, <3>4, <3>5, <3>9
      <4> QED
        BY <2>2, <3>1, <3>3, <3>6, <4>1
    <3> QED
      BY <3>8, <3>9
  <2>3. CASE w[1] = "over" /\ w[2] \in r2.overflow /\ w = <<"over", w[2]>>
    <3>1. SerialIn(r2, w) = w[2].plserial
      BY <2>3, HoldShape
    <3>2. Content(w) = w[2] /\ ~Kept(w)
      BY <2>3
    <3>3. w[2] \in r.overflow \cup {x} /\ w[2] \notin S
      BY <2>3 DEF Placed
    <3> HIDE DEF Kept, Content
    <3> QED
      BY <2>3, <3>1, <3>2, <3>3
  <2> QED
    BY <2>1, <2>2, <2>3, HoldParts
<1>3. ASSUME NEW w \in Holds(r2)
      PROVE  IF From(w) = Popped THEN x.plserial = SerialIn(r2, w)
                                 ELSE From(w) \in Holds(r) /\ SerialIn(r, From(w)) = SerialIn(r2, w)
  <2>1. CASE Kept(w)
    <3>1. From(w) = w
      BY <2>1
    <3> HIDE DEF From, Kept, Content
    <3> QED
      BY <2>1, <3>1, <1>2
  <2>2. CASE ~Kept(w)
    <3> DEFINE y == Content(w)
    <3>1. From(w) = Of(y)
      BY <2>2
    <3>2. y \in r.overflow \cup {x} /\ SerialIn(r2, w) = y.plserial
      <4> HIDE DEF From, Kept, Content, Of
      <4> QED
        BY <2>2, <1>2
    <3>3. IF Of(y) = Popped THEN y = x ELSE Of(y) = <<"over", y>> /\ y \in r.overflow
      <4> HIDE DEF y, Of
      <4> QED
        BY <3>2, <1>1
    <3> HIDE DEF From, Kept, Content, Of, y
    <3>4. CASE Of(y) = Popped
      BY <3>1, <3>2, <3>3, <3>4
    <3>5. CASE Of(y) # Popped
      <4>1. <<"over", y>> \in Holds(r) /\ SerialIn(r, <<"over", y>>) = y.plserial
        BY <3>3, <3>5, HoldShape
      <4> QED
        BY <3>1, <3>2, <3>3, <3>5, <4>1
    <3> QED
      BY <3>4, <3>5
  <2> QED
    BY <2>1, <2>2
<1>4. ASSUME NEW w1 \in Holds(r2), NEW w2 \in Holds(r2), From(w1) = From(w2)
      PROVE  w1 = w2
  <2>1. CASE Kept(w1) /\ Kept(w2)
    BY <1>4, <2>1
  <2>2. CASE ~Kept(w1) /\ ~Kept(w2)
    <3>1. Content(w1) = Content(w2)
      <4>1. Of(Content(w1)) = Of(Content(w2))
        BY <1>4, <2>2
      <4>2. \A y1, y2 : Of(y1) = Of(y2) => y1 = y2
        BY DEF Popped
      <4> HIDE DEF From, Kept, Content, Of
      <4> QED
        BY <4>1, <4>2
    <3> HIDE DEF From, Kept, Content, Of
    <3> QED
      BY <3>1, <2>2, <1>2
  <2>3. CASE Kept(w1) /\ ~Kept(w2)
    <3>1. w1 = Of(Content(w2))
      BY <1>4, <2>3
    <3>2. w1[1] # "over" /\ w1 # Popped
      <4> HIDE DEF From, Kept, Content, Of
      <4> QED
        BY <2>3, <1>2
    <3> QED
      BY <3>1, <3>2
  <2>4. CASE ~Kept(w1) /\ Kept(w2)
    <3>1. w2 = Of(Content(w1))
      BY <1>4, <2>4
    <3>2. w2[1] # "over" /\ w2 # Popped
      <4> HIDE DEF From, Kept, Content, Of
      <4> QED
        BY <2>4, <1>2
    <3> QED
      BY <3>1, <3>2
  <2> QED
    BY <2>1, <2>2, <2>3, <2>4
<1>5. \A w \in Holds(r2) : F[w] = From(w)
  OBVIOUS
<1> HIDE DEF F, From, Kept, Content, Of
<1>6. PopMap(k, r, x, r2, F, NoHold)
  BY <1>3, <1>4, <1>5 DEF PopMap
<1> QED
  BY <1>6

\* run_serial_step_fast: pop_front, and CHECK_SERIAL.
LEMMA PopSerialStep ==
    ASSUME OrderInv, NEW u \in Units, PopSerial(u)
    PROVE  OrderInv'
<1> DEFINE r == unit[u]
           k == u[1]
           x == Head(queue[k - 1])
           e == plserial[k]
           lg == log[k]
<1>1. r.pc = "pop" /\ Mode(k) = "keep" /\ queue[k - 1] # <<>>
  BY DEF PopSerial
<1>2. /\ StageInv(r, e, lg) /\ e \in Nat /\ lg \in Seq(Nat) /\ r \in UnitRec /\ SerialTypeOK
      /\ k \in Stages /\ k \in 0..N
  BY <1>1, KeepUnit
<1>3. /\ UNCHANGED <<pipeline, plserial, mutex, caller, log>> /\ queue' = [queue EXCEPT ![k - 1] = Tail(@)]
  BY DEF PopSerial
<1>4. x \in Item /\ queue' \in [0..N -> Seq(Item)]
  BY <1>1, <1>2, <1>3, PoppedType
<1>5. Others(u)
  BY <1>2, <1>3, <1>4 DEF Others, SerialTypeOK
<1>6. WindowOK(r, e) /\ LogBelow(lg, e) /\ Increasing(lg)
  BY <1>1, <1>2 DEF StageInv, WaitPcs
<1>7. CASE x.plserial >= e /\ unit' = [unit EXCEPT ![u] = [Place(@, e, x) EXCEPT !.pc = "serial"]]
  <2> DEFINE r2 == [Place(r, e, x) EXCEPT !.pc = "serial"]
  <2>1. x.plserial # 0 /\ x.plserial >= e
    BY <1>2, <1>4, <1>6, <1>7 DEF WindowOK, Item
  <2>2. x \notin r.overflow
    <3>1. x \in r.overflow => <<"over", x>> \in Holds(r) /\ SerialIn(r, <<"over", x>>) = x.plserial
      BY HoldShape
    <3>2. \A w \in Holds(r) : SerialIn(r, w) # x.plserial
      BY <1>1, <2>1, PoppedUnique
    <3> QED
      BY <3>1, <3>2
  <2> HIDE DEF x
  <2>3. PICK S : Placed(r, r2, e, x, S)
    BY <1>2, <1>4, <2>1, <2>2, PlaceFields
  <2> HIDE DEF r2
  <2>4. Stepped(u, r2) /\ r2.pc = "serial"
    BY <1>7, <2>3 DEF Stepped, Placed, r2
  <2>5. WindowOK(r2, e)
    BY <1>2, <1>4, <1>6, <2>1, <2>3, PlacedWindow
  <2>6. PICK F : PopMap(k, r, x, r2, F, NoHold)
    BY <1>1, <2>3, PlacedMap
  <2>7. StageInv(r2, e, lg)
    <3>1. r2.pc \in KeepPcs /\ r2.pc \notin WaitPcs /\ r2.pc \notin FlushPcs /\ r2.pc # "new" /\ r2.pc # "push_serial"
      BY <2>4 DEF KeepPcs, WaitPcs, SerialPcs, FlushPcs
    <3> QED
      BY <3>1, <2>5, <1>6 DEF StageInv
  <2>8. OwnStage(u, r2, plserial'[u[1]], log'[u[1]])
    BY <1>1, <1>3, <2>7 DEF OwnStage
  <2>9. Issued' = Issued /\ Issued \in [0..N -> Nat]
    BY <1>1, <1>2, <1>5, SameIssued, IssuedType
  <2>10. Issued' \in [0..N -> Nat] /\ (\A g \in 0..N : Issued[g] <= Issued'[g])
         /\ FreshAt(u[1], r2, NoHold, Issued, Issued')
    BY <2>9, NoHoldIsNone
  <2> QED
    BY <1>1, <1>3, <1>5, <2>4, <2>6, <2>8, <2>10, PopStep DEF x
<1>8. CASE Catch(u, {x.task})
  <2>1. PICK r2 : Stepped(u, r2) /\ r2.pc \in {"left_catch", "empty_catch"} /\ Lesser(r, r2)
    BY <1>2, <1>8, CatchFields
  <2>2. r2.pc \in EndPcs
    BY <2>1 DEF EndPcs
  <2>3. OwnStage(u, r2, plserial'[u[1]], log'[u[1]])
    BY <1>1, <1>3, <1>6, <2>2, OwnEnds
  <2> QED
    BY <1>1, <1>3, <1>5, <2>1, <2>3, DropStep
<1> QED
  BY <1>7, <1>8 DEF PopSerial

----------------------------------------------------------------------------
(* The theorem *)

\* In the beginning there is no item.
LEMMA EmptyHolds ==
    ASSUME Init, NEW p \in Places(queue, unit)
    PROVE  SerialAt(queue, unit, p) = 0
<1> DEFINE r0 == [pc |-> "new", item |-> NoItem, head |-> 0,
                  cache |-> [i \in 0..(Window - 1) |-> NoItem], overflow |-> {}]
<1>1. CASE IsQueuePlace(queue, p)
  <2>1. PICK k \in 0..N : \E i \in 1..Len(queue[k]) : p = <<"queue", k, i>>
    BY <1>1 DEF IsQueuePlace
  <2>2. queue[k] = <<>>
    BY DEF Init
  <2>3. Len(queue[k]) = 0
    BY <2>2
  <2> QED
    BY <2>1, <2>3
<1>2. CASE IsUnitPlace(unit, p)
  <2>1. PICK u \in Units : \E w \in Holds(unit[u]) : p = <<"unit", u, w>>
    BY <1>2 DEF IsUnitPlace
  <2>2. PICK w \in Holds(unit[u]) : p = <<"unit", u, w>>
    BY <2>1
  <2>3. unit[u] = r0
    BY DEF Init
  <2>4. unit[u].item.plserial = 0 /\ unit[u].overflow = {} /\ \A i \in 0..(Window - 1) : unit[u].cache[i].plserial = 0
    BY <2>3, NoItemType
  <2>5. SerialIn(unit[u], w) = 0
    <3> DEFINE r == unit[u]
    <3> HIDE DEF r
    <3>1. r.item.plserial = 0 /\ r.overflow = {} /\ (\A i \in 0..(Window - 1) : r.cache[i].plserial = 0) /\ w \in Holds(r)
      BY <2>2, <2>4 DEF r
    <3>2. SerialIn(r, w) = 0
      BY <3>1, HoldParts
    <3> QED
      BY <3>2 DEF r
  <2> QED
    BY <2>2, <2>5 DEF SerialAt
<1> QED
  BY <1>1, <1>2, TwoKinds

\* The invariant holds in the beginning.
LEMMA InitOrder ==
    ASSUME Init
    PROVE  OrderInv
<1> DEFINE D == 0..(Window - 1)
           c0 == [i \in D |-> NoItem]
           r0 == [pc |-> "new", item |-> NoItem, head |-> 0, cache |-> c0, overflow |-> {}]
<1>1. pipeline \in Pipelines /\ N \in Nat /\ Stages = 1..N /\ 0 \in 0..N /\ 0 \in D
  <2>1. pipeline \in Pipelines
    BY DEF Init
  <2> QED
    BY <2>1, StagesShape
<1>2. /\ queue = [k \in 0..N |-> <<>>] /\ plserial = [k \in 0..N |-> 0] /\ unit = [u \in Units |-> r0]
      /\ mutex = 0 /\ caller = [c \in Callers |-> [done |-> 0, base |-> 0]] /\ log = [k \in Stages |-> <<>>]
  BY DEF Init
<1>3. c0 \in [D -> Item] /\ \A i \in D : c0[i].plserial = 0
  BY NoItemType
<1> HIDE DEF c0
<1>4. r0 \in UnitRec /\ r0.pc = "new" /\ r0.cache = c0 /\ r0.overflow = {}
  BY <1>1, <1>3, NoItemType DEF UnitRec, Pcs
<1> HIDE DEF r0
<1>5. SerialTypeOK
  <2>1. queue \in [0..N -> Seq(Item)] /\ log \in [Stages -> Seq(Nat)]
    BY <1>2
  <2> QED
    BY <1>1, <1>2, <1>4, <2>1 DEF SerialTypeOK
<1>6. Fine(queue, unit, Issued)
  <2>1. \A p \in Places(queue, unit) : SerialAt(queue, unit, p) = 0
    BY EmptyHolds
  <2>2. \A g \in 0..N : Issued[g] \in Nat
    BY <1>5, IssuedType
  <2> QED
    BY <2>1, <2>2 DEF Fine, Unique, Bounded
<1>7. CallerInv
  BY <1>1, <1>2, CallersShape DEF CallerInv
<1>8. KeepInv
  <2>1. ASSUME NEW u \in Units
        PROVE  IF Mode(u[1]) = "keep" THEN StageInv(unit[u], plserial[u[1]], log[u[1]])
               ELSE unit[u].pc \notin SerialPcs \cup FlushPcs /\ log[u[1]] = <<>>
    <3>1. u[1] \in Stages /\ u[1] \in 0..N
      BY <1>1, UnitsShape
    <3>2. unit[u] = r0 /\ log[u[1]] = <<>> /\ r0.pc = "new"
      BY <1>2, <1>4, <3>1
    <3>3. Fresh(r0) /\ Increasing(<<>>)
      BY <1>3, <1>4 DEF Fresh, Increasing
    <3>4. r0.pc \in KeepPcs /\ r0.pc \notin WaitPcs /\ r0.pc \notin SerialPcs /\ r0.pc \notin FlushPcs
          /\ r0.pc # "push_serial" /\ r0.pc # "serial"
      BY <1>4 DEF KeepPcs, WaitPcs, SerialPcs, FlushPcs
    <3>5. StageInv(r0, plserial[u[1]], <<>>)
      BY <3>3, <3>4 DEF StageInv
    <3> QED
      BY <3>2, <3>4, <3>5
  <2> QED
    BY <2>1 DEF KeepInv
<1> QED
  BY <1>5, <1>6, <1>7, <1>8 DEF OrderInv

\* The invariant holds after a step of something else.
LEMMA StutterOrder ==
    ASSUME OrderInv, UNCHANGED <<pipeline, queue, plserial, unit, mutex, caller, log>>
    PROVE  OrderInv'
<1>1. N' = N /\ Stages' = Stages /\ Units' = Units /\ Callers' = Callers /\ (\A k : Mode(k)' = Mode(k))
      /\ \A c : Batch(c)' = Batch(c)
  BY SamePipeline
<1>2. SerialTypeOK'
  BY <1>1 DEF OrderInv, SerialTypeOK
<1>3. CallerInv'
  BY <1>1 DEF OrderInv, CallerInv
<1>4. Issued' = Issued
  BY <1>1 DEF Issued
<1>5. Fine(queue', unit', Issued')
  BY <1>4 DEF OrderInv
<1>6. plserial' \in [0..N -> Nat] /\ \A k \in Stages : plserial'[k] = plserial[k]
  BY DEF OrderInv, SerialTypeOK
<1> QED
  BY <1>2, <1>3, <1>5, <1>6, NoUnitStep

\* Every step keeps the invariant.
LEMMA NextOrder ==
    ASSUME OrderInv, [Next]_vars
    PROVE  OrderInv'
<1>1. ASSUME NEW u \in Units, UnitNext(u)
      PROVE  OrderInv'
  BY <1>1, BeginStep, LeaveStep, ReadRunStep, ReadPrevStep, ReadEmptyStep, MakeStep, PopTimeoutStep, PopFrontStep,
     ProcessStep, PushBackStep, PopSerialStep, SerialProcessStep, SerialWaitStep, SerialPushStep, FlushPushStep,
     DrainEmptyStep, DrainPrevStep, DrainPopStep DEF UnitNext
<1>2. ASSUME NEW c \in Callers, CallerNext(c)
      PROVE  OrderInv'
  BY <1>2, EnqueueStep, EnqueuePushStep DEF CallerNext
<1>3. CASE Stop \/ Wait \/ Done \/ UNCHANGED vars
  <2>1. UNCHANGED <<pipeline, queue, plserial, unit, mutex, caller, log>>
    BY <1>3 DEF Stop, Wait, Done, vars
  <2> QED
    BY <2>1, StutterOrder
<1> QED
  BY <1>1, <1>2, <1>3 DEF Next

\* The invariant implies what the stages promise.
LEMMA OrderFollows ==
    ASSUME OrderInv
    PROVE  OrderRestored
<1>1. pipeline \in Pipelines /\ log \in [Stages -> Seq(Nat)]
  BY DEF OrderInv, SerialTypeOK
<1>2. \A k \in Stages : <<k, 1>> \in Units
  <2>1. \A k \in Stages : 1 \in 1..pipeline.stages[k].units
    <3>1. pipeline.stages \in Seq([mode : {"none", "generate", "keep"}, units : Nat \ {0}])
      BY <1>1, PipelineAssumption
    <3>2. \A k \in 1..Len(pipeline.stages) :
            pipeline.stages[k] \in [mode : {"none", "generate", "keep"}, units : Nat \ {0}]
      BY <3>1, Elements
    <3>3. \A k \in Stages : pipeline.stages[k].units \in Nat \ {0}
      BY <3>2 DEF Stages, N
    <3> QED
      BY <3>3
  <2> QED
    BY <2>1 DEF Units
<1>3. \A k \in Stages : Increasing(log[k]) /\ DOMAIN log[k] = 1..Len(log[k])
  <2> TAKE k \in Stages
  <2>1. IF Mode(k) = "keep" THEN Increasing(log[k]) ELSE log[k] = <<>>
    <3> DEFINE u == <<k, 1>>
    <3>1. u \in Units /\ u[1] = k
      BY <1>2
    <3> HIDE DEF u
    <3> QED
      BY <3>1, LogInv
  <2>2. log[k] \in Seq(Nat)
    BY <1>1
  <2>3. Increasing(<<>>)
    BY DEF Increasing
  <2> QED
    BY <2>1, <2>2, <2>3
<1>4. InOrder
  BY <1>3 DEF InOrder, Increasing
<1>5. SerialKeepsUp
  <2> SUFFICES ASSUME NEW u \in Units, Mode(u[1]) = "keep", unit[u].pc \in {"run", "prev", "empty", "pop"},
                      NEW x \in unit[u].overflow \cup {unit[u].cache[i] : i \in DOMAIN unit[u].cache},
                      x.plserial = plserial[u[1]]
               PROVE  FALSE
    BY DEF SerialKeepsUp
  <2> DEFINE r == unit[u]
             e == plserial[u[1]]
  <2>1. StageInv(r, e, log[u[1]]) /\ e \in Nat /\ r \in UnitRec
    BY KeepUnit
  <2>2. WindowOK(r, e) /\ r.cache[r.head].plserial # e
    BY <2>1 DEF StageInv, WaitPcs
  <2>3. CASE x \in r.overflow
    BY <2>1, <2>2, <2>3 DEF WindowOK
  <2>4. CASE \E i \in 0..(Window - 1) : x = r.cache[i]
    <3>1. PICK i \in 0..(Window - 1) : x = r.cache[i]
      BY <2>4
    <3>2. i = (r.head + (e - e)) % Window
      BY <3>1, <2>1, <2>2 DEF WindowOK
    <3>3. Window \in Nat /\ Window >= 1 /\ r.head \in Nat /\ r.head < Window
      BY <2>1, WindowType
    <3>4. r.head % Window = r.head
      BY <3>3, ModSmall
    <3>5. r.head + (e - e) = r.head
      BY <3>3, <2>1
    <3> QED
      BY <3>1, <3>2, <3>4, <3>5, <2>2
  <2>5. DOMAIN r.cache = 0..(Window - 1)
    BY <2>1, WindowType
  <2> QED
    BY <2>3, <2>4, <2>5
<1> QED
  BY <1>4, <1>5 DEF OrderRestored

\* In every pipeline, with every number of stages and units, queue size and window: a serial
\* stage (ple_keep) calls process in the order of the serial numbers, whatever the order in which the
\* units before it finish, and never waits for input while it holds the item whose turn it is. That is
\* what run_serial_step_fast is for.
THEOREM OrderIsRestored == Spec => []OrderRestored
<1>1. Init => OrderInv
  BY InitOrder
<1>2. OrderInv /\ [Next]_vars => OrderInv'
  BY NextOrder
<1>3. OrderInv => OrderRestored
  BY OrderFollows
<1> QED
  BY <1>1, <1>2, <1>3, PTL DEF Spec
=============================================================================
