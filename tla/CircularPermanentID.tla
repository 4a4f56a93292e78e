------------------------ MODULE CircularPermanentID ------------------------
(***************************************************************************)
(* CircularPermanentID (zbs/lru_page_cache.cpp): a table of permanent ids  *)
(* in a circular array.  The object of id is at id modulo the capacity, a  *)
(* power of two; ids below m_min_id are gone, dropped ids above it have a  *)
(* bit in m_dropped.  A full table doubles: the part of the ring whose ids *)
(* have the new bit moves up.  m_head is m_min_id modulo the capacity.     *)
(***************************************************************************)
EXTENDS Integers, FiniteSets, TLC

CONSTANTS
    Objects,
    Word,      \* TERARK_WORD_BITS, a power of two: the least capacity
    MaxId      \* bound: ids given out

ASSUME PermanentIDAssumption ==
    Word \in Nat \ {0, 1} /\ (\E k \in 0..Word : Word = 2^k) /\ MaxId \in Nat

VARIABLES m_objects, m_dropped, m_cap, m_tail, m_min_id, m_num_free,
          ret  \* the id the last push returned

vars == <<m_objects, m_dropped, m_cap, m_tail, m_min_id, m_num_free, ret>>

CONSTANT Garbage  \* the content of memory nobody has written

Init ==
    /\ m_cap = Word
    /\ m_objects = [i \in 0..Word - 1 |-> Garbage]
    /\ m_dropped = [i \in 0..Word - 1 |-> FALSE]
    /\ m_tail = 0 /\ m_min_id = 0 /\ m_num_free = 0
    /\ ret = 0

head == m_min_id % m_cap
VirtTail == (m_tail - head) % m_cap
max_id == m_min_id + VirtTail

IsFull == VirtTail = m_cap - 1

\* The id bit that becomes part of the index when the capacity doubles.
NewBit == (m_min_id \div m_cap) % 2 = 1

\* Positions first..last of f move up by m_cap; the rest of the new half is g.
MoveUp(f, first, last, g) ==
    [i \in 0..2 * m_cap - 1 |->
        IF i < m_cap THEN f[i] ELSE IF i - m_cap \in first..last THEN f[i - m_cap] ELSE g]

\* The bits of m_dropped move in whole words.
WordFloor(i) == i - (i % Word)
WordCeil(i) == WordFloor(i + Word - 1)

\* Store x at tail in arrays of capacity cap and return id min + vtail.
DoPush(x, objects, dropped, cap, min, tail, vtail) ==
    /\ m_objects' = [objects EXCEPT ![tail] = x]
    /\ m_dropped' = [dropped EXCEPT ![tail] = FALSE]
    /\ m_cap' = cap
    /\ m_tail' = (tail + 1) % cap
    /\ m_min_id' = min
    /\ ret' = min + vtail

PushRoom(x) ==
    /\ ~IsFull
    /\ DoPush(x, m_objects, m_dropped, m_cap, m_min_id, m_tail, VirtTail)
    /\ UNCHANGED m_num_free

\* Full, but the first id is a dropped one.
PushReuse(x) ==
    /\ IsFull /\ m_dropped[head]
    /\ m_num_free' = m_num_free - 1
    /\ DoPush(x, m_objects, m_dropped, m_cap, m_min_id + 1, m_tail,
              (m_tail - (m_min_id + 1)) % m_cap)

\* Mutant of PushGrow: the wrong part of a wrapped ring moves.
PushGrow_SwapHalves(x) ==
    /\ IsFull /\ ~m_dropped[head] /\ m_tail < head
    /\ IF NewBit
       THEN DoPush(x, MoveUp(m_objects, 0, m_tail - 1, Garbage),
                      MoveUp(m_dropped, 0, WordCeil(m_tail) - 1, FALSE),
                   2 * m_cap, m_min_id, m_tail + m_cap, m_tail + m_cap - head)
       ELSE DoPush(x, MoveUp(m_objects, head, m_cap - 1, Garbage),
                      MoveUp(m_dropped, WordFloor(head), m_cap - 1, FALSE),
                   2 * m_cap, m_min_id, m_tail, (m_tail - (head + m_cap)) % (2 * m_cap))
    /\ UNCHANGED m_num_free

\* The ring wraps around the end of the array.  g: what realloc leaves in the new bits.
PushGrow(x) ==
    /\ IsFull /\ ~m_dropped[head] /\ m_tail < head
    /\ \E g \in BOOLEAN :
          \/ /\ NewBit
             /\ DoPush(x, MoveUp(m_objects, head, m_cap - 1, Garbage),
                          MoveUp(m_dropped, WordFloor(head), m_cap - 1, g),
                       2 * m_cap, m_min_id, m_tail, (m_tail - (head + m_cap)) % (2 * m_cap))
          \/ /\ ~NewBit
             /\ DoPush(x, MoveUp(m_objects, 0, m_tail - 1, Garbage),
                          MoveUp(m_dropped, 0, WordCeil(m_tail) - 1, g),
                       2 * m_cap, m_min_id, m_tail + m_cap, m_tail + m_cap - head)
    /\ UNCHANGED m_num_free

\* The ring starts at index 0.
PushGrowAligned(x) ==
    /\ IsFull /\ ~m_dropped[head] /\ m_tail >= head
    /\ \E g \in BOOLEAN :
          \/ /\ NewBit
             /\ DoPush(x, MoveUp(m_objects, 0, m_cap - 2, Garbage), MoveUp(m_dropped, 0, m_cap - 1, g),
                       2 * m_cap, m_min_id, m_tail + m_cap, m_tail + m_cap)
          \/ /\ ~NewBit
             /\ DoPush(x, MoveUp(m_objects, 1, 0, Garbage), MoveUp(m_dropped, 1, 0, g),
                       2 * m_cap, m_min_id, m_tail, VirtTail)
    /\ UNCHANGED m_num_free

push(x) == PushRoom(x) \/ PushReuse(x) \/ PushGrow(x) \/ PushGrowAligned(x)

\* Ids that are not dropped, as operator[] and drop assert it of their argument.
Used == {id \in m_min_id..max_id - 1 : ~m_dropped[id % m_cap]}

drop(id) ==
    /\ IF id # m_min_id
       THEN /\ m_num_free' = m_num_free + 1
            /\ m_dropped' = [m_dropped EXCEPT ![id % m_cap] = TRUE]
            /\ UNCHANGED m_min_id
       ELSE /\ m_min_id' = m_min_id + 1
            /\ UNCHANGED <<m_num_free, m_dropped>>
    /\ UNCHANGED <<m_objects, m_cap, m_tail, ret>>

Push == max_id < MaxId /\ \E x \in Objects : push(x)
Drop == \E id \in Used : drop(id)
Stopped == max_id >= MaxId /\ Used = {} /\ UNCHANGED vars

Next == Push \/ Drop \/ Stopped
Spec == Init /\ [][Next]_vars

----------------------------------------------------------------------------
(* Properties *)

\* The tail stays inside the arrays, which have the capacity the code believes they have.
IdTypeOK ==
    /\ m_tail \in 0..m_cap - 1 /\ ret \in Nat /\ m_num_free \in 0..m_cap
    /\ DOMAIN m_objects = 0..m_cap - 1 /\ DOMAIN m_dropped = 0..m_cap - 1

\* num_used() is the number of ids in use, through wrap-around, reuse and doubling.
UsedIsCounted == VirtTail - m_num_free = Cardinality(Used)

\* The array holds the object of every id from its push to its drop, wherever the ring
\* stands when it wraps, reuses a dropped place or doubles.
Table == INSTANCE PermanentID WITH
    table <- [id \in Used |-> m_objects[id % m_cap]], next <- max_id
KeepsIds == Table!Spec

\* The id a push returns is the one that operator[] and drop know the object by.
ReturnsItsId == [][max_id' > max_id => ret' = max_id]_vars
=============================================================================
