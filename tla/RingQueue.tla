----------------------------- MODULE RingQueue -----------------------------
(***************************************************************************)
(* The two circular queues: circular_queue (circular_queue.hpp), a ring of *)
(* fixed length that wastes one place, and AutoGrowCircularQueue           *)
(* (util/auto_grow_circular_queue.hpp), which doubles a power-of-two ring  *)
(* when it is full.                                                        *)
(*                                                                         *)
(* A ring is a record: vec, head, tail as in the classes, and nlen (m_nlen *)
(* or m_cap).  Places that hold no element hold what was there before.     *)
(***************************************************************************)
EXTENDS Naturals, Sequences

\* next and prev; with CapIsPower2 the mask m_nlen-1 computes the same places.
next(r, i) == IF i + 1 < r.nlen THEN i + 1 ELSE i + 1 - r.nlen
prev(r, i) == IF i >= 1 THEN i - 1 ELSE i + r.nlen - 1
next_n(r, i, n) == IF i + n < r.nlen THEN i + n ELSE i + n - r.nlen

NewRing(cap, junk) == [vec |-> [i \in 0..(cap - 1) |-> junk], head |-> 0, tail |-> 0, nlen |-> cap]

empty(r) == r.head = r.tail
full(r) == next(r, r.tail) = r.head
size(r) == IF r.head <= r.tail THEN r.tail - r.head ELSE r.tail + r.nlen - r.head

front(r) == r.vec[r.head]
back(r) == r.vec[prev(r, r.tail)]

\* Mutant of push_back: the tail is moved before the element is stored.
push_back_Late(r, v) == LET t == next(r, r.tail) IN [r EXCEPT !.vec[t] = v, !.tail = t]

push_back(r, v)  == [r EXCEPT !.vec[r.tail] = v, !.tail = next(r, r.tail)]
pop_front(r)     == [r EXCEPT !.head = next(r, r.head)]
push_front(r, v) == LET h == prev(r, r.head) IN [r EXCEPT !.head = h, !.vec[h] = v]
pop_back(r)      == [r EXCEPT !.tail = prev(r, r.tail)]

\* operator[] and real_index: the place of the element i places behind the head.
real_index(r, i) == next_n(r, r.head, i)
virtual_index(r, i) == IF i >= r.head THEN i - r.head ELSE i + r.nlen - r.head
Elem(r, i) == r.vec[real_index(r, i)]

\* What the queue holds, front first.
Items(r) == [i \in 1..size(r) |-> Elem(r, i - 1)]

----------------------------------------------------------------------------
(* AutoGrowCircularQueue. *)

\* double_cap: the half that wraps around is moved behind the old end.
double_cap(r) ==
    LET cap == r.nlen
        old(i) == r.vec[IF i >= cap THEN i - cap ELSE i]
        junk == r.vec[r.tail]
    IN  IF r.head > cap \div 2
        THEN [vec |-> [i \in 0..(2 * cap - 1) |->
                         IF i < cap THEN r.vec[i] ELSE IF i >= cap + r.head THEN old(i) ELSE junk],
              head |-> cap + r.head, tail |-> r.tail, nlen |-> 2 * cap]
        ELSE [vec |-> [i \in 0..(2 * cap - 1) |->
                         IF i < cap THEN r.vec[i] ELSE IF i < cap + r.tail THEN old(i) ELSE junk],
              head |-> r.head, tail |-> cap + r.tail, nlen |-> 2 * cap]

push_back_slow_path(r, v) == push_back(double_cap(r), v)

\* push_back of the growing queue: full when (head - tail) & (cap - 1) is 1.
grow_push_back(r, v) == IF full(r) THEN push_back_slow_path(r, v) ELSE push_back(r, v)

\* pop_n: the first n elements, in one or two pieces.
pop_n(r, n0) ==
    LET n == IF n0 < size(r) THEN n0 ELSE size(r)
        len1 == IF r.nlen - r.head < n THEN r.nlen - r.head ELSE n
    IN  [out |-> IF r.head < r.tail
                 THEN [i \in 1..n |-> r.vec[r.head + i - 1]]
                 ELSE [i \in 1..n |-> IF i <= len1 THEN r.vec[r.head + i - 1]
                                                   ELSE r.vec[i - len1 - 1]],
         ring |-> [r EXCEPT !.head = (r.head + n) % r.nlen]]

\* pop_all: everything, by the same two pieces, whatever the queue holds.
pop_all(r) ==
    [out |-> IF r.head < r.tail
             THEN [i \in 1..(r.tail - r.head) |-> r.vec[r.head + i - 1]]
             ELSE LET len1 == r.nlen - r.head IN
                  [i \in 1..(len1 + r.tail) |-> IF i <= len1 THEN r.vec[r.head + i - 1]
                                                             ELSE r.vec[i - len1 - 1]],
     ring |-> [r EXCEPT !.head = 0, !.tail = 0]]
=============================================================================
