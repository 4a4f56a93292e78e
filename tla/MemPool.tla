------------------------------ MODULE MemPool ------------------------------
(***************************************************************************)
(* The memory pools with one user: MemPool_LockNone of a trie in one       *)
(* thread, whose area grows as needed, and MemPool_FixedCap of a trie with *)
(* one writer, whose area must not move (mempool_lock_none.hpp,            *)
(* mempool_fixed_cap.hpp).  Free blocks are in lists by size and, when     *)
(* huge, in a skip list; the block at the end of the area is cut off, not  *)
(* listed.  The two are the same code but for the end of the area: a pool  *)
(* that grows is one whose capacity is never reached.                      *)
(*                                                                         *)
(* Offsets and lengths are in units of AlignSize.  The statistics are left *)
(* out.                                                                    *)
(***************************************************************************)
EXTENDS Integers, Sequences, FiniteSets, SkipList

CONSTANTS
    SeqCap,        \* mem::c
    SeqFastMax,    \* free_list_len
    SeqRequests

ASSUME MemPoolAssumption == SeqCap \in Nat /\ SeqFastMax \in Nat \ {0} /\ SeqRequests \subseteq Nat \ {0}

VARIABLES
    seq,       \* the pool: n, fast (free_list_arr) and huge (huge_list)
    seqHeld    \* blocks <<pos, len>> that the user has

seqVars == <<seq, seqHeld>>

NoMem == -1
NewPool == [n |-> 0, fast |-> [len \in 1..SeqFastMax |-> <<>>], huge |-> NewList]

MemPoolInit == seq = NewPool /\ seqHeld = {}

\* sfree.
seq_sfree(p, pos, len, lev) ==
    IF pos + len = p.n THEN [p EXCEPT !.n = pos]
    ELSE IF len <= SeqFastMax THEN [p EXCEPT !.fast[len] = <<pos>> \o @]
    ELSE [p EXCEPT !.huge = Insert(@, pos, len, lev)]

\* The end of the area, if there is room.
AtEnd(p, len) ==
    IF p.n + len <= SeqCap THEN [pos |-> p.n, p |-> [p EXCEPT !.n = @ + len]] ELSE [pos |-> NoMem, p |-> p]

\* Mutant of TakeFit: all of the block is handed out for the length asked for.
TakeFit_All(p, len, lev) ==
    [pos |-> FindFit(p.huge, len), p |-> [p EXCEPT !.huge = RemoveBlock(@, FindFit(@, len), Update(@, len))]]

\* The huge block that fits best; what remains of it is freed.
TakeFit(p, len, lev) ==
    LET Freed(q, pos, remain) == IF remain > 0 THEN seq_sfree(q, pos + len, remain, lev) ELSE q
        Cut(pos) == [pos |-> pos, p |-> Freed([p EXCEPT !.huge = RemoveBlock(@, pos, Update(@, len))],
                                              pos, p.huge.size[pos] - len)]
    IN  Cut(FindFit(p.huge, len))

\* alloc.
seq_alloc(p, len, lev) ==
    IF len <= SeqFastMax
    THEN IF p.fast[len] # <<>>
         THEN [pos |-> Head(p.fast[len]), p |-> [p EXCEPT !.fast[len] = Tail(@)]]
         ELSE AtEnd(p, len)
    ELSE IF FindFit(p.huge, len) # ListTail THEN TakeFit(p, len, lev) ELSE AtEnd(p, len)

\* alloc3.  At the end of the area a block grows or shrinks in place.
seq_alloc3(p, pos, oldlen, newlen, lev, lev2) ==
    IF pos + oldlen = p.n /\ pos + newlen <= SeqCap THEN [pos |-> pos, p |-> [p EXCEPT !.n = pos + newlen]]
    ELSE IF newlen < oldlen THEN [pos |-> pos, p |-> seq_sfree(p, pos + newlen, oldlen - newlen, lev)]
    ELSE IF newlen = oldlen THEN [pos |-> pos, p |-> p]
    ELSE LET Moved(a) == IF a.pos = NoMem THEN a ELSE [pos |-> a.pos, p |-> seq_sfree(a.p, pos, oldlen, lev2)]
         IN  Moved(seq_alloc(p, newlen, lev))

PoolAlloc(len, lev) ==
    \E a \in {seq_alloc(seq, len, lev)} :
    /\ a.pos # NoMem
    /\ seq' = a.p /\ seqHeld' = seqHeld \cup {<<a.pos, len>>}

PoolAlloc3(b, len, lev, lev2) ==
    \E a \in {seq_alloc3(seq, b[1], b[2], len, lev, lev2)} :
    /\ b \in seqHeld /\ a.pos # NoMem
    /\ seq' = a.p /\ seqHeld' = (seqHeld \ {b}) \cup {<<a.pos, len>>}

PoolFree(b, lev) ==
    /\ b \in seqHeld
    /\ seq' = seq_sfree(seq, b[1], b[2], lev) /\ seqHeld' = seqHeld \ {b}

\* erase_all, clear: the pool is empty, its lists too.
PoolClear ==
    /\ seqHeld # {}
    /\ seq' = NewPool /\ seqHeld' = {}

MemPoolNext ==
    \/ \E len \in SeqRequests, lev \in Levels : PoolAlloc(len, lev)
    \/ \E b \in seqHeld, len \in SeqRequests, lev, lev2 \in Levels : PoolAlloc3(b, len, lev, lev2)
    \/ \E b \in seqHeld, lev \in Levels : PoolFree(b, lev)
    \/ PoolClear

MemPoolSpec == MemPoolInit /\ [][MemPoolNext]_seqVars

----------------------------------------------------------------------------
SeqFree ==
    UNION {{<<seq.fast[len][i], len>> : i \in DOMAIN seq.fast[len]} : len \in 1..SeqFastMax}
    \cup {<<p, seq.huge.size[p]>> : p \in Nodes(seq.huge)}

\* Every unit below n is in one block, held or free; the skip list leads to all huge blocks in
\* the order of their size, and no free list has a block twice.
SeqIsWhole ==
    /\ seq.n <= SeqCap
    /\ \A x \in 0..(SeqCap - 1) :
         LET has(b) == b[1] <= x /\ x < b[1] + b[2] IN
         Cardinality({b \in seqHeld : has(b)}) + Cardinality({b \in SeqFree : has(b)}) = (IF x < seq.n THEN 1 ELSE 0)
    /\ \A b \in seqHeld \cup SeqFree : b[1] >= 0 /\ b[1] + b[2] <= seq.n
    /\ \A len \in 1..SeqFastMax, i, j \in 1..SeqCap :
         {i, j} \subseteq DOMAIN seq.fast[len] /\ i # j => seq.fast[len][i] # seq.fast[len][j]
    /\ Sound(seq.huge)
=============================================================================
