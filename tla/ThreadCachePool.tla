-------------------------- MODULE ThreadCachePool --------------------------
(***************************************************************************)
(* The memory pool of a trie with many writers (mempool_thread_cache.hpp): *)
(* one growing area of fixed capacity, from which each thread takes chunks *)
(* for its own cache; the cache keeps a hot area that it cuts from the     *)
(* front, free lists by size, and a skip list of huge free blocks.         *)
(*                                                                         *)
(* Only mem::n is shared: it is read, and moved by a compare-exchange, in  *)
(* two steps.  Everything else belongs to the cache of one thread, so the  *)
(* work on it is one step.  Offsets and lengths are in units of AlignSize; *)
(* a free list is the sequence its links form.  The statistics             *)
(* (fragment_size, m_frag_inc, huge_size_sum, counts) are left out.        *)
(*                                                                         *)
(* A block is freed by whichever thread the caller has brought it to.      *)
(***************************************************************************)
EXTENDS Integers, Sequences, FiniteSets, SkipList

CONSTANTS
    PoolThreads,   \* model values
    PoolCap,       \* mem::c
    PoolBase,      \* address of mem::p modulo ArenaSize
    ArenaSize,
    FastMax,       \* m_freelist_head.size()
    Requests       \* lengths asked for

ASSUME PoolAssumption ==
    /\ PoolCap \in Nat /\ ArenaSize \in Nat \ {0} /\ PoolBase \in 0..(ArenaSize - 1)
    /\ FastMax \in Nat \ {0} /\ Requests \subseteq Nat \ {0}

VARIABLES
    memN,    \* mem::n
    tc,      \* tc[t]: the TCMemPoolOneThread of t
    held,    \* blocks <<pos, len>> that the callers have
    chunk    \* chunk[t]: the call of chunk_alloc or tc_populate that t is in, or NoChunk

poolVars == <<memN, tc, held, chunk>>

Fail == -1
NoBlock == <<0, 0>>
NoChunk == [for |-> "none", request |-> 0, old |-> NoBlock, oldn |-> 0, len |-> 0]

PoolInit ==
    /\ memN = 0
    /\ tc = [t \in PoolThreads |->
               [fast |-> [len \in 1..FastMax |-> <<>>], huge |-> NewList, hotPos |-> 0, hotEnd |-> 0]]
    /\ held = {}
    /\ chunk = [t \in PoolThreads |-> NoChunk]

----------------------------------------------------------------------------
(* TCMemPoolOneThread *)

\* sfree: back to the hot area if the block lies just before it, else to a list.
tc_sfree(c, pos, len, lev) ==
    IF pos + len = c.hotPos THEN [c EXCEPT !.hotPos = pos]
    ELSE IF len <= FastMax THEN [c EXCEPT !.fast[len] = <<pos>> \o @]
    ELSE [c EXCEPT !.huge = Insert(@, pos, len, lev)]

\* The free list of the length, or half of a block of twice the length.
AllocFast(c, len) ==
    IF c.fast[len] # <<>>
    THEN [pos |-> Head(c.fast[len]), c |-> [c EXCEPT !.fast[len] = Tail(@)]]
    ELSE LET pos == Head(c.fast[2 * len])
         IN  [pos |-> pos, c |-> [c EXCEPT !.fast[2 * len] = Tail(@), !.fast[len] = <<pos + len>>]]

CanAllocFast(c, len) == c.fast[len] # <<>> \/ (2 * len <= FastMax /\ c.fast[2 * len] # <<>>)

AllocHot(c, len) == [pos |-> c.hotPos, c |-> [c EXCEPT !.hotPos = @ + len]]
CanAllocHot(c, len) == c.hotPos + len <= c.hotEnd

\* The largest huge block becomes the hot area, what is left of the old one is freed.
AllocLargest(c, len, lev) ==
    LET Freed(d) == IF d.hotPos < d.hotEnd THEN tc_sfree(d, d.hotPos, d.hotEnd - d.hotPos, lev) ELSE d
        Cut(pos) ==
            [pos |-> pos, c |-> [Freed([c EXCEPT !.huge = RemoveBlock(@, pos, UpdateLast(@))])
                                   EXCEPT !.hotPos = pos + len, !.hotEnd = pos + c.huge.size[pos]]]
    IN  Cut(FindLargest(c.huge))

CanAllocLargest(c, len) == c.huge.height > 0 /\ c.huge.size[FindLargest(c.huge)] >= len

\* The huge block that fits best; what remains of it is freed.
AllocFit(c, len, lev) ==
    LET Freed(d, pos, remain) == IF remain > 0 THEN tc_sfree(d, pos + len, remain, lev) ELSE d
        Cut(pos) == [pos |-> pos, c |-> Freed([c EXCEPT !.huge = RemoveBlock(@, pos, Update(@, len))],
                                              pos, c.huge.size[pos] - len)]
    IN  Cut(FindFit(c.huge, len))

CanAllocFit(c, len) == FindFit(c.huge, len) # ListTail

\* TCMemPoolOneThread::alloc.
tc_alloc(c, len, lev) ==
    CASE len <= FastMax /\ CanAllocFast(c, len) -> AllocFast(c, len)
      [] len > FastMax /\ CanAllocFit(c, len) -> AllocFit(c, len, lev)
      [] (len <= FastMax => ~CanAllocFast(c, len)) /\ (len > FastMax => ~CanAllocFit(c, len))
           /\ CanAllocHot(c, len) -> AllocHot(c, len)
      [] len <= FastMax /\ ~CanAllocFast(c, len) /\ ~CanAllocHot(c, len) /\ CanAllocLargest(c, len)
           -> AllocLargest(c, len, lev)
      [] OTHER -> [pos |-> Fail, c |-> c]

\* TCMemPoolOneThread::alloc3: in place at the edge of the hot area or when it shrinks, else by a
\* new block (Fail: there is none) and the release of the old one.
tc_alloc3(c, pos, oldlen, newlen, lev, lev2) ==
    IF pos + oldlen = c.hotPos /\ pos + newlen <= c.hotEnd
    THEN [pos |-> pos, c |-> [c EXCEPT !.hotPos = pos + newlen]]
    ELSE IF newlen < oldlen THEN [pos |-> pos, c |-> tc_sfree(c, pos + newlen, oldlen - newlen, lev)]
    ELSE IF newlen = oldlen THEN [pos |-> pos, c |-> c]
    ELSE LET Moved(a) == IF a.pos = Fail THEN a ELSE [pos |-> a.pos, c |-> tc_sfree(a.c, pos, oldlen, lev2)]
         IN  Moved(tc_alloc(c, newlen, lev))

\* set_hot_area: the new chunk continues the hot area or replaces it.
set_hot_area(c, pos, len, lev) ==
    IF c.hotEnd = pos THEN [c EXCEPT !.hotEnd = pos + len]
    ELSE [(IF c.hotPos < c.hotEnd THEN tc_sfree(c, c.hotPos, c.hotEnd - c.hotPos, lev) ELSE c)
            EXCEPT !.hotPos = pos, !.hotEnd = pos + len]

----------------------------------------------------------------------------
(* ThreadCacheMemPool *)

UpAlign(len) == ((len + ArenaSize - 1) \div ArenaSize) * ArenaSize
DownAlign(len) == (len \div ArenaSize) * ArenaSize

\* The chunk goes to the end of an arena.
FillUp(n) == IF (PoolBase + n) % ArenaSize = 0 THEN 0 ELSE ArenaSize - ((PoolBase + n) % ArenaSize)

\* chunk_alloc's length, Fail when the capacity does not reach even for the request.
ChunkLen(n, len) ==
    LET chunkLen == UpAlign(len) + FillUp(n) IN
    IF n + chunkLen <= PoolCap THEN chunkLen
    ELSE IF n + len > PoolCap THEN Fail ELSE PoolCap - n

\* tc_populate's.
PopulateLen(n, sz) ==
    LET chunkLen == DownAlign(sz) + FillUp(n) IN
    IF n + chunkLen > PoolCap THEN PoolCap - n ELSE chunkLen

InChunk(t) == chunk[t] # NoChunk
Begin(t, for, len, old, chunkLen) ==
    chunk' = [chunk EXCEPT ![t] = [for |-> for, request |-> len, old |-> old, oldn |-> memN, len |-> chunkLen]]

\* alloc: from the cache.
Alloc(t, len, lev) ==
    /\ ~InChunk(t)
    /\ \E a \in {tc_alloc(tc[t], len, lev)} :
       /\ a.pos # Fail
       /\ tc' = [tc EXCEPT ![t] = a.c]
       /\ held' = held \cup {<<a.pos, len>>}
    /\ UNCHANGED <<memN, chunk>>

\* alloc: the cache has nothing, alloc_slow_path's chunk_alloc reads mem::n.  A call that fails
\* changes nothing.
AllocSlow(t, len) ==
    /\ ~InChunk(t)
    /\ tc_alloc(tc[t], len, 0).pos = Fail
    /\ ChunkLen(memN, len) # Fail
    /\ Begin(t, "alloc", len, NoBlock, ChunkLen(memN, len))
    /\ UNCHANGED <<memN, tc, held>>

\* alloc3: from the cache.
Alloc3(t, b, len, lev, lev2) ==
    /\ ~InChunk(t) /\ b \in held
    /\ \E a \in {tc_alloc3(tc[t], b[1], b[2], len, lev, lev2)} :
       /\ a.pos # Fail
       /\ tc' = [tc EXCEPT ![t] = a.c]
       /\ held' = (held \ {b}) \cup {<<a.pos, len>>}
    /\ UNCHANGED <<memN, chunk>>

Alloc3Slow(t, b, len) ==
    /\ ~InChunk(t) /\ b \in held
    /\ tc_alloc3(tc[t], b[1], b[2], len, 0, 0).pos = Fail
    /\ ChunkLen(memN, len) # Fail
    /\ Begin(t, "alloc3", len, b, ChunkLen(memN, len))
    /\ held' = held \ {b}
    /\ UNCHANGED <<memN, tc>>

Sfree(t, b, lev) ==
    /\ ~InChunk(t) /\ b \in held
    /\ tc' = [tc EXCEPT ![t] = tc_sfree(@, b[1], b[2], lev)]
    /\ held' = held \ {b}
    /\ UNCHANGED <<memN, chunk>>

Populate(t, sz) ==
    /\ ~InChunk(t)
    /\ Begin(t, "populate", sz, NoBlock, PopulateLen(memN, sz))
    /\ UNCHANGED <<memN, tc, held>>

\* The compare-exchange fails: mem::n is read again, and the call may fail now.
ChunkRetry(t) ==
    /\ InChunk(t) /\ memN # chunk[t].oldn
    /\ LET k   == chunk[t]
           len == IF k.for = "populate" THEN PopulateLen(memN, k.request) ELSE ChunkLen(memN, k.request)
       IN  IF len = Fail
           THEN /\ chunk' = [chunk EXCEPT ![t] = NoChunk]
                /\ held' = IF k.for = "alloc3" THEN held \cup {k.old} ELSE held
           ELSE Begin(t, k.for, k.request, k.old, len) /\ UNCHANGED held
    /\ UNCHANGED <<memN, tc>>

\* The request of a chunk is served from the cache that has it now, and alloc3 releases the old block.
Serve(t, got, lev) ==
    \E a \in {got}, k \in {chunk[t]} :
      /\ held' = held \cup {<<a.pos, k.request>>}
      /\ tc' = [tc EXCEPT ![t] = IF k.for = "alloc" THEN a.c ELSE tc_sfree(a.c, k.old[1], k.old[2], lev)]

\* Mutant of ChunkCas: mem::n is stored, whatever another thread has made of it.
ChunkCas_Store(t, lev, lev2, lev3) ==
    /\ InChunk(t)
    /\ memN' = chunk[t].oldn + chunk[t].len
    /\ \E c \in {set_hot_area(tc[t], chunk[t].oldn, chunk[t].len, lev)} :
         IF chunk[t].for = "populate" THEN tc' = [tc EXCEPT ![t] = c] /\ UNCHANGED held
         ELSE Serve(t, tc_alloc(c, chunk[t].request, lev2), lev3)
    /\ chunk' = [chunk EXCEPT ![t] = NoChunk]

\* The compare-exchange succeeds: the chunk becomes the hot area, and the request is served.
ChunkCas(t, lev, lev2, lev3) ==
    /\ InChunk(t) /\ memN = chunk[t].oldn
    /\ memN' = chunk[t].oldn + chunk[t].len
    /\ \E c \in {set_hot_area(tc[t], chunk[t].oldn, chunk[t].len, lev)} :
         IF chunk[t].for = "populate" THEN tc' = [tc EXCEPT ![t] = c] /\ UNCHANGED held
         ELSE Serve(t, tc_alloc(c, chunk[t].request, lev2), lev3)
    /\ chunk' = [chunk EXCEPT ![t] = NoChunk]

PoolNext ==
    \E t \in PoolThreads :
      \/ \E len \in Requests : AllocSlow(t, len) \/ Populate(t, len)
      \/ \E len \in Requests, b \in held : Alloc3Slow(t, b, len)
      \/ \E len \in Requests, lev \in Levels : Alloc(t, len, lev)
      \/ \E b \in held, lev \in Levels : Sfree(t, b, lev)
      \/ \E b \in held, len \in Requests, lev, lev2 \in Levels : Alloc3(t, b, len, lev, lev2)
      \/ \E lev, lev2, lev3 \in Levels : ChunkCas(t, lev, lev2, lev3)
      \/ ChunkRetry(t)

PoolSpec == PoolInit /\ [][PoolNext]_poolVars

----------------------------------------------------------------------------
\* The parts of the pool, each with who has it.
FreeBlocks(t) ==
    LET c == tc[t] IN
    UNION {{<<c.fast[len][i], len>> : i \in DOMAIN c.fast[len]} : len \in 1..FastMax}
    \cup {<<p, c.huge.size[p]>> : p \in Nodes(c.huge)}
    \cup (IF c.hotPos < c.hotEnd THEN {<<c.hotPos, c.hotEnd - c.hotPos>>} ELSE {})

Parts ==
    {<<"held", b[1], b[2]>> : b \in held}
    \cup {<<"old", chunk[t].old[1], chunk[t].old[2]>> : t \in {t \in PoolThreads : chunk[t].for = "alloc3"}}
    \cup UNION {{<<t, b[1], b[2]>> : b \in FreeBlocks(t)} : t \in PoolThreads}

\* Every unit below mem::n belongs to one block, free or held, of one owner: nothing is handed
\* out twice, nothing is lost, and nothing reaches beyond mem::n, which stays in the capacity.
Whole ==
    /\ memN <= PoolCap
    /\ \A x \in 0..(PoolCap - 1) :
         Cardinality({p \in Parts : p[2] <= x /\ x < p[2] + p[3]}) = (IF x < memN THEN 1 ELSE 0)
    /\ \A p \in Parts : p[2] >= 0 /\ p[2] + p[3] <= memN

\* No free list has a block twice.
ListsAreSets == \A t \in PoolThreads, len \in 1..FastMax :
    \A i, j \in DOMAIN tc[t].fast[len] : tc[t].fast[len][i] = tc[t].fast[len][j] => i = j

\* The memory of the pool is divided among its users, and the skip lists of the caches hold.
PoolIsWhole == Whole /\ ListsAreSets /\ \A t \in PoolThreads : Sound(tc[t].huge)
=============================================================================
