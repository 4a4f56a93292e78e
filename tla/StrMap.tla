------------------------------- MODULE StrMap -------------------------------
(***************************************************************************)
(* hash_strmap (hash_strmap.hpp): a hash map whose keys lie one behind the *)
(* other in a string pool.  A node holds the offset of its key, the key    *)
(* ends where the next node's begins, so nodes and pool must be moved      *)
(* together; erased slots are kept in free lists by size, linked through   *)
(* the first bytes of the erased key, or closed by revoke_deleted.         *)
(*                                                                         *)
(* Sizes and offsets count units of SP_ALIGN bytes.  A map is a record     *)
(* with the members of the class.  pool[o] is what begins at offset o: a   *)
(* key, or the link of a free list (FreeCell).                             *)
(***************************************************************************)
EXTENDS Integers, Sequences, FiniteSets, FiniteSetsExt

CONSTANTS
    StrKeys,      \* natural numbers, in the order of the strings
    KeySize,      \* the units a key takes, with its padding
    StrHash,      \* HashFunc
    StrValues,    \* natural numbers
    StrPrimes,    \* the sizes __hsm_stl_next_prime knows
    Align,        \* SP_ALIGN
    FreeLens,     \* maxKeyLen of enable_freelist
    MapTypes,     \* the types of map: <<"inline" or "out" (ValueInline, ValueOut), maxlink, maxoffset>>
    MaxStrOps     \* bound: calls

ASSUME StrMapAssumption ==
    /\ StrKeys \subseteq Nat /\ StrHash \in [StrKeys -> Nat] /\ KeySize \in [StrKeys -> Nat \ {0}]
    /\ StrValues \subseteq Nat /\ StrPrimes \subseteq Nat /\ FreeLens \subseteq Nat \ {0}
    /\ Align \in Nat \ {0} /\ MaxStrOps \in Nat /\ MapTypes \subseteq {"inline", "out"} \X Nat \X Nat

VARIABLES
    map,        \* the map
    pairs,      \* what it should hold: a function from keys to values
    strOps      \* calls so far

strVars == <<map, pairs, strOps>>

End      == -1      \* tail
Deleted  == -2      \* delmark
Nothing0 == -3
FreeCell(slot) == -10 - slot
LinkOf(cell)   == -10 - cell
NodeIds  == 0..(2 * Cardinality(StrKeys) + 1)

NoList == [head |-> End, llen |-> 0]

\* init.
NewMap(type) ==
    [off |-> [i \in NodeIds |-> 0], link |-> [i \in NodeIds |-> End], hash |-> [i \in NodeIds |-> Nothing0],
     val |-> [i \in NodeIds |-> Nothing0], pool |-> <<>>, bucket |-> [b \in {0} |-> End], nBucket |-> 1,
     nNodes |-> 0, maxNodes |-> 0, maxload |-> 0, nDeleted |-> 0, cached |-> TRUE,
     lenpool |-> 0, maxpool |-> 0, freepool |-> 0, fastleng |-> -1, fast |-> <<>>, huge |-> NoList,
     pct |-> 30, sorted |-> "no", place |-> type[1],
     maxlink |-> type[2], maxoffset |-> type[3]]

\* clear: the map is as it began.
str_clear(m) == NewMap(<<m.place, m.maxlink, m.maxoffset>>)

----------------------------------------------------------------------------
(* Nodes and chains *)

LiveNodes(m) == {i \in 0..(m.nNodes - 1) : m.link[i] # Deleted}
NodeSize(m, i) == m.off[i + 1] - m.off[i]

\* key(i): the string between two offsets; nothing if no key lies there.
key_at(m, i) ==
    LET c == IF m.off[i] \in DOMAIN m.pool THEN m.pool[m.off[i]] ELSE Nothing0 IN
    IF c \in StrKeys /\ KeySize[c] = NodeSize(m, i) THEN c ELSE Nothing0

\* The bytes of a pool without those past its end.
Cut(pool, len) == [o \in {p \in DOMAIN pool : p < len} |-> pool[o]]
Put(pool, o, cell) == [p \in DOMAIN pool \cup {o} |-> IF p = o THEN cell ELSE pool[p]]

str_find_i(m, k) ==
    LET go[p \in NodeIds \cup {End}] ==
            IF p = End THEN m.nNodes ELSE IF key_at(m, p) = k THEN p ELSE go[m.link[p]]
    IN  go[m.bucket[StrHash[k] % m.nBucket]]

\* relink_impl: each node goes to the head of its chain.
str_relink(m, fill) ==
    LET in == IF m.nDeleted = 0 THEN 0..(m.nNodes - 1) ELSE LiveNodes(m)
        h(j) == IF m.cached /\ ~fill THEN m.hash[j] ELSE StrHash[key_at(m, j)]
        last(b, n) == Max({End} \cup {i \in in : i < n /\ h(i) % m.nBucket = b})
    IN  [m EXCEPT !.bucket = [b \in 0..(m.nBucket - 1) |-> last(b, m.nNodes)],
                  !.link = [j \in NodeIds |-> IF j \in in THEN last(h(j) % m.nBucket, j) ELSE @[j]],
                  !.hash = [j \in NodeIds |-> IF j \in in /\ m.cached THEN h(j) ELSE @[j]]]
relink(m) == str_relink(m, FALSE)
relink_fill(m) == str_relink(m, TRUE)

str_next_prime(n) == Min({p \in StrPrimes : p >= n})
str_rehash(m, n) ==
    LET nb == str_next_prime(n) IN
    IF nb = m.nBucket THEN m
    ELSE [relink([m EXCEPT !.nBucket = nb]) EXCEPT !.maxload = Min({(nb * m.pct) \div 100, m.maxlink})]

\* The nodes of keep, in the order of seq, moved together to the front with their keys, values and
\* cached hashes; what is behind them is free.  Chains are not touched.
Gather(m, seq) ==
    LET n == Len(seq)
        off[i \in 0..n] == IF i = 0 THEN 0 ELSE off[i - 1] + NodeSize(m, seq[i])
        Src(i) == seq[i + 1]
        cells == {off[i] : i \in 0..(n - 1)}
    IN  [m EXCEPT !.off = [i \in NodeIds |-> IF i <= n THEN off[i] ELSE 0],
                  !.val = [i \in NodeIds |-> IF i < n THEN @[Src(i)] ELSE Nothing0],
                  !.hash = [i \in NodeIds |-> IF i < n THEN @[Src(i)] ELSE Nothing0],
                  !.pool = [o \in cells |-> @[m.off[Src(CHOOSE i \in 0..(n - 1) : off[i] = o)]]],
                  !.nNodes = n, !.lenpool = off[n], !.link = [i \in NodeIds |-> IF i < n THEN @[i] ELSE End]]
Ascending(set) == [i \in 1..Cardinality(set) |-> CHOOSE j \in set : Cardinality({k \in set : k < j}) = i - 1]

str_revoke_no_relink(m) == [Gather(m, Ascending(LiveNodes(m))) EXCEPT !.nDeleted = 0, !.freepool = 0]
str_revoke_deleted(m) == IF m.nDeleted > 0 THEN relink(str_revoke_no_relink(m)) ELSE m

\* reserve_nodes, at most maxlink; reserve_nodes_impl keeps the nodes and the guard behind them, in each of its four
\* forms (FastCopy or SafeCopy, ValueInline or ValueOut).
reserve_nodes_impl(m, cap) == [m EXCEPT !.maxNodes = cap]
str_reserve_nodes(m, cap) ==
    LET r == IF m.fastleng = -1 THEN str_revoke_deleted(m) ELSE m
        most == Min({cap, m.maxlink})
    IN  IF most # r.maxNodes THEN reserve_nodes_impl(r, most) ELSE r
str_reserve(m, cap) == str_rehash(str_reserve_nodes(m, cap), (Min({cap, m.maxlink}) * 100) \div m.pct + 1)

----------------------------------------------------------------------------
(* Free lists *)

\* put_to_freelist: the link is written over the first bytes of the key.
put_to_freelist(m, i) ==
    LET f == NodeSize(m, i) - 1
        inFast == f < m.fastleng
        list == IF inFast THEN m.fast[f] ELSE m.huge
        new == [head |-> i, llen |-> list.llen + 1]
    IN  [m EXCEPT !.pool[m.off[i]] = FreeCell(list.head),
                  !.fast = IF inFast THEN [@ EXCEPT ![f] = new] ELSE @,
                  !.huge = IF inFast THEN @ ELSE new]

\* The slots of a list, first to last.
Listed(m, head) ==
    LET go[i \in NodeIds \cup {End}] == IF i = End THEN <<>> ELSE <<i>> \o go[LinkOf(m.pool[m.off[i]])] IN go[head]

\* Writes a list of slots.
Chained(m, slots) ==
    [m EXCEPT !.pool = [o \in DOMAIN @ |->
        LET at == {j \in DOMAIN slots : m.off[slots[j]] = o} IN
        IF at = {} THEN @[o] ELSE LET j == CHOOSE j \in at : TRUE IN
            FreeCell(IF j = Len(slots) THEN End ELSE slots[j + 1])]]
HeadOf(slots) == [head |-> IF slots = <<>> THEN End ELSE slots[1], llen |-> Len(slots)]

\* A free slot of this size, or End.
FreeSlot(m, size) ==
    IF m.fastleng = -1 THEN End
    ELSE IF size - 1 < m.fastleng THEN m.fast[size - 1].head
    ELSE LET fit == SelectSeq(Listed(m, m.huge.head), LAMBDA i : NodeSize(m, i) = size) IN
         IF fit = <<>> THEN End ELSE fit[1]

TakeSlot(m, i) ==
    LET size == NodeSize(m, i)
        rest == SelectSeq(Listed(m, m.huge.head), LAMBDA j : j # i)
        u == IF size - 1 < m.fastleng
             THEN [m EXCEPT !.fast[size - 1] = [head |-> LinkOf(m.pool[m.off[i]]), llen |-> @.llen - 1]]
             ELSE [Chained(m, rest) EXCEPT !.huge = HeadOf(rest)]
    IN  [u EXCEPT !.freepool = @ - size, !.nDeleted = @ - 1]

align_pow2(x) == CHOOSE p \in {2 ^ n : n \in 0..20} : p >= x /\ (p = 1 \/ p \div 2 < x)

\* What alloc_slot throws leaves no slot; the map keeps what was done to it until then.
Refused(m) == [slot |-> Nothing0, m |-> m]
NewSlot(u, size) ==
    [slot |-> u.nNodes, m |-> [u EXCEPT !.lenpool = @ + size, !.nNodes = @ + 1,
                                        !.off[u.nNodes + 1] = u.lenpool + size, !.link[u.nNodes + 1] = End]]

\* A slot at the end of the pool, which gets room for size more units: deleted keys go if they are worth
\* it, or if the pool cannot grow (fails) and they are enough.
GrowPool(m, size, fails) ==
    LET Frees(n) == m.fastleng = -1 /\ m.freepool >= n
        expect == align_pow2(((m.lenpool + size) * 5) \div 4)
    IN  CASE m.lenpool + size <= m.maxpool -> NewSlot(m, size)
          [] m.lenpool + size > m.maxpool /\ m.lenpool + size > m.maxoffset -> Refused(m)
          [] OTHER ->
                IF Frees(Max({m.maxpool \div 4, size})) \/ (fails /\ Frees(size))
                THEN NewSlot(str_revoke_deleted(m), size)
                ELSE IF fails THEN Refused(m)
                ELSE NewSlot([m EXCEPT !.maxpool = Min({expect, m.maxoffset})], size)

\* alloc_slot: a slot of a free list, or a new one at the end, for which the nodes may have to grow too.
alloc_slot(m, size, fails) ==
    LET free == FreeSlot(m, size)
        full == m.nNodes = m.maxNodes
        grown == IF full THEN str_reserve_nodes(m, IF m.nNodes = 0 THEN 1 ELSE 2 * m.nNodes) ELSE m
    IN  IF free # End THEN [slot |-> free, m |-> TakeSlot(m, free)]
        ELSE IF full /\ m.nNodes = m.maxlink THEN Refused(m)
        ELSE GrowPool(grown, size, fails)

\* insert_i of a key that is not there: the map, and whether the key is in it now.
TryInsert(m, k, v, fails) ==
    LET Linked(u, s, b) ==
            [u EXCEPT !.pool = Put(@, u.off[s], k), !.val[s] = v, !.link[s] = u.bucket[b], !.bucket[b] = s,
                      !.hash[s] = IF u.cached THEN StrHash[k] ELSE @, !.sorted = "no"]
        In(a) == IF a.slot = Nothing0 THEN [m |-> a.m, in |-> FALSE]
                 ELSE [m |-> Linked(a.m, a.slot, StrHash[k] % a.m.nBucket), in |-> TRUE]
    IN  In(alloc_slot(IF m.nNodes >= m.maxload THEN str_rehash(m, m.nBucket + 1) ELSE m, KeySize[k], fails))
str_insert_i(m, k, v) == TryInsert(m, k, v, FALSE).m

\* Slot i leaves chain b.
str_unlink(m, i, b) ==
    IF m.bucket[b] = i THEN [m EXCEPT !.bucket[b] = m.link[i]]
    ELSE LET go[q \in NodeIds] == IF m.link[q] = i THEN q ELSE go[m.link[q]]
         IN  [m EXCEPT !.link[go[m.bucket[b]]] = m.link[i]]
HashOf(m, i) == IF m.cached THEN m.hash[i] ELSE StrHash[key_at(m, i)]

\* Mutant of erase_i_impl: the end of the pool stays where it was when the last node goes.
erase_node_KeepPool(m, i) ==
    LET u == [str_unlink(m, i, HashOf(m, i) % m.nBucket) EXCEPT !.link[i] = Deleted, !.val[i] = Nothing0]
        v == [u EXCEPT !.freepool = @ + NodeSize(m, i), !.nDeleted = @ + 1]
    IN  IF i = m.nNodes - 1
        THEN [u EXCEPT !.nNodes = i, !.link[i] = End, !.off[i + 1] = 0]
        ELSE IF m.fastleng # -1 THEN put_to_freelist(v, i)
        ELSE IF v.nDeleted >= v.nNodes \div 2 THEN str_revoke_deleted(v) ELSE v

\* erase_i_impl: the last node is cut off, the others are marked; then they are listed or, when half of
\* the nodes are marked, all are closed up.
erase_node(m, i) ==
    LET u == [str_unlink(m, i, HashOf(m, i) % m.nBucket) EXCEPT !.link[i] = Deleted, !.val[i] = Nothing0]
        v == [u EXCEPT !.freepool = @ + NodeSize(m, i), !.nDeleted = @ + 1]
    IN  IF i = m.nNodes - 1
        THEN [u EXCEPT !.nNodes = i, !.link[i] = End, !.lenpool = m.off[i], !.pool = Cut(@, m.off[i]),
                       !.off[i + 1] = 0]
        ELSE IF m.fastleng # -1 THEN put_to_freelist(v, i)
        ELSE IF v.nDeleted >= v.nNodes \div 2 THEN str_revoke_deleted(v) ELSE v

\* enable_freelist: the lists of sizes that are no longer fast join the huge list, those that become
\* fast leave it; with none so far all deleted slots are listed.
PutAll(m, slots) ==
    LET go[n \in 0..Len(slots)] == IF n = 0 THEN m ELSE put_to_freelist(go[n - 1], slots[n]) IN go[Len(slots)]
MoveToHuge(m, len) ==
    LET go[n \in 0..m.fastleng] ==
            IF n <= len THEN m
            ELSE LET u == go[n - 1]
                     all == Listed(u, u.fast[n - 1].head) \o Listed(u, u.huge.head)
                 IN  [Chained(u, all) EXCEPT !.huge = HeadOf(all)]
    IN  [go[m.fastleng] EXCEPT !.fast = [f \in 0..(len - 1) |-> @[f]], !.fastleng = len]
MoveToFast(m, len) ==
    LET huge == Listed(m, m.huge.head)
        stay == SelectSeq(huge, LAMBDA i : NodeSize(m, i) - 1 >= len)
        go == SelectSeq(huge, LAMBDA i : NodeSize(m, i) - 1 < len)
        u == [m EXCEPT !.fast = [f \in 0..(len - 1) |-> IF f < m.fastleng THEN @[f] ELSE NoList], !.fastleng = len]
    IN  PutAll([Chained(u, stay) EXCEPT !.huge = HeadOf(stay)], go)
enable_freelist(m, maxKeyLen) ==
    LET len == (maxKeyLen + Align - 1) \div Align IN
    IF m.fastleng = -1
    THEN PutAll([m EXCEPT !.fast = [f \in 0..(len - 1) |-> NoList], !.fastleng = len],
                Ascending({i \in 0..(m.nNodes - 1) : m.link[i] = Deleted}))
    ELSE IF len < m.fastleng THEN MoveToHuge(m, len) ELSE MoveToFast(m, len)

disable_freelist(m) == [m EXCEPT !.fast = <<>>, !.fastleng = -1, !.huge = NoList]

----------------------------------------------------------------------------
(* Erasing by a predicate, here a set of keys *)

\* erase_if_kv_impl: deleted nodes go too.
erase_if_kv_impl(m, pred) ==
    LET keep == {i \in LiveNodes(m) : key_at(m, i) \notin pred} IN
    IF Cardinality(keep) = m.nNodes THEN m
    ELSE [Gather(m, Ascending(keep)) EXCEPT !.nDeleted = 0, !.freepool = 0]

str_shrink_to_fit(m) ==
    LET u == IF m.nDeleted > 0 THEN str_revoke_no_relink(m) ELSE m IN
    IF u.nNodes = 0 THEN str_clear(m)
    ELSE str_rehash(str_reserve_nodes([u EXCEPT !.maxpool = u.lenpool], u.nNodes), (u.nNodes * 100) \div u.pct + 1)

\* keepid_erase_if_kv: the nodes are marked and listed, the last one too.
keepid_erase_if_kv(m, pred) ==
    LET hit == Ascending({i \in LiveNodes(m) : key_at(m, i) \in pred})
        go[n \in 0..Len(hit)] ==
            IF n = 0 THEN m
            ELSE LET u == go[n - 1]
                     i == hit[n]
                     v == [str_unlink(u, i, HashOf(u, i) % u.nBucket) EXCEPT !.link[i] = Deleted, !.val[i] = Nothing0,
                               !.freepool = @ + NodeSize(u, i), !.nDeleted = @ + 1]
                 IN  put_to_freelist(v, i)
    IN  go[Len(hit)]

no_shrink_after_erase_if_kv(m, pred) == relink(erase_if_kv_impl(m, pred))
shrink_after_erase_if_kv(m, pred) == str_shrink_to_fit(erase_if_kv_impl(m, pred))
erase_if_kv(m, pred) ==
    IF m.fastleng # -1 THEN keepid_erase_if_kv(m, pred)
    ELSE LET u == erase_if_kv_impl(m, pred) IN
         IF (u.nNodes * 3) \div 2 <= u.maxNodes THEN str_shrink_to_fit(u) ELSE relink(u)

\* erase_all: nDeleted and freepool stay.
str_erase_all(m) ==
    [m EXCEPT !.fast = IF m.nDeleted > 0 THEN [f \in DOMAIN @ |-> NoList] ELSE @,
              !.huge = IF m.nDeleted > 0 /\ m.fastleng # -1 THEN NoList ELSE @,
              !.bucket = [b \in DOMAIN @ |-> End], !.nNodes = 0, !.lenpool = 0, !.pool = <<>>,
              !.off = [i \in NodeIds |-> 0], !.link = [i \in NodeIds |-> End], !.val = [i \in NodeIds |-> Nothing0]]

----------------------------------------------------------------------------
(* Sorting *)

\* What is compared: the keys, the values, or both.
NodeLess(m, by, i, j) ==
    LET k == key_at(m, i) - key_at(m, j)
        v == m.val[i] - m.val[j]
    IN  CASE by = "key" -> k < 0 [] by = "val" -> v < 0
          [] by = "k3v2" -> k < 0 \/ (k = 0 /\ v < 0) [] by = "v2k2" -> v < 0 \/ (v = 0 /\ k < 0)

\* The nodes in that order; equal ones stay in the order of their slots.
InOrder(m, by) ==
    LET Before(i, j) == IF i < j THEN ~NodeLess(m, by, j, i) ELSE NodeLess(m, by, i, j)
        in == 0..(m.nNodes - 1)
    IN  [n \in 1..m.nNodes |-> CHOOSE i \in in : Cardinality({j \in in : Before(j, i)}) = n - 1]

\* sort_by_key_impl or sort_by_key_prefix_o, rearrange_nodes and rearrange_strpool.  Nodes with the value
\* in them are sorted themselves: the cached hashes stay behind.
Rearrange(m, by) ==
    LET Packed(u) == [u EXCEPT !.hash = IF m.place = "inline" THEN m.hash ELSE @, !.maxpool = u.lenpool]
    IN  Packed(Gather(m, InOrder(m, by)))

\* The deleted nodes go before the map is sorted.
Settled(m) == IF m.nDeleted > 0 THEN str_revoke_no_relink(disable_freelist(m)) ELSE m

\* sort, sort_slow and sort_fast.
sort_by_key(m) ==
    LET Sort(u) == IF u.nNodes >= 2 THEN relink_fill(Rearrange(u, "key")) ELSE u
        Done(v) == [IF m.nDeleted > 0 /\ m.fastleng # -1 THEN enable_freelist(v, m.fastleng) ELSE v
                      EXCEPT !.sorted = "key"]
    IN  Done(Sort(Settled(m)))

\* sort_by_value: nodes with the value outside are sorted by index and keep their hashes.
RelinkSorted(m) == IF m.place = "inline" THEN relink_fill(m) ELSE relink(m)
sort_by_value(m) ==
    LET Sort(u) == IF u.nNodes >= 2 THEN RelinkSorted(Rearrange(u, "val")) ELSE u
        Done(v) == [IF m.fastleng # -1 THEN enable_freelist(v, m.fastleng) ELSE v EXCEPT !.sorted = "val"]
    IN  Done(Sort(Settled(m)))

\* sort_k3v2 and sort_v2k2, of maps without free lists.
sort_k3v2(m) ==
    LET Sort(u) == [IF u.nNodes >= 2 THEN RelinkSorted(Rearrange(u, "k3v2")) ELSE u EXCEPT !.sorted = "key"]
    IN  Sort(IF m.nDeleted > 0 THEN str_revoke_no_relink(m) ELSE m)
sort_v2k2(m) ==
    LET Sort(u) == [IF u.nNodes >= 2 THEN RelinkSorted(Rearrange(u, "v2k2")) ELSE u EXCEPT !.sorted = "val"]
    IN  Sort(IF m.nDeleted > 0 THEN str_revoke_no_relink(m) ELSE m)

\* The first node in lo..hi-1 for which Past holds, by halving; hi if there is none.
Halve(lo0, hi0, Past(_)) ==
    LET go[lo \in NodeIds, hi \in NodeIds] ==
            IF lo >= hi THEN lo
            ELSE LET mid == lo + (hi - lo) \div 2 IN IF Past(mid) THEN go[lo, mid] ELSE go[mid + 1, hi]
    IN  go[lo0, hi0]
str_lower_bound(m, k) == Halve(0, m.nNodes, LAMBDA i : key_at(m, i) >= k)
str_upper_bound(m, k) == Halve(0, m.nNodes, LAMBDA i : key_at(m, i) > k)
lower_bound_by_value(m, v) == Halve(0, m.nNodes, LAMBDA i : m.val[i] >= v)
upper_bound_by_value(m, v) == Halve(0, m.nNodes, LAMBDA i : m.val[i] > v)

\* equal_range3: halving stops at a node that is equal, then both ends are looked for.
equal_range3(m, key) ==
    LET Comp3(i) == key_at(m, i) - key IN
    LET go[lo \in NodeIds, hi \in NodeIds, mid0 \in NodeIds] ==
            IF lo >= hi THEN [lo |-> lo, hi |-> hi, mid |-> mid0]
            ELSE LET mid == lo + (hi - lo) \div 2
                     c == Comp3(mid)
                 IN  IF c < 0 THEN go[mid + 1, hi, mid] ELSE IF c > 0 THEN go[lo, mid, mid]
                     ELSE [lo |-> lo, hi |-> hi, mid |-> mid]
        at == go[0, m.nNodes, m.nNodes]
    IN  <<IF at.lo < at.mid THEN Halve(at.lo, at.mid, LAMBDA i : Comp3(i) >= 0) ELSE at.lo,
          IF at.mid < at.hi THEN Halve(at.mid, at.hi, LAMBDA i : Comp3(i) > 0) ELSE at.hi>>

----------------------------------------------------------------------------
(* Iteration *)

\* beg_i, next_i and prev_i: the guard behind the last node is no deleted one.
beg_i(m) == IF m.maxNodes = 0 THEN 0 ELSE Min({i \in NodeIds : m.link[i] # Deleted})
next_i(m, i) == Min({j \in NodeIds : j > i /\ m.link[j] # Deleted})
prev_i(m, i) == Max({j \in NodeIds : j < i /\ m.link[j] # Deleted})
for_each(m) ==
    LET go[i \in NodeIds] == IF i >= m.nNodes THEN <<>> ELSE <<i>> \o go[next_i(m, i)] IN go[beg_i(m)]
for_each_back(m) ==
    LET go[i \in NodeIds] == IF i = 0 \/ i <= beg_i(m) THEN <<>>
                             ELSE LET p == prev_i(m, i) IN <<p>> \o go[p]
    IN  IF m.nDeleted = m.nNodes THEN <<>> ELSE go[m.nNodes]

\* dio_save writes the pairs, dio_load inserts them into a map that was cleared.
dio_save(m) == LET met == for_each(m) IN [n \in DOMAIN met |-> <<key_at(m, met[n]), m.val[met[n]]>>]
dio_load(m, saved) ==
    LET n == Len(saved)
        fresh == str_reserve(str_clear(m), n)
        go[j \in 0..n] == IF j = 0 THEN fresh ELSE str_insert_i(go[j - 1], saved[j][1], saved[j][2])
    IN  go[n]

enable_cache(m) ==
    [m EXCEPT !.cached = TRUE,
              !.hash = [i \in NodeIds |-> IF i \in LiveNodes(m) THEN StrHash[key_at(m, i)] ELSE Nothing0]]
disable_cache(m) == [m EXCEPT !.cached = FALSE, !.hash = [i \in NodeIds |-> Nothing0]]

----------------------------------------------------------------------------
\* A map starts empty, or its first call loads all keys where its type has room for them.
LoadedMap(m) == dio_load(m, [n \in 1..Cardinality(StrKeys) |-> <<Ascending(StrKeys)[n], Min(StrValues)>>])
HasRoom(m) == Cardinality(StrKeys) <= m.maxlink /\ FoldSet(LAMBDA k, n : n + KeySize[k], 0, StrKeys) <= m.maxoffset
StrInit ==
    \E type \in MapTypes :
        LET new == NewMap(type) IN
        \/ map = new /\ pairs = <<>> /\ strOps = 0
        \/ HasRoom(new) /\ map = LoadedMap(new) /\ strOps = 1 /\ pairs = [k \in StrKeys |-> Min(StrValues)]

StrCall(m, p) == strOps < MaxStrOps /\ strOps' = strOps + 1 /\ map' = m /\ pairs' = p

With0(k, v) == [x \in DOMAIN pairs \cup {k} |-> IF x = k THEN v ELSE pairs[x]]
Without(set) == [x \in DOMAIN pairs \ set |-> pairs[x]]

\* An insert that throws (the pool cannot grow, a limit is reached) leaves the pairs as they were.
StrInsert(k, v, fails) ==
    /\ str_find_i(map, k) = map.nNodes
    /\ fails => map.lenpool + KeySize[k] > map.maxpool      \* no realloc otherwise
    /\ LET done == TryInsert(map, k, v, fails) IN StrCall(done.m, IF done.in THEN With0(k, v) ELSE pairs)
StrErase(k) == str_find_i(map, k) < map.nNodes /\ StrCall(erase_node(map, str_find_i(map, k)), Without({k}))
StrRevoke == map.fastleng = -1 /\ map.nDeleted > 0 /\ StrCall(str_revoke_deleted(map), pairs)
StrEnableFreelist(len) == StrCall(enable_freelist(map, len), pairs)
StrDisableFreelist == map.fastleng # -1 /\ StrCall(disable_freelist(map), pairs)
StrKeepidEraseIf(pred) == map.fastleng # -1 /\ StrCall(keepid_erase_if_kv(map, pred), Without(pred))
StrNoShrinkEraseIf(pred) == map.fastleng = -1 /\ map.maxNodes > 0 /\ StrCall(no_shrink_after_erase_if_kv(map, pred), Without(pred))
StrReserve(n) == n >= map.nNodes /\ StrCall(str_reserve(map, n), pairs)
StrCache == StrCall(IF map.cached THEN disable_cache(map) ELSE enable_cache(map), pairs)
StrReload == map.maxNodes > 0 /\ map.fastleng = -1 /\ StrCall(dio_load(map, dio_save(map)), pairs)

\* The map is sorted; what it does when fewer than two nodes are left after deleted ones went is StrSortFew's.
Sorts(m) == {sort_by_key(m), sort_by_value(m)} \cup (IF m.fastleng = -1 THEN {sort_k3v2(m), sort_v2k2(m)} ELSE {})
StrSort ==
    /\ map.nDeleted = 0 \/ map.nNodes - map.nDeleted >= 2
    /\ \E m \in Sorts(map) : StrCall(m, pairs)
StrEraseAll == map.nDeleted = 0 /\ StrCall(str_erase_all(map), <<>>)

StrNext ==
    \/ \E k \in StrKeys : StrErase(k) \/ \E v \in StrValues, fails \in BOOLEAN : StrInsert(k, v, fails)
    \/ StrRevoke \/ StrDisableFreelist \/ StrCache \/ StrReload \/ StrSort \/ StrEraseAll
    \/ \E len \in FreeLens : StrEnableFreelist(len)
    \/ \E pred \in {{Min(StrKeys)}, StrKeys \ {Min(StrKeys)}} : StrKeepidEraseIf(pred) \/ StrNoShrinkEraseIf(pred)
    \/ StrReserve(Cardinality(StrKeys) + 1)

StrSpec == StrInit /\ [][StrNext]_strVars

\* With the calls that leave the map broken: sort with one node left, erase_all with deleted nodes,
\* erase_if that shrinks.
StrSortFew == map.nDeleted > 0 /\ \E m \in Sorts(map) : StrCall(m, pairs)
StrEraseAllAny == map.nDeleted > 0 /\ StrCall(str_erase_all(map), <<>>)
StrEraseIf(pred) == map.maxNodes > 0 /\ (StrCall(erase_if_kv(map, pred), Without(pred))
                                         \/ (map.fastleng = -1 /\ StrCall(shrink_after_erase_if_kv(map, pred), Without(pred))))
StrAnySpec ==
    StrInit /\ [][StrNext \/ StrSortFew \/ StrEraseAllAny \/ \E pred \in SUBSET StrKeys : StrEraseIf(pred)]_strVars

----------------------------------------------------------------------------
StrChain(m, b) ==
    LET go[p \in NodeIds \cup {End}] == IF p = End THEN {} ELSE {p} \cup go[m.link[p]] IN go[m.bucket[b]]
SlotsOf(seq) == {seq[n] : n \in DOMAIN seq}
DeletedNodes(m) == {i \in 0..(m.nNodes - 1) : m.link[i] = Deleted}

\* The keys and values are those that were put in, each live node is in the chain of its key, iteration
\* meets each of them once in both directions.
StrFinds ==
    /\ \A k \in StrKeys :
          LET i == str_find_i(map, k) IN
          IF k \in DOMAIN pairs THEN i < map.nNodes /\ map.val[i] = pairs[k] ELSE i = map.nNodes
    /\ LET at == [i \in LiveNodes(map) |-> StrHash[key_at(map, i)] % map.nBucket] IN
       \A b \in 0..(map.nBucket - 1) : StrChain(map, b) = {i \in DOMAIN at : at[i] = b}
    /\ map.cached => \A i \in LiveNodes(map) : map.hash[i] = StrHash[key_at(map, i)]
    /\ LET met == for_each(map) IN
       /\ met = Ascending(LiveNodes(map))
       /\ for_each_back(map) = [n \in DOMAIN met |-> met[Len(met) + 1 - n]]

\* The keys lie one behind the other in the pool; deleted nodes are counted and, with free lists, listed
\* by their size.
StrBooks ==
    /\ map.off[0] = 0 /\ map.off[map.nNodes] = map.lenpool /\ map.lenpool <= map.maxpool /\ map.nNodes <= map.maxNodes
    /\ \A i \in 0..(map.nNodes - 1) : map.off[i] < map.off[i + 1]
    /\ Cardinality(LiveNodes(map)) = Cardinality(DOMAIN pairs)
    /\ map.nDeleted = Cardinality(DeletedNodes(map))
    /\ map.freepool = FoldSet(LAMBDA i, n : n + NodeSize(map, i), 0, DeletedNodes(map))
    /\ map.fastleng # -1 =>
          /\ \A f \in DOMAIN map.fast :
                /\ SlotsOf(Listed(map, map.fast[f].head)) = {i \in DeletedNodes(map) : NodeSize(map, i) = f + 1}
                /\ map.fast[f].llen = Len(Listed(map, map.fast[f].head))
          /\ SlotsOf(Listed(map, map.huge.head)) = {i \in DeletedNodes(map) : NodeSize(map, i) > map.fastleng}
          /\ map.huge.llen = Len(Listed(map, map.huge.head))

\* In a sorted map the searches by halving find the bounds; the deleted nodes count as long as their
\* strings are whole.
StrBounds ==
    LET n == map.nNodes
        Texts(P(_)) == Cardinality({i \in 0..(n - 1) : P(i)})
    IN  /\ map.sorted = "key" /\ (map.fastleng = -1 \/ map.nDeleted = 0) /\ (\A i \in 0..(n - 1) : key_at(map, i) # Nothing0) =>
              \A k \in StrKeys :
                  LET lo == Texts(LAMBDA i : key_at(map, i) < k)
                      hi == Texts(LAMBDA i : key_at(map, i) <= k)
                  IN  /\ str_lower_bound(map, k) = lo /\ str_upper_bound(map, k) = hi
                      /\ equal_range3(map, k) = <<lo, hi>>
        /\ map.sorted = "val" /\ map.nDeleted = 0 =>
              \A v \in StrValues : /\ lower_bound_by_value(map, v) = Texts(LAMBDA i : map.val[i] < v)
                                    /\ upper_bound_by_value(map, v) = Texts(LAMBDA i : map.val[i] <= v)

\* After any mix of the calls of StrNext the map is whole: lookups, chains, iteration, the pool's and the free
\* lists' books, and the searches in a sorted map (hash_strmap).  Three calls are StrAnySpec's: a sort that is left
\* with less than two nodes once deleted ones are gone, erase_all with deleted nodes, an erase_if that shrinks.
StrMapRight == StrFinds /\ StrBooks /\ StrBounds
=============================================================================
