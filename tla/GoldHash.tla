------------------------------ MODULE GoldHash ------------------------------
(***************************************************************************)
(* gold_hash_tab (gold_hash_map.hpp), the hash table under gold_hash_map   *)
(* and gold_hash_set: the elements lie in one array of slots, collision    *)
(* chains link the slots, and the erased slots either form a free list     *)
(* (ids stay valid) or are closed by moving the last element.  The hash    *)
(* values may be cached.                                                   *)
(*                                                                         *)
(* An element is its key.  A table is a record with the members of the     *)
(* class; key, link and hash are arrays over all slots that were ever      *)
(* used, and a free slot's key is the link of the free list, as in the     *)
(* code, where the element's bytes hold it: here next.                     *)
(***************************************************************************)
EXTENDS Integers, FiniteSets, FiniteSetsExt

CONSTANTS
    HashKeys,     \* a set of natural numbers, ordered as sort() orders them
    Hash,         \* HashEqual::hash
    Primes,       \* the sizes __hsm_stl_next_prime knows
    LoadPcts,     \* load factors in percent that set_load_factor is called with
    MaxOps        \* bound: calls

ASSUME GoldHashAssumption ==
    /\ HashKeys \subseteq Nat /\ Hash \in [HashKeys -> Nat]
    /\ Primes \subseteq Nat /\ LoadPcts \subseteq 1..99 /\ MaxOps \in Nat

VARIABLES
    tab,       \* the table
    content,   \* the keys that were inserted and not erased since
    ops        \* calls so far

hashVars == <<tab, content, ops>>

Tail0   == -1   \* tail
Delmark == -2
NoKey   == -3
Slots   == 0..(2 * Cardinality(HashKeys))

\* init().
EmptyTab(cached) ==
    [key |-> [i \in Slots |-> NoKey], link |-> [i \in Slots |-> Tail0], hash |-> [i \in Slots |-> NoKey],
     next |-> [i \in Slots |-> Tail0], bucket |-> [b \in {0} |-> Tail0], nBucket |-> 1,
     nElem |-> 0, maxElem |-> 0, maxload |-> 0, pct |-> 80,
     freeHead |-> Delmark, freeSize |-> 0, cached |-> cached]

next_prime(n) == Min({p \in Primes : p >= n})

freelist_is_using(t) == t.freeHead # Delmark
freelist_is_empty(t) == t.freeHead < 0
Live(t) == {i \in 0..(t.nElem - 1) : t.link[i] # Delmark}

hash_i(t, i) == IF t.cached THEN t.hash[i] ELSE Hash[t.key[i]]

\* find_i: the chain of the key's bucket; nElem when it is not there.
find_i(t, k) ==
    LET go[p \in Slots \cup {Tail0}] ==
            IF p = Tail0 THEN t.nElem ELSE IF t.key[p] = k THEN p ELSE go[t.link[p]]
    IN  go[t.bucket[Hash[k] % t.nBucket]]

\* relink_impl: every element is put at the head of its chain, in the order of the slots.
relink_impl(t, fill) ==
    IF t.nBucket = 1 THEN t
    ELSE LET in == IF t.freeSize = 0 THEN 0..(t.nElem - 1) ELSE Live(t)
             h(j) == IF t.cached /\ ~fill THEN t.hash[j] ELSE Hash[t.key[j]]
             last(b, n) == Max({Tail0} \cup {i \in in : i < n /\ h(i) % t.nBucket = b})
         IN  [t EXCEPT !.bucket = [b \in 0..(t.nBucket - 1) |-> last(b, t.nElem)],
                       !.link = [j \in Slots |-> IF j \in in THEN last(h(j) % t.nBucket, j) ELSE @[j]],
                       !.hash = [j \in Slots |-> IF j \in in /\ t.cached THEN h(j) ELSE @[j]]]

\* rehash: nothing happens when the number of buckets stays the same.
rehash(t, n) ==
    LET nb == next_prime(n) IN
    IF nb = t.nBucket THEN t
    ELSE [relink_impl([t EXCEPT !.nBucket = nb], FALSE) EXCEPT !.maxload = (nb * t.pct) \div 100]

\* reserve_nodes: neither when the capacity is the same nor when it is the number of elements.
reserve_nodes(t, cap) == IF cap # t.maxElem /\ cap # t.nElem THEN [t EXCEPT !.maxElem = cap] ELSE t

reserve(t, cap) == rehash(reserve_nodes(t, cap), (cap * 100) \div t.pct + 1)

shrink_to_fit(t) == IF t.nElem < t.maxElem THEN reserve(t, t.nElem) ELSE t

\* risk_slot_alloc: the head of the free list, or the end of the array.
risk_slot_alloc(t) ==
    IF freelist_is_empty(t)
    THEN LET u == IF t.nElem = t.maxElem THEN reserve_nodes(t, IF t.nElem = 0 THEN 1 ELSE 2 * t.nElem) ELSE t
         IN  [slot |-> t.nElem, t |-> [u EXCEPT !.nElem = @ + 1]]
    ELSE [slot |-> t.freeHead, t |-> [t EXCEPT !.freeHead = t.next[t.freeHead], !.freeSize = @ - 1]]

\* insert_i of a key that is not there.
insert_i(t, k) ==
    LET u == IF t.nElem - t.freeSize >= t.maxload THEN rehash(t, t.nBucket + 1) ELSE t
        a == risk_slot_alloc(u)
        b == Hash[k] % u.nBucket
    IN  [a.t EXCEPT !.key[a.slot] = k, !.link[a.slot] = u.bucket[b], !.bucket[b] = a.slot,
                    !.hash[a.slot] = IF u.cached THEN Hash[k] ELSE @]

\* Takes slot p out of chain b.
Unlink(t, p, b) ==
    IF t.bucket[b] = p THEN [t EXCEPT !.bucket[b] = t.link[p]]
    ELSE LET go[q \in Slots] == IF t.link[q] = p THEN q ELSE go[t.link[q]]
         IN  [t EXCEPT !.link[go[t.bucket[b]]] = t.link[p]]

\* fast_slot_free: the slot goes to the head of the free list.
fast_slot_free(t, p) ==
    [t EXCEPT !.link[p] = Delmark, !.key[p] = NoKey, !.next[p] = t.freeHead, !.freeSize = @ + 1, !.freeHead = p]

\* Mutant of erase_i_impl: the last element moves without leaving its chain first.
erase_i_impl_NoUnlink(t, p) ==
    LET u == Unlink(t, p, hash_i(t, p) % t.nBucket)
        last == t.nElem - 1
    IN  IF p = last THEN [u EXCEPT !.nElem = last, !.key[p] = NoKey]
        ELSE IF freelist_is_using(t) THEN fast_slot_free(u, p)
        ELSE LET h == hash_i(u, last)
                 b == h % u.nBucket
             IN  [u EXCEPT !.key[p] = u.key[last], !.link[p] = u.bucket[b], !.bucket[b] = p,
                           !.hash[p] = IF u.cached THEN h ELSE @, !.nElem = last, !.key[last] = NoKey]

\* erase_i_impl: the end of the array shrinks; else the slot is listed, or the last element moves
\* into it.
erase_i_impl(t, p) ==
    LET u == Unlink(t, p, hash_i(t, p) % t.nBucket)
        last == t.nElem - 1
    IN  IF p = last THEN [u EXCEPT !.nElem = last, !.key[p] = NoKey]
        ELSE IF freelist_is_using(t) THEN fast_slot_free(u, p)
        ELSE LET h == hash_i(u, last)
                 b == h % u.nBucket
                 v == Unlink(u, last, b)
             IN  [v EXCEPT !.key[p] = v.key[last], !.link[p] = v.bucket[b], !.bucket[b] = p,
                           !.hash[p] = IF v.cached THEN h ELSE @, !.nElem = last, !.key[last] = NoKey]

\* The elements in keep move together to the front; chains are left as they are.
Compact(t, keep) ==
    LET src(i) == CHOOSE j \in keep : Cardinality({k \in keep : k < j}) = i
        n == Cardinality(keep)
    IN  [t EXCEPT !.key = [i \in Slots |-> IF i < n THEN t.key[src(i)] ELSE NoKey],
                  !.hash = [i \in Slots |-> IF i < n /\ t.cached THEN t.hash[src(i)] ELSE @[i]],
                  !.nElem = n]

revoke_deleted_no_relink(t) == [Compact(t, Live(t)) EXCEPT !.freeHead = Tail0, !.freeSize = 0]

revoke_deleted(t) == IF t.freeSize > 0 THEN relink_impl(revoke_deleted_no_relink(t), FALSE) ELSE t

\* erase_if_impl; a table that has become empty is a new one.
erase_if_impl(t, pred) ==
    LET u == IF t.freeSize > 0 THEN revoke_deleted_no_relink(t) ELSE t
        hit == {i \in 0..(u.nElem - 1) : u.key[i] \in pred}
        v == Compact(u, 0..(u.nElem - 1) \ hit)
    IN  IF hit = {} THEN u ELSE IF v.nElem = 0 THEN EmptyTab(FALSE) ELSE v

no_shrink_after_erase_if(t, pred) == relink_impl(erase_if_impl(t, pred), FALSE)
shrink_after_erase_if(t, pred) == shrink_to_fit(erase_if_impl(t, pred))

\* keepid_erase_if: erase_to_freelist of each.
keepid_erase_if(t, pred) ==
    LET hit == {i \in Live(t) : t.key[i] \in pred}
        go[h \in SUBSET hit] ==
            IF h = {} THEN t
            ELSE LET i == Max(h)
                     u == go[h \ {i}]
                 IN  fast_slot_free(Unlink(u, i, hash_i(u, i) % u.nBucket), i)
    IN  go[hit]

erase_if(t, pred) ==
    IF freelist_is_using(t) THEN keepid_erase_if(t, pred)
    ELSE LET u == erase_if_impl(t, pred)
         IN  IF 2 * u.nElem <= u.maxElem THEN shrink_to_fit(u) ELSE relink_impl(u, FALSE)

\* sort: the elements in order, chains and cached hash values made anew.
sort(t) ==
    LET u == IF t.freeSize > 0 THEN revoke_deleted_no_relink(t) ELSE t
        keys == {u.key[i] : i \in 0..(u.nElem - 1)}
        at(i) == CHOOSE k \in keys : Cardinality({j \in keys : j < k}) = i
    IN  relink_impl([u EXCEPT !.key = [i \in Slots |-> IF i < u.nElem THEN at(i) ELSE NoKey]], TRUE)

enable_hash_cache(t) ==
    [t EXCEPT !.cached = TRUE, !.hash = [i \in Slots |-> IF ~t.cached /\ i \in Live(t) THEN Hash[t.key[i]] ELSE @[i]]]

erase_all(t) ==
    [t EXCEPT !.freeHead = IF freelist_is_empty(t) THEN @ ELSE Tail0, !.freeSize = IF freelist_is_empty(t) THEN @ ELSE 0,
              !.bucket = [b \in DOMAIN @ |-> Tail0], !.nElem = 0, !.key = [i \in Slots |-> NoKey]]

----------------------------------------------------------------------------
HashInit == tab = EmptyTab(FALSE) /\ content = {} /\ ops = 0

Call(t, keys) == ops < MaxOps /\ ops' = ops + 1 /\ tab' = t /\ content' = keys

InsertKey(k) == find_i(tab, k) = tab.nElem /\ Call(insert_i(tab, k), content \cup {k})
EraseKey(k)  == find_i(tab, k) # tab.nElem /\ Call(erase_i_impl(tab, find_i(tab, k)), content \ {k})
EnableFreelist  == ~freelist_is_using(tab) /\ Call([tab EXCEPT !.freeHead = Tail0], content)
DisableFreelist == freelist_is_using(tab) /\ Call([revoke_deleted(tab) EXCEPT !.freeHead = Delmark], content)
RevokeDeleted   == tab.freeSize > 0 /\ Call(revoke_deleted(tab), content)
SortTab         == Call(sort(tab), content)
EnableCache     == ~tab.cached /\ Call(enable_hash_cache(tab), content)
DisableCache    == tab.cached /\ Call([tab EXCEPT !.cached = FALSE], content)
EraseAll        == Call(erase_all(tab), {})
SetLoadFactor(p) == Call([tab EXCEPT !.pct = p, !.maxload = IF tab.nBucket = 1 THEN 0 ELSE (tab.nBucket * p) \div 100],
                         content)
Reserve(n)      == n >= tab.nElem /\ Call(reserve(tab, n), content)
KeepidEraseIf(pred) == freelist_is_using(tab) /\ Call(keepid_erase_if(tab, pred), content \ pred)
NoShrinkEraseIf(pred) == Call(no_shrink_after_erase_if(tab, pred), content \ pred)

HashNext ==
    \/ \E k \in HashKeys : InsertKey(k) \/ EraseKey(k)
    \/ EnableFreelist \/ DisableFreelist \/ RevokeDeleted \/ SortTab
    \/ EnableCache \/ DisableCache \/ EraseAll
    \/ \E p \in LoadPcts : SetLoadFactor(p)
    \/ \E n \in {Cardinality(HashKeys)} : Reserve(n)
    \/ \E pred \in SUBSET HashKeys : KeepidEraseIf(pred) \/ NoShrinkEraseIf(pred)

HashSpec == HashInit /\ [][HashNext]_hashVars

\* With the calls that may shrink the table after they have moved its elements.
EraseIf(pred)       == Call(erase_if(tab, pred), content \ pred)
ShrinkEraseIf(pred) == Call(shrink_after_erase_if(tab, pred), content \ pred)

HashShrinkSpec ==
    HashInit /\ [][HashNext \/ \E pred \in SUBSET HashKeys : EraseIf(pred) \/ ShrinkEraseIf(pred)]_hashVars

----------------------------------------------------------------------------
\* The slots reached by the chain of bucket b.
Chain(t, b) ==
    LET go[p \in Slots \cup {Tail0}] == IF p = Tail0 THEN {} ELSE {p} \cup go[t.link[p]] IN go[t.bucket[b]]

FreeList(t) ==
    LET go[p \in Slots \cup {Tail0, Delmark}] == IF p < 0 THEN {} ELSE {p} \cup go[t.next[p]] IN go[t.freeHead]

\* The table finds exactly the keys that were inserted and not erased, after any mix of erasing,
\* moving, sorting, rehashing and caching: each live slot is in the chain of its key and in no
\* other, the rest of the slots is on the free list, and a cached hash value is the key's.
FindsContent ==
    /\ \A k \in HashKeys : find_i(tab, k) # tab.nElem <=> k \in content
    /\ \A b \in 0..(tab.nBucket - 1) : Chain(tab, b) = {i \in Live(tab) : Hash[tab.key[i]] % tab.nBucket = b}
    /\ {tab.key[i] : i \in Live(tab)} = content /\ Cardinality(Live(tab)) = Cardinality(content)
    /\ FreeList(tab) = 0..(tab.nElem - 1) \ Live(tab) /\ tab.freeSize = Cardinality(FreeList(tab))
    /\ tab.cached => \A i \in Live(tab) : tab.hash[i] = Hash[tab.key[i]]

\* What the assertions of the loops over a chain say, HSM_SANITY(p < nElem): no chain leads beyond
\* the elements.
ChainsInRange ==
    /\ \A b \in 0..(tab.nBucket - 1) : tab.bucket[b] < tab.nElem
    /\ \A i \in Live(tab) : tab.link[i] < tab.nElem
=============================================================================
