------------------------- MODULE LruPageCacheProofs -------------------------
(***************************************************************************)
(* Pages that are held keep their content and the books of the files       *)
(* agree, for every number of threads, pages and files: the path of pread  *)
(* for a read inside of one page, when reads do not fail.                  *)
(*                                                                         *)
(* The links of the LRU list are followed from node to node: every free    *)
(* page has a free one (or the head) before and behind it.  That the list  *)
(* is one ring is not needed.                                              *)
(***************************************************************************)
EXTENDS LruPageCache, FiniteSetTheorems, SequenceTheorems, TLAPS

----------------------------------------------------------------------------
(* What holds of the cache *)

Keys == Nat \X Nat
Nodes == 0..PageNum

Node == [key : Keys \cup {NoKey}, ref_count : Nat, is_loaded : BOOLEAN, content : Keys \cup {NoKey},
         lru_next : Nodes, lru_prev : Nodes]
File == [pages : Seq(Pages), pgcnt : Nat, is_pending_drop : BOOLEAN]

IsCache(c) ==
    /\ c = [nodes |-> c.nodes, file |-> c.file, freelist |-> c.freelist, busypage_num |-> c.busypage_num]
    /\ c.nodes \in [Nodes -> Node] /\ c.file \in [DOMAIN c.file -> File]
    /\ c.freelist \in Seq(Nat) /\ c.busypage_num \in Int

\* The nodes of the LRU list have a node of it before and behind them.
Free(nodes) == {0} \cup {p \in Pages : nodes[p].ref_count = 0}
RingOn(nodes, R) ==
    \A p \in R : /\ nodes[p].lru_next \in R /\ nodes[nodes[p].lru_next].lru_prev = p
                 /\ nodes[p].lru_prev \in R /\ nodes[nodes[p].lru_prev].lru_next = p

\* A page that is loaded has the content of its key.
Loaded(nodes) == \A p \in Pages : nodes[p].is_loaded => nodes[p].content = nodes[p].key

\* The books of the files. The pages of a file are those whose keys name it.
OneEach(s) == \A i, j \in 1..Len(s) : s[i] = s[j] => i = j
InSeq(s, x) == \E i \in 1..Len(s) : s[i] = x
OfFile(nodes, p, fi) == nodes[p].key # NoKey /\ nodes[p].key[1] = fi
BusyPages(nodes, file) == {p \in Pages : nodes[p].key # NoKey /\ ~file[nodes[p].key[1]].is_pending_drop}

FileOK(nodes, file, fi) ==
    /\ file[fi].pgcnt = Len(file[fi].pages) /\ OneEach(file[fi].pages)
    /\ \A p \in Pages : InSeq(file[fi].pages, p) <=> OfFile(nodes, p, fi)

FilesOK(nodes, file) == \A fi \in DOMAIN file : FileOK(nodes, file, fi)

KeysOK(nodes, file) ==
    /\ \A p, q \in Pages : nodes[p].key = nodes[q].key => p = q \/ nodes[p].key = NoKey
    /\ \A p \in Pages : nodes[p].key # NoKey => nodes[p].key[1] \in DOMAIN file

ListOK(file, freelist) ==
    /\ OneEach(freelist)
    /\ \A fi \in Nat : InSeq(freelist, fi) <=> fi \in DOMAIN file /\ file[fi].is_pending_drop
    /\ \A fi \in DOMAIN file : file[fi].is_pending_drop => file[fi].pages # <<>>

Books(c) ==
    /\ FilesOK(c.nodes, c.file)
    /\ KeysOK(c.nodes, c.file)
    /\ ListOK(c.file, c.freelist)
    /\ c.busypage_num = Cardinality(BusyPages(c.nodes, c.file))

----------------------------------------------------------------------------
(* What holds of the threads *)

\* A thread that reads page p of key k, or has it in its buffer.
Reader(pc, k, p, b) ==
    [pc |-> pc, keys |-> <<k>>, got |-> <<p>>, mine |-> <<b>>, i |-> 1, out |-> <<>>, failed |-> FALSE]

Pcs == {"read", "wait", "load", "loaded", "pinned"}
HasContent(pc) == pc \in {"loaded", "pinned"}

\* It has the page of the key, of an open file.
ReaderOK(c, pc, k, p) ==
    /\ c.nodes[p].key = k /\ k[1] \in DOMAIN c.file /\ ~c.file[k[1]].is_pending_drop
    /\ HasContent(pc) => c.nodes[p].content = k

ThreadOK(c, st) ==
    st.pc # "idle" => \E pc \in Pcs, k \in Keys, p \in Pages, b \in BOOLEAN :
                          st = Reader(pc, k, p, b) /\ ReaderOK(c, pc, k, p)

\* The threads that have a reference to page p.
Holders(thr, p) == {t \in Threads : thr[t].pc # "idle" /\ thr[t].got[1] = p}
RefsOK(nodes, thr) == \A p \in Pages : nodes[p].ref_count = Cardinality(Holders(thr, p))

----------------------------------------------------------------------------
(* The invariant *)

\* The ids of the files have been given out.
CacheOK(c, n) ==
    /\ IsCache(c) /\ n \in Nat /\ DOMAIN c.file \subseteq 0..(n - 1)
    /\ RingOn(c.nodes, Free(c.nodes)) /\ Loaded(c.nodes)
    /\ Books(c)

ThreadsOK(c, thr) ==
    /\ thr = [t \in Threads |-> thr[t]]
    /\ \A t \in Threads : ThreadOK(c, thr[t])
    /\ RefsOK(c.nodes, thr)

LruInv == CacheOK(cache, opened) /\ ThreadsOK(cache, thread)

----------------------------------------------------------------------------
(* Rings of files and pages, as sequences *)

\* RemoveAt takes one element out, the others keep their order.
LEMMA RemoveAtIs ==
    ASSUME NEW S, NEW s \in Seq(S), NEW k \in 1..Len(s)
    PROVE  /\ RemoveAt(s, k) \in Seq(S) /\ Len(RemoveAt(s, k)) = Len(s) - 1
           /\ \A j \in 1..(Len(s) - 1) : RemoveAt(s, k)[j] = IF j < k THEN s[j] ELSE s[j + 1]
<1> DEFINE a == SubSeq(s, 1, k - 1)
           b == SubSeq(s, k + 1, Len(s))
<1>1. Len(s) \in Nat /\ k \in Nat /\ 1 <= k /\ k <= Len(s) /\ \A i \in 1..Len(s) : s[i] \in S
  OBVIOUS
<1>2. a \in Seq(S) /\ Len(a) = k - 1 /\ \A i \in 1..(k - 1) : a[i] = s[i]
  BY <1>1, SubSeqProperties
<1>3. b \in Seq(S) /\ Len(b) = Len(s) - k /\ \A i \in 1..(Len(s) - k) : b[i] = s[i + k]
  BY <1>1, SubSeqProperties
<1> HIDE DEF a, b
<1>4. /\ a \o b \in Seq(S) /\ Len(a \o b) = Len(a) + Len(b)
      /\ \A i \in 1..(Len(a) + Len(b)) : (a \o b)[i] = IF i <= Len(a) THEN a[i] ELSE b[i - Len(a)]
  BY <1>2, <1>3, ConcatProperties
<1>5. Len(a) + Len(b) = Len(s) - 1
  BY <1>1, <1>2, <1>3
<1>6. ASSUME NEW j \in 1..(Len(s) - 1) PROVE (a \o b)[j] = IF j < k THEN s[j] ELSE s[j + 1]
  <2>1. (a \o b)[j] = IF j <= k - 1 THEN a[j] ELSE b[j - (k - 1)]
    BY <1>2, <1>4, <1>5
  <2>2. CASE j < k
    BY <2>1, <2>2, <1>1, <1>2
  <2>3. CASE ~(j < k)
    <3>1. j - (k - 1) \in 1..(Len(s) - k) /\ j - (k - 1) + k = j + 1
      BY <2>3, <1>1
    <3> QED
      BY <2>1, <2>3, <3>1, <1>1, <1>3
  <2> QED
    BY <2>2, <2>3
<1> QED
  BY <1>4, <1>5, <1>6 DEF RemoveAt, a, b

\* fi_remove, remove_fi: the ring without x.
LEMMA RingRemoveIs ==
    ASSUME NEW S, NEW s \in Seq(S), OneEach(s), NEW x, InSeq(s, x)
    PROVE  /\ RingRemove(s, x) \in Seq(S) /\ Len(RingRemove(s, x)) = Len(s) - 1
           /\ OneEach(RingRemove(s, x))
           /\ \A y : InSeq(RingRemove(s, x), y) <=> InSeq(s, y) /\ y # x
<1> DEFINE k == CHOOSE i \in DOMAIN s : s[i] = x
           r == RemoveAt(s, k)
<1>1. DOMAIN s = 1..Len(s) /\ Len(s) \in Nat
  OBVIOUS
<1>2. k \in 1..Len(s) /\ s[k] = x
  BY <1>1 DEF InSeq
<1> HIDE DEF k
<1>3. r \in Seq(S) /\ Len(r) = Len(s) - 1 /\ \A j \in 1..(Len(s) - 1) : r[j] = IF j < k THEN s[j] ELSE s[j + 1]
  BY <1>2, RemoveAtIs
<1> HIDE DEF r
<1>4. OneEach(r)
  <2> SUFFICES ASSUME NEW i \in 1..(Len(s) - 1), NEW j \in 1..(Len(s) - 1), r[i] = r[j] PROVE i = j
    BY <1>3 DEF OneEach
  <2>1. PICK a \in 1..Len(s) : a = IF i < k THEN i ELSE i + 1
    BY <1>1
  <2>2. PICK b \in 1..Len(s) : b = IF j < k THEN j ELSE j + 1
    BY <1>1
  <2>3. s[a] = s[b]
    BY <1>3, <2>1, <2>2
  <2>4. a = b
    BY <2>3 DEF OneEach
  <2> QED
    BY <1>1, <1>2, <2>1, <2>2, <2>4
<1>5. ASSUME NEW y, InSeq(r, y) PROVE InSeq(s, y) /\ y # x
  <2>1. PICK i \in 1..(Len(s) - 1) : r[i] = y
    BY <1>3, <1>5 DEF InSeq
  <2>2. PICK a \in 1..Len(s) : a = IF i < k THEN i ELSE i + 1
    BY <1>1
  <2>3. s[a] = y /\ a # k
    BY <1>1, <1>2, <1>3, <2>1, <2>2
  <2> QED
    BY <1>2, <2>3 DEF InSeq, OneEach
<1>6. ASSUME NEW y, InSeq(s, y), y # x PROVE InSeq(r, y)
  <2>1. PICK a \in 1..Len(s) : s[a] = y /\ a # k
    BY <1>2, <1>6 DEF InSeq
  <2>2. PICK i \in 1..(Len(s) - 1) : a = IF i < k THEN i ELSE i + 1
    <3>1. CASE a < k
      BY <3>1, <1>1, <1>2
    <3>2. CASE a > k
      <4>1. a - 1 \in 1..(Len(s) - 1) /\ ~(a - 1 < k) /\ a = a - 1 + 1
        BY <3>2, <1>1, <1>2
      <4> QED
        BY <4>1
    <3> QED
      BY <3>1, <3>2, <2>1, <1>1, <1>2
  <2>3. r[i] = y
    BY <1>3, <2>1, <2>2
  <2> QED
    BY <1>3, <2>3 DEF InSeq
<1>7. RingRemove(s, x) = r
  BY DEF RingRemove, r, k
<1> QED
  BY <1>3, <1>4, <1>5, <1>6, <1>7

\* fi_insert_after_p: the elements of a ring with one more behind its head.
LEMMA InsertPlace ==
    ASSUME NEW S, NEW s \in Seq(S), NEW x \in S
    PROVE  /\ insert_after_p(s, x) \in Seq(S) /\ Len(insert_after_p(s, x)) = Len(s) + 1
           /\ \E k \in 1..(Len(s) + 1) : \A j \in 1..(Len(s) + 1) :
                insert_after_p(s, x)[j] = IF j = k THEN x ELSE IF j < k THEN s[j] ELSE s[j - 1]
<1>1. CASE s = <<>>
  <2>1. insert_after_p(s, x) = <<x>> /\ Len(s) = 0
    BY <1>1 DEF insert_after_p
  <2>2. 1 \in 1..(Len(s) + 1) /\ \A j \in 1..(Len(s) + 1) : j = 1
    BY <2>1
  <2> QED
    BY <2>1, <2>2
<1>2. CASE s # <<>>
  <2> DEFINE a == <<Head(s), x>>
             b == Tail(s)
  <2>1. Len(s) \in Nat /\ Len(s) >= 1 /\ Head(s) \in S /\ Head(s) = s[1]
    BY <1>2
  <2>2. a \in Seq(S) /\ Len(a) = 2 /\ a[1] = s[1] /\ a[2] = x
    BY <2>1
  <2>3. b \in Seq(S) /\ Len(b) = Len(s) - 1 /\ \A i \in 1..(Len(s) - 1) : b[i] = s[i + 1]
    BY <1>2, HeadTailProperties
  <2> HIDE DEF a, b
  <2>4. /\ a \o b \in Seq(S) /\ Len(a \o b) = Len(a) + Len(b)
        /\ \A i \in 1..(Len(a) + Len(b)) : (a \o b)[i] = IF i <= Len(a) THEN a[i] ELSE b[i - Len(a)]
    BY <2>2, <2>3, ConcatProperties
  <2>5. Len(a) + Len(b) = Len(s) + 1
    BY <2>1, <2>2, <2>3
  <2>6. ASSUME NEW j \in 1..(Len(s) + 1) PROVE (a \o b)[j] = IF j = 2 THEN x ELSE IF j < 2 THEN s[j] ELSE s[j - 1]
    <3>1. (a \o b)[j] = IF j <= 2 THEN a[j] ELSE b[j - 2]
      BY <2>2, <2>4, <2>5
    <3>2. j = 1 \/ j = 2 \/ (j > 2 /\ j - 2 \in 1..(Len(s) - 1) /\ j - 2 + 1 = j - 1)
      BY <2>1
    <3>3. CASE j = 1 \/ j = 2
      BY <3>1, <3>3, <2>2
    <3>4. CASE j > 2 /\ j - 2 \in 1..(Len(s) - 1) /\ j - 2 + 1 = j - 1
      <4>1. (a \o b)[j] = b[j - 2]
        BY <3>1, <3>4
      <4>2. b[j - 2] = s[j - 1]
        BY <2>3, <3>4
      <4> QED
        BY <3>4, <4>1, <4>2
    <3> QED
      BY <3>2, <3>3, <3>4
  <2>7. 2 \in 1..(Len(s) + 1)
    BY <2>1
  <2>8. insert_after_p(s, x) = a \o b
    BY <1>2 DEF insert_after_p, a, b
  <2> QED
    BY <2>4, <2>5, <2>6, <2>7, <2>8, SMTT(30)
<1> QED
  BY <1>1, <1>2

\* The ring with x.
LEMMA InsertIs ==
    ASSUME NEW S, NEW s \in Seq(S), OneEach(s), NEW x \in S, ~InSeq(s, x)
    PROVE  /\ insert_after_p(s, x) \in Seq(S) /\ Len(insert_after_p(s, x)) = Len(s) + 1
           /\ OneEach(insert_after_p(s, x)) /\ insert_after_p(s, x) # <<>>
           /\ \A y : InSeq(insert_after_p(s, x), y) <=> InSeq(s, y) \/ y = x
<1> DEFINE r == insert_after_p(s, x)
<1>1. r \in Seq(S) /\ Len(r) = Len(s) + 1 /\ Len(s) \in Nat
  BY InsertPlace
<1>2. PICK k \in 1..(Len(s) + 1) : \A j \in 1..(Len(s) + 1) :
          r[j] = IF j = k THEN x ELSE IF j < k THEN s[j] ELSE s[j - 1]
  BY InsertPlace
<1> HIDE DEF r
<1>3. ASSUME NEW i \in 1..(Len(s) + 1), NEW j \in 1..(Len(s) + 1), r[i] = r[j] PROVE i = j
  <2>1. CASE i = k \/ j = k
    <3>1. ASSUME NEW l \in 1..(Len(s) + 1), l # k PROVE r[l] # x
      <4>1. PICK a \in 1..Len(s) : r[l] = s[a]
        <5>1. l < k => l \in 1..Len(s)
          BY <1>1
        <5>2. ~(l < k) => l - 1 \in 1..Len(s)
          BY <1>1, <3>1
        <5> QED
          BY <5>1, <5>2, <1>2, <3>1
      <4> QED
        BY <4>1 DEF InSeq
    <3>2. r[k] = x
      BY <1>2
    <3> QED
      BY <2>1, <3>1, <3>2, <1>3
  <2>2. CASE i # k /\ j # k
    <3>1. PICK a \in 1..Len(s) : a = IF i < k THEN i ELSE i - 1
      BY <1>1, <2>2
    <3>2. PICK b \in 1..Len(s) : b = IF j < k THEN j ELSE j - 1
      BY <1>1, <2>2
    <3>3. s[a] = s[b]
      BY <1>2, <1>3, <2>2, <3>1, <3>2
    <3>4. a = b
      BY <3>3 DEF OneEach
    <3> QED
      BY <1>1, <2>2, <3>1, <3>2, <3>4
  <2> QED
    BY <2>1, <2>2
<1>4. ASSUME NEW y, InSeq(r, y) PROVE InSeq(s, y) \/ y = x
  <2>1. PICK i \in 1..(Len(s) + 1) : r[i] = y
    BY <1>1, <1>4 DEF InSeq
  <2>2. CASE i # k
    <3>1. PICK a \in 1..Len(s) : a = IF i < k THEN i ELSE i - 1
      BY <1>1, <2>2
    <3> QED
      BY <1>2, <2>1, <2>2, <3>1 DEF InSeq
  <2> QED
    BY <1>2, <2>1, <2>2
<1>5. ASSUME NEW y, InSeq(s, y) PROVE InSeq(r, y)
  <2>1. PICK a \in 1..Len(s) : s[a] = y
    BY <1>5 DEF InSeq
  <2>2. PICK i \in 1..(Len(s) + 1) : i # k /\ a = IF i < k THEN i ELSE i - 1
    <3>1. CASE a < k
      BY <3>1, <1>1
    <3>2. CASE a >= k
      <4>1. a + 1 \in 1..(Len(s) + 1) /\ a + 1 # k /\ ~(a + 1 < k) /\ a = a + 1 - 1
        BY <3>2, <1>1
      <4> QED
        BY <4>1
    <3> QED
      BY <3>1, <3>2
  <2> QED
    BY <1>1, <1>2, <2>1, <2>2 DEF InSeq
<1>6. InSeq(r, x)
  BY <1>1, <1>2 DEF InSeq
<1>7. r # <<>>
  BY <1>1
<1>8. OneEach(r)
  BY <1>1, <1>3 DEF OneEach
<1> QED
  BY <1>1, <1>4, <1>5, <1>6, <1>7, <1>8 DEF r

\* A sequence that has nothing twice has as many elements as places.
LEMMA CountSeq ==
    ASSUME NEW S, NEW s \in Seq(S), OneEach(s), NEW T, \A y : y \in T <=> InSeq(s, y)
    PROVE  IsFiniteSet(T) /\ Cardinality(T) = Len(s)
<1>1. Len(s) \in Nat
  OBVIOUS
<1>2. s \in Bijection(1..Len(s), T)
  <2>1. s \in [1..Len(s) -> T]
    BY DEF InSeq
  <2>2. \A i, j \in 1..Len(s) : s[i] = s[j] => i = j
    BY DEF OneEach
  <2>3. \A y \in T : \E i \in 1..Len(s) : s[i] = y
    BY DEF InSeq
  <2> QED
    BY <2>1, <2>2, <2>3 DEF Bijection, Injection, Surjection, IsInjective
<1>3. IsFiniteSet(1..Len(s)) /\ Cardinality(1..Len(s)) = Len(s)
  BY <1>1, FS_Interval, SMTT(30)
<1>4. ExistsBijection(1..Len(s), T)
  BY <1>2 DEF ExistsBijection
<1> QED
  BY <1>1, <1>3, <1>4, FS_Bijection

----------------------------------------------------------------------------
(* Links *)

\* Two states of the nodes with the same pages.
SameData(m, nodes) ==
    \A q \in Nodes : /\ m[q].key = nodes[q].key /\ m[q].ref_count = nodes[q].ref_count
                     /\ m[q].is_loaded = nodes[q].is_loaded /\ m[q].content = nodes[q].content

\* lru_remove: the node before p and the node behind p have each other.
LEMMA RemoveLinks ==
    ASSUME NEW nodes \in [Nodes -> Node], NEW R \in SUBSET Nodes, RingOn(nodes, R), NEW p \in R
    PROVE  /\ lru_remove(nodes, p) \in [Nodes -> Node] /\ SameData(lru_remove(nodes, p), nodes)
           /\ RingOn(lru_remove(nodes, p), R \ {p})
<1> DEFINE m == lru_remove(nodes, p)
<1>1. PICK a \in R : a = nodes[p].lru_next
  BY DEF RingOn
<1>2. PICK b \in R : b = nodes[p].lru_prev
  BY DEF RingOn
<1>3. a \in Nodes /\ b \in Nodes /\ \A q \in Nodes : nodes[q] \in Node
  OBVIOUS
<1>4. m = [nodes EXCEPT ![a].lru_prev = b, ![b].lru_next = a]
  BY <1>1, <1>2 DEF lru_remove
<1>5. m \in [Nodes -> Node]
  BY <1>3, <1>4 DEF Node
<1>6. SameData(m, nodes)
  BY <1>3, <1>4 DEF Node, SameData
<1>7. \A q \in Nodes : /\ m[q].lru_prev = (IF q = a THEN b ELSE nodes[q].lru_prev)
                       /\ m[q].lru_next = (IF q = b THEN a ELSE nodes[q].lru_next)
  BY <1>3, <1>4 DEF Node
<1> HIDE DEF m
<1>8. RingOn(m, R \ {p})
  <2>1. \A q \in R : /\ nodes[q].lru_next \in R /\ nodes[nodes[q].lru_next].lru_prev = q
                     /\ nodes[q].lru_prev \in R /\ nodes[nodes[q].lru_prev].lru_next = q
    BY DEF RingOn
  <2>2. \A q \in R : q \in Nodes
    OBVIOUS
  <2> SUFFICES ASSUME NEW q \in R \ {p}
               PROVE  /\ m[q].lru_next \in R \ {p} /\ m[m[q].lru_next].lru_prev = q
                      /\ m[q].lru_prev \in R \ {p} /\ m[m[q].lru_prev].lru_next = q
    BY DEF RingOn
  <2>3. m[q].lru_next \in R \ {p} /\ m[m[q].lru_next].lru_prev = q
    BY <2>1, <2>2, <1>1, <1>2, <1>7
  <2>4. m[q].lru_prev \in R \ {p} /\ m[m[q].lru_prev].lru_next = q
    BY <2>1, <2>2, <1>1, <1>2, <1>7
  <2> QED
    BY <2>3, <2>4
<1> QED
  BY <1>5, <1>6, <1>8 DEF m

\* lru_insert_after: p is behind the head.
LEMMA InsertLinks ==
    ASSUME NEW nodes \in [Nodes -> Node], NEW R \in SUBSET Nodes, RingOn(nodes, R), 0 \in R,
           NEW p \in Nodes, p \notin R
    PROVE  /\ lru_insert_after(nodes, 0, p) \in [Nodes -> Node]
           /\ SameData(lru_insert_after(nodes, 0, p), nodes)
           /\ RingOn(lru_insert_after(nodes, 0, p), R \cup {p})
<1> DEFINE m == lru_insert_after(nodes, 0, p)
<1>1. PICK h \in R : h = nodes[0].lru_next
  BY DEF RingOn
<1>2. h \in Nodes /\ 0 \in Nodes /\ (\A q \in Nodes : nodes[q] \in Node) /\ p # h /\ p # 0
  OBVIOUS
<1>3. m = [nodes EXCEPT ![p].lru_next = h, ![p].lru_prev = 0, ![h].lru_prev = p, ![0].lru_next = p]
  BY <1>1 DEF lru_insert_after
<1>4. m \in [Nodes -> Node]
  BY <1>2, <1>3 DEF Node
<1>5. SameData(m, nodes)
  BY <1>2, <1>3 DEF Node, SameData
<1>6. \A q \in Nodes : m[q].lru_prev = IF q = p THEN 0 ELSE IF q = h THEN p ELSE nodes[q].lru_prev
  BY <1>2, <1>3 DEF Node
<1>7. \A q \in Nodes : m[q].lru_next = IF q = p THEN h ELSE IF q = 0 THEN p ELSE nodes[q].lru_next
  BY <1>2, <1>3 DEF Node
<1> HIDE DEF m
<1>8. RingOn(m, R \cup {p})
  <2>1. \A q \in R : /\ nodes[q].lru_next \in R /\ nodes[nodes[q].lru_next].lru_prev = q
                     /\ nodes[q].lru_prev \in R /\ nodes[nodes[q].lru_prev].lru_next = q
    BY DEF RingOn
  <2>2. \A q \in R : q \in Nodes /\ q # p
    OBVIOUS
  <2> SUFFICES ASSUME NEW q \in R \cup {p}
               PROVE  /\ m[q].lru_next \in R \cup {p} /\ m[m[q].lru_next].lru_prev = q
                      /\ m[q].lru_prev \in R \cup {p} /\ m[m[q].lru_prev].lru_next = q
    BY DEF RingOn
  <2>3. m[q].lru_next \in R \cup {p} /\ m[m[q].lru_next].lru_prev = q
    BY <2>1, <2>2, <1>1, <1>2, <1>6, <1>7
  <2>4. m[q].lru_prev \in R \cup {p} /\ m[m[q].lru_prev].lru_next = q
    BY <2>1, <2>2, <1>1, <1>2, <1>6, <1>7
  <2> QED
    BY <2>3, <2>4
<1> QED
  BY <1>4, <1>5, <1>8 DEF m

\* A ring does not depend on what is in its pages.
LEMMA SameRing ==
    ASSUME NEW m, NEW nodes, NEW R, RingOn(nodes, R),
           \A q \in R : m[q].lru_next = nodes[q].lru_next /\ m[q].lru_prev = nodes[q].lru_prev
    PROVE  RingOn(m, R)
  BY DEF RingOn

----------------------------------------------------------------------------
(* Pin and Unpin *)

\* The pages of two states of the nodes, without their reference counts.
SamePages(m, nodes) ==
    \A q \in Nodes : m[q].key = nodes[q].key /\ m[q].is_loaded = nodes[q].is_loaded /\ m[q].content = nodes[q].content

\* Two caches with the same files.
SameFiles(d, c) == d.file = c.file /\ d.freelist = c.freelist /\ d.busypage_num = c.busypage_num

\* The pages without references are nodes.
LEMMA FreeNodes ==
    ASSUME NEW nodes
    PROVE  Free(nodes) \in SUBSET Nodes /\ 0 \in Free(nodes) /\ Pages \subseteq Nodes /\ 0 \notin Pages
  BY LruAssumption DEF Free, Nodes, Pages

\* The cache with other nodes.
LEMMA WithNodes ==
    ASSUME NEW c, IsCache(c), NEW m \in [Nodes -> Node]
    PROVE  IsCache([c EXCEPT !.nodes = m]) /\ SameFiles([c EXCEPT !.nodes = m], c) /\ [c EXCEPT !.nodes = m].nodes = m
<1>1. c = [nodes |-> c.nodes, file |-> c.file, freelist |-> c.freelist, busypage_num |-> c.busypage_num]
  BY DEF IsCache
<1>2. [c EXCEPT !.nodes = m] = [nodes |-> m, file |-> c.file, freelist |-> c.freelist, busypage_num |-> c.busypage_num]
  BY <1>1
<1> QED
  BY <1>2 DEF IsCache, SameFiles

\* Node p has another reference count.
LEMMA WithCount ==
    ASSUME NEW nodes \in [Nodes -> Node], NEW p \in Nodes, NEW n \in Nat,
           NEW m, m = [nodes EXCEPT ![p].ref_count = n]
    PROVE  /\ m \in [Nodes -> Node] /\ SamePages(m, nodes)
           /\ \A q \in Nodes : /\ m[q].ref_count = IF q = p THEN n ELSE nodes[q].ref_count
                               /\ m[q].lru_next = nodes[q].lru_next /\ m[q].lru_prev = nodes[q].lru_prev
<1>1. \A q \in Nodes : nodes[q] \in Node
  OBVIOUS
<1>2. m \in [Nodes -> Node]
  BY <1>1 DEF Node
<1>3. SamePages(m, nodes)
  BY <1>1 DEF Node, SamePages
<1> QED
  BY <1>1, <1>2, <1>3 DEF Node

\* A page gets a reference, and leaves the list with the first one.
LEMMA PinIs ==
    ASSUME NEW c, IsCache(c), RingOn(c.nodes, Free(c.nodes)), NEW p \in Pages
    PROVE  /\ IsCache(Pin(c, p)) /\ SameFiles(Pin(c, p), c) /\ SamePages(Pin(c, p).nodes, c.nodes)
           /\ \A q \in Pages : Pin(c, p).nodes[q].ref_count = IF q = p THEN c.nodes[q].ref_count + 1
                                                              ELSE c.nodes[q].ref_count
           /\ RingOn(Pin(c, p).nodes, Free(Pin(c, p).nodes))
<1> DEFINE F == Free(c.nodes)
           n == IF c.nodes[p].ref_count = 0 THEN lru_remove(c.nodes, p) ELSE c.nodes
           m == [n EXCEPT ![p].ref_count = n[p].ref_count + 1]
<1>1. c.nodes \in [Nodes -> Node] /\ p \in Nodes /\ F \in SUBSET Nodes /\ 0 \notin Pages /\ Pages \subseteq Nodes
  BY FreeNodes DEF IsCache
<1>2. n \in [Nodes -> Node] /\ SameData(n, c.nodes) /\ RingOn(n, F \ {p})
  <2>1. CASE c.nodes[p].ref_count = 0
    <3>1. p \in F
      BY <2>1 DEF Free
    <3>2. n = lru_remove(c.nodes, p)
      BY <2>1
    <3> QED
      BY <1>1, <3>1, <3>2, RemoveLinks
  <2>2. CASE c.nodes[p].ref_count # 0
    <3>1. n = c.nodes
      BY <2>2
    <3>2. p \notin F
      BY <2>2, <1>1 DEF Free
    <3>3. F \ {p} = F
      BY <3>2
    <3> QED
      BY <1>1, <3>1, <3>3 DEF SameData
  <2> QED
    BY <2>1, <2>2
<1> HIDE DEF n
<1>3. n[p].ref_count \in Nat
  BY <1>1, <1>2 DEF Node
<1>4. /\ m \in [Nodes -> Node] /\ SamePages(m, n)
      /\ \A q \in Nodes : /\ m[q].ref_count = IF q = p THEN n[p].ref_count + 1 ELSE n[q].ref_count
                          /\ m[q].lru_next = n[q].lru_next /\ m[q].lru_prev = n[q].lru_prev
  <2>1. n \in [Nodes -> Node] /\ p \in Nodes /\ (\A q \in Nodes : n[q] \in Node) /\ n[p].ref_count + 1 \in Nat
    BY <1>1, <1>2, <1>3
  <2>2. m \in [Nodes -> Node]
    BY <2>1 DEF Node
  <2>3. SamePages(m, n)
    BY <2>1 DEF Node, SamePages
  <2> QED
    BY <2>1, <2>2, <2>3 DEF Node
<1> HIDE DEF m
<1>5. SamePages(m, c.nodes)
  BY <1>2, <1>4 DEF SamePages, SameData
<1>6. \A q \in Pages : m[q].ref_count = IF q = p THEN c.nodes[q].ref_count + 1 ELSE c.nodes[q].ref_count
  BY <1>1, <1>2, <1>4 DEF SameData
<1>7. Free(m) = F \ {p}
  <2>1. c.nodes[p].ref_count \in Nat
    BY <1>1 DEF Node
  <2>2. c.nodes[p].ref_count + 1 # 0
    BY <2>1
  <2> QED
    BY <1>1, <1>6, <2>2 DEF Free
<1>8. RingOn(m, Free(m))
  <2>1. RingOn(m, F \ {p})
    BY <1>1, <1>2, <1>4, SameRing
  <2> QED
    BY <1>7, <2>1
<1>9. Pin(c, p) = [c EXCEPT !.nodes = m]
  BY DEF Pin, n, m
<1>10. IsCache(Pin(c, p)) /\ SameFiles(Pin(c, p), c) /\ Pin(c, p).nodes = m
  BY <1>4, <1>9, WithNodes
<1> QED
  BY <1>5, <1>6, <1>8, <1>10

\* A page loses a reference, and is in the list again when it was the last.
LEMMA UnpinIs ==
    ASSUME NEW c, IsCache(c), RingOn(c.nodes, Free(c.nodes)), NEW p \in Pages, c.nodes[p].ref_count > 0
    PROVE  /\ IsCache(Unpin(c, p)) /\ SameFiles(Unpin(c, p), c) /\ SamePages(Unpin(c, p).nodes, c.nodes)
           /\ \A q \in Pages : Unpin(c, p).nodes[q].ref_count = IF q = p THEN c.nodes[q].ref_count - 1
                                                                ELSE c.nodes[q].ref_count
           /\ RingOn(Unpin(c, p).nodes, Free(Unpin(c, p).nodes))
<1> DEFINE F == Free(c.nodes)
           n == [c.nodes EXCEPT ![p].ref_count = c.nodes[p].ref_count - 1]
           m == IF n[p].ref_count = 0 THEN lru_insert_after(n, 0, p) ELSE n
<1>1. /\ c.nodes \in [Nodes -> Node] /\ p \in Nodes /\ F \in SUBSET Nodes /\ 0 \notin Pages /\ Pages \subseteq Nodes
      /\ 0 \in F
  BY FreeNodes DEF IsCache
<1>2. c.nodes[p].ref_count \in Nat
  BY <1>1 DEF Node
<1>3. c.nodes[p].ref_count - 1 \in Nat /\ p \notin F
  BY <1>1, <1>2 DEF Free
<1>4. /\ n \in [Nodes -> Node] /\ SamePages(n, c.nodes)
      /\ \A q \in Nodes : /\ n[q].ref_count = IF q = p THEN c.nodes[p].ref_count - 1 ELSE c.nodes[q].ref_count
                          /\ n[q].lru_next = c.nodes[q].lru_next /\ n[q].lru_prev = c.nodes[q].lru_prev
  BY <1>1, <1>3, WithCount
<1> HIDE DEF n
<1>5. RingOn(n, F)
  BY <1>1, <1>4, SameRing
<1>6. m \in [Nodes -> Node] /\ SameData(m, n) /\ RingOn(m, IF n[p].ref_count = 0 THEN F \cup {p} ELSE F)
  <2>1. CASE n[p].ref_count = 0
    BY <2>1, <1>1, <1>3, <1>4, <1>5, InsertLinks
  <2>2. CASE n[p].ref_count # 0
    BY <2>2, <1>4, <1>5 DEF SameData
  <2> QED
    BY <2>1, <2>2
<1> HIDE DEF m
<1>7. SamePages(m, c.nodes)
  BY <1>4, <1>6 DEF SamePages, SameData
<1>8. \A q \in Pages : m[q].ref_count = IF q = p THEN c.nodes[q].ref_count - 1 ELSE c.nodes[q].ref_count
  BY <1>1, <1>4, <1>6 DEF SameData
<1>9. Free(m) = IF n[p].ref_count = 0 THEN F \cup {p} ELSE F
  <2>1. n[p].ref_count = c.nodes[p].ref_count - 1 /\ m[p].ref_count = n[p].ref_count
    BY <1>1, <1>4, <1>6 DEF SameData
  <2>2. \A q \in Pages : q # p => m[q].ref_count = c.nodes[q].ref_count
    BY <1>8
  <2>3. c.nodes[p].ref_count # 0
    BY <1>2
  <2> QED
    BY <1>1, <2>1, <2>2, <2>3 DEF Free
<1>10. Unpin(c, p) = [c EXCEPT !.nodes = m]
  BY DEF Unpin, n, m
<1>11. IsCache(Unpin(c, p)) /\ SameFiles(Unpin(c, p), c) /\ Unpin(c, p).nodes = m
  BY <1>6, <1>10, WithNodes
<1> QED
  BY <1>6, <1>7, <1>8, <1>9, <1>11

----------------------------------------------------------------------------
(* A page goes from file to file *)

\* The page loses its key, the others keep theirs.
Lost(m, nodes, p) == m[p].key = NoKey /\ \A q \in Pages : q # p => m[q].key = nodes[q].key

\* The page gets a key, the others keep theirs.
Gained(m, nodes, p, key) == m[p].key = key /\ \A q \in Pages : q # p => m[q].key = nodes[q].key

\* No page has the key yet.
NewKey(nodes, key) == \A q \in Pages : nodes[q].key # key

FileWithout(file, f, p) == [file EXCEPT ![f].pages = RingRemove(@, p), ![f].pgcnt = @ - 1]
FileWith(file, fi, p) == [file EXCEPT ![fi].pages = insert_after_p(@, p), ![fi].pgcnt = @ + 1]

\* The same files are there, and the same are closed.
SameState(g, file) ==
    DOMAIN g = DOMAIN file /\ \A fi \in DOMAIN file : g[fi].is_pending_drop = file[fi].is_pending_drop

\* At most file f has changed.
SameBut(g, file, f) == \A fi \in DOMAIN file : fi # f => g[fi] = file[fi]

\* The files have the pages whose keys name them.
Right(nodes, file) == file \in [DOMAIN file -> File] /\ FilesOK(nodes, file) /\ KeysOK(nodes, file)

\* Keys have a file and a page.
LEMMA KeyParts == NoKey \notin Keys /\ \A k \in Keys : k # NoKey /\ k[1] \in Nat
  BY DEF NoKey, Keys

\* A file of which nothing changes.
LEMMA SameFileOK ==
    ASSUME NEW m, NEW nodes, NEW g, NEW file, NEW fi, FileOK(nodes, file, fi), g[fi] = file[fi],
           \A q \in Pages : OfFile(m, q, fi) <=> OfFile(nodes, q, fi)
    PROVE  FileOK(m, g, fi)
  BY DEF FileOK

\* A page leaves its file.
LEMMA LosePage ==
    ASSUME NEW nodes, NEW m, NEW file, Right(nodes, file),
           NEW p \in Pages, NEW f \in DOMAIN file, OfFile(nodes, p, f), Lost(m, nodes, p)
    PROVE  /\ Right(m, FileWithout(file, f, p)) /\ SameState(FileWithout(file, f, p), file)
           /\ SameBut(FileWithout(file, f, p), file, f)
<1>0. file \in [DOMAIN file -> File] /\ FilesOK(nodes, file) /\ KeysOK(nodes, file)
  BY DEF Right
<1> DEFINE g == FileWithout(file, f, p)
           r == RingRemove(file[f].pages, p)
<1>1. file[f] \in File /\ FileOK(nodes, file, f)
  BY <1>0 DEF FilesOK
<1>2. file[f].pages \in Seq(Pages) /\ file[f].pgcnt = Len(file[f].pages) /\ OneEach(file[f].pages) /\ InSeq(file[f].pages, p)
  BY <1>1 DEF File, FileOK
<1>3. /\ r \in Seq(Pages) /\ Len(r) = Len(file[f].pages) - 1 /\ OneEach(r)
      /\ \A y : InSeq(r, y) <=> InSeq(file[f].pages, y) /\ y # p
  BY <1>2, RingRemoveIs
<1> HIDE DEF r
<1>4. Len(r) \in Nat /\ file[f].pgcnt - 1 = Len(r)
  BY <1>2, <1>3
<1>5. g = [file EXCEPT ![f] = [file[f] EXCEPT !.pages = r, !.pgcnt = Len(r)]]
  BY <1>0, <1>1, <1>4 DEF FileWithout, r, File
<1> HIDE DEF g
<1>6. /\ [file[f] EXCEPT !.pages = r, !.pgcnt = Len(r)] \in File
      /\ g[f] = [file[f] EXCEPT !.pages = r, !.pgcnt = Len(r)]
      /\ \A fi \in DOMAIN file : fi # f => g[fi] = file[fi]
  BY <1>0, <1>1, <1>3, <1>4, <1>5 DEF File
<1>7. g[f].pages = r /\ g[f].pgcnt = Len(r) /\ g[f].is_pending_drop = file[f].is_pending_drop
  BY <1>1, <1>6 DEF File
<1>8. g \in [DOMAIN file -> File] /\ DOMAIN g = DOMAIN file
  BY <1>0, <1>5, <1>6
<1>9. SameState(g, file)
  BY <1>6, <1>7, <1>8 DEF SameState
<1>10. FilesOK(m, g)
  <2> SUFFICES ASSUME NEW fi \in DOMAIN file PROVE FileOK(m, g, fi)
    BY <1>8 DEF FilesOK
  <2>1. CASE fi = f
    <3>1. \A q \in Pages : OfFile(m, q, f) <=> OfFile(nodes, q, f) /\ q # p
      BY DEF OfFile, Lost
    <3>2. \A q \in Pages : InSeq(r, q) <=> OfFile(m, q, f)
      BY <1>1, <1>3, <3>1 DEF FileOK
    <3> QED
      BY <2>1, <3>2, <1>3, <1>7 DEF FileOK
  <2>2. CASE fi # f
    <3>1. \A q \in Pages : OfFile(m, q, fi) <=> OfFile(nodes, q, fi)
      BY <2>2 DEF OfFile, Lost
    <3>2. FileOK(nodes, file, fi) /\ g[fi] = file[fi]
      BY <1>0, <1>6, <2>2 DEF FilesOK
    <3> QED
      BY <3>1, <3>2, SameFileOK
  <2> QED
    BY <2>1, <2>2
<1>11. KeysOK(m, g)
  BY <1>0, <1>8 DEF KeysOK, Lost
<1> QED
  BY <1>6, <1>8, <1>9, <1>10, <1>11 DEF g, Right, SameBut

\* A page comes to a file.
LEMMA GainPage ==
    ASSUME NEW nodes, NEW m, NEW file, Right(nodes, file),
           NEW p \in Pages, nodes[p].key = NoKey, NEW key \in Keys, key[1] \in DOMAIN file,
           NewKey(nodes, key), Gained(m, nodes, p, key)
    PROVE  /\ Right(m, FileWith(file, key[1], p)) /\ SameState(FileWith(file, key[1], p), file)
           /\ SameBut(FileWith(file, key[1], p), file, key[1])
<1>0. PICK f \in DOMAIN file : /\ f = key[1] /\ file \in [DOMAIN file -> File]
                               /\ FilesOK(nodes, file) /\ KeysOK(nodes, file)
  BY DEF Right
<1> DEFINE g == FileWith(file, f, p)
           r == insert_after_p(file[f].pages, p)
<1>1. file[f] \in File /\ FileOK(nodes, file, f)
  BY <1>0 DEF FilesOK
<1>2. file[f].pages \in Seq(Pages) /\ file[f].pgcnt = Len(file[f].pages) /\ OneEach(file[f].pages) /\ ~InSeq(file[f].pages, p)
  BY <1>1 DEF File, FileOK, OfFile
<1>3. /\ r \in Seq(Pages) /\ Len(r) = Len(file[f].pages) + 1 /\ OneEach(r)
      /\ \A y : InSeq(r, y) <=> InSeq(file[f].pages, y) \/ y = p
  BY <1>2, InsertIs
<1> HIDE DEF r
<1>4. Len(r) \in Nat /\ file[f].pgcnt + 1 = Len(r)
  BY <1>2, <1>3
<1>5. g = [file EXCEPT ![f] = [file[f] EXCEPT !.pages = r, !.pgcnt = Len(r)]]
  BY <1>0, <1>1, <1>4 DEF FileWith, r, File
<1> HIDE DEF g
<1>6. /\ [file[f] EXCEPT !.pages = r, !.pgcnt = Len(r)] \in File
      /\ g[f] = [file[f] EXCEPT !.pages = r, !.pgcnt = Len(r)]
      /\ \A fi \in DOMAIN file : fi # f => g[fi] = file[fi]
  BY <1>0, <1>1, <1>3, <1>4, <1>5 DEF File
<1>7. g[f].pages = r /\ g[f].pgcnt = Len(r) /\ g[f].is_pending_drop = file[f].is_pending_drop
  BY <1>1, <1>6 DEF File
<1>8. g \in [DOMAIN file -> File] /\ DOMAIN g = DOMAIN file
  BY <1>0, <1>5, <1>6
<1>9. SameState(g, file)
  BY <1>6, <1>7, <1>8 DEF SameState
<1>10. key # NoKey
  BY KeyParts
<1>11. FilesOK(m, g)
  <2> SUFFICES ASSUME NEW fi \in DOMAIN file PROVE FileOK(m, g, fi)
    BY <1>8 DEF FilesOK
  <2>1. CASE fi = f
    <3>1. \A q \in Pages : OfFile(m, q, f) <=> OfFile(nodes, q, f) \/ q = p
      BY <1>0, <1>10 DEF OfFile, Gained
    <3>2. \A q \in Pages : InSeq(r, q) <=> OfFile(m, q, f)
      BY <1>1, <1>3, <3>1 DEF FileOK
    <3> QED
      BY <2>1, <3>2, <1>3, <1>7 DEF FileOK
  <2>2. CASE fi # f
    <3>1. \A q \in Pages : OfFile(m, q, fi) <=> OfFile(nodes, q, fi)
      BY <1>0, <2>2 DEF OfFile, Gained
    <3>2. FileOK(nodes, file, fi) /\ g[fi] = file[fi]
      BY <1>0, <1>6, <2>2 DEF FilesOK
    <3> QED
      BY <3>1, <3>2, SameFileOK
  <2> QED
    BY <2>1, <2>2
<1>12. KeysOK(m, g)
  BY <1>0, <1>8 DEF KeysOK, Gained, NewKey
<1> QED
  BY <1>0, <1>6, <1>8, <1>9, <1>11, <1>12 DEF g, Right, SameBut

\* The ring of closed files without its head.
LEMMA TailIs ==
    ASSUME NEW S, NEW s \in Seq(S), s # <<>>, OneEach(s)
    PROVE  /\ Tail(s) \in Seq(S) /\ OneEach(Tail(s)) /\ InSeq(s, Head(s)) /\ Head(s) \in S
           /\ \A y : InSeq(Tail(s), y) <=> InSeq(s, y) /\ y # Head(s)
<1> DEFINE r == Tail(s)
<1>1. Len(s) \in Nat /\ Len(s) >= 1 /\ Head(s) = s[1] /\ Head(s) \in S
  OBVIOUS
<1>2. r \in Seq(S) /\ Len(r) = Len(s) - 1 /\ \A i \in 1..(Len(s) - 1) : r[i] = s[i + 1]
  BY HeadTailProperties
<1> HIDE DEF r
<1>3. OneEach(r)
  <2> SUFFICES ASSUME NEW i \in 1..(Len(s) - 1), NEW j \in 1..(Len(s) - 1), r[i] = r[j] PROVE i = j
    BY <1>2 DEF OneEach
  <2>1. PICK a \in 1..Len(s) : a = i + 1
    BY <1>1
  <2>2. PICK b \in 1..Len(s) : b = j + 1
    BY <1>1
  <2>3. a = b
    BY <1>2, <2>1, <2>2 DEF OneEach
  <2> QED
    BY <2>1, <2>2, <2>3
<1>4. ASSUME NEW y, InSeq(r, y) PROVE InSeq(s, y) /\ y # Head(s)
  <2>1. PICK i \in 1..(Len(s) - 1) : r[i] = y
    BY <1>2, <1>4 DEF InSeq
  <2>2. PICK a \in 1..Len(s) : a = i + 1 /\ a # 1
    BY <1>1
  <2>3. s[a] = y /\ 1 \in 1..Len(s)
    BY <1>1, <1>2, <2>1, <2>2
  <2> QED
    BY <1>1, <2>2, <2>3 DEF InSeq, OneEach
<1>5. ASSUME NEW y, InSeq(s, y), y # Head(s) PROVE InSeq(r, y)
  <2>1. PICK a \in 1..Len(s) : s[a] = y /\ a # 1
    BY <1>1, <1>5 DEF InSeq
  <2>2. PICK i \in 1..(Len(s) - 1) : a = i + 1
    <3>1. a - 1 \in 1..(Len(s) - 1) /\ a = a - 1 + 1
      BY <1>1, <2>1
    <3> QED
      BY <3>1
  <2> QED
    BY <1>2, <2>1, <2>2 DEF InSeq
<1>6. InSeq(s, Head(s))
  BY <1>1 DEF InSeq
<1> QED
  BY <1>1, <1>2, <1>3, <1>4, <1>5, <1>6 DEF r

----------------------------------------------------------------------------
(* alloc_page *)

\* A node that is for another page.
LEMMA RenewedIs ==
    ASSUME NEW node \in Node, NEW key \in Keys
    PROVE  /\ Renewed(node, key) \in Node /\ Renewed(node, key).key = key /\ Renewed(node, key).ref_count = 1
           /\ ~Renewed(node, key).is_loaded /\ Renewed(node, key).content = NoKey
           /\ Renewed(node, key).lru_next = node.lru_next /\ Renewed(node, key).lru_prev = node.lru_prev
<1>1. PICK b \in BOOLEAN : b = FALSE
  OBVIOUS
<1>2. Renewed(node, key) = [node EXCEPT !.ref_count = 1, !.is_loaded = b, !.key = key, !.content = NoKey]
  BY <1>1 DEF Renewed
<1>3. Renewed(node, key) = [key |-> key, ref_count |-> 1, is_loaded |-> b, content |-> NoKey,
                            lru_next |-> node.lru_next, lru_prev |-> node.lru_prev]
  BY <1>2 DEF Node
<1>4. node.lru_next \in Nodes /\ node.lru_prev \in Nodes
  BY DEF Node
<1>5. Renewed(node, key).is_loaded = b
  BY <1>3
<1> QED
  BY <1>1, <1>3, <1>4, <1>5 DEF Node

\* The nodes after p was taken for a key.
Taken(nodes, p, key) ==
    [lru_remove(nodes, p) EXCEPT ![p] = Renewed(@, key)]

\* Only p changes, and leaves the list.
LEMMA TakenIs ==
    ASSUME NEW nodes \in [Nodes -> Node], RingOn(nodes, Free(nodes)), NEW p \in Pages, nodes[p].ref_count = 0,
           NEW key \in Keys
    PROVE  /\ Taken(nodes, p, key) \in [Nodes -> Node]
           /\ Taken(nodes, p, key)[p].key = key /\ Taken(nodes, p, key)[p].ref_count = 1
           /\ ~Taken(nodes, p, key)[p].is_loaded /\ Taken(nodes, p, key)[p].content = NoKey
           /\ \A q \in Pages : q # p => /\ Taken(nodes, p, key)[q].key = nodes[q].key
                                        /\ Taken(nodes, p, key)[q].ref_count = nodes[q].ref_count
                                        /\ Taken(nodes, p, key)[q].is_loaded = nodes[q].is_loaded
                                        /\ Taken(nodes, p, key)[q].content = nodes[q].content
           /\ RingOn(Taken(nodes, p, key), Free(Taken(nodes, p, key)))
<1> DEFINE n == lru_remove(nodes, p)
           m == Taken(nodes, p, key)
           F == Free(nodes)
<1>1. p \in Nodes /\ p \in F /\ F \in SUBSET Nodes /\ 0 \notin Pages /\ Pages \subseteq Nodes
  BY FreeNodes DEF Free
<1>2. n \in [Nodes -> Node] /\ SameData(n, nodes) /\ RingOn(n, F \ {p})
  BY <1>1, RemoveLinks
<1>3. m = [n EXCEPT ![p] = Renewed(n[p], key)]
  BY DEF Taken
<1> HIDE DEF m, n
<1>4. \A q \in Nodes : n[q] \in Node
  BY <1>2
<1>5. PICK x \in Node : /\ m = [n EXCEPT ![p] = x] /\ x.key = key /\ x.ref_count = 1 /\ ~x.is_loaded /\ x.content = NoKey
                        /\ x.lru_next = n[p].lru_next /\ x.lru_prev = n[p].lru_prev
  <2>1. n[p] \in Node /\ NoKey \in Keys \cup {NoKey} /\ key \in Keys \cup {NoKey}
    BY <1>1, <1>4
  <2> QED
    BY <2>1, <1>3, RenewedIs
<1>6. m \in [Nodes -> Node] /\ m[p].key = key /\ m[p].ref_count = 1 /\ ~m[p].is_loaded /\ m[p].content = NoKey
  BY <1>1, <1>2, <1>5
<1>7. \A q \in Nodes : m[q].lru_next = n[q].lru_next /\ m[q].lru_prev = n[q].lru_prev
  BY <1>1, <1>2, <1>5
<1>8. \A q \in Nodes : q # p => m[q] = n[q]
  BY <1>1, <1>2, <1>5
<1>9. \A q \in Pages : q # p => /\ m[q].key = nodes[q].key /\ m[q].ref_count = nodes[q].ref_count
                                /\ m[q].is_loaded = nodes[q].is_loaded /\ m[q].content = nodes[q].content
  BY <1>1, <1>2, <1>8 DEF SameData
<1>10. Free(m) = F \ {p}
  <2>1. \A q \in Pages : m[q].ref_count = 0 <=> nodes[q].ref_count = 0 /\ q # p
    BY <1>6, <1>9
  <2> QED
    BY <1>1, <2>1 DEF Free
<1>11. RingOn(m, F \ {p})
  BY <1>1, <1>2, <1>7, SameRing
<1> QED
  BY <1>6, <1>9, <1>10, <1>11 DEF m

\* The cache after the allocation, from its parts.
CacheOf(nodes, file, freelist, busypage_num) ==
    [nodes |-> nodes, file |-> file, freelist |-> freelist, busypage_num |-> busypage_num]

\* The files when the first closed file, f, loses a page to file fi.
Dropped(file, f) == IF file[f].pgcnt = 0 THEN [i \in DOMAIN file \ {f} |-> file[i]] ELSE file

\* What alloc_page does with the page, whoever had it.
RenewAt(d, p, key) == [d EXCEPT !.nodes[p] = Renewed(@, key)]

LEMMA TakenOf ==
    ASSUME NEW d, NEW nodes, NEW file, NEW freelist, NEW busypage_num, NEW p, NEW key,
           d = CacheOf(lru_remove(nodes, p), file, freelist, busypage_num)
    PROVE  RenewAt(d, p, key) = CacheOf(Taken(nodes, p, key), file, freelist, busypage_num)
<1>1. d.nodes = lru_remove(nodes, p)
  BY DEF CacheOf
<1>2. RenewAt(d, p, key) = [d EXCEPT !.nodes = [d.nodes EXCEPT ![p] = Renewed(@, key)]]
  BY DEF RenewAt
<1>3. [d.nodes EXCEPT ![p] = Renewed(@, key)] = Taken(nodes, p, key)
  BY <1>1 DEF Taken
<1>4. ASSUME NEW m PROVE [d EXCEPT !.nodes = m] = CacheOf(m, file, freelist, busypage_num)
  BY DEF CacheOf
<1> QED
  BY <1>2, <1>3, <1>4

\* A page of the first closed file: alloc_dropped_free.
LEMMA AllocDroppedIs ==
    ASSUME NEW c, IsCache(c), c.freelist # <<>>, NEW key,
           NEW f, f = Head(c.freelist), NEW p, p = Head(c.file[f].pages),
           NEW file, file = MovePage(c.file, p, f, key[1])
    PROVE  /\ AllocPage(c) = p
           /\ alloc_page(c, key) = CacheOf(Taken(c.nodes, p, key), Dropped(file, f),
                                           IF file[f].pgcnt = 0 THEN Tail(c.freelist) ELSE c.freelist,
                                           c.busypage_num + 1)
<1>1. AllocPage(c) = p /\ FreePage(c) = p
  BY DEF AllocPage, FreePage
<1>2. alloc_dropped_free(c, key[1]) =
        CacheOf(lru_remove(c.nodes, p), Dropped(file, f),
                IF file[f].pgcnt = 0 THEN Tail(c.freelist) ELSE c.freelist, c.busypage_num + 1)
  BY <1>1 DEF alloc_dropped_free, CacheOf, Dropped
<1>3. PICK d : d = alloc_dropped_free(c, key[1])
  OBVIOUS
<1>4. alloc_page(c, key) = RenewAt(d, p, key)
  BY <1>1, <1>3 DEF alloc_page, RenewAt
<1>5. PICK l, b, g : l = (IF file[f].pgcnt = 0 THEN Tail(c.freelist) ELSE c.freelist)
                     /\ b = c.busypage_num + 1 /\ g = Dropped(file, f)
  OBVIOUS
<1>6. d = CacheOf(lru_remove(c.nodes, p), g, l, b)
  BY <1>2, <1>3, <1>5
<1>7. RenewAt(d, p, key) = CacheOf(Taken(c.nodes, p, key), g, l, b)
  BY <1>6, TakenOf
<1> QED
  BY <1>1, <1>4, <1>5, <1>7

\* The tail of the LRU list: alloc_swap_out.
LEMMA AllocSwapIs ==
    ASSUME NEW c, IsCache(c), c.freelist = <<>>, NEW key, NEW p, p = LruTail(c)
    PROVE  /\ AllocPage(c) = p
           /\ alloc_page(c, key) =
                CacheOf(Taken(c.nodes, p, key),
                        IF c.nodes[p].key # NoKey THEN MovePage(c.file, p, c.nodes[p].key[1], key[1])
                                                  ELSE FileWith(c.file, key[1], p),
                        c.freelist,
                        IF c.nodes[p].key # NoKey THEN c.busypage_num ELSE c.busypage_num + 1)
<1>0. c = CacheOf(c.nodes, c.file, c.freelist, c.busypage_num)
  BY DEF IsCache, CacheOf
<1>1. AllocPage(c) = p
  BY DEF AllocPage
<1>2. alloc_page(c, key) = RenewAt(alloc_swap_out(c, key[1]), p, key)
  BY <1>1 DEF alloc_page, RenewAt
<1>3. CASE c.nodes[p].key # NoKey
  <2>1. alloc_swap_out(c, key[1]) =
          CacheOf(lru_remove(c.nodes, p), MovePage(c.file, p, c.nodes[p].key[1], key[1]), c.freelist, c.busypage_num)
    BY <1>0, <1>3 DEF alloc_swap_out, CacheOf
  <2> QED
    BY <1>1, <1>2, <1>3, <2>1, TakenOf
<1>4. CASE c.nodes[p].key = NoKey
  <2>1. alloc_swap_out(c, key[1]) =
          CacheOf(lru_remove(c.nodes, p), FileWith(c.file, key[1], p), c.freelist, c.busypage_num + 1)
    BY <1>0, <1>4 DEF alloc_swap_out, CacheOf, FileWith
  <2> QED
    BY <1>1, <1>2, <1>4, <2>1, TakenOf
<1> QED
  BY <1>3, <1>4

\* At most files f and h have changed.
SameButTwo(g, file, f, h) == \A fi \in DOMAIN file : fi # f /\ fi # h => g[fi] = file[fi]

\* A page goes from file f to the file of a key.
LEMMA MovePageIs ==
    ASSUME NEW nodes, NEW m, NEW file, Right(nodes, file),
           NEW p \in Pages, NEW f \in DOMAIN file, OfFile(nodes, p, f), NEW key \in Keys, key[1] \in DOMAIN file,
           NewKey(nodes, key), Gained(m, nodes, p, key)
    PROVE  /\ Right(m, MovePage(file, p, f, key[1])) /\ SameState(MovePage(file, p, f, key[1]), file)
           /\ SameButTwo(MovePage(file, p, f, key[1]), file, f, key[1])
<1> DEFINE n == [q \in Pages |-> [key |-> IF q = p THEN NoKey ELSE nodes[q].key]]
           g == FileWithout(file, f, p)
<1>1. Lost(n, nodes, p) /\ n[p].key = NoKey
  BY DEF Lost
<1>2. Gained(m, n, p, key) /\ NewKey(n, key)
  BY KeyParts DEF Gained, NewKey
<1> HIDE DEF n
<1>3. Right(n, g) /\ SameState(g, file) /\ SameBut(g, file, f)
  BY <1>1, LosePage
<1> HIDE DEF g
<1>4. DOMAIN g = DOMAIN file
  BY <1>3 DEF SameState
<1>5. PICK h : h = FileWith(g, key[1], p) /\ Right(m, h) /\ SameState(h, g) /\ SameBut(h, g, key[1])
  <2>1. key[1] \in DOMAIN g
    BY <1>4
  <2> QED
    BY <1>1, <1>2, <1>3, <2>1, GainPage
<1>6. MovePage(file, p, f, key[1]) = h
  BY <1>5 DEF MovePage, FileWith, FileWithout, g
<1>7. SameState(h, file)
  BY <1>3, <1>5 DEF SameState
<1>8. SameButTwo(h, file, f, key[1])
  BY <1>3, <1>4, <1>5 DEF SameBut, SameButTwo
<1> QED
  BY <1>5, <1>6, <1>7, <1>8

\* The files that are there are closed or open as before.
SameFlags(g, file) == \A fi \in DOMAIN g : g[fi].is_pending_drop = file[fi].is_pending_drop

\* The busy pages when p gets a key of an open file.
LEMMA BusyGained ==
    ASSUME NEW nodes, NEW m, NEW file, NEW g, NEW p \in Pages, NEW key \in Keys, Gained(m, nodes, p, key), KeysOK(m, g),
           SameFlags(g, file), ~file[key[1]].is_pending_drop
    PROVE  BusyPages(m, g) = BusyPages(nodes, file) \cup {p}
<1>1. \A q \in Pages : m[q].key # NoKey => m[q].key[1] \in DOMAIN g
  BY DEF KeysOK
<1>2. m[p].key = key /\ key # NoKey /\ \A q \in Pages : q # p => m[q].key = nodes[q].key
  BY KeyParts DEF Gained
<1> QED
  BY <1>1, <1>2 DEF BusyPages, SameFlags

\* There are finitely many pages.
LEMMA PagesFinite == IsFiniteSet(Pages) /\ \A S \in SUBSET Pages : IsFiniteSet(S) /\ Cardinality(S) \in Nat
<1>1. PageNum \in Nat
  BY LruAssumption
<1>2. IsFiniteSet(Pages)
  BY <1>1, FS_Interval DEF Pages
<1>3. ASSUME NEW S \in SUBSET Pages PROVE IsFiniteSet(S) /\ Cardinality(S) \in Nat
  BY <1>2, FS_Subset, FS_CardinalityType
<1> QED
  BY <1>2, <1>3

\* One busy page more.
LEMMA BusyCount ==
    ASSUME NEW nodes, NEW file, NEW p \in Pages
    PROVE  Cardinality(BusyPages(nodes, file) \cup {p}) =
             IF p \in BusyPages(nodes, file) THEN Cardinality(BusyPages(nodes, file))
             ELSE Cardinality(BusyPages(nodes, file)) + 1
<1>1. BusyPages(nodes, file) \in SUBSET Pages
  BY DEF BusyPages
<1>2. IsFiniteSet(BusyPages(nodes, file))
  BY <1>1, PagesFinite
<1> QED
  BY <1>2, FS_AddElement

\* What an allocation asks for, and does.
CanTake(c, key) ==
    /\ IsCache(c) /\ RingOn(c.nodes, Free(c.nodes)) /\ Books(c) /\ DOMAIN c.file \subseteq Nat
    /\ key \in Keys /\ key[1] \in DOMAIN c.file /\ ~c.file[key[1]].is_pending_drop
    /\ NewKey(c.nodes, key)
    /\ \A q \in Pages : c.nodes[q].ref_count # 0 =>
         c.nodes[q].key # NoKey /\ ~c.file[c.nodes[q].key[1]].is_pending_drop

TookPage(c, d, key, p) ==
    /\ p \in Pages /\ c.nodes[p].ref_count = 0 /\ d.nodes = Taken(c.nodes, p, key)
    /\ IsCache(d) /\ Books(d) /\ DOMAIN d.file \subseteq DOMAIN c.file
    /\ \A fi \in DOMAIN c.file : ~c.file[fi].is_pending_drop => fi \in DOMAIN d.file /\ ~d.file[fi].is_pending_drop

\* The page that was taken has its key.
LEMMA TakenGains ==
    ASSUME NEW c, NEW key, CanTake(c, key), NEW p \in Pages, c.nodes[p].ref_count = 0
    PROVE  Taken(c.nodes, p, key) \in [Nodes -> Node] /\ Gained(Taken(c.nodes, p, key), c.nodes, p, key)
<1>1. c.nodes \in [Nodes -> Node] /\ RingOn(c.nodes, Free(c.nodes)) /\ key \in Keys
  BY DEF CanTake, IsCache
<1> QED
  BY <1>1, TakenIs DEF Gained

\* A page of the LRU list is taken.
LEMMA SwapTakes ==
    ASSUME NEW c, NEW key, CanTake(c, key), c.freelist = <<>>, LruTail(c) # 0
    PROVE  TookPage(c, alloc_page(c, key), key, AllocPage(c))
<1> DEFINE p == LruTail(c)
           m == Taken(c.nodes, p, key)
           d == alloc_page(c, key)
<1>1. /\ IsCache(c) /\ RingOn(c.nodes, Free(c.nodes)) /\ key \in Keys /\ key[1] \in DOMAIN c.file
      /\ c.file \in [DOMAIN c.file -> File] /\ ~c.file[key[1]].is_pending_drop /\ NewKey(c.nodes, key)
      /\ c.busypage_num \in Int
  BY DEF CanTake, IsCache
<1>2. /\ FilesOK(c.nodes, c.file) /\ KeysOK(c.nodes, c.file) /\ ListOK(c.file, c.freelist)
      /\ c.busypage_num = Cardinality(BusyPages(c.nodes, c.file)) /\ DOMAIN c.file \subseteq Nat
      /\ Right(c.nodes, c.file)
  BY DEF CanTake, Books, IsCache, Right
<1>3. p \in Pages /\ c.nodes[p].ref_count = 0
  <2>1. p \in Free(c.nodes)
    BY <1>1, FreeNodes DEF RingOn, LruTail
  <2> QED
    BY <2>1 DEF Free
<1> HIDE DEF p
<1>4. m \in [Nodes -> Node] /\ Gained(m, c.nodes, p, key)
  BY <1>3, TakenGains
<1>5. AllocPage(c) = p /\ d = CacheOf(m, d.file, c.freelist, d.busypage_num)
      /\ d.file = (IF c.nodes[p].key # NoKey THEN MovePage(c.file, p, c.nodes[p].key[1], key[1])
                   ELSE FileWith(c.file, key[1], p))
      /\ d.busypage_num = (IF c.nodes[p].key # NoKey THEN c.busypage_num ELSE c.busypage_num + 1)
  <2>1. PICK g, b : /\ g = (IF c.nodes[p].key # NoKey THEN MovePage(c.file, p, c.nodes[p].key[1], key[1])
                            ELSE FileWith(c.file, key[1], p))
                    /\ b = (IF c.nodes[p].key # NoKey THEN c.busypage_num ELSE c.busypage_num + 1)
    OBVIOUS
  <2>2. AllocPage(c) = p /\ d = CacheOf(m, g, c.freelist, b)
    BY <1>1, <2>1, AllocSwapIs DEF p
  <2> HIDE DEF d, m
  <2>3. d.file = g /\ d.busypage_num = b
    BY <2>2 DEF CacheOf
  <2> QED
    BY <2>1, <2>2, <2>3
<1> HIDE DEF d, m
<1>6. Right(m, d.file) /\ SameState(d.file, c.file)
  <2>1. CASE c.nodes[p].key # NoKey
    <3>1. PICK f \in DOMAIN c.file : f = c.nodes[p].key[1] /\ OfFile(c.nodes, p, f)
      BY <1>2, <1>3, <2>1 DEF KeysOK, OfFile
    <3>2. d.file = MovePage(c.file, p, f, key[1])
      BY <1>5, <2>1, <3>1
    <3> QED
      BY <1>1, <1>2, <1>3, <1>4, <3>1, <3>2, MovePageIs
  <2>2. CASE c.nodes[p].key = NoKey
    <3>1. d.file = FileWith(c.file, key[1], p)
      BY <1>5, <2>2
    <3> QED
      BY <1>1, <1>2, <1>3, <1>4, <2>2, <3>1, GainPage
  <2> QED
    BY <2>1, <2>2
<1>7. DOMAIN d.file = DOMAIN c.file /\ \A fi \in DOMAIN c.file : d.file[fi].is_pending_drop = c.file[fi].is_pending_drop
  BY <1>6 DEF SameState
<1>8. \A fi \in DOMAIN c.file : ~c.file[fi].is_pending_drop
  <2>1. \A fi \in Nat : ~InSeq(c.freelist, fi)
    BY DEF InSeq
  <2> QED
    BY <1>2, <2>1 DEF ListOK
<1>9. ListOK(d.file, d.freelist)
  <2>1. d.freelist = c.freelist
    BY <1>5 DEF CacheOf
  <2> QED
    BY <1>2, <1>7, <1>8, <2>1 DEF ListOK
<1>10. d.busypage_num = Cardinality(BusyPages(m, d.file)) /\ d.busypage_num \in Int
  <2>1. BusyPages(m, d.file) = BusyPages(c.nodes, c.file) \cup {p}
    <3>1. SameFlags(d.file, c.file) /\ KeysOK(m, d.file)
      BY <1>6, <1>7 DEF SameFlags, Right
    <3> QED
      BY <1>1, <1>3, <1>4, <3>1, BusyGained
  <2>2. p \in BusyPages(c.nodes, c.file) <=> c.nodes[p].key # NoKey
    BY <1>2, <1>3, <1>8 DEF BusyPages, KeysOK
  <2>3. Cardinality(BusyPages(m, d.file)) = IF c.nodes[p].key # NoKey THEN c.busypage_num ELSE c.busypage_num + 1
    BY <1>2, <1>3, <2>1, <2>2, BusyCount
  <2> QED
    BY <1>1, <1>5, <2>3
<1>11. IsCache(d) /\ d.nodes = m
  <2>1. d.nodes = m /\ d.freelist = c.freelist
    BY <1>5 DEF CacheOf
  <2>2. d = [nodes |-> d.nodes, file |-> d.file, freelist |-> d.freelist, busypage_num |-> d.busypage_num]
    BY <1>5, <2>1 DEF CacheOf
  <2>3. c.freelist \in Seq(Nat) /\ d.file \in [DOMAIN d.file -> File]
    BY <1>1, <1>6 DEF IsCache, Right
  <2> QED
    BY <1>4, <1>10, <2>1, <2>2, <2>3 DEF IsCache
<1>12. Books(d)
  BY <1>6, <1>9, <1>10, <1>11 DEF Books, Right
<1> QED
  BY <1>3, <1>5, <1>7, <1>11, <1>12 DEF TookPage, m, d

\* File f has no pages, and goes.
NoPages(nodes, f) == \A q \in Pages : ~OfFile(nodes, q, f)
FilesBut(file, f) == [i \in DOMAIN file \ {f} |-> file[i]]

Without(g, file, f) == DOMAIN g = DOMAIN file \ {f} /\ \A fi \in DOMAIN g : g[fi] = file[fi]

\* A file without pages can go.
LEMMA RightWithout ==
    ASSUME NEW m, NEW file, Right(m, file), NEW f, NoPages(m, f), NEW g, g = FilesBut(file, f)
    PROVE  Right(m, g) /\ Without(g, file, f)
<1>1. DOMAIN g = DOMAIN file \ {f} /\ \A fi \in DOMAIN g : g[fi] = file[fi]
  BY DEF FilesBut
<1>2. file \in [DOMAIN file -> File] /\ FilesOK(m, file) /\ KeysOK(m, file)
  BY DEF Right
<1>3. g \in [DOMAIN g -> File]
  BY <1>1, <1>2 DEF FilesBut
<1>4. FilesOK(m, g)
  <2> SUFFICES ASSUME NEW fi \in DOMAIN g PROVE FileOK(m, g, fi)
    BY DEF FilesOK
  <2>1. FileOK(m, file, fi) /\ g[fi] = file[fi]
    BY <1>1, <1>2 DEF FilesOK
  <2> QED
    BY <2>1, SameFileOK
<1>5. KeysOK(m, g)
  BY <1>1, <1>2 DEF KeysOK, OfFile, NoPages
<1> QED
  BY <1>1, <1>3, <1>4, <1>5 DEF Right, Without

\* The first closed file and its first page.
LEMMA FreePageIs ==
    ASSUME NEW c, NEW key, CanTake(c, key), c.freelist # <<>>
    PROVE  \E f \in DOMAIN c.file, p \in Pages :
             /\ f = Head(c.freelist) /\ p = Head(c.file[f].pages) /\ f \in Nat /\ c.file[f].is_pending_drop
             /\ InSeq(c.freelist, f) /\ OfFile(c.nodes, p, f) /\ c.nodes[p].ref_count = 0
<1>1. /\ c.freelist \in Seq(Nat) /\ ListOK(c.file, c.freelist) /\ c.file \in [DOMAIN c.file -> File]
      /\ FilesOK(c.nodes, c.file)
  BY DEF CanTake, Books, IsCache
<1>2. PICK f : f = Head(c.freelist)
  OBVIOUS
<1>3. f \in Nat /\ InSeq(c.freelist, f)
  BY <1>1, <1>2, TailIs DEF ListOK
<1>4. f \in DOMAIN c.file /\ c.file[f].is_pending_drop /\ c.file[f].pages # <<>>
  BY <1>1, <1>3 DEF ListOK
<1>5. c.file[f].pages \in Seq(Pages) /\ FileOK(c.nodes, c.file, f)
  BY <1>1, <1>4 DEF File, FilesOK
<1>6. PICK p : p = Head(c.file[f].pages)
  OBVIOUS
<1>7. p \in Pages /\ InSeq(c.file[f].pages, p)
  BY <1>4, <1>5, <1>6, TailIs DEF FileOK
<1>8. OfFile(c.nodes, p, f)
  BY <1>5, <1>7 DEF FileOK
<1>9. c.nodes[p].ref_count = 0
  BY <1>4, <1>7, <1>8 DEF CanTake, OfFile
<1> QED
  BY <1>2, <1>3, <1>4, <1>6, <1>7, <1>8, <1>9

\* A page of a closed file is taken.
LEMMA DroppedTakes ==
    ASSUME NEW c, NEW key, CanTake(c, key), c.freelist # <<>>
    PROVE  TookPage(c, alloc_page(c, key), key, AllocPage(c))
<1>1. /\ IsCache(c) /\ key \in Keys /\ key[1] \in DOMAIN c.file /\ ~c.file[key[1]].is_pending_drop
      /\ NewKey(c.nodes, key) /\ c.busypage_num \in Int /\ c.freelist \in Seq(Nat)
  BY DEF CanTake, IsCache
<1>2. /\ ListOK(c.file, c.freelist) /\ Right(c.nodes, c.file)
      /\ c.busypage_num = Cardinality(BusyPages(c.nodes, c.file)) /\ DOMAIN c.file \subseteq Nat
  BY DEF CanTake, Books, IsCache, Right
<1>3. PICK f \in DOMAIN c.file, p \in Pages :
        /\ f = Head(c.freelist) /\ p = Head(c.file[f].pages) /\ f \in Nat /\ c.file[f].is_pending_drop
        /\ InSeq(c.freelist, f) /\ OfFile(c.nodes, p, f) /\ c.nodes[p].ref_count = 0
  BY FreePageIs
<1>4. f # key[1]
  BY <1>1, <1>3
<1>5. PICK m : m = Taken(c.nodes, p, key) /\ m \in [Nodes -> Node] /\ Gained(m, c.nodes, p, key)
  BY <1>3, TakenGains
<1>6. PICK file : /\ file = MovePage(c.file, p, f, key[1]) /\ Right(m, file) /\ SameState(file, c.file)
                  /\ SameButTwo(file, c.file, f, key[1])
  <2>1. PICK nodes, old : nodes = c.nodes /\ old = c.file
    OBVIOUS
  <2>2. Right(nodes, old) /\ f \in DOMAIN old /\ key[1] \in DOMAIN old /\ p \in Pages /\ key \in Keys
    BY <1>1, <1>2, <1>3, <2>1
  <2>3. OfFile(nodes, p, f) /\ NewKey(nodes, key) /\ Gained(m, nodes, p, key)
    BY <1>1, <1>3, <1>5, <2>1
  <2>4. /\ Right(m, MovePage(old, p, f, key[1])) /\ SameState(MovePage(old, p, f, key[1]), old)
        /\ SameButTwo(MovePage(old, p, f, key[1]), old, f, key[1])
    BY <2>2, <2>3, MovePageIs
  <2> QED
    BY <2>1, <2>4
<1>7. PICK g, l, b : /\ g = Dropped(file, f) /\ b = c.busypage_num + 1
                     /\ l = (IF file[f].pgcnt = 0 THEN Tail(c.freelist) ELSE c.freelist)
  OBVIOUS
<1>8. PICK d : d = alloc_page(c, key) /\ AllocPage(c) = p /\ d = CacheOf(m, g, l, b)
  <2>1. f = Head(c.freelist) /\ p = Head(c.file[f].pages)
    BY <1>3
  <2>2. file = MovePage(c.file, p, f, key[1])
    BY <1>6
  <2>3. /\ AllocPage(c) = p
        /\ alloc_page(c, key) = CacheOf(Taken(c.nodes, p, key), Dropped(file, f),
                                        IF file[f].pgcnt = 0 THEN Tail(c.freelist) ELSE c.freelist,
                                        c.busypage_num + 1)
    BY <1>1, <2>1, <2>2, AllocDroppedIs
  <2>4. m = Taken(c.nodes, p, key)
    BY <1>5
  <2> QED
    BY <1>7, <2>3, <2>4
<1>9. d.nodes = m /\ d.file = g /\ d.freelist = l /\ d.busypage_num = b
  BY <1>8 DEF CacheOf
<1>10. DOMAIN file = DOMAIN c.file /\ \A fi \in DOMAIN c.file : file[fi].is_pending_drop = c.file[fi].is_pending_drop
  BY <1>6 DEF SameState
<1>11. FileOK(m, file, f) /\ file[f].pages \in Seq(Pages) /\ file[f].pgcnt = Len(file[f].pages)
  BY <1>6, <1>10 DEF Right, FilesOK, FileOK, File
<1>12. /\ Right(m, g) /\ (\A fi \in DOMAIN g : fi \in DOMAIN c.file /\ g[fi] = file[fi])
       /\ (\A fi \in DOMAIN c.file : fi # f => fi \in DOMAIN g)
       /\ ListOK(g, l) /\ l \in Seq(Nat)
  <2>1. \A fi \in Nat : InSeq(c.freelist, fi) <=> fi \in DOMAIN c.file /\ c.file[fi].is_pending_drop
    BY <1>2 DEF ListOK
  <2>2. \A fi \in DOMAIN c.file : fi # f /\ file[fi].is_pending_drop => file[fi].pages # <<>>
    <3> SUFFICES ASSUME NEW fi \in DOMAIN c.file, fi # f, file[fi].is_pending_drop PROVE file[fi].pages # <<>>
      OBVIOUS
    <3>1. c.file[fi].is_pending_drop /\ fi # key[1]
      BY <1>1, <1>10
    <3> QED
      BY <3>1, <1>2, <1>6 DEF ListOK, SameButTwo
  <2>3. CASE file[f].pgcnt = 0
    <3>1. g = FilesBut(file, f) /\ l = Tail(c.freelist)
      BY <1>7, <2>3 DEF Dropped, FilesBut
    <3>2. NoPages(m, f)
      BY <1>11, <2>3 DEF FileOK, InSeq, NoPages
    <3>3. Right(m, g) /\ DOMAIN g = DOMAIN file \ {f} /\ \A fi \in DOMAIN g : g[fi] = file[fi]
      <4>1. Right(m, file) /\ g = FilesBut(file, f)
        BY <1>6, <3>1
      <4>2. Right(m, g) /\ Without(g, file, f)
        BY <4>1, <3>2, RightWithout
      <4> QED
        BY <4>2 DEF Without
    <3>4. OneEach(c.freelist)
      BY <1>2 DEF ListOK
    <3>5. l \in Seq(Nat) /\ OneEach(l) /\ \A y : InSeq(l, y) <=> InSeq(c.freelist, y) /\ y # f
      BY <1>1, <1>3, <3>1, <3>4, TailIs
    <3>6. \A fi \in Nat : InSeq(l, fi) <=> fi \in DOMAIN g /\ g[fi].is_pending_drop
      BY <1>10, <2>1, <3>3, <3>5
    <3>7. \A fi \in DOMAIN g : g[fi].is_pending_drop => g[fi].pages # <<>>
      BY <1>10, <2>2, <3>3
    <3>8. ListOK(g, l)
      BY <3>5, <3>6, <3>7 DEF ListOK
    <3> QED
      BY <1>10, <3>3, <3>5, <3>8
  <2>4. CASE file[f].pgcnt # 0
    <3>1. g = file /\ l = c.freelist
      BY <1>7, <2>4 DEF Dropped
    <3>2. file[f].pages # <<>>
      BY <1>11, <2>4
    <3>3. \A fi \in DOMAIN file : file[fi].is_pending_drop => file[fi].pages # <<>>
      BY <1>10, <2>2, <3>2
    <3>4. ListOK(file, c.freelist)
      BY <1>2, <1>10, <3>3 DEF ListOK
    <3> QED
      BY <1>1, <1>6, <1>10, <3>1, <3>4
  <2> QED
    BY <2>3, <2>4
<1>13. b = Cardinality(BusyPages(m, g)) /\ b \in Int
  <2>1. SameFlags(g, c.file) /\ KeysOK(m, g)
    BY <1>10, <1>12 DEF SameFlags, Right
  <2>2. BusyPages(m, g) = BusyPages(c.nodes, c.file) \cup {p}
    <3>1. PICK nodes, old : nodes = c.nodes /\ old = c.file
      OBVIOUS
    <3>2. Gained(m, nodes, p, key) /\ SameFlags(g, old) /\ ~old[key[1]].is_pending_drop /\ p \in Pages /\ key \in Keys
      BY <1>1, <1>3, <1>5, <2>1, <3>1
    <3>3. BusyPages(m, g) = BusyPages(nodes, old) \cup {p}
      BY <2>1, <3>2, BusyGained
    <3> QED
      BY <3>1, <3>3
  <2>3. p \notin BusyPages(c.nodes, c.file)
    BY <1>3 DEF BusyPages, OfFile
  <2>4. Cardinality(BusyPages(m, g)) = Cardinality(BusyPages(c.nodes, c.file)) + 1
    BY <2>2, <2>3, BusyCount
  <2> QED
    BY <1>1, <1>2, <1>7, <2>4
<1>14. IsCache(d)
  <2>1. d = [nodes |-> d.nodes, file |-> d.file, freelist |-> d.freelist, busypage_num |-> d.busypage_num]
    BY <1>8, <1>9 DEF CacheOf
  <2>2. g \in [DOMAIN g -> File]
    BY <1>12 DEF Right
  <2> QED
    BY <1>5, <1>9, <1>12, <1>13, <2>1, <2>2 DEF IsCache
<1>15. Books(d)
  BY <1>9, <1>12, <1>13 DEF Books, Right
<1>16. /\ DOMAIN d.file \subseteq DOMAIN c.file
       /\ \A fi \in DOMAIN c.file : ~c.file[fi].is_pending_drop => fi \in DOMAIN d.file /\ ~d.file[fi].is_pending_drop
  BY <1>3, <1>9, <1>10, <1>12
<1> QED
  BY <1>3, <1>5, <1>8, <1>9, <1>14, <1>15, <1>16 DEF TookPage

\* alloc_page takes a page that nobody has, and keeps the books.
LEMMA AllocTakes ==
    ASSUME NEW c, NEW key, CanTake(c, key), CanAlloc(c)
    PROVE  TookPage(c, alloc_page(c, key), key, AllocPage(c))
  BY SwapTakes, DroppedTakes DEF CanAlloc

----------------------------------------------------------------------------
(* The threads *)

\* One thread changes.
Update(thr2, thr, t, st) == thr2 = [thr EXCEPT ![t] = st]
IsThreads(thr) == thr = [t \in Threads |-> thr[t]]

\* The fields of a reader.
LEMMA ReaderIs ==
    ASSUME NEW pc \in Pcs, NEW k, NEW p, NEW b
    PROVE  /\ Reader(pc, k, p, b).pc = pc /\ pc # "idle" /\ pc # "exit"
           /\ Reader(pc, k, p, b).keys = <<k>> /\ Reader(pc, k, p, b).got = <<p>>
           /\ Reader(pc, k, p, b).i = 1 /\ Reader(pc, k, p, b).mine = <<b>>
  BY DEF Reader, Pcs

\* A thread and the others after a step of the thread.
LEMMA UpdateIs ==
    ASSUME NEW thr, IsThreads(thr), NEW t \in Threads, NEW st, NEW thr2, Update(thr2, thr, t, st)
    PROVE  IsThreads(thr2) /\ thr2[t] = st /\ \A u \in Threads : u # t => thr2[u] = thr[u]
  BY DEF IsThreads, Update

\* There are finitely many threads.
LEMMA HoldersFinite ==
    ASSUME NEW thr, NEW p
    PROVE  IsFiniteSet(Holders(thr, p)) /\ Cardinality(Holders(thr, p)) \in Nat
<1>1. Holders(thr, p) \in SUBSET Threads
  BY DEF Holders
<1>2. IsFiniteSet(Threads)
  BY LruAssumption
<1>3. IsFiniteSet(Holders(thr, p))
  BY <1>1, <1>2, FS_Subset
<1> QED
  BY <1>3, FS_CardinalityType

\* The page counts one reference more, or less.
CountsUp(m, nodes, p) ==
    \A q \in Pages : m[q].ref_count = IF q = p THEN nodes[q].ref_count + 1 ELSE nodes[q].ref_count
CountsDown(m, nodes, p) ==
    \A q \in Pages : m[q].ref_count = IF q = p THEN nodes[q].ref_count - 1 ELSE nodes[q].ref_count
CountsSame(m, nodes) == \A q \in Pages : m[q].ref_count = nodes[q].ref_count

\* A thread gets a page.
LEMMA RefsUp ==
    ASSUME NEW thr, IsThreads(thr), NEW t \in Threads, NEW st, NEW thr2, Update(thr2, thr, t, st),
           NEW p \in Pages, thr[t].pc = "idle", st.pc # "idle", st.got[1] = p,
           NEW nodes, NEW m, RefsOK(nodes, thr), CountsUp(m, nodes, p)
    PROVE  RefsOK(m, thr2)
<1>1. thr2[t] = st /\ \A u \in Threads : u # t => thr2[u] = thr[u]
  BY UpdateIs
<1>2. Holders(thr2, p) = Holders(thr, p) \cup {t} /\ t \notin Holders(thr, p)
  BY <1>1 DEF Holders
<1>3. Cardinality(Holders(thr2, p)) = Cardinality(Holders(thr, p)) + 1
  BY <1>2, HoldersFinite, FS_AddElement
<1>4. \A q \in Pages : q # p => Holders(thr2, q) = Holders(thr, q)
  BY <1>1 DEF Holders
<1> QED
  BY <1>3, <1>4 DEF RefsOK, CountsUp

\* A thread gives its page back.
LEMMA RefsDown ==
    ASSUME NEW thr, IsThreads(thr), NEW t \in Threads, NEW st, NEW thr2, Update(thr2, thr, t, st),
           NEW p \in Pages, thr[t].pc # "idle", thr[t].got[1] = p, st.pc = "idle",
           NEW nodes, NEW m, RefsOK(nodes, thr), CountsDown(m, nodes, p)
    PROVE  RefsOK(m, thr2)
<1>1. thr2[t] = st /\ \A u \in Threads : u # t => thr2[u] = thr[u]
  BY UpdateIs
<1>2. Holders(thr2, p) = Holders(thr, p) \ {t} /\ t \in Holders(thr, p)
  BY <1>1 DEF Holders
<1>3. Cardinality(Holders(thr2, p)) = Cardinality(Holders(thr, p)) - 1
  <2>1. PICK H : H = Holders(thr, p)
    OBVIOUS
  <2>2. IsFiniteSet(H) /\ t \in H
    BY <1>2, <2>1, HoldersFinite
  <2>3. Cardinality(H \ {t}) = Cardinality(H) - 1
    BY <2>2, FS_RemoveElement
  <2> QED
    BY <1>2, <2>1, <2>3
<1>4. \A q \in Pages : q # p => Holders(thr2, q) = Holders(thr, q)
  BY <1>1 DEF Holders
<1> QED
  BY <1>3, <1>4 DEF RefsOK, CountsDown

\* A thread keeps its page.
LEMMA RefsSame ==
    ASSUME NEW thr, IsThreads(thr), NEW t \in Threads, NEW st, NEW thr2, Update(thr2, thr, t, st),
           thr[t].pc # "idle", st.pc # "idle", st.got = thr[t].got,
           NEW nodes, NEW m, RefsOK(nodes, thr), CountsSame(m, nodes)
    PROVE  RefsOK(m, thr2)
<1>1. thr2[t] = st /\ \A u \in Threads : u # t => thr2[u] = thr[u]
  BY UpdateIs
<1>2. \A q \in Pages : Holders(thr2, q) = Holders(thr, q)
  BY <1>1 DEF Holders
<1> QED
  BY <1>2 DEF RefsOK, CountsSame

\* A page that a thread has counts it.
LEMMA HeldCounts ==
    ASSUME NEW thr, NEW nodes, RefsOK(nodes, thr), NEW t \in Threads, thr[t].pc # "idle", NEW p \in Pages, thr[t].got[1] = p
    PROVE  nodes[p].ref_count # 0 /\ nodes[p].ref_count > 0
<1>1. t \in Holders(thr, p)
  BY DEF Holders
<1>2. Cardinality(Holders(thr, p)) # 0 /\ Cardinality(Holders(thr, p)) \in Nat
  BY <1>1, HoldersFinite, FS_EmptySet
<1> QED
  BY <1>2 DEF RefsOK

\* A page that counts a reference has a thread.
LEMMA CountIsHeld ==
    ASSUME NEW thr, NEW nodes, RefsOK(nodes, thr), NEW p \in Pages, nodes[p].ref_count # 0
    PROVE  \E t \in Threads : thr[t].pc # "idle" /\ thr[t].got[1] = p
<1>1. Holders(thr, p) # {}
  BY FS_EmptySet DEF RefsOK
<1> QED
  BY <1>1 DEF Holders

\* What a step leaves to the readers: the pages with references keep their keys, what is
\* in them stays, and open files stay open.
OpenIn(file, fi) == fi \in DOMAIN file /\ ~file[fi].is_pending_drop
Keeps(m, nodes, p) ==
    m[p].key = nodes[p].key /\ (nodes[p].content = nodes[p].key => m[p].content = m[p].key)
HeldKept(m, nodes) == \A p \in Pages : nodes[p].ref_count # 0 => Keeps(m, nodes, p)
OpenKept(g, file) == \A fi : OpenIn(file, fi) => OpenIn(g, fi)

\* A reader whose page and file stay.
LEMMA ReaderKept ==
    ASSUME NEW c, NEW d, NEW pc, NEW k, NEW p, ReaderOK(c, pc, k, p), Keeps(d.nodes, c.nodes, p), OpenIn(d.file, k[1])
    PROVE  ReaderOK(d, pc, k, p)
  BY DEF ReaderOK, Keeps, OpenIn

\* The reader a thread is.
LEMMA ThreadReads ==
    ASSUME NEW c, NEW st, ThreadOK(c, st), st.pc # "idle"
    PROVE  \E pc \in Pcs, k \in Keys, p \in Pages, b \in BOOLEAN :
             /\ st = Reader(pc, k, p, b) /\ ReaderOK(c, pc, k, p)
             /\ st.pc = pc /\ st.keys = <<k>> /\ st.got = <<p>> /\ st.i = 1 /\ st.mine = <<b>>
             /\ pc # "exit"
<1>1. PICK pc \in Pcs, k \in Keys, p \in Pages, b \in BOOLEAN : st = Reader(pc, k, p, b) /\ ReaderOK(c, pc, k, p)
  BY DEF ThreadOK
<1>2. st.pc = pc /\ st.keys = <<k>> /\ st.got = <<p>> /\ st.i = 1 /\ st.mine = <<b>> /\ pc # "exit"
  BY <1>1, ReaderIs
<1> QED
  BY <1>1, <1>2

\* The other threads.
LEMMA OtherKept ==
    ASSUME NEW c, NEW d, NEW thr, RefsOK(c.nodes, thr), NEW u \in Threads, ThreadOK(c, thr[u]),
           HeldKept(d.nodes, c.nodes), OpenKept(d.file, c.file)
    PROVE  ThreadOK(d, thr[u])
<1>1. CASE thr[u].pc = "idle"
  BY <1>1 DEF ThreadOK
<1>2. CASE thr[u].pc # "idle"
  <2>1. PICK pc \in Pcs, k \in Keys, p \in Pages, b \in BOOLEAN :
          thr[u] = Reader(pc, k, p, b) /\ ReaderOK(c, pc, k, p) /\ thr[u].got = <<p>>
    BY <1>2, ThreadReads
  <2>2. thr[u].got[1] = p
    BY <2>1
  <2>3. Keeps(d.nodes, c.nodes, p)
    BY <1>2, <2>1, <2>2, HeldCounts DEF HeldKept
  <2>4. OpenIn(d.file, k[1])
    BY <2>1 DEF ReaderOK, OpenKept, OpenIn
  <2>5. ReaderOK(d, pc, k, p)
    BY <2>1, <2>3, <2>4, ReaderKept
  <2> QED
    BY <2>1, <2>5 DEF ThreadOK
<1> QED
  BY <1>1, <1>2

----------------------------------------------------------------------------
(* The steps *)

\* The threads after a step of one of them.
LEMMA StepOK ==
    ASSUME NEW c, NEW d, NEW thr, NEW thr2, NEW t \in Threads, NEW st, ThreadsOK(c, thr), Update(thr2, thr, t, st),
           HeldKept(d.nodes, c.nodes), OpenKept(d.file, c.file), ThreadOK(d, st), RefsOK(d.nodes, thr2)
    PROVE  ThreadsOK(d, thr2)
<1>1. IsThreads(thr) /\ RefsOK(c.nodes, thr) /\ \A u \in Threads : ThreadOK(c, thr[u])
  BY DEF ThreadsOK, IsThreads
<1>2. IsThreads(thr2) /\ thr2[t] = st /\ \A u \in Threads : u # t => thr2[u] = thr[u]
  BY <1>1, UpdateIs
<1>3. ASSUME NEW u \in Threads PROVE ThreadOK(d, thr2[u])
  <2>1. ThreadOK(d, thr[u])
    BY <1>1, OtherKept
  <2> QED
    BY <1>2, <2>1
<1> QED
  BY <1>2, <1>3 DEF ThreadsOK, IsThreads

\* Books are about keys and files.
LEMMA SameBooks ==
    ASSUME NEW c, NEW d, Books(c), SameFiles(d, c), SamePages(d.nodes, c.nodes)
    PROVE  Books(d)
<1>1. \A q \in Pages : d.nodes[q].key = c.nodes[q].key
  BY FreeNodes DEF SamePages
<1>2. \A q \in Pages, fi \in DOMAIN c.file : OfFile(d.nodes, q, fi) <=> OfFile(c.nodes, q, fi)
  BY <1>1 DEF OfFile
<1>3. FilesOK(d.nodes, c.file)
  BY <1>2 DEF Books, FilesOK, FileOK
<1>4. KeysOK(d.nodes, c.file)
  BY <1>1 DEF Books, KeysOK
<1>5. BusyPages(d.nodes, c.file) = BusyPages(c.nodes, c.file)
  BY <1>1 DEF BusyPages
<1> QED
  BY <1>3, <1>4, <1>5 DEF Books, SameFiles

\* Nobody's page changes.
LEMMA SameKeeps ==
    ASSUME NEW m, NEW nodes, SamePages(m, nodes)
    PROVE  HeldKept(m, nodes)
  BY FreeNodes DEF SamePages, HeldKept, Keeps

\* A page without a change other than its references.
LEMMA SameLoaded ==
    ASSUME NEW m, NEW nodes, SamePages(m, nodes), Loaded(nodes)
    PROVE  Loaded(m)
  BY FreeNodes DEF SamePages, Loaded

\* Another reference.
LEMMA PinOK ==
    ASSUME NEW c, NEW n, CacheOK(c, n), NEW p \in Pages
    PROVE  /\ CacheOK(Pin(c, p), n) /\ CountsUp(Pin(c, p).nodes, c.nodes, p)
           /\ SamePages(Pin(c, p).nodes, c.nodes) /\ SameFiles(Pin(c, p), c)
<1>1. PICK d : d = Pin(c, p)
  OBVIOUS
<1>2. IsCache(c) /\ RingOn(c.nodes, Free(c.nodes)) /\ Loaded(c.nodes) /\ Books(c) /\ n \in Nat /\ DOMAIN c.file \subseteq 0..(n - 1)
  BY DEF CacheOK
<1>3. /\ IsCache(d) /\ SameFiles(d, c) /\ SamePages(d.nodes, c.nodes) /\ CountsUp(d.nodes, c.nodes, p)
      /\ RingOn(d.nodes, Free(d.nodes))
  BY <1>1, <1>2, PinIs DEF CountsUp
<1>4. Books(d) /\ Loaded(d.nodes)
  BY <1>2, <1>3, SameBooks, SameLoaded
<1>5. DOMAIN d.file \subseteq 0..(n - 1)
  BY <1>2, <1>3 DEF SameFiles
<1> QED
  BY <1>1, <1>2, <1>3, <1>4, <1>5 DEF CacheOK

\* A reference less.
LEMMA UnpinOK ==
    ASSUME NEW c, NEW n, CacheOK(c, n), NEW p \in Pages, c.nodes[p].ref_count > 0
    PROVE  /\ CacheOK(Unpin(c, p), n) /\ CountsDown(Unpin(c, p).nodes, c.nodes, p)
           /\ SamePages(Unpin(c, p).nodes, c.nodes) /\ SameFiles(Unpin(c, p), c)
<1>1. PICK d : d = Unpin(c, p)
  OBVIOUS
<1>2. IsCache(c) /\ RingOn(c.nodes, Free(c.nodes)) /\ Loaded(c.nodes) /\ Books(c) /\ n \in Nat /\ DOMAIN c.file \subseteq 0..(n - 1)
  BY DEF CacheOK
<1>3. /\ IsCache(d) /\ SameFiles(d, c) /\ SamePages(d.nodes, c.nodes) /\ CountsDown(d.nodes, c.nodes, p)
      /\ RingOn(d.nodes, Free(d.nodes))
  BY <1>1, <1>2, UnpinIs DEF CountsDown
<1>4. Books(d) /\ Loaded(d.nodes)
  BY <1>2, <1>3, SameBooks, SameLoaded
<1>5. DOMAIN d.file \subseteq 0..(n - 1)
  BY <1>2, <1>3 DEF SameFiles
<1> QED
  BY <1>1, <1>2, <1>3, <1>4, <1>5 DEF CacheOK

\* The pages with references are of open files.
LEMMA HeldIsOpen ==
    ASSUME NEW c, NEW thr, ThreadsOK(c, thr), NEW p \in Pages, c.nodes[p].ref_count # 0
    PROVE  c.nodes[p].key # NoKey /\ ~c.file[c.nodes[p].key[1]].is_pending_drop
<1>1. RefsOK(c.nodes, thr) /\ \A u \in Threads : ThreadOK(c, thr[u])
  BY DEF ThreadsOK
<1>2. PICK t \in Threads : thr[t].pc # "idle" /\ thr[t].got[1] = p
  BY <1>1, CountIsHeld
<1>3. PICK pc \in Pcs, k \in Keys, q \in Pages : ReaderOK(c, pc, k, q) /\ thr[t].got = <<q>>
  BY <1>1, <1>2, ThreadReads
<1>4. q = p
  BY <1>2, <1>3
<1> QED
  BY <1>3, <1>4, KeyParts DEF ReaderOK

\* A page is allocated.
LEMMA AllocOK ==
    ASSUME NEW c, NEW n, NEW thr, CacheOK(c, n), ThreadsOK(c, thr), NEW key \in Keys, OpenIn(c.file, key[1]),
           NewKey(c.nodes, key), CanAlloc(c)
    PROVE  /\ AllocPage(c) \in Pages /\ CacheOK(alloc_page(c, key), n)
           /\ HeldKept(alloc_page(c, key).nodes, c.nodes) /\ OpenKept(alloc_page(c, key).file, c.file)
           /\ CountsUp(alloc_page(c, key).nodes, c.nodes, AllocPage(c))
           /\ alloc_page(c, key).nodes[AllocPage(c)].key = key
<1>1. /\ IsCache(c) /\ RingOn(c.nodes, Free(c.nodes)) /\ Loaded(c.nodes) /\ Books(c)
      /\ n \in Nat /\ DOMAIN c.file \subseteq 0..(n - 1) /\ c.nodes \in [Nodes -> Node]
  BY DEF CacheOK, IsCache
<1>2. DOMAIN c.file \subseteq Nat
  BY <1>1
<1>3. CanTake(c, key)
  <2>1. \A q \in Pages : c.nodes[q].ref_count # 0 =>
          c.nodes[q].key # NoKey /\ ~c.file[c.nodes[q].key[1]].is_pending_drop
    BY HeldIsOpen
  <2> QED
    BY <1>1, <1>2, <2>1 DEF CanTake, OpenIn
<1>4. PICK d, p : d = alloc_page(c, key) /\ p = AllocPage(c)
  OBVIOUS
<1>5. TookPage(c, d, key, p)
  BY <1>3, <1>4, AllocTakes
<1>6. /\ p \in Pages /\ c.nodes[p].ref_count = 0 /\ IsCache(d) /\ Books(d) /\ DOMAIN d.file \subseteq DOMAIN c.file
      /\ d.nodes = Taken(c.nodes, p, key)
  BY <1>5 DEF TookPage
<1>7. OpenKept(d.file, c.file)
  BY <1>5 DEF TookPage, OpenKept, OpenIn
<1>8. PICK m : m = d.nodes
  OBVIOUS
<1>9. /\ m[p].key = key /\ m[p].ref_count = 1 /\ ~m[p].is_loaded /\ RingOn(m, Free(m))
      /\ \A q \in Pages : q # p => /\ m[q].key = c.nodes[q].key /\ m[q].ref_count = c.nodes[q].ref_count
                                   /\ m[q].is_loaded = c.nodes[q].is_loaded /\ m[q].content = c.nodes[q].content
  <2>1. PICK nodes : nodes = c.nodes
    OBVIOUS
  <2>2. nodes \in [Nodes -> Node] /\ RingOn(nodes, Free(nodes)) /\ nodes[p].ref_count = 0 /\ m = Taken(nodes, p, key)
    BY <1>1, <1>6, <1>8, <2>1
  <2> QED
    BY <1>6, <2>1, <2>2, TakenIs
<1>10. HeldKept(m, c.nodes)
  BY <1>6, <1>9 DEF HeldKept, Keeps
<1>11. CountsUp(m, c.nodes, p)
  BY <1>6, <1>9 DEF CountsUp
<1>12. Loaded(m)
  BY <1>1, <1>9 DEF Loaded
<1>13. CacheOK(d, n)
  BY <1>1, <1>6, <1>8, <1>9, <1>12 DEF CacheOK
<1> QED
  BY <1>4, <1>6, <1>7, <1>8, <1>9, <1>10, <1>11, <1>13

----------------------------------------------------------------------------
(* pread *)

\* Reads are inside of one page and do not fail.
SinglePage == Spans \subseteq {1} /\ Fails = {}

\* The keys of a read inside of one page.
LEMMA OneKey ==
    ASSUME NEW fi, NEW first \in Nat
    PROVE  KeysOf(fi, first, 1) = <<(<<fi, first>>)>>
<1>1. 1..1 = {1} /\ first + 1 - 1 = first
  OBVIOUS
<1> QED
  BY <1>1 DEF KeysOf

\* The path of a read inside of one page.
LEMMA PinAllOne ==
    ASSUME NEW k
    PROVE  PinAll(<<k>>) = PinOne(k)
  BY DEF PinAll

\* A hit.
LEMMA HitIs ==
    ASSUME NEW k, k # NoKey, NEW p \in Pages, cache.nodes[p].key = k, KeysOK(cache.nodes, cache.file)
    PROVE  /\ PinOne(k).c = Pin(cache, p) /\ PinOne(k).got = <<p>> /\ PinOne(k).mine = <<FALSE>>
           /\ PinOne(k).ok
<1> DEFINE hit == {q \in Pages : cache.nodes[q].key = k}
<1>1. hit = {p}
  BY DEF KeysOK
<1>2. p \in Nat
  BY LruAssumption DEF Pages
<1>3. Min({p}) = p
  BY <1>2 DEF Min
<1>4. NothingYet.ok /\ NothingYet.c = cache /\ NothingYet.got = <<>> /\ NothingYet.mine = <<>>
  BY DEF NothingYet
<1>5. PinOne(k) = [NothingYet EXCEPT !.c = Pin(cache, p), !.got = Append(<<>>, p), !.mine = Append(<<>>, FALSE)]
  BY <1>1, <1>3, <1>4 DEF PinOne, PinOrAlloc
<1>6. Append(<<>>, p) = <<p>> /\ Append(<<>>, FALSE) = <<FALSE>>
  OBVIOUS
<1> QED
  BY <1>5, <1>6 DEF NothingYet

\* A miss, when no page can be had.
LEMMA NoPageIs ==
    ASSUME NEW k, NewKey(cache.nodes, k), ~CanAlloc(cache)
    PROVE  PinOne(k).c = cache /\ ~PinOne(k).ok
<1> DEFINE hit == {q \in Pages : cache.nodes[q].key = k}
<1>1. hit = {}
  BY DEF NewKey
<1>2. NothingYet.ok /\ NothingYet.c = cache
  BY DEF NothingYet
<1>3. PinOne(k) = [NothingYet EXCEPT !.ok = FALSE]
  BY <1>1, <1>2 DEF PinOne, PinOrAlloc
<1> QED
  BY <1>3 DEF NothingYet

\* A miss.
LEMMA MissIs ==
    ASSUME NEW k, NewKey(cache.nodes, k), CanAlloc(cache)
    PROVE  /\ PinOne(k).c = alloc_page(cache, k) /\ PinOne(k).got = <<AllocPage(cache)>> /\ PinOne(k).mine = <<TRUE>>
           /\ PinOne(k).ok
<1> DEFINE hit == {q \in Pages : cache.nodes[q].key = k}
<1>1. hit = {}
  BY DEF NewKey
<1>2. NothingYet.ok /\ NothingYet.c = cache /\ NothingYet.got = <<>> /\ NothingYet.mine = <<>>
  BY DEF NothingYet
<1>3. PinOne(k) = [NothingYet EXCEPT !.c = alloc_page(cache, k), !.got = Append(<<>>, AllocPage(cache)),
                                     !.mine = Append(<<>>, TRUE)]
  BY <1>1, <1>2 DEF PinOne, PinOrAlloc
<1>4. Append(<<>>, AllocPage(cache)) = <<AllocPage(cache)>> /\ Append(<<>>, TRUE) = <<TRUE>>
  OBVIOUS
<1> QED
  BY <1>3, <1>4 DEF NothingYet

\* What pread does to the cache and to its thread.
LEMMA PreadIs ==
    ASSUME SinglePage, NEW t, NEW fi, NEW first \in Nat, NEW span \in Spans, pread(t, fi, first, span),
           NEW k, k = <<fi, first>>
    PROVE  /\ thread[t].pc = "idle" /\ IsOpen(fi) /\ opened' = opened /\ cache' = PinOne(k).c
           /\ PinOne(k).ok => Update(thread', thread, t,
                [pc |-> "read", keys |-> <<k>>, got |-> PinOne(k).got, mine |-> PinOne(k).mine, i |-> 1, out |-> <<>>,
                 failed |-> FALSE])
           /\ ~PinOne(k).ok => Update(thread', thread, t, [pc |-> "idle"])
<1>1. span = 1
  BY DEF SinglePage
<1>2. KeysOf(fi, first, span) = <<k>> /\ PinAll(<<k>>) = PinOne(k)
  BY <1>1, OneKey, PinAllOne
<1>3. ~(span > 1)
  BY <1>1
<1>4. thread[t].pc = "idle" /\ IsOpen(fi) /\ opened' = opened /\ cache' = PinOne(k).c
  BY <1>2 DEF pread
<1>5. PinOne(k).ok => Update(thread', thread, t,
         [pc |-> "read", keys |-> <<k>>, got |-> PinOne(k).got, mine |-> PinOne(k).mine, i |-> 1, out |-> <<>>,
          failed |-> FALSE])
  BY <1>2, <1>3 DEF pread, Set, Update
<1>6. ~PinOne(k).ok => Update(thread', thread, t, [pc |-> "idle"])
  BY <1>2 DEF pread, Idle, Set, Update
<1> QED
  BY <1>4, <1>5, <1>6

\* Files stay as they are.
LEMMA SameFileOpen ==
    ASSUME NEW c, NEW d, d.file = c.file
    PROVE  OpenKept(d.file, c.file)
  BY DEF OpenKept

\* A thread that begins to read.
LEMMA BeginOK ==
    ASSUME NEW d, NEW k \in Keys, NEW p \in Pages, NEW b \in BOOLEAN, d.nodes[p].key = k, OpenIn(d.file, k[1])
    PROVE  /\ ThreadOK(d, Reader("read", k, p, b)) /\ Reader("read", k, p, b).pc # "idle"
           /\ Reader("read", k, p, b).got[1] = p
<1>1. "read" \in Pcs /\ ~HasContent("read")
  BY DEF Pcs, HasContent
<1>2. ReaderOK(d, "read", k, p)
  BY <1>1 DEF ReaderOK, OpenIn
<1>3. Reader("read", k, p, b).pc = "read" /\ Reader("read", k, p, b).got = <<p>>
  BY <1>1, ReaderIs
<1> QED
  BY <1>1, <1>2, <1>3 DEF ThreadOK

\* A read begins.
LEMMA PreadOK ==
    ASSUME SinglePage, LruInv, NEW t \in Threads, NEW fi, NEW first \in 0..FilePages - 1, NEW span \in Spans,
           pread(t, fi, first, span)
    PROVE  LruInv'
<1>0. first \in Nat /\ CacheOK(cache, opened) /\ ThreadsOK(cache, thread)
  BY LruAssumption DEF LruInv
<1>1. PICK k : k = <<fi, first>>
  OBVIOUS
<1>2. /\ thread[t].pc = "idle" /\ IsOpen(fi) /\ opened' = opened /\ cache' = PinOne(k).c
      /\ PinOne(k).ok => Update(thread', thread, t,
           [pc |-> "read", keys |-> <<k>>, got |-> PinOne(k).got, mine |-> PinOne(k).mine, i |-> 1, out |-> <<>>,
            failed |-> FALSE])
      /\ ~PinOne(k).ok => Update(thread', thread, t, [pc |-> "idle"])
  BY <1>0, <1>1, PreadIs
<1>3. k \in Keys /\ k[1] = fi /\ OpenIn(cache.file, k[1]) /\ k # NoKey
  <2>1. fi \in DOMAIN cache.file /\ fi \in Nat
    BY <1>0, <1>2 DEF IsOpen, CacheOK
  <2> QED
    BY <1>0, <1>1, <1>2, <2>1, KeyParts DEF IsOpen, Keys, OpenIn
<1>4. IsThreads(thread) /\ RefsOK(cache.nodes, thread) /\ KeysOK(cache.nodes, cache.file)
  BY <1>0 DEF ThreadsOK, IsThreads, CacheOK, Books
<1>5. CASE \E p \in Pages : cache.nodes[p].key = k
  <2>1. PICK p \in Pages : cache.nodes[p].key = k
    BY <1>5
  <2>2. /\ PinOne(k).c = Pin(cache, p) /\ PinOne(k).got = <<p>> /\ PinOne(k).mine = <<FALSE>> /\ PinOne(k).ok
    BY <1>3, <1>4, <2>1, HitIs
  <2>3. PICK st : st = Reader("read", k, p, FALSE)
    OBVIOUS
  <2>4. cache' = Pin(cache, p) /\ Update(thread', thread, t, st)
    BY <1>2, <2>2, <2>3 DEF Reader
  <2>5. PICK d : d = Pin(cache, p)
    OBVIOUS
  <2>6. CacheOK(d, opened) /\ CountsUp(d.nodes, cache.nodes, p) /\ SamePages(d.nodes, cache.nodes) /\ d.file = cache.file
    BY <1>0, <2>5, PinOK DEF SameFiles
  <2>7. HeldKept(d.nodes, cache.nodes) /\ OpenKept(d.file, cache.file)
    BY <2>6, SameKeeps, SameFileOpen
  <2>8. d.nodes[p].key = k
    BY <2>1, <2>6, FreeNodes DEF SamePages
  <2>9. ThreadOK(d, st) /\ st.pc # "idle" /\ st.got[1] = p
    <3>1. OpenIn(d.file, k[1]) /\ p \in Pages
      BY <1>3, <2>1, <2>6
    <3> QED
      BY <1>3, <2>3, <2>8, <3>1, BeginOK
  <2>10. RefsOK(d.nodes, thread')
    BY <1>2, <1>4, <2>4, <2>6, <2>9, RefsUp
  <2>11. ThreadsOK(d, thread')
    BY <1>0, <2>4, <2>7, <2>9, <2>10, StepOK
  <2> QED
    BY <1>2, <2>4, <2>5, <2>6, <2>11 DEF LruInv
<1>6. CASE ~(\E p \in Pages : cache.nodes[p].key = k) /\ CanAlloc(cache)
  <2>1. NewKey(cache.nodes, k)
    BY <1>6 DEF NewKey
  <2>2. PICK p, d : p = AllocPage(cache) /\ d = alloc_page(cache, k)
    OBVIOUS
  <2>3. PinOne(k).c = d /\ PinOne(k).got = <<p>> /\ PinOne(k).mine = <<TRUE>> /\ PinOne(k).ok
    BY <1>6, <2>1, <2>2, MissIs
  <2>4. PICK st : st = Reader("read", k, p, TRUE)
    OBVIOUS
  <2>5. cache' = d /\ Update(thread', thread, t, st)
    BY <1>2, <2>3, <2>4 DEF Reader
  <2>6. /\ p \in Pages /\ CacheOK(d, opened) /\ HeldKept(d.nodes, cache.nodes) /\ OpenKept(d.file, cache.file)
        /\ CountsUp(d.nodes, cache.nodes, p) /\ d.nodes[p].key = k
    BY <1>0, <1>3, <1>6, <2>1, <2>2, AllocOK
  <2>7. OpenIn(d.file, k[1])
    BY <1>3, <2>6 DEF OpenKept
  <2>8. ThreadOK(d, st) /\ st.pc # "idle" /\ st.got[1] = p
    BY <1>3, <2>4, <2>6, <2>7, BeginOK
  <2>9. RefsOK(d.nodes, thread')
    BY <1>2, <1>4, <2>5, <2>6, <2>8, RefsUp
  <2>10. ThreadsOK(d, thread')
    BY <1>0, <2>5, <2>6, <2>8, <2>9, StepOK
  <2> QED
    BY <1>2, <2>5, <2>6, <2>10 DEF LruInv
<1>7. CASE ~(\E p \in Pages : cache.nodes[p].key = k) /\ ~CanAlloc(cache)
  <2>1. cache' = cache /\ Update(thread', thread, t, [pc |-> "idle"])
    BY <1>2, <1>7, NoPageIs DEF NewKey
  <2>2. PICK st : st = [pc |-> "idle"]
    OBVIOUS
  <2>3. st.pc = "idle" /\ ThreadOK(cache, st)
    BY <2>2 DEF ThreadOK
  <2>4. RefsOK(cache.nodes, thread')
    <3>1. thread'[t] = st /\ \A u \in Threads : u # t => thread'[u] = thread[u]
      BY <1>4, <2>1, <2>2, UpdateIs
    <3>2. \A q \in Pages : Holders(thread', q) = Holders(thread, q)
      BY <1>2, <2>3, <3>1 DEF Holders
    <3> QED
      BY <1>4, <3>2 DEF RefsOK
  <2>5. HeldKept(cache.nodes, cache.nodes) /\ OpenKept(cache.file, cache.file)
    BY DEF HeldKept, OpenKept, Keeps
  <2>6. ThreadsOK(cache, thread')
    BY <1>0, <2>1, <2>2, <2>3, <2>4, <2>5, StepOK
  <2> QED
    BY <1>0, <1>2, <2>1, <2>6 DEF LruInv
<1> QED
  BY <1>5, <1>6, <1>7

\* A thread goes on with the page it has.
LEMMA GoOn ==
    ASSUME NEW c, NEW d, NEW thr, NEW thr2, NEW t \in Threads, ThreadsOK(c, thr),
           NEW pc \in Pcs, NEW pc2 \in Pcs, NEW k \in Keys, NEW p \in Pages, NEW b \in BOOLEAN,
           thr[t] = Reader(pc, k, p, b), ReaderOK(c, pc, k, p), Update(thr2, thr, t, Reader(pc2, k, p, b)),
           HeldKept(d.nodes, c.nodes), d.file = c.file, CountsSame(d.nodes, c.nodes),
           HasContent(pc2) => d.nodes[p].content = k
    PROVE  ThreadsOK(d, thr2)
<1>1. PICK st : st = Reader(pc2, k, p, b)
  OBVIOUS
<1>2. st.pc # "idle" /\ st.got = <<p>>
  BY <1>1, ReaderIs
<1>3. thr[t].pc # "idle" /\ thr[t].got = <<p>> /\ thr[t].got[1] = p
  BY ReaderIs
<1>4. IsThreads(thr) /\ RefsOK(c.nodes, thr)
  BY DEF ThreadsOK, IsThreads
<1>5. Keeps(d.nodes, c.nodes, p)
  BY <1>3, <1>4, HeldCounts DEF HeldKept
<1>6. ReaderOK(d, pc2, k, p)
  BY <1>5 DEF ReaderOK, Keeps
<1>7. ThreadOK(d, st)
  BY <1>1, <1>6 DEF ThreadOK
<1>8. Update(thr2, thr, t, st) /\ OpenKept(d.file, c.file)
  BY <1>1, SameFileOpen
<1>9. RefsOK(d.nodes, thr2)
  <2>1. st.got = thr[t].got
    BY <1>2, <1>3
  <2> QED
    BY <1>2, <1>3, <1>4, <1>8, <2>1, RefsSame
<1> QED
  BY <1>7, <1>8, <1>9, StepOK

----------------------------------------------------------------------------
(* The other steps of a read *)

\* Only the state of the thread changes.
LEMMA PcIs ==
    ASSUME NEW pc, NEW k, NEW p, NEW b, NEW pc2
    PROVE  [Reader(pc, k, p, b) EXCEPT !.pc = pc2] = Reader(pc2, k, p, b)
<1>1. PICK f \in BOOLEAN : f = FALSE
  OBVIOUS
<1>2. ASSUME NEW x
      PROVE  Reader(x, k, p, b) = [pc |-> x, keys |-> <<k>>, got |-> <<p>>, mine |-> <<b>>, i |-> 1, out |-> <<>>, failed |-> f]
  BY <1>1 DEF Reader
<1>3. PICK keys, got, mine, i, out : keys = <<k>> /\ got = <<p>> /\ mine = <<b>> /\ i = 1 /\ out = <<>>
  OBVIOUS
<1>4. ASSUME NEW x
      PROVE  Reader(x, k, p, b) = [pc |-> x, keys |-> keys, got |-> got, mine |-> mine, i |-> i, out |-> out, failed |-> f]
  BY <1>2, <1>3
<1>5. PICK r : r = Reader(pc, k, p, b)
  OBVIOUS
<1>6. r = [pc |-> pc, keys |-> keys, got |-> got, mine |-> mine, i |-> i, out |-> out, failed |-> f]
  BY <1>4, <1>5
<1>7. [r EXCEPT !.pc = pc2] = [pc |-> pc2, keys |-> keys, got |-> got, mine |-> mine, i |-> i, out |-> out, failed |-> f]
  BY <1>6
<1> QED
  BY <1>4, <1>5, <1>7

\* The page of a read inside of one page is ready.
LEMMA ReadyIs ==
    ASSUME NEW t, NEW pc \in Pcs, NEW k, NEW p, NEW b, NEW st, st = Reader(pc, k, p, b), NEW nodes, Ready(t, st, nodes)
    PROVE  Update(thread', thread, t, Reader("pinned", k, p, b))
<1>1. st.keys = <<k>>
  BY ReaderIs
<1>2. ~IsCross(st)
  BY <1>1 DEF IsCross
<1>3. Set(t, [st EXCEPT !.pc = "pinned"])
  BY <1>2 DEF Ready
<1>4. [st EXCEPT !.pc = "pinned"] = Reader("pinned", k, p, b)
  BY PcIs
<1> QED
  BY <1>3, <1>4 DEF Set, Update

\* The cache stays as it is while a thread goes on.
LEMMA GoOnSame ==
    ASSUME LruInv, NEW t \in Threads, cache' = cache, opened' = opened,
           NEW pc \in Pcs, NEW pc2 \in Pcs, NEW k \in Keys, NEW p \in Pages, NEW b \in BOOLEAN,
           thread[t] = Reader(pc, k, p, b), ReaderOK(cache, pc, k, p), Update(thread', thread, t, Reader(pc2, k, p, b)),
           HasContent(pc2) => cache.nodes[p].content = k
    PROVE  LruInv'
<1>1. CacheOK(cache, opened) /\ ThreadsOK(cache, thread)
  BY DEF LruInv
<1>2. HeldKept(cache.nodes, cache.nodes) /\ CountsSame(cache.nodes, cache.nodes)
  BY DEF HeldKept, Keeps, CountsSame
<1>3. ThreadsOK(cache, thread')
  BY <1>1, <1>2, GoOn
<1> QED
  BY <1>1, <1>3 DEF LruInv

\* The page of a reader, when it is loaded, is the one that was asked for.
LEMMA LoadedIs ==
    ASSUME LruInv, NEW pc, NEW k, NEW p \in Pages, ReaderOK(cache, pc, k, p), cache.nodes[p].is_loaded
    PROVE  cache.nodes[p].content = k
  BY DEF LruInv, CacheOK, Loaded, ReaderOK

\* readpage.
LEMMA ReadPageOK ==
    ASSUME LruInv, NEW t \in Threads, ReadPage(t)
    PROVE  LruInv'
<1>1. thread[t].pc = "read" /\ cache' = cache /\ opened' = opened /\ ThreadOK(cache, thread[t])
  BY DEF ReadPage, LruInv, ThreadsOK
<1>2. PICK pc \in Pcs, k \in Keys, p \in Pages, b \in BOOLEAN :
        /\ thread[t] = Reader(pc, k, p, b) /\ ReaderOK(cache, pc, k, p)
        /\ thread[t].got = <<p>> /\ thread[t].i = 1
  BY <1>1, ThreadReads
<1>3. thread[t].got[thread[t].i] = p
  BY <1>2
<1>4. CASE cache.nodes[p].is_loaded
  <2>1. Ready(t, thread[t], cache.nodes)
    BY <1>3, <1>4 DEF ReadPage
  <2>2. Update(thread', thread, t, Reader("pinned", k, p, b))
    BY <1>2, <2>1, ReadyIs
  <2>3. cache.nodes[p].content = k /\ "pinned" \in Pcs
    BY <1>2, <1>4, LoadedIs DEF Pcs
  <2> QED
    BY <1>1, <1>2, <2>2, <2>3, GoOnSame
<1>5. CASE ~cache.nodes[p].is_loaded
  <2>1. PICK pc2 \in Pcs : ~HasContent(pc2) /\ Set(t, [thread[t] EXCEPT !.pc = pc2])
    BY <1>3, <1>5 DEF ReadPage, Pcs, HasContent
  <2>2. Update(thread', thread, t, Reader(pc2, k, p, b))
    <3>1. [thread[t] EXCEPT !.pc = pc2] = Reader(pc2, k, p, b)
      BY <1>2, PcIs
    <3> QED
      BY <2>1, <3>1 DEF Set, Update
  <2> QED
    BY <1>1, <1>2, <2>1, <2>2, GoOnSame
<1> QED
  BY <1>4, <1>5

\* The wait for the thread that loads the page.
LEMMA WaitLoadedOK ==
    ASSUME LruInv, NEW t \in Threads, WaitLoaded(t)
    PROVE  LruInv'
<1>1. thread[t].pc = "wait" /\ cache' = cache /\ opened' = opened /\ ThreadOK(cache, thread[t])
  BY DEF WaitLoaded, LruInv, ThreadsOK
<1>2. PICK pc \in Pcs, k \in Keys, p \in Pages, b \in BOOLEAN :
        /\ thread[t] = Reader(pc, k, p, b) /\ ReaderOK(cache, pc, k, p)
        /\ thread[t].got = <<p>> /\ thread[t].i = 1
  BY <1>1, ThreadReads
<1>3. thread[t].got[thread[t].i] = p
  BY <1>2
<1>4. CASE cache.nodes[p].is_loaded
  <2>1. Ready(t, thread[t], cache.nodes)
    BY <1>3, <1>4 DEF WaitLoaded
  <2>2. Update(thread', thread, t, Reader("pinned", k, p, b))
    BY <1>2, <2>1, ReadyIs
  <2>3. cache.nodes[p].content = k /\ "pinned" \in Pcs
    BY <1>2, <1>4, LoadedIs DEF Pcs
  <2> QED
    BY <1>1, <1>2, <2>2, <2>3, GoOnSame
<1>5. CASE ~cache.nodes[p].is_loaded
  <2>1. thread' = thread
    BY <1>3, <1>5 DEF WaitLoaded
  <2> QED
    BY <1>1, <2>1 DEF LruInv
<1> QED
  BY <1>4, <1>5

\* One node gets other data: its links, key and references stay.
NodeSame(m, nodes, p) ==
    /\ m \in [Nodes -> Node]
    /\ \A q \in Nodes : /\ m[q].key = nodes[q].key /\ m[q].ref_count = nodes[q].ref_count
                        /\ m[q].lru_next = nodes[q].lru_next /\ m[q].lru_prev = nodes[q].lru_prev
                        /\ q # p => m[q].is_loaded = nodes[q].is_loaded /\ m[q].content = nodes[q].content

\* The books and links stay.
LEMMA NodeSameOK ==
    ASSUME NEW c, NEW n, CacheOK(c, n), NEW m, NEW p \in Pages, NodeSame(m, c.nodes, p), m[p].content = m[p].key,
           NEW d, d = [c EXCEPT !.nodes = m]
    PROVE  /\ CacheOK(d, n) /\ d.file = c.file /\ d.nodes = m /\ HeldKept(m, c.nodes) /\ CountsSame(m, c.nodes)
<1>1. /\ IsCache(c) /\ n \in Nat /\ DOMAIN c.file \subseteq 0..(n - 1)
      /\ RingOn(c.nodes, Free(c.nodes)) /\ Loaded(c.nodes) /\ Books(c)
  BY DEF CacheOK
<1>2. m \in [Nodes -> Node]
  BY DEF NodeSame
<1>3. IsCache(d) /\ SameFiles(d, c) /\ d.nodes = m
  BY <1>1, <1>2, WithNodes
<1>4. \A q \in Pages : /\ m[q].key = c.nodes[q].key /\ m[q].ref_count = c.nodes[q].ref_count
                       /\ q # p => m[q].is_loaded = c.nodes[q].is_loaded /\ m[q].content = c.nodes[q].content
  BY FreeNodes DEF NodeSame
<1>5. HeldKept(m, c.nodes) /\ CountsSame(m, c.nodes)
  BY <1>4 DEF HeldKept, Keeps, CountsSame
<1>6. Loaded(m)
  BY <1>1, <1>4 DEF Loaded
<1>7. Free(m) = Free(c.nodes)
  BY <1>4 DEF Free
<1>8. RingOn(m, Free(m))
  <2>1. \A q \in Free(c.nodes) : m[q].lru_next = c.nodes[q].lru_next /\ m[q].lru_prev = c.nodes[q].lru_prev
    BY FreeNodes DEF NodeSame
  <2> QED
    BY <1>1, <1>7, <2>1, SameRing
<1>9. Books(d)
  <2>1. \A q \in Pages, fi \in DOMAIN c.file : OfFile(m, q, fi) <=> OfFile(c.nodes, q, fi)
    BY <1>4 DEF OfFile
  <2>2. FilesOK(m, c.file)
    BY <1>1, <2>1 DEF Books, FilesOK, FileOK
  <2>3. KeysOK(m, c.file)
    BY <1>1, <1>4 DEF Books, KeysOK
  <2>4. BusyPages(m, c.file) = BusyPages(c.nodes, c.file)
    BY <1>4 DEF BusyPages
  <2> QED
    BY <1>1, <1>3, <2>2, <2>3, <2>4 DEF Books, SameFiles
<1> QED
  BY <1>1, <1>3, <1>5, <1>6, <1>8, <1>9 DEF CacheOK, SameFiles

\* The content of a page.
LEMMA ContentIs ==
    ASSUME NEW nodes \in [Nodes -> Node], NEW p \in Pages, NEW k \in Keys, nodes[p].key = k,
           NEW m, m = [nodes EXCEPT ![p].content = k]
    PROVE  NodeSame(m, nodes, p) /\ m[p].content = k /\ m[p].key = k
<1>1. p \in Nodes /\ nodes[p] \in Node
  BY FreeNodes
<1>2. PICK x : x = [nodes[p] EXCEPT !.content = k]
  OBVIOUS
<1>3. /\ x \in Node /\ x.key = nodes[p].key /\ x.ref_count = nodes[p].ref_count /\ x.content = k
      /\ x.lru_next = nodes[p].lru_next /\ x.lru_prev = nodes[p].lru_prev
  BY <1>1, <1>2 DEF Node
<1>4. m = [nodes EXCEPT ![p] = x]
  BY <1>2
<1>5. m \in [Nodes -> Node] /\ m[p] = x /\ \A q \in Nodes : q # p => m[q] = nodes[q]
  BY <1>1, <1>3, <1>4
<1> QED
  BY <1>3, <1>5 DEF NodeSame

\* The mark of a page.
LEMMA MarkIs ==
    ASSUME NEW nodes \in [Nodes -> Node], NEW p \in Pages, NEW m, m = [nodes EXCEPT ![p].is_loaded = TRUE]
    PROVE  NodeSame(m, nodes, p) /\ m[p].content = nodes[p].content /\ m[p].key = nodes[p].key
<1>1. p \in Nodes /\ nodes[p] \in Node
  BY FreeNodes
<1>2. PICK b \in BOOLEAN : b = TRUE
  OBVIOUS
<1>3. m = [nodes EXCEPT ![p].is_loaded = b]
  BY <1>2
<1>4. PICK x : x = [nodes[p] EXCEPT !.is_loaded = b]
  OBVIOUS
<1>5. /\ x \in Node /\ x.key = nodes[p].key /\ x.ref_count = nodes[p].ref_count /\ x.content = nodes[p].content
      /\ x.lru_next = nodes[p].lru_next /\ x.lru_prev = nodes[p].lru_prev
  BY <1>1, <1>4 DEF Node
<1>6. m = [nodes EXCEPT ![p] = x]
  BY <1>3, <1>4
<1>7. m \in [Nodes -> Node] /\ m[p] = x /\ \A q \in Nodes : q # p => m[q] = nodes[q]
  BY <1>1, <1>5, <1>6
<1> QED
  BY <1>5, <1>7 DEF NodeSame

\* do_pread.
LEMMA LoadOK ==
    ASSUME LruInv, NEW t \in Threads, Load(t)
    PROVE  LruInv'
<1>1. /\ thread[t].pc = "load" /\ opened' = opened /\ ThreadOK(cache, thread[t])
      /\ CacheOK(cache, opened) /\ ThreadsOK(cache, thread) /\ cache.nodes \in [Nodes -> Node]
  BY DEF Load, LruInv, ThreadsOK, CacheOK, IsCache
<1>2. PICK pc \in Pcs, k \in Keys, p \in Pages, b \in BOOLEAN :
        /\ thread[t] = Reader(pc, k, p, b) /\ ReaderOK(cache, pc, k, p)
        /\ thread[t].got = <<p>> /\ thread[t].i = 1 /\ thread[t].keys = <<k>>
  BY <1>1, ThreadReads
<1>3. thread[t].got[thread[t].i] = p /\ thread[t].keys[thread[t].i] = k
  BY <1>2
<1>4. PICK m : m = [cache.nodes EXCEPT ![p].content = k]
  OBVIOUS
<1>5. cache' = [cache EXCEPT !.nodes = m]
  BY <1>3, <1>4 DEF Load
<1>6. NodeSame(m, cache.nodes, p) /\ m[p].content = k /\ m[p].key = k
  <2>1. cache.nodes[p].key = k
    BY <1>2 DEF ReaderOK
  <2> QED
    BY <1>1, <1>4, <2>1, ContentIs
<1>7. PICK d : d = [cache EXCEPT !.nodes = m]
  OBVIOUS
<1>8. CacheOK(d, opened) /\ d.file = cache.file /\ d.nodes = m /\ HeldKept(m, cache.nodes) /\ CountsSame(m, cache.nodes)
  BY <1>1, <1>6, <1>7, NodeSameOK
<1>9. Update(thread', thread, t, Reader("loaded", k, p, b)) /\ "loaded" \in Pcs
  <2>1. [thread[t] EXCEPT !.pc = "loaded"] = Reader("loaded", k, p, b)
    BY <1>2, PcIs
  <2> QED
    BY <2>1 DEF Load, Set, Update, Pcs
<1>10. ThreadsOK(d, thread')
  BY <1>1, <1>2, <1>6, <1>8, <1>9, GoOn
<1> QED
  BY <1>1, <1>5, <1>7, <1>8, <1>10 DEF LruInv

\* The loaded page is marked.
LEMMA SetLoadedOK ==
    ASSUME LruInv, NEW t \in Threads, SetLoaded(t)
    PROVE  LruInv'
<1>1. /\ thread[t].pc = "loaded" /\ opened' = opened /\ ThreadOK(cache, thread[t]) /\ Ready(t, thread[t], cache.nodes)
      /\ CacheOK(cache, opened) /\ ThreadsOK(cache, thread) /\ cache.nodes \in [Nodes -> Node]
  BY DEF SetLoaded, LruInv, ThreadsOK, CacheOK, IsCache
<1>2. PICK pc \in Pcs, k \in Keys, p \in Pages, b \in BOOLEAN :
        /\ thread[t] = Reader(pc, k, p, b) /\ ReaderOK(cache, pc, k, p)
        /\ thread[t].got = <<p>> /\ thread[t].i = 1 /\ thread[t].pc = pc
  BY <1>1, ThreadReads
<1>3. thread[t].got[thread[t].i] = p /\ HasContent(pc)
  BY <1>1, <1>2 DEF HasContent
<1>4. cache.nodes[p].content = k /\ cache.nodes[p].key = k
  BY <1>2, <1>3 DEF ReaderOK
<1>5. PICK m : m = [cache.nodes EXCEPT ![p].is_loaded = TRUE]
  OBVIOUS
<1>6. cache' = [cache EXCEPT !.nodes = m]
  BY <1>3, <1>5 DEF SetLoaded
<1>7. NodeSame(m, cache.nodes, p) /\ m[p].content = k /\ m[p].key = k
  BY <1>1, <1>4, <1>5, MarkIs
<1>8. PICK d : d = [cache EXCEPT !.nodes = m]
  OBVIOUS
<1>9. CacheOK(d, opened) /\ d.file = cache.file /\ d.nodes = m /\ HeldKept(m, cache.nodes) /\ CountsSame(m, cache.nodes)
  BY <1>1, <1>7, <1>8, NodeSameOK
<1>10. Update(thread', thread, t, Reader("pinned", k, p, b)) /\ "pinned" \in Pcs
  BY <1>1, <1>2, ReadyIs DEF Pcs
<1>11. ThreadsOK(d, thread')
  BY <1>1, <1>2, <1>7, <1>9, <1>10, GoOn
<1> QED
  BY <1>1, <1>6, <1>8, <1>9, <1>11 DEF LruInv

\* The buffer gives its page back.
LEMMA DiscardOK ==
    ASSUME LruInv, NEW t \in Threads, discard(t)
    PROVE  LruInv'
<1>1. /\ thread[t].pc = "pinned" /\ opened' = opened /\ ThreadOK(cache, thread[t])
      /\ CacheOK(cache, opened) /\ ThreadsOK(cache, thread) /\ IsThreads(thread) /\ RefsOK(cache.nodes, thread)
  BY DEF discard, LruInv, ThreadsOK, IsThreads
<1>2. PICK p \in Pages : thread[t].got = <<p>>
  BY <1>1, ThreadReads
<1>3. thread[t].got[1] = p
  BY <1>2
<1>4. PICK d : d = Unpin(cache, p)
  OBVIOUS
<1>5. cache' = d
  BY <1>3, <1>4 DEF discard
<1>6. cache.nodes[p].ref_count > 0
  BY <1>1, <1>3, HeldCounts
<1>7. /\ CacheOK(d, opened) /\ CountsDown(d.nodes, cache.nodes, p) /\ SamePages(d.nodes, cache.nodes) /\ d.file = cache.file
  BY <1>1, <1>4, <1>6, UnpinOK DEF SameFiles
<1>8. HeldKept(d.nodes, cache.nodes) /\ OpenKept(d.file, cache.file)
  BY <1>7, SameKeeps, SameFileOpen
<1>9. PICK st : st = [pc |-> "idle"]
  OBVIOUS
<1>10. st.pc = "idle" /\ ThreadOK(d, st)
  BY <1>9 DEF ThreadOK
<1>11. Update(thread', thread, t, st)
  BY <1>9 DEF discard, Idle, Set, Update
<1>12. RefsOK(d.nodes, thread')
  BY <1>1, <1>3, <1>7, <1>10, <1>11, RefsDown
<1>13. ThreadsOK(d, thread')
  BY <1>1, <1>8, <1>10, <1>11, <1>12, StepOK
<1> QED
  BY <1>1, <1>5, <1>7, <1>13 DEF LruInv

\* Steps that only reads over several pages, or reads that fail, take.
LEMMA NotTaken ==
    ASSUME SinglePage, LruInv, NEW t \in Threads
    PROVE  ~LoadFails(t) /\ ~ExitRead(t)
<1>1. ThreadOK(cache, thread[t])
  BY DEF LruInv, ThreadsOK
<1>2. ~LoadFails(t)
  BY DEF LoadFails, SinglePage
<1>3. ASSUME ExitRead(t) PROVE FALSE
  <2>1. thread[t].pc = "exit"
    BY <1>3 DEF ExitRead
  <2> QED
    BY <1>1, <2>1, ThreadReads
<1> QED
  BY <1>2, <1>3

----------------------------------------------------------------------------
(* open and close *)

\* The new file has no pages.
LEMMA OpenOK ==
    ASSUME LruInv, open
    PROVE  LruInv'
<1>1. /\ IsCache(cache) /\ opened \in Nat /\ DOMAIN cache.file \subseteq 0..(opened - 1)
      /\ RingOn(cache.nodes, Free(cache.nodes)) /\ Loaded(cache.nodes) /\ Books(cache) /\ ThreadsOK(cache, thread)
  BY DEF LruInv, CacheOK
<1>2. opened \notin DOMAIN cache.file /\ opened' = opened + 1 /\ thread' = thread
  BY <1>1 DEF open
<1>3. NewFile \in File
  <2>1. PICK b \in BOOLEAN : b = FALSE
    OBVIOUS
  <2>2. NewFile = [pages |-> <<>>, pgcnt |-> 0, is_pending_drop |-> b]
    BY <2>1 DEF NewFile
  <2> QED
    BY <2>2 DEF File
<1>4. PICK x : x = NewFile
  OBVIOUS
<1>5. x \in File /\ x.pages = <<>> /\ x.pgcnt = 0 /\ ~x.is_pending_drop
  BY <1>3, <1>4 DEF NewFile
<1>6. PICK g : g = AddFile(cache.file, opened)
  OBVIOUS
<1>7. DOMAIN g = DOMAIN cache.file \cup {opened} /\ g[opened] = x /\ \A fi \in DOMAIN cache.file : g[fi] = cache.file[fi]
  BY <1>2, <1>4, <1>6 DEF AddFile
<1>8. cache' = CacheOf(cache.nodes, g, cache.freelist, cache.busypage_num)
  <2>1. cache = CacheOf(cache.nodes, cache.file, cache.freelist, cache.busypage_num)
    BY <1>1 DEF IsCache, CacheOf
  <2>2. cache' = [cache EXCEPT !.file = g]
    BY <1>6 DEF open
  <2> QED
    BY <2>1, <2>2 DEF CacheOf
<1>9. PICK d : d = CacheOf(cache.nodes, g, cache.freelist, cache.busypage_num)
  OBVIOUS
<1>10. d.nodes = cache.nodes /\ d.file = g /\ d.freelist = cache.freelist /\ d.busypage_num = cache.busypage_num
  BY <1>9 DEF CacheOf
<1>11. g \in [DOMAIN g -> File]
  <2>1. \A fi \in DOMAIN g : g[fi] \in File
    BY <1>1, <1>5, <1>7 DEF IsCache
  <2>2. g = [fi \in DOMAIN g |-> g[fi]]
    BY <1>6 DEF AddFile
  <2> QED
    BY <2>1, <2>2
<1>12. IsCache(d)
  BY <1>1, <1>9, <1>10, <1>11 DEF IsCache, CacheOf
<1>13. FilesOK(cache.nodes, g)
  <2> SUFFICES ASSUME NEW fi \in DOMAIN g PROVE FileOK(cache.nodes, g, fi)
    BY DEF FilesOK
  <2>1. CASE fi = opened
    <3>1. Len(g[fi].pages) = 0 /\ g[fi].pgcnt = 0
      BY <1>5, <1>7, <2>1
    <3>2. \A q \in Pages : ~OfFile(cache.nodes, q, fi)
      BY <1>1, <1>2, <2>1 DEF OfFile, Books, KeysOK
    <3> QED
      BY <3>1, <3>2 DEF FileOK, OneEach, InSeq
  <2>2. CASE fi # opened
    <3>1. FileOK(cache.nodes, cache.file, fi) /\ g[fi] = cache.file[fi]
      BY <1>1, <1>7, <2>2 DEF Books, FilesOK
    <3> QED
      BY <3>1, SameFileOK
  <2> QED
    BY <2>1, <2>2
<1>14. KeysOK(cache.nodes, g)
  BY <1>1, <1>7 DEF Books, KeysOK
<1>15. ListOK(g, cache.freelist)
  <2>1. ListOK(cache.file, cache.freelist)
    BY <1>1 DEF Books
  <2>2. \A fi \in Nat : fi \in DOMAIN g /\ g[fi].is_pending_drop <=> fi \in DOMAIN cache.file /\ cache.file[fi].is_pending_drop
    BY <1>5, <1>7
  <2>3. \A fi \in DOMAIN g : g[fi].is_pending_drop => g[fi].pages # <<>>
    BY <1>5, <1>7, <2>1 DEF ListOK
  <2> QED
    BY <2>1, <2>2, <2>3 DEF ListOK
<1>16. BusyPages(cache.nodes, g) = BusyPages(cache.nodes, cache.file)
  BY <1>1, <1>7 DEF BusyPages, Books, KeysOK
<1>17. Books(d)
  BY <1>1, <1>10, <1>13, <1>14, <1>15, <1>16 DEF Books
<1>18. opened + 1 \in Nat /\ DOMAIN d.file \subseteq 0..(opened + 1 - 1)
  BY <1>1, <1>7, <1>10
<1>19. CacheOK(d, opened + 1)
  BY <1>1, <1>10, <1>12, <1>17, <1>18 DEF CacheOK
<1>20. HeldKept(d.nodes, cache.nodes) /\ OpenKept(d.file, cache.file)
  BY <1>7, <1>10 DEF HeldKept, Keeps, OpenKept, OpenIn
<1>21. RefsOK(cache.nodes, thread) /\ IsThreads(thread) /\ \A u \in Threads : ThreadOK(cache, thread[u])
  BY <1>1 DEF ThreadsOK, IsThreads
<1>22. \A u \in Threads : ThreadOK(d, thread[u])
  BY <1>20, <1>21, OtherKept
<1>23. ThreadsOK(d, thread)
  BY <1>10, <1>21, <1>22 DEF ThreadsOK, IsThreads
<1> QED
  BY <1>2, <1>8, <1>9, <1>19, <1>23 DEF LruInv

\* The pages of a file are as many as its ring has.
LEMMA PagesOfFile ==
    ASSUME NEW nodes, NEW file, NEW fi \in DOMAIN file, FilesOK(nodes, file), file \in [DOMAIN file -> File],
           NEW T, T = {q \in Pages : OfFile(nodes, q, fi)}
    PROVE  Cardinality(T) = file[fi].pgcnt
<1>1. PICK s : s = file[fi].pages
  OBVIOUS
<1>2. s \in Seq(Pages) /\ OneEach(s) /\ file[fi].pgcnt = Len(s) /\ \A q \in Pages : InSeq(s, q) <=> OfFile(nodes, q, fi)
  BY <1>1 DEF FilesOK, FileOK, File
<1>3. \A y : InSeq(s, y) => y \in Pages
  BY <1>2 DEF InSeq
<1>4. \A y : y \in T <=> InSeq(s, y)
  BY <1>2, <1>3
<1>5. Cardinality(T) = Len(s)
  BY <1>2, <1>4, CountSeq
<1> QED
  BY <1>2, <1>5

\* No reader has a page of file fi; the other open files stay open.
NotOf(thr, fi) == \A u \in Threads : thr[u].pc # "idle" => thr[u].keys[1][1] # fi
OthersOpen(g, file, fi) == \A j : OpenIn(file, j) /\ j # fi => OpenIn(g, j)

\* No reader has a page of the file that is closed.
LEMMA CloseKeeps ==
    ASSUME NEW c, NEW d, NEW thr, ThreadsOK(c, thr), d.nodes = c.nodes, NEW fi,
           NotOf(thr, fi), OthersOpen(d.file, c.file, fi)
    PROVE  ThreadsOK(d, thr)
<1>1. IsThreads(thr) /\ RefsOK(c.nodes, thr) /\ \A u \in Threads : ThreadOK(c, thr[u])
  BY DEF ThreadsOK, IsThreads
<1>2. ASSUME NEW u \in Threads, thr[u].pc # "idle" PROVE ThreadOK(d, thr[u])
  <2>1. PICK pc \in Pcs, k \in Keys, p \in Pages, b \in BOOLEAN :
          thr[u] = Reader(pc, k, p, b) /\ ReaderOK(c, pc, k, p) /\ thr[u].keys = <<k>>
    BY <1>1, <1>2, ThreadReads
  <2>2. thr[u].keys[1] = k
    BY <2>1
  <2>3. k[1] # fi
    BY <1>2, <2>2 DEF NotOf
  <2>4. OpenIn(d.file, k[1])
    BY <2>1, <2>3 DEF ReaderOK, OpenIn, OthersOpen
  <2>5. Keeps(d.nodes, c.nodes, p)
    BY DEF Keeps
  <2>6. ReaderOK(d, pc, k, p)
    BY <2>1, <2>4, <2>5, ReaderKept
  <2> QED
    BY <2>1, <2>6 DEF ThreadOK
<1>3. \A u \in Threads : ThreadOK(d, thr[u])
  BY <1>2 DEF ThreadOK
<1> QED
  BY <1>1, <1>3 DEF ThreadsOK, IsThreads

\* A file without pages is dropped at once.
LEMMA CloseEmptyOK ==
    ASSUME LruInv, NEW fi, close(fi), cache.file[fi].pages = <<>>
    PROVE  LruInv'
<1>1. /\ IsCache(cache) /\ opened \in Nat /\ DOMAIN cache.file \subseteq 0..(opened - 1)
      /\ RingOn(cache.nodes, Free(cache.nodes)) /\ Loaded(cache.nodes) /\ Books(cache) /\ ThreadsOK(cache, thread)
      /\ cache.file \in [DOMAIN cache.file -> File]
  BY DEF LruInv, CacheOK, IsCache
<1>2. /\ fi \in DOMAIN cache.file /\ ~cache.file[fi].is_pending_drop /\ opened' = opened /\ thread' = thread
      /\ NotOf(thread, fi)
  BY DEF close, IsOpen, NotOf
<1>3. PICK g : g = FilesBut(cache.file, fi)
  OBVIOUS
<1>4. PICK d : d = CacheOf(cache.nodes, g, cache.freelist, cache.busypage_num)
  OBVIOUS
<1>5. cache' = d
  <2>1. cache = CacheOf(cache.nodes, cache.file, cache.freelist, cache.busypage_num)
    BY <1>1 DEF IsCache, CacheOf
  <2>2. cache' = [cache EXCEPT !.file = g]
    BY <1>3 DEF close, FilesBut
  <2> QED
    BY <1>4, <2>1, <2>2 DEF CacheOf
<1>6. d.nodes = cache.nodes /\ d.file = g /\ d.freelist = cache.freelist /\ d.busypage_num = cache.busypage_num
  BY <1>4 DEF CacheOf
<1>7. NoPages(cache.nodes, fi)
  <2>1. FileOK(cache.nodes, cache.file, fi) /\ Len(cache.file[fi].pages) = 0
    BY <1>1, <1>2 DEF Books, FilesOK
  <2> QED
    BY <2>1 DEF FileOK, InSeq, NoPages
<1>8. Right(cache.nodes, g) /\ DOMAIN g = DOMAIN cache.file \ {fi} /\ \A j \in DOMAIN g : g[j] = cache.file[j]
  <2>1. PICK nodes, file : nodes = cache.nodes /\ file = cache.file
    OBVIOUS
  <2>2. Right(nodes, file) /\ NoPages(nodes, fi) /\ g = FilesBut(file, fi)
    BY <1>1, <1>3, <1>7, <2>1 DEF Right, Books
  <2>3. Right(nodes, g) /\ Without(g, file, fi)
    BY <2>2, RightWithout
  <2> QED
    BY <2>1, <2>3 DEF Without
<1>9. IsCache(d)
  BY <1>1, <1>4, <1>6, <1>8 DEF IsCache, CacheOf, Right
<1>10. ListOK(g, cache.freelist)
  <2>1. ListOK(cache.file, cache.freelist)
    BY <1>1 DEF Books
  <2> QED
    BY <1>2, <1>8, <2>1 DEF ListOK
<1>11. BusyPages(cache.nodes, g) = BusyPages(cache.nodes, cache.file)
  <2>1. \A q \in Pages : cache.nodes[q].key # NoKey => cache.nodes[q].key[1] \in DOMAIN g
    BY <1>8 DEF Right, KeysOK
  <2> QED
    BY <1>8, <2>1 DEF BusyPages
<1>12. Books(d)
  BY <1>1, <1>6, <1>8, <1>10, <1>11 DEF Books, Right
<1>13. CacheOK(d, opened)
  BY <1>1, <1>6, <1>8, <1>9, <1>12 DEF CacheOK
<1>14. OthersOpen(d.file, cache.file, fi)
  BY <1>6, <1>8 DEF OpenIn, OthersOpen
<1>15. ThreadsOK(d, thread)
  BY <1>1, <1>2, <1>6, <1>14, CloseKeeps
<1> QED
  BY <1>2, <1>5, <1>13, <1>15 DEF LruInv

\* The cache with three other fields.
WithFiles(c, g, n, l) == [c EXCEPT !.file = g, !.busypage_num = n, !.freelist = l]

\* The new fields are there, the nodes stay.
LEMMA WithFilesIs ==
    ASSUME NEW a, NEW f, NEW e, NEW m, NEW g, NEW l, NEW n, NEW c, c = CacheOf(a, f, e, m)
    PROVE  WithFiles(c, g, n, l) = CacheOf(a, g, l, n)
<1>1. PICK c1 : c1 = [c EXCEPT !.file = g]
  OBVIOUS
<1>2. c1 = [nodes |-> a, file |-> g, freelist |-> e, busypage_num |-> m]
  BY <1>1 DEF CacheOf
<1>3. PICK c2 : c2 = [c1 EXCEPT !.busypage_num = n]
  OBVIOUS
<1>4. c2 = [nodes |-> a, file |-> g, freelist |-> e, busypage_num |-> n]
  BY <1>2, <1>3
<1>5. PICK c3 : c3 = [c2 EXCEPT !.freelist = l]
  OBVIOUS
<1>6. c3 = [nodes |-> a, file |-> g, freelist |-> l, busypage_num |-> n]
  BY <1>4, <1>5
<1>7. c3 = WithFiles(c, g, n, l)
  BY <1>1, <1>3, <1>5 DEF WithFiles
<1> QED
  BY <1>6, <1>7 DEF CacheOf

\* A file with pages waits on the free list until they are taken.
LEMMA ClosePagesOK ==
    ASSUME LruInv, NEW fi, close(fi), cache.file[fi].pages # <<>>
    PROVE  LruInv'
<1>1. /\ IsCache(cache) /\ opened \in Nat /\ DOMAIN cache.file \subseteq 0..(opened - 1)
      /\ RingOn(cache.nodes, Free(cache.nodes)) /\ Loaded(cache.nodes) /\ Books(cache) /\ ThreadsOK(cache, thread)
      /\ cache.file \in [DOMAIN cache.file -> File] /\ cache.freelist \in Seq(Nat)
  BY DEF LruInv, CacheOK, IsCache
<1>2. /\ fi \in DOMAIN cache.file /\ ~cache.file[fi].is_pending_drop /\ opened' = opened /\ thread' = thread
      /\ NotOf(thread, fi) /\ fi \in Nat
  BY <1>1 DEF close, IsOpen, NotOf
<1>3. PICK b \in BOOLEAN : b = TRUE
  OBVIOUS
<1>4. PICK x : x = [cache.file[fi] EXCEPT !.is_pending_drop = b]
  OBVIOUS
<1>5. x \in File /\ x.pages = cache.file[fi].pages /\ x.pgcnt = cache.file[fi].pgcnt /\ x.is_pending_drop
  <2>1. cache.file[fi] \in File
    BY <1>1, <1>2
  <2>2. x \in File /\ x.pages = cache.file[fi].pages /\ x.pgcnt = cache.file[fi].pgcnt /\ x.is_pending_drop = b
    BY <1>4, <2>1 DEF File
  <2> QED
    BY <1>3, <2>2
<1>6. PICK g : g = [cache.file EXCEPT ![fi] = x]
  OBVIOUS
<1>7. g \in [DOMAIN g -> File] /\ DOMAIN g = DOMAIN cache.file /\ g[fi] = x /\ \A j \in DOMAIN g : j # fi => g[j] = cache.file[j]
  BY <1>1, <1>2, <1>5, <1>6
<1>8. PICK l, n : l = insert_after_p(cache.freelist, fi) /\ n = cache.busypage_num - cache.file[fi].pgcnt
  OBVIOUS
<1>9. PICK d : d = CacheOf(cache.nodes, g, l, n)
  OBVIOUS
<1>10. cache' = d
  <2>1. cache = CacheOf(cache.nodes, cache.file, cache.freelist, cache.busypage_num)
    BY <1>1 DEF IsCache, CacheOf
  <2>2. g = [cache.file EXCEPT ![fi].is_pending_drop = TRUE]
    BY <1>3, <1>4, <1>6
  <2>3. cache' = WithFiles(cache, g, n, l)
    BY <1>8, <2>2 DEF close, WithFiles
  <2>4. PICK a, f, e, m : a = cache.nodes /\ f = cache.file /\ e = cache.freelist /\ m = cache.busypage_num
    OBVIOUS
  <2>5. cache = CacheOf(a, f, e, m)
    BY <2>1, <2>4
  <2>6. WithFiles(cache, g, n, l) = CacheOf(a, g, l, n)
    BY <2>5, WithFilesIs
  <2> QED
    BY <1>9, <2>3, <2>4, <2>6
<1>11. d.nodes = cache.nodes /\ d.file = g /\ d.freelist = l /\ d.busypage_num = n
  BY <1>9 DEF CacheOf
<1>12. ListOK(cache.file, cache.freelist)
  BY <1>1 DEF Books
<1>13. l \in Seq(Nat) /\ OneEach(l) /\ \A y : InSeq(l, y) <=> InSeq(cache.freelist, y) \/ y = fi
  <2>1. OneEach(cache.freelist) /\ ~InSeq(cache.freelist, fi)
    BY <1>2, <1>12 DEF ListOK
  <2> QED
    BY <1>1, <1>2, <1>8, <2>1, InsertIs
<1>14. ListOK(g, l)
  <2>1. \A j \in Nat : InSeq(l, j) <=> j \in DOMAIN g /\ g[j].is_pending_drop
    BY <1>2, <1>5, <1>7, <1>12, <1>13 DEF ListOK
  <2>2. \A j \in DOMAIN g : g[j].is_pending_drop => g[j].pages # <<>>
    BY <1>5, <1>7, <1>12 DEF ListOK
  <2> QED
    BY <1>13, <2>1, <2>2 DEF ListOK
<1>15. FilesOK(cache.nodes, g)
  BY <1>1, <1>5, <1>7 DEF Books, FilesOK, FileOK
<1>16. KeysOK(cache.nodes, g)
  BY <1>1, <1>7 DEF Books, KeysOK
<1>17. n = Cardinality(BusyPages(cache.nodes, g)) /\ n \in Int
  <2>1. PICK S, T : S = BusyPages(cache.nodes, cache.file) /\ T = {q \in Pages : OfFile(cache.nodes, q, fi)}
    OBVIOUS
  <2>2. BusyPages(cache.nodes, g) = S \ T
    BY <1>5, <1>7, <1>16, <2>1 DEF BusyPages, OfFile, KeysOK
  <2>3. S \cap T = T
    BY <1>2, <2>1 DEF BusyPages, OfFile
  <2>4. Cardinality(T) = cache.file[fi].pgcnt
    <3>1. FilesOK(cache.nodes, cache.file)
      BY <1>1 DEF Books
    <3> QED
      BY <1>1, <1>2, <2>1, <3>1, PagesOfFile, SMTT(30)
  <2>5. IsFiniteSet(S) /\ Cardinality(S) \in Nat /\ cache.busypage_num = Cardinality(S)
    <3>1. S \in SUBSET Pages
      BY <2>1 DEF BusyPages
    <3> QED
      BY <1>1, <2>1, <3>1, PagesFinite DEF Books
  <2>6. Cardinality(S \ T) = Cardinality(S) - Cardinality(T)
    <3>1. Cardinality(S \ T) = Cardinality(S) - Cardinality(S \cap T)
      BY <2>5, FS_Difference
    <3> QED
      BY <2>3, <3>1
  <2>7. cache.file[fi].pgcnt \in Nat
    BY <1>1, <1>2 DEF File
  <2> QED
    BY <1>8, <2>2, <2>4, <2>5, <2>6, <2>7
<1>18. IsCache(d)
  BY <1>1, <1>7, <1>9, <1>11, <1>13, <1>17 DEF IsCache, CacheOf
<1>19. Books(d)
  BY <1>11, <1>14, <1>15, <1>16, <1>17 DEF Books
<1>20. CacheOK(d, opened)
  BY <1>1, <1>7, <1>11, <1>18, <1>19 DEF CacheOK
<1>21. OthersOpen(d.file, cache.file, fi)
  BY <1>7, <1>11 DEF OpenIn, OthersOpen
<1>22. ThreadsOK(d, thread)
  BY <1>1, <1>2, <1>11, <1>21, CloseKeeps
<1> QED
  BY <1>2, <1>10, <1>20, <1>22 DEF LruInv

----------------------------------------------------------------------------
(* The invariant holds *)

\* In the ring of all the nodes.
LEMMA InitRing ==
    ASSUME NEW nodes, \A p \in Nodes : /\ nodes[p].lru_next = (p + 1) % (PageNum + 1)
                                       /\ nodes[p].lru_prev = (p + PageNum) % (PageNum + 1)
    PROVE  RingOn(nodes, Nodes)
<1>1. PageNum \in Nat /\ PageNum > 0
  BY LruAssumption
<1>2. ASSUME NEW p \in Nodes
      PROVE  /\ nodes[p].lru_next = IF p = PageNum THEN 0 ELSE p + 1
             /\ nodes[p].lru_prev = IF p = 0 THEN PageNum ELSE p - 1
  <2>1. p \in Nat /\ p <= PageNum
    BY <1>1 DEF Nodes
  <2>2. (p + 1) % (PageNum + 1) = IF p = PageNum THEN 0 ELSE p + 1
    BY <1>1, <2>1
  <2>3. (p + PageNum) % (PageNum + 1) = IF p = 0 THEN PageNum ELSE p - 1
    BY <1>1, <2>1
  <2> QED
    BY <2>2, <2>3
<1>3. ASSUME NEW p \in Nodes
      PROVE  /\ nodes[p].lru_next \in Nodes /\ nodes[nodes[p].lru_next].lru_prev = p
             /\ nodes[p].lru_prev \in Nodes /\ nodes[nodes[p].lru_prev].lru_next = p
  <2>1. p \in Nat /\ p <= PageNum /\ 0 \in Nodes /\ PageNum \in Nodes
    BY <1>1 DEF Nodes
  <2>2. nodes[p].lru_next \in Nodes /\ nodes[nodes[p].lru_next].lru_prev = p
    <3>1. CASE p = PageNum
      BY <1>1, <1>2, <2>1, <3>1
    <3>2. CASE p # PageNum
      <4>1. p + 1 \in Nodes /\ p + 1 # 0 /\ (p + 1) - 1 = p
        <5>1. p + 1 \in Nat /\ p + 1 <= PageNum /\ p + 1 # 0 /\ (p + 1) - 1 = p
          BY <1>1, <2>1, <3>2
        <5> QED
          BY <1>1, <5>1 DEF Nodes
      <4> QED
        BY <1>2, <3>2, <4>1
    <3> QED
      BY <3>1, <3>2
  <2>3. nodes[p].lru_prev \in Nodes /\ nodes[nodes[p].lru_prev].lru_next = p
    <3>1. CASE p = 0
      BY <1>1, <1>2, <2>1, <3>1
    <3>2. CASE p # 0
      <4>1. PICK q \in Nodes : q = p - 1 /\ q # PageNum /\ q + 1 = p
        BY <1>1, <2>1, <3>2 DEF Nodes
      <4> QED
        BY <1>2, <3>2, <4>1
    <3> QED
      BY <3>1, <3>2
  <2> QED
    BY <2>2, <2>3
<1> QED
  BY <1>3 DEF RingOn

\* A cache without files.
LEMMA InitOK ==
    ASSUME Init
    PROVE  LruInv
<1>1. PICK b \in BOOLEAN : b = FALSE
  OBVIOUS
<1>2. PICK m : m = [p \in Nodes |-> [key |-> NoKey, ref_count |-> 0, is_loaded |-> b, content |-> NoKey,
                                     lru_next |-> (p + 1) % (PageNum + 1), lru_prev |-> (p + PageNum) % (PageNum + 1)]]
  OBVIOUS
<1>3. cache = CacheOf(m, [fi \in {} |-> 0], <<>>, 0) /\ opened = 0 /\ thread = [t \in Threads |-> [pc |-> "idle"]]
  BY <1>1, <1>2 DEF Init, CacheOf, Nodes
<1>4. cache.nodes = m /\ cache.file = [fi \in {} |-> 0] /\ cache.freelist = <<>> /\ cache.busypage_num = 0
  BY <1>3 DEF CacheOf
<1>5. PageNum \in Nat /\ PageNum > 0
  BY LruAssumption
<1>6. m \in [Nodes -> Node]
  <2>1. ASSUME NEW p \in Nodes PROVE (p + 1) % (PageNum + 1) \in Nodes /\ (p + PageNum) % (PageNum + 1) \in Nodes
    BY <1>5 DEF Nodes
  <2> QED
    BY <1>2, <2>1 DEF Node
<1>7. \A p \in Nodes : m[p].key = NoKey /\ m[p].ref_count = 0 /\ m[p].content = NoKey
  BY <1>2
<1>8. \A p \in Pages : m[p].key = NoKey /\ m[p].ref_count = 0 /\ m[p].content = NoKey
  BY <1>7, FreeNodes
<1>9. RingOn(m, Nodes)
  <2>1. \A p \in Nodes : m[p].lru_next = (p + 1) % (PageNum + 1) /\ m[p].lru_prev = (p + PageNum) % (PageNum + 1)
    BY <1>2
  <2> QED
    BY <2>1, InitRing
<1>10. Free(m) = Nodes
  BY <1>5, <1>8 DEF Free, Nodes, Pages
<1>11. DOMAIN cache.file = {}
  BY <1>4
<1>12. IsCache(cache)
  BY <1>3, <1>4, <1>6 DEF IsCache, CacheOf
<1>13. Books(cache)
  <2>1. FilesOK(m, cache.file) /\ KeysOK(m, cache.file)
    BY <1>8, <1>11 DEF FilesOK, KeysOK
  <2>2. ListOK(cache.file, <<>>)
    BY <1>11 DEF ListOK, OneEach, InSeq
  <2>3. BusyPages(m, cache.file) = {}
    BY <1>8 DEF BusyPages
  <2>4. Cardinality({}) = 0
    BY FS_EmptySet
  <2> QED
    BY <1>4, <2>1, <2>2, <2>3, <2>4 DEF Books
<1>14. Loaded(m)
  BY <1>8 DEF Loaded
<1>15. CacheOK(cache, opened)
  BY <1>3, <1>4, <1>9, <1>10, <1>11, <1>12, <1>13, <1>14 DEF CacheOK
<1>16. \A t \in Threads : thread[t].pc = "idle"
  BY <1>3
<1>17. RefsOK(m, thread)
  <2>1. \A p \in Pages : Holders(thread, p) = {}
    BY <1>16 DEF Holders
  <2> QED
    BY <1>8, <2>1, FS_EmptySet DEF RefsOK
<1>18. ThreadsOK(cache, thread)
  BY <1>3, <1>4, <1>16, <1>17 DEF ThreadsOK, ThreadOK
<1> QED
  BY <1>15, <1>18 DEF LruInv

\* Every step keeps it.
LEMMA NextOK ==
    ASSUME SinglePage, LruInv, [Next]_vars
    PROVE  LruInv'
<1>1. CASE open
  BY <1>1, OpenOK
<1>2. ASSUME NEW fi \in DOMAIN cache.file, close(fi) PROVE LruInv'
  BY <1>2, CloseEmptyOK, ClosePagesOK
<1>3. ASSUME NEW t \in Threads, StartRead(t) PROVE LruInv'
  BY <1>3, PreadOK DEF StartRead
<1>4. ASSUME NEW t \in Threads, Reading(t) PROVE LruInv'
  BY <1>4, ReadPageOK, WaitLoadedOK, LoadOK, SetLoadedOK, NotTaken DEF Reading
<1>5. ASSUME NEW t \in Threads, discard(t) PROVE LruInv'
  BY <1>5, DiscardOK
<1>6. CASE UNCHANGED vars
  BY <1>6 DEF vars, LruInv
<1>7. CASE Stopped
  BY <1>6, <1>7 DEF Stopped
<1> QED
  BY <1>1, <1>2, <1>3, <1>4, <1>5, <1>6, <1>7 DEF Next

----------------------------------------------------------------------------
(* What it says *)

\* The content of a buffer.
LEMMA PinnedFollows ==
    ASSUME LruInv
    PROVE  PinnedIsKept
<1> SUFFICES ASSUME NEW t \in Threads, thread[t].pc = "pinned"
             PROVE  /\ cache.nodes[thread[t].got[1]].key = thread[t].keys[1]
                    /\ cache.nodes[thread[t].got[1]].content = cache.nodes[thread[t].got[1]].key
  BY DEF PinnedIsKept
<1>1. ThreadOK(cache, thread[t])
  BY DEF LruInv, ThreadsOK
<1>2. PICK pc \in Pcs, k \in Keys, p \in Pages :
        ReaderOK(cache, pc, k, p) /\ thread[t].got = <<p>> /\ thread[t].keys = <<k>> /\ thread[t].pc = pc
  BY <1>1, ThreadReads
<1>3. thread[t].got[1] = p /\ thread[t].keys[1] = k /\ HasContent(pc)
  BY <1>2 DEF HasContent
<1> QED
  BY <1>2, <1>3 DEF ReaderOK

\* ToSet as InSeq.
LEMMA ToSetIs ==
    ASSUME NEW S, NEW s \in Seq(S)
    PROVE  \A y : y \in ToSet(s) <=> InSeq(s, y)
<1>1. DOMAIN s = 1..Len(s)
  OBVIOUS
<1> QED
  BY <1>1 DEF ToSet, InSeq

\* The books.
LEMMA BooksFollow ==
    ASSUME LruInv
    PROVE  BooksAgree
<1> DEFINE file == cache.file
           pending == {fi \in DOMAIN file : file[fi].is_pending_drop}
<1>1. /\ Books(cache) /\ cache.file \in [DOMAIN cache.file -> File] /\ cache.freelist \in Seq(Nat)
      /\ DOMAIN cache.file \subseteq Nat
  BY DEF LruInv, CacheOK, IsCache
<1>2. \A fi \in DOMAIN file : file[fi].pages \in Seq(Pages) /\ FileOK(cache.nodes, file, fi)
  BY <1>1 DEF Books, FilesOK, File
<1>3. ASSUME NEW fi \in DOMAIN file
      PROVE  /\ file[fi].pgcnt = Len(file[fi].pages)
             /\ ToSet(file[fi].pages) = {p \in Pages : cache.nodes[p].key # NoKey /\ cache.nodes[p].key[1] = fi}
  <2>1. PICK s : s = file[fi].pages
    OBVIOUS
  <2>2. s \in Seq(Pages) /\ file[fi].pgcnt = Len(s) /\ \A p \in Pages : InSeq(s, p) <=> OfFile(cache.nodes, p, fi)
    BY <1>2, <2>1 DEF FileOK
  <2>3. \A y : y \in ToSet(s) <=> InSeq(s, y)
    BY <2>2, ToSetIs
  <2>4. \A y : InSeq(s, y) => y \in Pages
    BY <2>2 DEF InSeq
  <2> QED
    BY <2>1, <2>2, <2>3, <2>4 DEF OfFile
<1>4. KeysOK(cache.nodes, file) /\ ListOK(file, cache.freelist) /\ cache.busypage_num = Cardinality(BusyPages(cache.nodes, file))
  BY <1>1 DEF Books
<1>5. \A y : y \in ToSet(cache.freelist) <=> InSeq(cache.freelist, y)
  BY <1>1, ToSetIs
<1>6. \A y : InSeq(cache.freelist, y) => y \in Nat
  BY <1>1 DEF InSeq
<1>7. \A y : y \in pending <=> InSeq(cache.freelist, y)
  BY <1>1, <1>4, <1>6 DEF ListOK
<1>8. pending = ToSet(cache.freelist)
  BY <1>5, <1>7
<1>9. Len(cache.freelist) = Cardinality(pending)
  <2>1. PICK P : P = pending
    OBVIOUS
  <2>2. OneEach(cache.freelist) /\ \A y : y \in P <=> InSeq(cache.freelist, y)
    BY <1>4, <1>7, <2>1 DEF ListOK
  <2>3. Cardinality(P) = Len(cache.freelist)
    BY <1>1, <2>2, CountSeq
  <2> QED
    BY <2>1, <2>3
<1>10. BusyPages(cache.nodes, file) = UNION {ToSet(file[fi].pages) : fi \in DOMAIN file \ pending}
  <2>1. \A p \in Pages : cache.nodes[p].key # NoKey => cache.nodes[p].key[1] \in DOMAIN file
    BY <1>4 DEF KeysOK
  <2>2. ASSUME NEW p \in BusyPages(cache.nodes, file)
        PROVE  p \in UNION {ToSet(file[fi].pages) : fi \in DOMAIN file \ pending}
    <3>1. PICK fi : fi = cache.nodes[p].key[1]
      OBVIOUS
    <3>2. p \in Pages /\ cache.nodes[p].key # NoKey /\ fi \in DOMAIN file \ pending
      BY <2>1, <2>2, <3>1 DEF BusyPages
    <3>3. p \in ToSet(file[fi].pages)
      BY <1>3, <3>1, <3>2
    <3> QED
      BY <3>2, <3>3
  <2>3. ASSUME NEW fi \in DOMAIN file \ pending, NEW p \in ToSet(file[fi].pages)
        PROVE  p \in BusyPages(cache.nodes, file)
    BY <1>3, <2>3 DEF BusyPages
  <2> QED
    BY <2>2, <2>3
<1>11. /\ \A p, q \in Pages : cache.nodes[p].key = cache.nodes[q].key => p = q \/ cache.nodes[p].key = NoKey
       /\ \A p \in Pages : cache.nodes[p].key # NoKey => cache.nodes[p].key[1] \in DOMAIN file
       /\ \A fi \in pending : file[fi].pages # <<>>
  BY <1>4 DEF KeysOK, ListOK
<1> QED
  BY <1>3, <1>4, <1>8, <1>9, <1>10, <1>11 DEF BooksAgree

\* The references.
LEMMA RefsFollow ==
    ASSUME LruInv
    PROVE  RefsAreHeld
<1> SUFFICES ASSUME NEW p \in Pages
             PROVE  cache.nodes[p].ref_count = Cardinality({t \in Threads : Holds(t, p)})
  BY DEF RefsAreHeld
<1>1. ASSUME NEW t \in Threads PROVE Holds(t, p) <=> t \in Holders(thread, p)
  <2>1. CASE thread[t].pc = "idle"
    BY <2>1 DEF Holds, Holders
  <2>2. CASE thread[t].pc # "idle"
    <3>1. ThreadOK(cache, thread[t])
      BY DEF LruInv, ThreadsOK
    <3>2. PICK q \in Pages : thread[t].got = <<q>>
      BY <2>2, <3>1, ThreadReads
    <3>3. ToSet(<<q>>) = {q}
      BY DEF ToSet
    <3> QED
      BY <2>2, <3>2, <3>3 DEF Holds, Holders
  <2> QED
    BY <2>1, <2>2
<1>2. {t \in Threads : Holds(t, p)} = Holders(thread, p)
  BY <1>1 DEF Holders
<1>3. RefsOK(cache.nodes, thread)
  BY DEF LruInv, ThreadsOK
<1> QED
  BY <1>2, <1>3 DEF RefsOK

\* The pages of closed files.
LEMMA ClosedFollows ==
    ASSUME LruInv
    PROVE  ClosedIsUnused
<1> SUFFICES ASSUME NEW fi \in ToSet(cache.freelist), NEW p \in ToSet(cache.file[fi].pages)
             PROVE  cache.nodes[p].ref_count = 0
  BY DEF ClosedIsUnused
<1>1. /\ Books(cache) /\ cache.file \in [DOMAIN cache.file -> File] /\ cache.freelist \in Seq(Nat)
      /\ ThreadsOK(cache, thread)
  BY DEF LruInv, CacheOK, IsCache
<1>2. InSeq(cache.freelist, fi) /\ fi \in Nat
  BY <1>1, ToSetIs DEF InSeq
<1>3. fi \in DOMAIN cache.file /\ cache.file[fi].is_pending_drop
  BY <1>1, <1>2 DEF Books, ListOK
<1>4. PICK s : s = cache.file[fi].pages
  OBVIOUS
<1>5. s \in Seq(Pages) /\ FileOK(cache.nodes, cache.file, fi)
  BY <1>1, <1>3, <1>4 DEF Books, FilesOK, File
<1>6. InSeq(s, p) /\ p \in Pages
  BY <1>4, <1>5, ToSetIs DEF InSeq
<1>7. OfFile(cache.nodes, p, fi)
  BY <1>4, <1>5, <1>6 DEF FileOK
<1>8. cache.file[cache.nodes[p].key[1]].is_pending_drop
  BY <1>3, <1>7 DEF OfFile
<1> QED
  BY <1>1, <1>6, <1>8, HeldIsOpen

----------------------------------------------------------------------------
(* Theorems *)

\* pread, discard_impl, alloc_page: with reads inside of one page that do not fail, a
\* buffer shows the page it was asked for as long as it is held, for any number of
\* threads, pages and files.
THEOREM PinnedPagesAreKept ==
    ASSUME SinglePage
    PROVE  Spec => []PinnedIsKept
<1>1. Init => LruInv
  BY InitOK
<1>2. LruInv /\ [Next]_vars => LruInv'
  BY NextOK
<1>3. LruInv => PinnedIsKept
  BY PinnedFollows
<1> QED
  BY <1>1, <1>2, <1>3, PTL DEF Spec

\* alloc_page, open, close: the rings of the files, pgcnt, busypage_num, the hash table
\* and the free list agree.
THEOREM BooksAlwaysAgree ==
    ASSUME SinglePage
    PROVE  Spec => []BooksAgree
<1>1. Init => LruInv
  BY InitOK
<1>2. LruInv /\ [Next]_vars => LruInv'
  BY NextOK
<1>3. LruInv => BooksAgree
  BY BooksFollow
<1> QED
  BY <1>1, <1>2, <1>3, PTL DEF Spec

\* The reference counts are the references that threads have: a page is not evicted
\* under a reader, and can be after the last one.
THEOREM ReferencesAreHeld ==
    ASSUME SinglePage
    PROVE  Spec => []RefsAreHeld
<1>1. Init => LruInv
  BY InitOK
<1>2. LruInv /\ [Next]_vars => LruInv'
  BY NextOK
<1>3. LruInv => RefsAreHeld
  BY RefsFollow
<1> QED
  BY <1>1, <1>2, <1>3, PTL DEF Spec

\* close, alloc_page: nobody has a page of a closed file, as alloc_page asserts of the
\* page it takes from one.
THEOREM ClosedPagesAreUnused ==
    ASSUME SinglePage
    PROVE  Spec => []ClosedIsUnused
<1>1. Init => LruInv
  BY InitOK
<1>2. LruInv /\ [Next]_vars => LruInv'
  BY NextOK
<1>3. LruInv => ClosedIsUnused
  BY ClosedFollows
<1> QED
  BY <1>1, <1>2, <1>3, PTL DEF Spec
=============================================================================
