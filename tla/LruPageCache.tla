---------------------------- MODULE LruPageCache ----------------------------
(***************************************************************************)
(* SingleLruReadonlyCache (zbs/lru_page_cache.cpp): a cache of file pages  *)
(* shared by threads.                                                      *)
(*                                                                         *)
(* All structures are under m_mutex; a page is read from its file outside  *)
(* of it, by the thread that allocated it, while others that want the page *)
(* wait for is_loaded.  A page with references is out of the LRU list and  *)
(* must keep its content.  Pages of closed files are used up first.        *)
(*                                                                         *)
(* The LRU list is the ring of links the code has, with node 0 as its      *)
(* head.  The ring of a file's pages, of which only the head and the order *)
(* matter, is a sequence, and so is the list of the closed files.  The     *)
(* hash table is the key of the nodes: a page is in a chain from the       *)
(* moment it has a key.  File ids come from CircularPermanentID; a file's  *)
(* descriptor is its id.                                                   *)
(***************************************************************************)
EXTENDS Naturals, Sequences, SequencesExt, FiniteSets, FiniteSetsExt, TLC

CONSTANTS
    Threads,
    PageNum,     \* m_page_num
    FilePages,   \* pages of a file
    Spans,       \* how many pages the reads are over
    Fails,       \* the spans of the reads that may fail (do_pread throws)
    MaxOpen      \* bound: files opened

ASSUME LruAssumption ==
    /\ IsFiniteSet(Threads) /\ PageNum \in Nat \ {0} /\ FilePages \in Nat \ {0}
    /\ Spans \subseteq 1..FilePages /\ Fails \subseteq Spans /\ MaxOpen \in Nat

VARIABLES
    cache,   \* what m_mutex protects: nodes, file, freelist, busypage_num
    opened,  \* ids given out
    thread   \* per thread: its read and what it holds

vars == <<cache, opened, thread>>

Pages == 1..PageNum
NoKey == <<>>

\* Link and page fields of a node; content: what the page's memory holds, NoKey for
\* anything that is not the page of its key.
Init ==
    /\ cache = [nodes |-> [p \in 0..PageNum |->
                             [key |-> NoKey, ref_count |-> 0, is_loaded |-> FALSE, content |-> NoKey,
                              lru_next |-> (p + 1) % (PageNum + 1),
                              lru_prev |-> (p + PageNum) % (PageNum + 1)]],
                file |-> [fi \in {} |-> 0], freelist |-> <<>>, busypage_num |-> 0]
    /\ opened = 0
    /\ thread = [t \in Threads |-> [pc |-> "idle"]]

----------------------------------------------------------------------------
(* Lists *)

lru_remove(nodes, p) ==
    [nodes EXCEPT ![nodes[p].lru_next].lru_prev = nodes[p].lru_prev,
                  ![nodes[p].lru_prev].lru_next = nodes[p].lru_next]

lru_insert_after(nodes, q, p) ==
    [nodes EXCEPT ![p].lru_next = nodes[q].lru_next, ![p].lru_prev = q,
                  ![nodes[q].lru_next].lru_prev = p, ![q].lru_next = p]

\* fi_insert_after_p, File::insert_after_p: behind the head of the ring.
insert_after_p(s, x) == IF s = <<>> THEN <<x>> ELSE <<Head(s), x>> \o Tail(s)

\* fi_remove, remove_fi: the next one becomes the head if the head goes.
RingRemove(s, x) == RemoveAt(s, CHOOSE i \in DOMAIN s : s[i] = x)

----------------------------------------------------------------------------
(* Under m_mutex *)

\* A hit: a page that was free leaves the LRU list.
Pin(c, p) ==
    LET nodes == IF c.nodes[p].ref_count = 0 THEN lru_remove(c.nodes, p) ELSE c.nodes
    IN  [c EXCEPT !.nodes = [nodes EXCEPT ![p].ref_count = @ + 1]]

\* The last reference puts the page at the front of the LRU list.
Unpin(c, p) ==
    LET nodes == [c.nodes EXCEPT ![p].ref_count = @ - 1]
    IN  [c EXCEPT !.nodes = IF nodes[p].ref_count = 0 THEN lru_insert_after(nodes, 0, p) ELSE nodes]

\* The pages of a read that ends.
UnpinAll(c, got) == FoldLeft(Unpin, c, got)

\* Page p of file f goes to file fi.
MovePage(file, p, f, fi) ==
    LET taken == [file EXCEPT ![f].pages = RingRemove(@, p), ![f].pgcnt = @ - 1]
    IN  [taken EXCEPT ![fi].pages = insert_after_p(@, p), ![fi].pgcnt = @ + 1]

\* alloc_page: first a page of a closed file (which is dropped with its last page), then
\* the tail of the LRU list, whose page another file may lose.
FreePage(c) == Head(c.file[Head(c.freelist)].pages)
LruTail(c) == c.nodes[0].lru_prev

alloc_dropped_free(c, fi) ==
    LET f == Head(c.freelist)
        p == FreePage(c)
        file == MovePage(c.file, p, f, fi)
        last == file[f].pgcnt = 0
    IN  [nodes |-> lru_remove(c.nodes, p),
         file |-> IF last THEN [i \in DOMAIN file \ {f} |-> file[i]] ELSE file,
         freelist |-> IF last THEN Tail(c.freelist) ELSE c.freelist,
         busypage_num |-> c.busypage_num + 1]

\* Mutant of alloc_swap_out: the file that loses the page is not told.
alloc_swap_out_Keep(c, fi) ==
    LET p == LruTail(c)
    IN  [c EXCEPT !.nodes = lru_remove(@, p),
                  !.busypage_num = IF c.nodes[p].key # NoKey THEN @ ELSE @ + 1,
                  !.file[fi].pages = insert_after_p(@, p), !.file[fi].pgcnt = @ + 1]

alloc_swap_out(c, fi) ==
    LET p == LruTail(c)
    IN  IF c.nodes[p].key # NoKey
        THEN [c EXCEPT !.nodes = lru_remove(@, p), !.file = MovePage(@, p, c.nodes[p].key[1], fi)]
        ELSE [c EXCEPT !.nodes = lru_remove(@, p), !.busypage_num = @ + 1,
                       !.file[fi].pages = insert_after_p(@, p), !.file[fi].pgcnt = @ + 1]

CanAlloc(c) == c.freelist # <<>> \/ LruTail(c) # 0

AllocPage(c) == IF c.freelist # <<>> THEN FreePage(c) ELSE LruTail(c)

\* The node is for another page, which its memory does not hold yet.
Renewed(node, key) == [node EXCEPT !.ref_count = 1, !.is_loaded = FALSE, !.key = key, !.content = NoKey]

alloc_page(c, key) ==
    LET d == IF c.freelist # <<>> THEN alloc_dropped_free(c, key[1]) ELSE alloc_swap_out(c, key[1])
    IN  [d EXCEPT !.nodes[AllocPage(c)] = Renewed(@, key)]

\* One page of a read: hit, or allocated by this thread, or no page can be evicted (ok).
PinOrAlloc(r, key) ==
    LET hit == {p \in Pages : r.c.nodes[p].key = key}
    IN  IF ~r.ok THEN r
        ELSE IF hit # {}
        THEN LET p == Min(hit) IN [r EXCEPT !.c = Pin(@, p), !.got = Append(@, p), !.mine = Append(@, FALSE)]
        ELSE IF ~CanAlloc(r.c) THEN [r EXCEPT !.ok = FALSE]
        ELSE [r EXCEPT !.c = alloc_page(@, key), !.got = Append(@, AllocPage(r.c)), !.mine = Append(@, TRUE)]

KeysOf(fi, first, span) == [i \in 1..span |-> <<fi, first + i - 1>>]

NothingYet == [c |-> cache, got |-> <<>>, mine |-> <<>>, ok |-> TRUE]
PinOne(key) == PinOrAlloc(NothingYet, key)
PinEach(keys) == FoldLeft(PinOrAlloc, NothingYet, keys)

\* A read inside of one page has a path of its own.
PinAll(keys) == IF Len(keys) = 1 THEN PinOne(keys[1]) ELSE PinEach(keys)

----------------------------------------------------------------------------
(* open, close, safe_close *)

IsOpen(fi) == fi \in DOMAIN cache.file /\ ~cache.file[fi].is_pending_drop

NewFile == [pages |-> <<>>, pgcnt |-> 0, is_pending_drop |-> FALSE]
AddFile(file, n) == [fi \in DOMAIN file \cup {n} |-> IF fi = n THEN NewFile ELSE file[fi]]

open ==
    /\ opened < MaxOpen
    /\ opened' = opened + 1
    /\ cache' = [cache EXCEPT !.file = AddFile(@, opened)]
    /\ UNCHANGED thread

\* Whoever closes a file has given up its buffers (discard_impl asserts it).  safe_close
\* of a file that is not open changes nothing.
close(fi) ==
    /\ IsOpen(fi)
    /\ \A t \in Threads : thread[t].pc # "idle" => thread[t].keys[1][1] # fi
    /\ cache' = IF cache.file[fi].pages = <<>>
                THEN [cache EXCEPT !.file = [i \in DOMAIN cache.file \ {fi} |-> cache.file[i]]]
                ELSE [cache EXCEPT !.file[fi].is_pending_drop = TRUE,
                                   !.busypage_num = @ - cache.file[fi].pgcnt,
                                   !.freelist = insert_after_p(@, fi)]
    /\ UNCHANGED <<opened, thread>>

----------------------------------------------------------------------------
(* pread and the buffer it fills *)

Set(t, st) == thread' = [thread EXCEPT ![t] = st]
Idle(t) == Set(t, [pc |-> "idle"])

\* A single page stays pinned in the buffer; a read over several copies them one by one.
IsCross(st) == Len(st.keys) > 1

\* What thread t does next once its page i may be used.
Ready(t, st, nodes) ==
    IF ~IsCross(st) THEN Set(t, [st EXCEPT !.pc = "pinned"])
    ELSE Set(t, [st EXCEPT !.out = Append(@, nodes[st.got[st.i]].content), !.i = @ + 1,
                           !.pc = IF st.i = Len(st.keys) THEN "exit" ELSE "read"])

\* Mutant of pread: a hit is used without a look at is_loaded.
pread_NotLoaded(t, fi, first, span) ==
    LET keys == KeysOf(fi, first, span)
        r == PinAll(keys)
    IN  /\ thread[t].pc = "idle" /\ IsOpen(fi)
        /\ first + span <= FilePages
        /\ cache' = r.c
        /\ IF ~r.ok THEN Idle(t)
           ELSE Set(t, [pc |-> IF span > 1 /\ \A i \in 1..span : ~r.mine[i] THEN "exit"
                               ELSE IF span > 1 \/ r.mine[1] THEN "read" ELSE "pinned",
                        keys |-> keys, got |-> r.got, mine |-> r.mine, i |-> 1, out |-> <<>>,
                        failed |-> FALSE])
        /\ UNCHANGED opened

\* The pages are pinned or allocated.  If one cannot be, an exception leaves what the
\* pages before it have been given.  A read over several pages that are all hits copies
\* nothing.
pread(t, fi, first, span) ==
    LET keys == KeysOf(fi, first, span)
        r == PinAll(keys)
        hits == \A i \in 1..span : ~r.mine[i]
    IN  /\ thread[t].pc = "idle" /\ IsOpen(fi)
        /\ first + span <= FilePages
        /\ cache' = r.c
        /\ IF ~r.ok THEN Idle(t)
           ELSE Set(t, [pc |-> IF span > 1 /\ hits THEN "exit" ELSE "read", keys |-> keys,
                        got |-> r.got, mine |-> r.mine, i |-> 1, out |-> <<>>, failed |-> FALSE])
        /\ UNCHANGED opened

\* readpage: use a loaded page, load one's own, wait for the others'.
ReadPage(t) ==
    LET st == thread[t]
        p == st.got[st.i]
    IN  /\ st.pc = "read"
        /\ IF cache.nodes[p].is_loaded THEN Ready(t, st, cache.nodes)
           ELSE Set(t, [st EXCEPT !.pc = IF st.mine[st.i] THEN "load" ELSE "wait"])
        /\ UNCHANGED <<cache, opened>>

\* Mutant of WaitLoaded: one look, no loop.
WaitLoaded_Once(t) ==
    /\ thread[t].pc = "wait"
    /\ Ready(t, thread[t], cache.nodes)
    /\ UNCHANGED <<cache, opened>>

\* A busy wait.
WaitLoaded(t) ==
    /\ thread[t].pc = "wait"
    /\ IF cache.nodes[thread[t].got[thread[t].i]].is_loaded
       THEN Ready(t, thread[t], cache.nodes) ELSE UNCHANGED thread
    /\ UNCHANGED <<cache, opened>>

\* do_pread into the page.
Load(t) ==
    LET st == thread[t]
    IN  /\ st.pc = "load"
        /\ cache' = [cache EXCEPT !.nodes[st.got[st.i]].content = st.keys[st.i]]
        /\ Set(t, [st EXCEPT !.pc = "loaded"])
        /\ UNCHANGED opened

\* do_pread throws.  A single page only loses its reference; pages of a longer read are
\* released like after a read that went well.
LoadFails(t) ==
    LET st == thread[t]
    IN  /\ st.pc = "load" /\ Len(st.keys) \in Fails
        /\ IF IsCross(st)
           THEN Set(t, [st EXCEPT !.pc = "exit", !.failed = TRUE]) /\ UNCHANGED cache
           ELSE Idle(t) /\ cache' = [cache EXCEPT !.nodes[st.got[1]].ref_count = @ - 1]
        /\ UNCHANGED opened

\* Mutant of SetLoaded: only the single page path marks its page.
SetLoaded_Single(t) ==
    LET st == thread[t]
    IN  /\ st.pc = "loaded"
        /\ cache' = [cache EXCEPT !.nodes[st.got[st.i]].is_loaded = ~IsCross(st)]
        /\ Ready(t, st, cache.nodes)
        /\ UNCHANGED opened

SetLoaded(t) ==
    LET st == thread[t]
    IN  /\ st.pc = "loaded"
        /\ cache' = [cache EXCEPT !.nodes[st.got[st.i]].is_loaded = TRUE]
        /\ Ready(t, st, cache.nodes)
        /\ UNCHANGED opened

\* Mutant of ExitRead: only the pages this thread has loaded are released.
ExitRead_Mine(t) ==
    LET st == thread[t]
        own == [i \in {j \in 1..Len(st.got) : st.mine[j]} |-> st.got[i]]
    IN  /\ st.pc = "exit"
        /\ cache' = UnpinAll(cache, SetToSeq({own[i] : i \in DOMAIN own}))
        /\ Idle(t)
        /\ UNCHANGED opened

\* The end of a read over several pages: all are released under one lock.
ExitRead(t) ==
    /\ thread[t].pc = "exit"
    /\ cache' = UnpinAll(cache, thread[t].got)
    /\ Idle(t)
    /\ UNCHANGED opened

\* discard_impl, by the destructor of the buffer.
discard(t) ==
    /\ thread[t].pc = "pinned"
    /\ cache' = Unpin(cache, thread[t].got[1])
    /\ Idle(t)
    /\ UNCHANGED opened

----------------------------------------------------------------------------
Reading(t) == ReadPage(t) \/ WaitLoaded(t) \/ Load(t) \/ LoadFails(t) \/ SetLoaded(t) \/ ExitRead(t)

StartRead(t) ==
    \E fi \in DOMAIN cache.file, first \in 0..FilePages - 1, span \in Spans :
        pread(t, fi, first, span)

\* No more files to open and all closed.
Stopped == opened = MaxOpen /\ (\A fi \in DOMAIN cache.file : ~IsOpen(fi)) /\ UNCHANGED vars

Next ==
    \/ open
    \/ \E fi \in DOMAIN cache.file : close(fi)
    \/ \E t \in Threads : StartRead(t) \/ Reading(t) \/ discard(t)
    \/ Stopped

Spec == Init /\ [][Next]_vars

\* A thread inside pread keeps running; nobody has to start a read or discard a buffer.
FairSpec == Spec /\ \A t \in Threads : WF_vars(Reading(t))

\* Threads are interchangeable.
Symmetry == Permutations(Threads)

----------------------------------------------------------------------------
(* Properties *)

\* Reference counts and busypage_num stay within what the threads and pages allow, the
\* links within the nodes.
LruTypeOK ==
    /\ \A p \in Pages : /\ cache.nodes[p].ref_count \in 0..Cardinality(Threads)
                        /\ cache.nodes[p].lru_next \in 0..PageNum /\ cache.nodes[p].lru_prev \in 0..PageNum
    /\ cache.busypage_num \in 0..PageNum
    /\ \A t \in Threads : thread[t].pc \in
          {"idle", "read", "wait", "load", "loaded", "exit", "pinned"}

\* Thread t has a reference to page p.
Holds(t, p) == thread[t].pc # "idle" /\ p \in ToSet(thread[t].got)

\* A buffer shows the page it was asked for as long as it is held, whatever the others
\* load, evict and close.
PinnedIsKept ==
    \A t \in Threads : thread[t].pc = "pinned" =>
        LET n == cache.nodes[thread[t].got[1]]
        IN  n.key = thread[t].keys[1] /\ n.content = n.key

\* What a read over several pages has copied so far are the pages it was asked for.
CopiedIsRight ==
    \A t \in Threads : thread[t].pc # "idle" =>
        thread[t].out = SubSeq(thread[t].keys, 1, Len(thread[t].out))

\* A read over several pages returns all of them.
CopiesAll ==
    \A t \in Threads : (thread[t].pc = "exit" /\ ~thread[t].failed) => thread[t].out = thread[t].keys

\* The reference counts are the references that are held, so that a page can always be
\* evicted again after its last reader.
RefsAreHeld ==
    \A p \in Pages : cache.nodes[p].ref_count = Cardinality({t \in Threads : Holds(t, p)})

\* The pages of a closed file have no references (alloc_page asserts it of the one it
\* takes).
ClosedIsUnused ==
    \A fi \in ToSet(cache.freelist) :
        \A p \in ToSet(cache.file[fi].pages) : cache.nodes[p].ref_count = 0

\* The LRU list is a ring through node 0 of exactly the pages without references.
LruIsFree ==
    LET nodes == cache.nodes
        walk[i \in 0..PageNum + 1] == IF i = 0 THEN 0 ELSE nodes[walk[i - 1]].lru_next
        free == {p \in Pages : nodes[p].ref_count = 0}
    IN  /\ {walk[i] : i \in 0..Cardinality(free)} = free \cup {0}
        /\ walk[Cardinality(free) + 1] = 0
        /\ \A p \in free \cup {0} : nodes[nodes[p].lru_next].lru_prev = p

\* Every reference is given back once, and with the last one the page returns to the list.
PagesComeBack == RefsAreHeld /\ LruIsFree

\* The books of the files agree: every page with a key is in the ring of its file and in
\* no other, each page of a file is cached once, pgcnt and busypage_num count right, and
\* the closed files that still have pages are the ones on the free list.
BooksAgree ==
    LET file == cache.file
        pending == {fi \in DOMAIN file : file[fi].is_pending_drop}
    IN  /\ \A fi \in DOMAIN file :
              /\ file[fi].pgcnt = Len(file[fi].pages)
              /\ ToSet(file[fi].pages) = {p \in Pages : cache.nodes[p].key # NoKey /\ cache.nodes[p].key[1] = fi}
        /\ \A p, q \in Pages : cache.nodes[p].key = cache.nodes[q].key => p = q \/ cache.nodes[p].key = NoKey
        /\ \A p \in Pages : cache.nodes[p].key # NoKey => cache.nodes[p].key[1] \in DOMAIN file
        /\ pending = ToSet(cache.freelist) /\ Len(cache.freelist) = Cardinality(pending)
        /\ \A fi \in pending : file[fi].pages # <<>>
        /\ cache.busypage_num =
             Cardinality(UNION {ToSet(file[fi].pages) : fi \in DOMAIN file \ pending})

\* A page that is not loaded is being loaded: whoever waits for it has somebody to wait
\* for.
LoadingHasLoader ==
    \A p \in Pages : (cache.nodes[p].key # NoKey /\ ~cache.nodes[p].is_loaded) =>
        \E t \in Threads : /\ thread[t].pc # "idle"
                           /\ \E i \in DOMAIN thread[t].got :
                                thread[t].got[i] = p /\ thread[t].mine[i] /\ i >= thread[t].i

\* pread returns: no two threads wait for each other's pages for ever.
PreadReturns == \A t \in Threads : thread[t].pc = "read" ~> thread[t].pc \in {"idle", "pinned"}
=============================================================================
