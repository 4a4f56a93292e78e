----------------------------- MODULE CsppInsert -----------------------------
(***************************************************************************)
(* Concurrent insert and lookup in the Patricia trie (fsa/cspptrie.cpp,    *)
(* insert_multi_writer and lookup).                                        *)
(*                                                                         *)
(* A writer searches without locks, prepares a copy of the node it wants   *)
(* to change, locks the parent (FLAG_lock), marks the old node             *)
(* (FLAG_lazy_free), compares the old node's children with what it had     *)
(* read, and swings the parent's child pointer to the copy with a CAS.     *)
(* Whatever it finds in its way makes it free its copies and search anew.  *)
(* Readers follow the child pointers and look at no flag.                  *)
(*                                                                         *)
(* One action per access to memory another thread can change.  Children    *)
(* are copied in one step: a child pointer never gets an old value back    *)
(* while a token is held, so that a torn copy differs from what the        *)
(* compare finds.  The root is a fast node (one slot per label); other     *)
(* fast nodes need 64 children and are left out.  Retired nodes are not    *)
(* reused here: see CsppReclaim.                                           *)
(***************************************************************************)
EXTENDS Naturals, Sequences, FiniteSets, FiniteSetsExt, Functions, TLC

CONSTANTS
    Writers, Readers,
    Label,        \* the bytes of a key
    Keys,         \* the keys that are inserted and looked up
    LoadKeys,     \* the keys in the trie before the other threads start
    Loader,       \* the writer that inserts them
    InitFails,    \* whether init_value of the writers' tokens may fail
    AllocFails,   \* whether the pool may have no room for a node while there is some elsewhere
    MaxZpath,     \* PT_MAX_ZPATH
    MaxNode,      \* size of the pool: the nodes are 1..MaxNode
    MaxInserts,   \* bound: inserts per writer after the load
    MaxLookups    \* bound: lookups per reader

ASSUME InsertAssumption ==
    /\ Loader \in Writers /\ Writers \cap Readers = {}
    /\ Keys \subseteq Seq(Label) /\ LoadKeys \in Seq(Keys)
    /\ InitFails \in BOOLEAN /\ AllocFails \in BOOLEAN /\ MaxZpath \in Nat
    /\ MaxNode \in Nat /\ MaxInserts \in Nat /\ MaxLookups \in Nat

initial_state == 0
nil_state == MaxNode + 1

VARIABLES
    node,     \* the allocated nodes
    lzf,      \* the nodes on the lazy free lists
    load,     \* the keys still to be loaded
    todo,     \* per thread: operations it may still start
    pc, loc,  \* per thread: where it is, its locals
    dict      \* per key: how many inserts of it have taken effect (history)

vars == <<node, lzf, load, todo, pc, loc, dict>>

Threads == Writers \cup Readers

\* A node: compressed path, b_is_final, child slots, b_lock, b_lazy_free, b_set_final.
NewNode(z, f, c) ==
    [zpath |-> z, final |-> f, child |-> c, lock |-> FALSE, lazy |-> FALSE, set_final |-> FALSE]

NoChild == [c \in {} |-> nil_state]

\* n_cnt_type = 15.
IsFast(n) == n = initial_state

\* new_root: the fast node all threads start from.
Root == NewNode(<<>>, FALSE, [c \in Label |-> nil_state])

Free == (1..MaxNode) \ DOMAIN node

\* The locals of an operation.  kind: what the search has decided; zidx: how far the
\* zpath matched; new, old, suffix: newCurr, ni.oldSuffixNode, ni.newSuffixNode; tail and
\* rest: the last node of a chain that is being made and what of the key it still needs.
NoLocals == [key |-> <<>>, pos |-> 0, parent |-> nil_state, curr |-> initial_state,
             slot |-> nil_state, kind |-> "none", zidx |-> 0, backup |-> NoChild,
             new |-> nil_state, old |-> nil_state, suffix |-> nil_state,
             tail |-> nil_state, rest |-> <<>>,
             inited |-> FALSE, expect |-> FALSE]

Init ==
    /\ node = [n \in {initial_state} |-> Root]
    /\ lzf = {}
    /\ load = LoadKeys
    /\ todo = [t \in Threads |-> IF t \in Writers THEN MaxInserts ELSE MaxLookups]
    /\ pc = [t \in Threads |-> "out"]
    /\ loc = [t \in Threads |-> NoLocals]
    /\ dict = [k \in Keys |-> 0]

Go(t, label, l) == pc' = [pc EXCEPT ![t] = label] /\ loc' = [loc EXCEPT ![t] = l]
Goto(t, label)  == Go(t, label, loc[t])
Return(t)       == Go(t, "out", NoLocals)

\* retry: search again from the root, the value stays initialised.
Retry(t) == Go(t, "search", [NoLocals EXCEPT !.key = loc[t].key, !.inited = loc[t].inited])

Local == UNCHANGED <<node, lzf, load, todo, dict>>

\* The keys of LoadKeys are still being inserted, which does not fail.
Loading == load # <<>> \/ (pc[Loader] # "out" /\ todo[Loader] = MaxInserts)

\* init_token_value_mw: the value is initialised once per insert, however often it retries.
InitValueFails(w) == InitFails /\ ~Loading /\ ~loc[w].inited

\* How much of the zpath z the rest of the key matches.
Match(z, rest) == Max({i \in 0..Len(z) : i <= Len(rest) /\ SubSeq(z, 1, i) = SubSeq(rest, 1, i)})

From(s, i) == SubSeq(s, i, Len(s))

\* One round of the search loop at node p: what is decided, where the key is then, and
\* how far the zpath matched.
Visit(p, key, pos) ==
    LET rest == From(key, pos + 1)
        m    == Match(p.zpath, rest)
        end  == pos + m
    IN  [pos |-> end, zidx |-> m,
         kind |-> CASE m < Len(p.zpath) -> IF m = Len(rest) THEN "split" ELSE "fork"
                    [] m = Len(p.zpath) /\ end = Len(key) -> IF p.final THEN "dup" ELSE "final"
                    [] OTHER -> IF /\ key[end + 1] \in DOMAIN p.child
                                   /\ p.child[key[end + 1]] # nil_state
                                THEN "move" ELSE "add"]

----------------------------------------------------------------------------
(* insert_multi_writer: search *)

Insert(w) ==
    /\ pc[w] = "out"
    /\ IF load # <<>>
       THEN /\ w = Loader
            /\ Go(w, "search", [NoLocals EXCEPT !.key = Head(load)])
            /\ load' = Tail(load)
            /\ UNCHANGED todo
       ELSE /\ ~Loading /\ todo[w] > 0
            /\ todo' = [todo EXCEPT ![w] = @ - 1]
            /\ \E k \in Keys : Go(w, "search", [NoLocals EXCEPT !.key = k])
            /\ UNCHANGED load
    /\ UNCHANGED <<node, lzf, dict>>

\* To the child, or on to what has to be done at this node.
Search(w) ==
    LET l == loc[w]
        p == node[l.curr]
        v == Visit(p, l.key, l.pos)
        ch == l.key[v.pos + 1]
    IN  /\ pc[w] = "search"
        /\ CASE v.kind = "move" ->
                  Go(w, "search", [l EXCEPT !.parent = l.curr, !.slot = ch,
                                            !.curr = p.child[ch], !.pos = v.pos + 1])
             [] v.kind = "dup" -> Return(w)
             [] OTHER ->
                  Go(w, IF v.kind \in {"add", "fork"} THEN "chain"
                        ELSE IF IsFast(l.curr) THEN "fast_final" ELSE "backup",
                     [l EXCEPT !.kind = v.kind, !.pos = v.pos, !.zidx = v.zidx,
                               !.rest = From(l.key, v.pos + 2)])
        /\ Local

----------------------------------------------------------------------------
(* The nodes a writer makes, and what becomes of them when it fails *)

\* alloc_node.  The caches of the threads may keep what another one needs.
HasRoom == Free # {}
NoRoom == (AllocFails /\ ~Loading) \/ Free = {}

\* The nodes of a suffix chain, from its head to the final node or as far as it has come.
revoke_list(head, len) ==
    LET Next1(n) == IF node[n].final THEN {} ELSE Range(node[n].child)
        chain[k \in 0..len] ==
            IF k = 0 THEN {head} \ {nil_state}
            ELSE chain[k - 1] \cup (UNION {Next1(n) : n \in chain[k - 1]} \ {nil_state})
    IN  chain[len]

SuffixOf(t) == revoke_list(loc[t].suffix, Len(loc[t].key))

\* The nodes of a writer that nobody else has seen.
Own(t) == ({loc[t].new, loc[t].old} \ {nil_state}) \cup SuffixOf(t)

Without(S) == Restrict(node, DOMAIN node \ S)

\* The next node for what the key has after the byte at pos: as long as that is longer than a
\* zpath a node with one child, in the end a final one.
new_suffix_chain(w) ==
    LET l == loc[w]
        s == Min(Free)
        last == Len(l.rest) <= MaxZpath
        link == IF last THEN NewNode(l.rest, TRUE, NoChild)
                ELSE NewNode(SubSeq(l.rest, 1, MaxZpath), FALSE, l.rest[MaxZpath + 1] :> nil_state)
        chained == IF l.tail = nil_state THEN node
                   ELSE [node EXCEPT ![l.tail].child = [c \in DOMAIN @ |-> s]]
    IN  /\ pc[w] = "chain" /\ HasRoom
        /\ node' = chained @@ (s :> link)
        /\ Go(w, IF ~last THEN "chain" ELSE IF IsFast(l.curr) THEN "fast_init" ELSE "backup",
              [l EXCEPT !.suffix = IF @ = nil_state THEN s ELSE @,
                        !.tail = IF last THEN nil_state ELSE s,
                        !.rest = IF last THEN <<>> ELSE From(@, MaxZpath + 2)])
        /\ UNCHANGED <<lzf, load, todo, dict>>

\* Mutant of AllocNodeFails: insert_multi_writer does not revoke the suffix it has made before.
AllocNodeFails_KeepSuffix(w) ==
    /\ pc[w] \in {"chain", "old", "new"} /\ NoRoom
    /\ node' = Without({loc[w].old})
    /\ Return(w)
    /\ UNCHANGED <<lzf, load, todo, dict>>

\* No room for the next node: a chain is revoked as far as it has come, fork and split_zpath
\* free the copy of the old node, their caller and that of add_state_move revoke the suffix,
\* and the insert returns with m_value = NULL.
AllocNodeFails(w) ==
    /\ pc[w] \in {"chain", "old", "new"} /\ NoRoom
    /\ node' = Without(SuffixOf(w) \cup {loc[w].old})
    /\ Return(w)
    /\ UNCHANGED <<lzf, load, todo, dict>>

\* init_token_value_fail_clean: nothing is kept, the insert returns with m_value = NULL.
InitTokenValueFails(w) ==
    /\ InitValueFails(w)
    /\ node' = Without(Own(w))
    /\ Return(w)

----------------------------------------------------------------------------
(* The root: its slots and its final flag are set in place *)

\* The value comes before the CAS that publishes the suffix.
FastInit(w) ==
    /\ pc[w] = "fast_init"
    /\ \/ InitTokenValueFails(w)
       \/ Go(w, "fast_cas", [loc[w] EXCEPT !.inited = TRUE]) /\ UNCHANGED node
    /\ UNCHANGED <<lzf, load, todo, dict>>

\* Where another writer was first only the head of the suffix chain is freed.
FastCas(w) ==
    LET l == loc[w]
        ch == l.key[l.pos + 1]
    IN  /\ pc[w] = "fast_cas"
        /\ IF node[l.curr].child[ch] = nil_state
           THEN /\ node' = [node EXCEPT ![l.curr].child[ch] = l.suffix]
                /\ dict' = [dict EXCEPT ![l.key] = @ + 1]
                /\ Return(w)
           ELSE /\ node' = Without({l.suffix})
                /\ Retry(w)
                /\ UNCHANGED dict
        /\ UNCHANGED <<lzf, load, todo>>

\* Mutant: the old value of b_set_final is not looked at.
FastSetFinal_Plain(w) ==
    /\ pc[w] = "fast_final"
    /\ node' = [node EXCEPT ![loc[w].curr].set_final = TRUE]
    /\ Goto(w, "fast_mark")
    /\ UNCHANGED <<lzf, load, todo, dict>>

\* MarkFinalStateOnFastNode: b_set_final decides who sets the final flag.
FastSetFinal(w) == LET n == loc[w].curr IN
    /\ pc[w] = "fast_final"
    /\ node' = [node EXCEPT ![n].set_final = TRUE]
    /\ Goto(w, IF node[n].set_final THEN "fast_wait" ELSE "fast_mark")
    /\ UNCHANGED <<lzf, load, todo, dict>>

FastMarkFinal(w) ==
    /\ pc[w] = "fast_mark"
    /\ \/ InitValueFails(w) /\ UNCHANGED <<node, dict>>
       \/ /\ node' = [node EXCEPT ![loc[w].curr].final = TRUE]
          /\ dict' = [dict EXCEPT ![loc[w].key] = @ + 1]
    /\ Return(w)
    /\ UNCHANGED <<lzf, load, todo>>

\* A busy wait.
FastWaitFinal(w) ==
    /\ pc[w] = "fast_wait"
    /\ IF node[loc[w].curr].final THEN Return(w) ELSE UNCHANGED <<pc, loc>>
    /\ Local

----------------------------------------------------------------------------
(* Other nodes: copy, lock, compare, swing *)

\* The children of the node as they are before it is copied.
Backup(w) ==
    /\ pc[w] = "backup"
    /\ Go(w, IF loc[w].kind \in {"fork", "split"} THEN "old" ELSE "new",
          [loc[w] EXCEPT !.backup = node[loc[w].curr].child])
    /\ Local

\* fork and split_zpath: the copy of the node behind the byte of its zpath where the key ends
\* or leaves it.  It takes the flags with it, whatever they are.
CopyOld(w) ==
    LET l == loc[w]
        s == Min(Free)
    IN  /\ pc[w] = "old" /\ HasRoom
        /\ node' = node @@ (s :> [node[l.curr] EXCEPT !.zpath = From(@, l.zidx + 2)])
        /\ Go(w, "new", [l EXCEPT !.old = s])
        /\ UNCHANGED <<lzf, load, todo, dict>>

add_state_move(l, p) == [p EXCEPT !.child = (l.key[l.pos + 1] :> l.suffix) @@ @]
MarkFinalState(p) == [p EXCEPT !.final = TRUE]
split_zpath(l, p) == NewNode(SubSeq(p.zpath, 1, l.zidx), TRUE, p.zpath[l.zidx + 1] :> l.old)
fork(l, p) == NewNode(SubSeq(p.zpath, 1, l.zidx), FALSE,
                      (p.zpath[l.zidx + 1] :> l.old) @@ (l.key[l.pos + 1] :> l.suffix))

\* The node that is to take the place of the old one.
CopyNew(w) ==
    LET l == loc[w]
        p == node[l.curr]
        s == Min(Free)
    IN  /\ pc[w] = "new" /\ HasRoom
        /\ node' = node @@ (s :> CASE l.kind = "add" -> add_state_move(l, p) [] l.kind = "final" -> MarkFinalState(p)
                                    [] l.kind = "split" -> split_zpath(l, p) [] l.kind = "fork" -> fork(l, p))
        /\ Go(w, "check", [l EXCEPT !.new = s])
        /\ UNCHANGED <<lzf, load, todo, dict>>

\* A copy that shows the node locked or lazy freed is given up, as all are when the value
\* cannot be initialised.
CheckCopy(w) ==
    LET l == loc[w]
        p == node[IF l.kind \in {"fork", "split"} THEN l.old ELSE l.new]
    IN  /\ pc[w] = "check"
        /\ \/ (p.lock \/ p.lazy) /\ node' = Without(Own(w)) /\ Retry(w)
           \/ ~(p.lock \/ p.lazy) /\ InitTokenValueFails(w)
           \/ ~(p.lock \/ p.lazy) /\ Go(w, "lock", [l EXCEPT !.inited = TRUE]) /\ UNCHANGED node
        /\ UNCHANGED <<lzf, load, todo, dict>>

\* update_curr_ptr_concurrent: fetch_or(FLAG_lock) on the parent.
LockParent(w) == LET n == loc[w].parent IN
    /\ pc[w] = "lock"
    /\ node' = [node EXCEPT ![n].lock = TRUE]
    /\ Goto(w, IF node[n].lock \/ node[n].lazy THEN "race2" ELSE "mark")
    /\ UNCHANGED <<lzf, load, todo, dict>>

\* fetch_or(FLAG_lazy_free) on the node to be replaced.
MarkCurr(w) == LET n == loc[w].curr IN
    /\ pc[w] = "mark"
    /\ node' = [node EXCEPT ![n].lazy = TRUE]
    /\ Goto(w, IF node[n].lock \/ node[n].lazy THEN "race1" ELSE "compare")
    /\ UNCHANGED <<lzf, load, todo, dict>>

Compare(w) ==
    /\ pc[w] = "compare"
    /\ Goto(w, IF node[loc[w].curr].child = loc[w].backup THEN "cas" ELSE "race0")
    /\ Local

SwingChild(w) == LET l == loc[w] IN
    /\ pc[w] = "cas"
    /\ IF node[l.parent].child[l.slot] = l.curr
       THEN /\ node' = [node EXCEPT ![l.parent].child[l.slot] = l.new]
            /\ dict' = [dict EXCEPT ![l.key] = @ + 1]
            /\ Goto(w, "unlock")
       ELSE Goto(w, "race0") /\ UNCHANGED <<node, dict>>
    /\ UNCHANGED <<lzf, load, todo>>

\* The parent is unlocked and the old node put on the lazy free list.
UnlockParent(w) ==
    /\ pc[w] = "unlock"
    /\ node' = [node EXCEPT ![loc[w].parent].lock = FALSE]
    /\ lzf' = lzf \cup {loc[w].curr}
    /\ Return(w)
    /\ UNCHANGED <<load, todo, dict>>

RaceCondition0(w) ==
    /\ pc[w] = "race0"
    /\ node' = [node EXCEPT ![loc[w].curr].lazy = FALSE]
    /\ Goto(w, "race1")
    /\ UNCHANGED <<lzf, load, todo, dict>>

RaceCondition1(w) ==
    /\ pc[w] = "race1"
    /\ node' = [node EXCEPT ![loc[w].parent].lock = FALSE]
    /\ Goto(w, "race2")
    /\ UNCHANGED <<lzf, load, todo, dict>>

\* Everything that was made for this try is freed.
RaceCondition2(w) ==
    /\ pc[w] = "race2"
    /\ node' = Without(Own(w))
    /\ Retry(w)
    /\ UNCHANGED <<lzf, load, todo, dict>>

----------------------------------------------------------------------------
(* lookup *)

Lookup(r) ==
    /\ pc[r] = "out" /\ todo[r] > 0 /\ load = <<>>
    /\ todo' = [todo EXCEPT ![r] = @ - 1]
    /\ \E k \in Keys : Go(r, "lookup", [NoLocals EXCEPT !.key = k, !.expect = (dict[k] > 0)])
    /\ UNCHANGED <<node, lzf, load, dict>>

\* Mutant: a reader does not go through a node that is marked for lazy free.
LookupStep_Flags(r) ==
    LET l == loc[r]
        p == node[l.curr]
        v == Visit(p, l.key, l.pos)
    IN  /\ pc[r] = "lookup"
        /\ CASE v.kind = "move" /\ ~p.lazy ->
                  Go(r, "lookup", [l EXCEPT !.curr = p.child[l.key[v.pos + 1]], !.pos = v.pos + 1])
             [] v.kind = "dup" -> Goto(r, "found")
             [] OTHER -> Goto(r, "missed")
        /\ Local

LookupStep(r) ==
    LET l == loc[r]
        p == node[l.curr]
        v == Visit(p, l.key, l.pos)
    IN  /\ pc[r] = "lookup"
        /\ CASE v.kind = "move" ->
                  Go(r, "lookup", [l EXCEPT !.curr = p.child[l.key[v.pos + 1]], !.pos = v.pos + 1])
             [] v.kind = "dup" -> Goto(r, "found")
             [] OTHER -> Goto(r, "missed")
        /\ Local

LookupReturn(r) ==
    /\ pc[r] \in {"found", "missed"}
    /\ Return(r)
    /\ Local

----------------------------------------------------------------------------
update_curr_ptr(w) ==
    \/ LockParent(w) \/ MarkCurr(w) \/ Compare(w) \/ SwingChild(w) \/ UnlockParent(w)
    \/ RaceCondition0(w) \/ RaceCondition1(w) \/ RaceCondition2(w)

insert_multi_writer(w) ==
    \/ Insert(w) \/ Search(w) \/ new_suffix_chain(w) \/ AllocNodeFails(w)
    \/ Backup(w) \/ CopyOld(w) \/ CopyNew(w) \/ CheckCopy(w) \/ update_curr_ptr(w)
    \/ FastInit(w) \/ FastCas(w) \/ FastSetFinal(w) \/ FastMarkFinal(w) \/ FastWaitFinal(w)

lookup(r) == Lookup(r) \/ LookupStep(r) \/ LookupReturn(r)

\* Threads may stop between two operations.
Stopped == (\A t \in Threads : pc[t] = "out") /\ UNCHANGED vars

Next ==
    \/ \E w \in Writers : insert_multi_writer(w)
    \/ \E r \in Readers : lookup(r)
    \/ Stopped

Spec == Init /\ [][Next]_vars

\* A writer inside insert_multi_writer keeps running.
FairSpec == Spec /\ \A w \in Writers : WF_vars(pc[w] # "out" /\ insert_multi_writer(w))

----------------------------------------------------------------------------
(* Properties *)

\* What a lookup that nobody interrupts finds.
Found(k) ==
    LET find[n \in DOMAIN node, pos \in 0..Len(k)] ==
          LET v == Visit(node[n], k, pos)
          IN  CASE v.kind = "dup" -> TRUE
                [] v.kind = "move" -> find[node[n].child[k[v.pos + 1]], v.pos + 1]
                [] OTHER -> FALSE
    IN  find[initial_state, 0]

\* The nodes of the trie.
InTrie ==
    LET kids(S) == {c \in UNION {Range(node[n].child) : n \in S} : c # nil_state}
        depth == 1 + Max({Len(k) : k \in Keys})
        reach[d \in 0..depth] ==
            IF d = 0 THEN {initial_state} ELSE LET S == reach[d - 1] IN S \cup kids(S)
    IN  reach[depth]

\* Every child pointer, also of a retired or not yet published node, is nil or points to
\* memory that is allocated.
InsertTypeOK ==
    /\ DOMAIN node \subseteq 0..MaxNode /\ initial_state \in DOMAIN node
    /\ \A n \in DOMAIN node :
          /\ node[n].zpath \in Seq(Label)
          /\ {node[n].final, node[n].lock, node[n].lazy, node[n].set_final} \subseteq BOOLEAN
          /\ DOMAIN node[n].child \subseteq Label
          /\ \A c \in DOMAIN node[n].child :
                node[n].child[c] \in DOMAIN node \cup {nil_state}
    /\ lzf \subseteq DOMAIN node

\* The trie is the set of the keys whose insert has taken effect, at every moment: no
\* insert undoes another one that ran beside it, and of several inserts of one key exactly
\* one takes effect.
TrieIsSet == \A k \in Keys : dict[k] <= 1 /\ (Found(k) <=> dict[k] = 1)

\* A lookup that starts after the insert of its key took effect finds it, however much
\* of its path is replaced while it runs.
LookupSees == \A r \in Readers : pc[r] = "missed" => ~loc[r].expect

\* Every allocated node is in the trie, on a lazy free list, in a writer's hands
\* between the CAS and the list, or not yet published; and in one of these only.
NodesAccounted ==
    LET leaving == {loc[w].curr : w \in {u \in Writers : pc[u] = "unlock"}}
        own == UNION {Own(w) : w \in {u \in Writers : pc[u] # "unlock"}}
    IN  /\ DOMAIN node = InTrie \cup lzf \cup leaving \cup own
        /\ InTrie \cap (lzf \cup leaving \cup own) = {}
        /\ lzf \cap (leaving \cup own) = {}

\* A writer that waits for the final flag of a fast node has somebody to wait for.
FinalIsComing ==
    \A w \in Writers : pc[w] = "fast_wait" =>
        \/ node[loc[w].curr].final
        \/ \E u \in Writers : pc[u] = "fast_mark" /\ loc[u].curr = loc[w].curr

\* The flag FLAG_lazy_free is permanent: once set it is never cleared.
LazyFreeIsPermanent ==
    [][\A n \in DOMAIN node \cap DOMAIN node' : node[n].lazy => node'[n].lazy]_vars

\* An insert returns: a writer that meets others at its node searches again, but not for
\* ever.
InsertReturns == \A w \in Writers : pc[w] = "search" ~> pc[w] = "out"

----------------------------------------------------------------------------
(* The instance TLC checks, with binary labels: the empty key, a prefix, a fork with a   *)
(* chain of suffix nodes and a branch of its own make every case of an insert happen.    *)
(* MCKeysRoot has a chain below the root as well.                                        *)
MCKeys == {<<>>, <<0>>, <<0, 0, 0>>, <<0, 0, 1, 1, 1, 1>>, <<0, 1>>, <<1>>}
MCKeysRoot == MCKeys \cup {<<1, 1, 1, 1>>}
MCLoadKeys == <<<<0, 0, 0>>, <<0, 1>>>>
=============================================================================
