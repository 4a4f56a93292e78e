------------------------------ MODULE CsppIter ------------------------------
(***************************************************************************)
(* Iterators of the Patricia trie beside its one writer (fsa/cspptrie.cpp: *)
(* insert_one_writer and IterImpl).                                        *)
(*                                                                         *)
(* The writer never changes a node that can be reached, except for a slot  *)
(* of a child in the parent and for the fast nodes: it puts a changed copy *)
(* behind the parent's slot.  An iterator keeps a stack of the nodes it    *)
(* came through, reads one node at a time and goes on in the nodes on its  *)
(* stack, whether they still are in the trie or not; its token keeps       *)
(* retired nodes allocated (CsppReclaim).                                  *)
(*                                                                         *)
(* A node is what its layout (n_cnt_type 0 to 8, 15) encodes: labels in    *)
(* ascending order with their children.  A fast node has a slot for every  *)
(* byte, nil if there is no child.                                         *)
(***************************************************************************)
EXTENDS Naturals, Sequences, SequencesExt, FiniteSets, FiniteSetsExt, TLC

CONSTANTS
    MaxByte,      \* the bytes are 0..MaxByte
    NewWords,     \* words the writer may insert
    LoadWords,    \* words that are inserted before the iterator starts
    SeekKeys,     \* keys of seek_lower_bound
    PrefixKeys,   \* keys of seek_max_prefix
    FastMin,      \* children of a node without zpath that becomes a fast node (64)
    MaxZpath,     \* PT_MAX_ZPATH
    PoolNodes,    \* room of the pool, in nodes
    IterOps,      \* bound: operations of the iterator
    ConLevels     \* of SingleThreadShared, OneWriteMultiRead

VARIABLES
    trie,    \* the nodes, initial_state first
    toLoad,  \* the words still to be loaded
    put,     \* the words whose insert has taken effect (history)
    counts,   \* m_n_words, m_max_word_len
    level,   \* m_writing_concurrent_level
    stack,   \* m_iter
    text,    \* m_word
    iop,     \* the iterator's operation: where it is, its locals, its result
    seen,    \* the words in the trie when the iterator was placed (history)
    iops     \* operations done

iterVars == <<trie, toLoad, put, counts, level, stack, text, iop, seen, iops>>

ByteSeq == [i \in 1..(MaxByte + 1) |-> i - 1]

initial_state == 1
nil_state == 0

PatriciaNode(z, f, ls, cs) == [zpath |-> z, final |-> f, fast |-> FALSE, label |-> ls, child |-> cs]

\* new_root: a fast node without children.
RootNode == [PatriciaNode(<<>>, FALSE, ByteSeq, [i \in DOMAIN ByteSeq |-> nil_state])
               EXCEPT !.fast = TRUE]

----------------------------------------------------------------------------
(* Children *)

Kids(p) == {i \in DOMAIN p.child : p.child[i] # nil_state}

\* The child at index i, counted from 1: its label, its node, nth_child.
ChildAt(p, i) == [ch |-> p.label[i], to |-> p.child[i], nth |-> i - 1]
NoChildAt == [ch |-> 0, to |-> nil_state, nth |-> 0]

first_child(p) == IF Kids(p) = {} THEN NoChildAt ELSE ChildAt(p, Min(Kids(p)))
last_child(p)  == IF Kids(p) = {} THEN NoChildAt ELSE ChildAt(p, Max(Kids(p)))

\* The first child whose label is at least c, the last one whose label is below c.
LowerChild(p, c) ==
    LET S == {i \in Kids(p) : p.label[i] >= c} IN IF S = {} THEN NoChildAt ELSE ChildAt(p, Min(S))
ChildBelow(p, c) ==
    LET S == {i \in Kids(p) : p.label[i] < c} IN IF S = {} THEN NoChildAt ELSE ChildAt(p, Max(S))

state_move(p, c) ==
    LET x == LowerChild(p, c) IN IF x.to # nil_state /\ x.ch = c THEN x ELSE NoChildAt

\* How many bytes of z the key has from pos on.
ZpathMatch(z, key, pos) ==
    Max({i \in 0..Min({Len(z), Len(key) - pos}) : SubSeq(z, 1, i) = SubSeq(key, pos + 1, pos + i)})

Rest(q, i) == SubSeq(q, i, Len(q))

----------------------------------------------------------------------------
(* insert_one_writer *)

\* The search: the node where the key ends or leaves the trie, how far key and zpath
\* matched, what has to be done, and the slot of the parent that holds the node.
FindPlace(key) ==
    LET find[c \in DOMAIN trie, pos \in 0..Len(key), up \in 0..Len(trie), slot \in 0..(MaxByte + 1)] ==
          LET p == trie[c]
              m == ZpathMatch(p.zpath, key, pos)
              at == pos + m
              x == state_move(p, key[at + 1])
              Here(k) == [kind |-> k, curr |-> c, pos |-> at, zidx |-> m, up |-> up, slot |-> slot]
          IN  CASE m < Len(p.zpath) -> Here(IF at = Len(key) THEN "split" ELSE "fork")
                [] m = Len(p.zpath) /\ at = Len(key) -> Here(IF p.final THEN "dup" ELSE "final")
                [] OTHER -> IF x.to = nil_state THEN Here("add") ELSE find[x.to, at + 1, c, x.nth + 1]
    IN  find[initial_state, 0, 0, 0]

\* new_suffix_chain: link nodes of MaxZpath bytes and a label each, then the final node.
Links(n) == n \div (MaxZpath + 1)
new_suffix_chain(suffix, at) ==
    LET w == MaxZpath + 1
        n == Links(Len(suffix))
    IN  [i \in 1..(n + 1) |->
           IF i <= n
           THEN PatriciaNode(SubSeq(suffix, (i - 1) * w + 1, i * w - 1), FALSE,
                             <<suffix[i * w]>>, <<at + i>>)
           ELSE PatriciaNode(Rest(suffix, n * w + 1), TRUE, <<>>, <<>>)]

\* The place of label c among the labels: idx of insert_child.
LabelIndex(p, c) == Cardinality({i \in DOMAIN p.label : p.label[i] < c}) + 1

\* A copy with one child more, as a fast node if it has enough children and no zpath.
add_state_move(p, c, to) ==
    LET i == LabelIndex(p, c)
        q == [p EXCEPT !.label = InsertAt(@, i, c), !.child = InsertAt(@, i, to)]
    IN  IF Len(p.child) >= FastMin /\ p.zpath = <<>>
        THEN [q EXCEPT !.fast = TRUE, !.label = ByteSeq,
                       !.child = [b \in DOMAIN ByteSeq |-> state_move(q, b - 1).to]]
        ELSE q

\* The copy that keeps what is behind the byte of the zpath where the key ends or leaves.
SuffixNode(p, zidx) == [p EXCEPT !.zpath = Rest(@, zidx + 2)]

fork(p, zidx, c, old, new) ==
    LET o == p.zpath[zidx + 1]
        z == SubSeq(p.zpath, 1, zidx)
    IN  IF o < c THEN PatriciaNode(z, FALSE, <<o, c>>, <<old, new>>)
        ELSE PatriciaNode(z, FALSE, <<c, o>>, <<new, old>>)

split_zpath(p, zidx, old) ==
    PatriciaNode(SubSeq(p.zpath, 1, zidx), TRUE, <<p.zpath[zidx + 1]>>, <<old>>)

\* The nodes an insert allocates, in order; the last one replaces the node, if it is not
\* fast.
NewNodes(key, s) ==
    LET p == trie[s.curr]
        at == Len(trie) + 1
        chain == new_suffix_chain(Rest(key, s.pos + 2), at)
        old == Append(chain, SuffixNode(p, s.zidx))
    IN  CASE s.kind = "add" -> IF p.fast THEN chain
                               ELSE Append(chain, add_state_move(p, key[s.pos + 1], at))
          [] s.kind = "fork" -> Append(old, fork(p, s.zidx, key[s.pos + 1], at + Len(chain), at))
          [] s.kind = "split" -> <<SuffixNode(p, s.zidx), split_zpath(p, s.zidx, at)>>
          [] s.kind = "final" -> IF p.fast THEN <<>> ELSE <<[p EXCEPT !.final = TRUE]>>

\* update_curr_ptr: the parent's slot.  A fast node is changed in place: the slot of the
\* new child, the final flag.
Publish(t, key, s) ==
    LET p == trie[s.curr]
    IN  CASE ~p.fast -> [t EXCEPT ![s.up].child[s.slot] = Len(t)]
          [] p.fast /\ s.kind = "add" -> [t EXCEPT ![s.curr].child[key[s.pos + 1] + 1] = Len(trie) + 1]
          [] OTHER -> [t EXCEPT ![s.curr].final = TRUE]

\* m_n_words; m_max_word_len is not raised for the final flag of a fast node.
CountWord(c, key, s) ==
    [words |-> c.words + 1,
     longest |-> IF s.kind = "final" /\ trie[s.curr].fast THEN c.longest
                 ELSE Max({c.longest, Len(key)})]

\* The search and the changes nobody sees belong to one step with the store that publishes
\* them.  Without room nothing changes (m_value = NULL).
insert_one_writer(key) ==
    LET s == FindPlace(key)
        new == NewNodes(key, s)
    IN  IF s.kind = "dup" \/ Len(trie) + Len(new) > PoolNodes
        THEN UNCHANGED <<trie, counts, put>>
        ELSE /\ trie' = Publish(trie \o new, key, s)
             /\ counts' = CountWord(counts, key, s)
             /\ put' = put \cup {key}

----------------------------------------------------------------------------
(* The words of the trie *)

Words ==
    LET below[c \in DOMAIN trie] ==
          LET p == trie[c]
          IN  {p.zpath \o w : w \in
                 (IF p.final THEN {<<>>} ELSE {})
                   \cup UNION {{<<p.label[i]>> \o v : v \in below[p.child[i]]} : i \in Kids(p)}}
    IN  below[initial_state]

WordLess(a, b) ==
    \/ IsStrictPrefix(a, b)
    \/ \E i \in 1..Min({Len(a), Len(b)}) : a[i] < b[i] /\ SubSeq(a, 1, i - 1) = SubSeq(b, 1, i - 1)

----------------------------------------------------------------------------
(* IterImpl *)

\* Entry: state, n_children, nth_child, zpath_len.
Entry(c, nth) == [state |-> c, n |-> Len(trie[c].child), nth |-> nth, zlen |-> Len(trie[c].zpath)]
has_next(e) == e.nth + 1 < e.n
Top == stack[Len(stack)]

\* m_word.data()[i], zero behind the word.
CharAt(i) == IF i <= Len(text) THEN text[i] ELSE 0

\* op and key: what is asked; old: the word before; at: what the next step does; curr,
\* pos: node and place in the key; top, len: size of stack and word that are kept.
IdleOp == [op |-> "none", key |-> <<>>, old |-> <<>>, valid |-> FALSE, at |-> "idle", curr |-> nil_state,
           pos |-> 0, top |-> 0, len |-> 0, ok |-> FALSE]

Finish(ok) == iop' = [iop EXCEPT !.at = "done", !.ok = ok]
GoOn(at, c) == iop' = [iop EXCEPT !.at = at, !.curr = c]

\* reset1, and the operation returns false.
NotFound == stack' = <<>> /\ text' = <<>> /\ Finish(FALSE)

\* append_lex_min_suffix, one node: to its first child until there is a word.
AppendMin ==
    LET p == trie[iop.curr]
        x == first_child(p)
    IN  /\ iop.at = "min"
        /\ stack' = Append(stack, Entry(iop.curr, 0))
        /\ IF x.to = nil_state \/ p.final
           THEN text' = text \o p.zpath /\ Finish(TRUE)
           ELSE text' = text \o p.zpath \o <<x.ch>> /\ GoOn("min", x.to)

\* append_lex_max_suffix, one node: to its last child until there is none.  seek_end
\* returns whether the node at the end is final.
AppendMax ==
    LET p == trie[iop.curr]
        x == last_child(p)
    IN  /\ iop.at = "max"
        /\ IF x.to = nil_state
           THEN /\ stack' = Append(stack, Entry(iop.curr, 0))
                /\ text' = text \o p.zpath
                /\ Finish(iop.op = "end" => p.final)
           ELSE /\ stack' = Append(stack, Entry(iop.curr, Len(p.child) - 1))
                /\ text' = text \o p.zpath \o <<x.ch>>
                /\ GoOn("max", x.to)

----------------------------------------------------------------------------
(* seek_lower_bound *)

\* The node where the key ends, or whose words are all above the key: its first word.
CurrMinSuffix(c, st, tx) ==
    LET p == trie[c]
        x == first_child(p)
    IN  IF p.final
        THEN stack' = Append(st, Entry(c, 0)) /\ text' = tx \o p.zpath /\ Finish(TRUE)
        ELSE IF x.to = nil_state THEN NotFound
        ELSE /\ stack' = Append(st, Entry(c, 0))
             /\ text' = tx \o p.zpath \o <<x.ch>>
             /\ GoOn("min", x.to)

\* What the zpath says: the words of this node are above the key, below it, or it depends
\* on the children.
ZpathSays(p, key, pos) ==
    LET m == ZpathMatch(p.zpath, key, pos)
    IN  CASE pos + m = Len(key) -> "above"
          [] m < Len(p.zpath) /\ pos + m < Len(key) ->
               IF key[pos + m + 1] < p.zpath[m + 1] THEN "above" ELSE "below"
          [] OTHER -> "children"

\* seek_lower_bound_slow at one node: on to the child with the byte of the key, to the
\* first word of the next child, or back to the nodes above.
SeekSlow ==
    LET p == trie[iop.curr]
        says == ZpathSays(p, iop.key, iop.pos)
        at == iop.pos + Len(p.zpath)
        x == LowerChild(p, iop.key[at + 1])
    IN  /\ iop.at = "slow"
        /\ CASE says = "above" -> CurrMinSuffix(iop.curr, stack, text)
             [] says = "below" -> GoOn("rewind", iop.curr) /\ UNCHANGED <<stack, text>>
             [] says = "children" ->
                  IF x.to = nil_state
                  THEN IF p.fast /\ text = <<>> THEN NotFound
                       ELSE GoOn("rewind", iop.curr) /\ UNCHANGED <<stack, text>>
                  ELSE /\ stack' = Append(stack, Entry(iop.curr, x.nth))
                       /\ text' = text \o p.zpath \o <<x.ch>>
                       /\ IF x.ch = iop.key[at + 1]
                          THEN iop' = [iop EXCEPT !.curr = x.to, !.pos = at + 1]
                          ELSE GoOn("min", x.to)

\* seek_lower_bound_fast looks for the child in a switch of its own.
FastChild(p, c) == LowerChild(p, c)

\* seek_lower_bound_fast at one node: top and len are ip and wp, into buffers that hold
\* what the last operation left.
SeekFast ==
    LET p == trie[iop.curr]
        says == ZpathSays(p, iop.key, iop.pos)
        at == iop.pos + Len(p.zpath)
        x == FastChild(p, iop.key[at + 1])
        st == SubSeq(stack, 1, iop.top)
        tx == SubSeq(text, 1, iop.len)
        RewindStackForNext == stack' = st /\ text' = tx /\ GoOn("rewind", iop.curr)
    IN  /\ iop.at = "fast"
        /\ CASE says = "above" -> CurrMinSuffix(iop.curr, st, tx)
             [] says = "below" -> RewindStackForNext
             [] says = "children" ->
                  IF x.to = nil_state
                  THEN IF iop.curr = initial_state THEN NotFound ELSE RewindStackForNext
                  ELSE /\ stack' = Append(st, Entry(iop.curr, x.nth))
                       /\ text' = tx \o p.zpath \o <<x.ch>>
                       /\ IF x.ch = iop.key[at + 1]
                          THEN iop' = [iop EXCEPT !.curr = x.to, !.pos = at + 1, !.top = @ + 1,
                                                  !.len = @ + Len(p.zpath) + 1]
                          ELSE GoOn("min", x.to)

\* The child after the one at entry e whose label was c: the next one by number, in a
\* fast node the next slot in use.
NextChild(e, c) ==
    LET p == trie[e.state] IN IF p.fast THEN LowerChild(p, c + 1) ELSE ChildAt(p, e.nth + 2)

\* rewind_stack_for_next: the next child of the node on top of the stack, or pop it.
Rewind ==
    LET e == Top
        x == NextChild(e, text[Len(text)])
        Pop == /\ stack' = Front(stack)
               /\ text' = SubSeq(text, 1, Len(text) - e.zlen - 1)
               /\ UNCHANGED iop
    IN  /\ iop.at = "rewind"
        /\ IF ~has_next(e) \/ x.to = nil_state
           THEN IF Len(stack) = 1 THEN NotFound ELSE Pop
           ELSE /\ stack' = [stack EXCEPT ![Len(stack)].nth = x.nth]
                /\ text' = [text EXCEPT ![Len(text)] = x.ch]
                /\ GoOn("min", x.to)

----------------------------------------------------------------------------
(* incr, decr, seek_max_prefix *)

\* incr at the current node: its first child, if it has one.
Incr ==
    LET x == first_child(trie[Top.state])
    IN  /\ iop.at = "incr"
        /\ IF x.to # nil_state
           THEN text' = Append(text, x.ch) /\ GoOn("min", x.to)
           ELSE iop' = [iop EXCEPT !.at = "next", !.top = Len(stack), !.len = Len(text)]
                /\ UNCHANGED text
        /\ UNCHANGED stack

\* One round of incr's loops up the stack.
IncrUp ==
    LET t == iop.top
        e == stack[t]
        x == NextChild(e, CharAt(iop.len + 1))
    IN  /\ iop.at = "next"
        /\ IF has_next(e) /\ x.to # nil_state
           THEN /\ stack' = Append(SubSeq(stack, 1, t - 1), [e EXCEPT !.nth = x.nth])
                /\ text' = Append(SubSeq(text, 1, iop.len), x.ch)
                /\ GoOn("min", x.to)
           ELSE IF t = 1 THEN NotFound
           ELSE iop' = [iop EXCEPT !.top = t - 1, !.len = @ - e.zlen - 1] /\ UNCHANGED <<stack, text>>

\* decr at the current node: its parent, if it has one.
Decr ==
    /\ iop.at = "decr"
    /\ IF Len(stack) = 1 THEN NotFound
       ELSE iop' = [iop EXCEPT !.at = "prev", !.top = Len(stack) - 1, !.len = Len(text) - Top.zlen - 1]
            /\ UNCHANGED <<stack, text>>

\* The word that ends at entry t.
StopAt(t) ==
    /\ stack' = Append(SubSeq(stack, 1, t - 1), [stack[t] EXCEPT !.nth = 0])
    /\ text' = SubSeq(text, 1, iop.len)
    /\ Finish(TRUE)

\* The child before the one at entry e whose label was c.
PrevChild(e, c) ==
    LET p == trie[e.state]
    IN  IF e.nth = 0 THEN NoChildAt ELSE IF p.fast THEN ChildBelow(p, c) ELSE ChildAt(p, e.nth)

\* Mutant: the words that end at the nodes on the stack are passed over.
DecrUp_LeavesOnly ==
    LET t == iop.top
        e == stack[t]
        x == PrevChild(e, CharAt(iop.len + 1))
    IN  /\ iop.at = "prev"
        /\ IF x.to # nil_state
           THEN /\ stack' = Append(SubSeq(stack, 1, t - 1), [e EXCEPT !.nth = x.nth])
                /\ text' = Append(SubSeq(text, 1, iop.len), x.ch)
                /\ GoOn("max", x.to)
           ELSE IF t = 1 THEN NotFound
           ELSE iop' = [iop EXCEPT !.top = t - 1, !.len = @ - e.zlen - 1] /\ UNCHANGED <<stack, text>>

\* One round of decr's loop up the stack: the last word before the previous child's end,
\* or the word that ends here, or further up.
DecrUp ==
    LET t == iop.top
        e == stack[t]
        x == PrevChild(e, CharAt(iop.len + 1))
    IN  /\ iop.at = "prev"
        /\ IF x.to # nil_state
           THEN /\ stack' = Append(SubSeq(stack, 1, t - 1), [e EXCEPT !.nth = x.nth])
                /\ text' = Append(SubSeq(text, 1, iop.len), x.ch)
                /\ GoOn("max", x.to)
           ELSE IF trie[e.state].final THEN StopAt(t)
           ELSE IF t = 1 THEN NotFound
           ELSE iop' = [iop EXCEPT !.top = t - 1, !.len = @ - e.zlen - 1] /\ UNCHANGED <<stack, text>>

\* RestoreLastMatch: the longest word on the way; pos is what is returned.
RestoreLastMatch(st, top, len, pos) ==
    /\ stack' = IF top = 0 THEN <<>> ELSE [SubSeq(st, 1, top) EXCEPT ![top].nth = 0]
    /\ text' = SubSeq(iop.key, 1, len)
    /\ iop' = [iop EXCEPT !.at = "done", !.ok = top # 0, !.pos = pos]

\* seek_max_prefix at one node.  A node without children is not expected (TERARK_DIE).
MaxPrefix ==
    LET p == trie[iop.curr]
        st == Append(stack, Entry(iop.curr, 0))
        m == ZpathMatch(p.zpath, iop.key, iop.pos)
        at == iop.pos + m
        whole == m = Len(p.zpath)
        top == IF whole /\ p.final THEN Len(st) ELSE iop.top
        len == IF whole /\ p.final THEN at ELSE iop.len
        x == state_move(p, iop.key[at + 1])
    IN  /\ iop.at = "prefix"
        /\ IF ~whole \/ at = Len(iop.key) THEN RestoreLastMatch(st, top, len, at)
           ELSE IF p.child = <<>> THEN iop' = [iop EXCEPT !.at = "died"] /\ UNCHANGED <<stack, text>>
           ELSE IF x.to = nil_state THEN RestoreLastMatch(st, top, len, at)
           ELSE /\ stack' = [st EXCEPT ![Len(st)].nth = x.nth]
                /\ iop' = [iop EXCEPT !.curr = x.to, !.pos = at + 1, !.top = top, !.len = len]
                /\ UNCHANGED text

----------------------------------------------------------------------------
(* The operations *)

\* A seek places the iterator anew.
Start(op, key, at) ==
    /\ iop.at = "idle" /\ iops < IterOps /\ toLoad = <<>>
    /\ iop' = [IdleOp EXCEPT !.op = op, !.key = key, !.old = text, !.valid = (stack # <<>>),
                             !.at = at, !.curr = initial_state]
    /\ seen' = IF op \in {"incr", "decr"} THEN seen ELSE Words
    /\ iops' = iops + 1
    /\ UNCHANGED <<trie, toLoad, put, counts, level>>

\* The slow way begins with reset1, the fast one in the old buffers.
seek_lower_bound(key) ==
    \/ /\ level = "SingleThreadShared"
       /\ Start("lower", key, "fast")
       /\ UNCHANGED <<stack, text>>
    \/ /\ level = "OneWriteMultiRead"
       /\ Start("lower", key, "slow")
       /\ stack' = <<>> /\ text' = <<>>

seek_begin == seek_lower_bound(<<>>)

seek_end == Start("end", <<>>, "max") /\ stack' = <<>> /\ text' = <<>>

\* An iterator that is nowhere stays there.
incr == Start("incr", <<>>, IF stack = <<>> THEN "done" ELSE "incr") /\ UNCHANGED <<stack, text>>
decr == Start("decr", <<>>, IF stack = <<>> THEN "done" ELSE "decr") /\ UNCHANGED <<stack, text>>

seek_max_prefix(key) == Start("prefix", key, "prefix") /\ stack' = <<>> /\ text' = <<>>

IterReturn ==
    /\ iop.at = "done"
    /\ iop' = IdleOp
    /\ UNCHANGED <<trie, toLoad, put, counts, level, stack, text, seen, iops>>

IterCall ==
    \/ \E k \in SeekKeys : seek_lower_bound(k)
    \/ seek_begin \/ seek_end \/ incr \/ decr
    \/ \E k \in PrefixKeys : seek_max_prefix(k)

IterStep ==
    /\ \/ AppendMin \/ AppendMax \/ SeekSlow \/ SeekFast \/ Rewind
       \/ Incr \/ IncrUp \/ Decr \/ DecrUp \/ MaxPrefix
    /\ UNCHANGED <<trie, toLoad, put, counts, level, seen, iops>>

\* The trie is loaded word by word.
LoadWord ==
    /\ toLoad # <<>>
    /\ insert_one_writer(Head(toLoad))
    /\ toLoad' = Tail(toLoad)
    /\ UNCHANGED <<level, stack, text, iop, seen, iops>>

\* With SingleThreadShared the writer is the iterator's thread.
Write ==
    /\ toLoad = <<>>
    /\ level = "OneWriteMultiRead" \/ iop.at = "idle"
    /\ \E k \in NewWords : insert_one_writer(k)
    /\ UNCHANGED <<toLoad, level, stack, text, iop, seen, iops>>

IterInit ==
    /\ trie = <<RootNode>> /\ toLoad = LoadWords /\ put = {}
    /\ counts = [words |-> 0, longest |-> 0]
    /\ level \in ConLevels
    /\ stack = <<>> /\ text = <<>> /\ iop = IdleOp /\ seen = {} /\ iops = 0

IterNext == LoadWord \/ Write \/ IterCall \/ IterStep \/ IterReturn

IterSpec == IterInit /\ [][IterNext]_iterVars

----------------------------------------------------------------------------
(* Properties *)

\* The trie holds the words whose insert took effect, m_n_words counts them, and
\* m_max_word_len covers them: the fast seek sizes its buffers by it and does not look at
\* their ends.
TrieHolds ==
    /\ Words = put
    /\ counts.words = Cardinality(put)
    /\ \A w \in put : Len(w) <= counts.longest
    /\ level = "SingleThreadShared" /\ iop.op = "lower" =>
          Len(stack) < counts.longest + 2 /\ Len(text) < counts.longest + 2

\* Words the iterator had to find between lo and hi: they were there when it was placed.
Skipped(lo, hi) == {w \in seen : WordLess(lo, w) /\ WordLess(w, hi)}

CommonPrefix(v, w) == ZpathMatch(v, w, 0)

\* What an operation leaves is a cursor in the sorted words: it stands at a word of the
\* trie, on the side that was asked for, and no word that was there when the iterator was
\* placed lies between; it says there is none only if there was none.
CursorRight ==
    iop.at = "done" =>
        LET ok == iop.ok
            key == iop.key
            Ge(w) == ~WordLess(w, key)
        IN  /\ ok => text \in put
            /\ iop.op = "lower" =>
                  IF ok THEN Ge(text) /\ \A w \in seen : Ge(w) => ~WordLess(w, text)
                  ELSE \A w \in seen : ~Ge(w)
            /\ iop.op = "end" => IF ok THEN \A w \in seen : ~WordLess(text, w) ELSE seen = {}
            /\ iop.op = "incr" /\ iop.valid =>
                  IF ok THEN WordLess(iop.old, text) /\ Skipped(iop.old, text) = {}
                  ELSE \A w \in seen : ~WordLess(iop.old, w)
            /\ iop.op = "decr" /\ iop.valid =>
                  IF ok THEN WordLess(text, iop.old) /\ Skipped(text, iop.old) = {}
                  ELSE \A w \in seen : ~WordLess(w, iop.old)
            /\ iop.op \in {"incr", "decr"} /\ ~iop.valid => ~ok
            /\ iop.op = "prefix" =>
                  /\ ok => IsPrefix(text, key)
                  /\ \A w \in seen : IsPrefix(w, key) => ok /\ Len(w) <= Len(text)
                  /\ \A w \in seen : CommonPrefix(w, key) <= iop.pos
                  /\ iop.pos = 0 \/ \E w \in put : CommonPrefix(w, key) >= iop.pos

IterRight == TrieHolds /\ CursorRight

\* seek_max_prefix returns for every key.
PrefixReturns == iop.at # "died"
=============================================================================
