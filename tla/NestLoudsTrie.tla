---------------------------- MODULE NestLoudsTrie ----------------------------
(***************************************************************************)
(* NestLoudsTrieTpl (fsa/nest_louds_trie.cpp): a Patricia trie in LOUDS    *)
(* form.  The long labels of its edges are strings again: they are kept in *)
(* a pool of bytes (the core) or in a second trie, which is built from the *)
(* reversed strings and read from a leaf to its root, whose own labels are *)
(* kept in a third one, and so on.                                         *)
(*                                                                         *)
(* Nodes are numbered from 0 in breadth-first order.  A label has          *)
(* LabelBits bits; the link of an edge keeps its low LabelBits bits where  *)
(* the label would be.                                                     *)
(***************************************************************************)
EXTENDS Integers, Sequences, SequencesExt

CONSTANTS LabelBits,    \* bits of a label (8 in the code)
          BitmapWords,  \* words of the bitmap that replaces many labels (4 in the code)
          ShortLen,     \* MaxShortStrLen: strings up to this long go to the core of a mixed trie
          NestUses      \* what is built: [kind, fast, strs, conf]

ASSUME NestSizes == LabelBits \in Nat \ {0} /\ BitmapWords \in Nat \ {0} /\ ShortLen > 1

VARIABLES nlUse,   \* what is built
          nlTrie,  \* the trie, or NoTrie
          nlVec    \* linkVec: the node of each string

nestVars == <<nlUse, nlTrie, nlVec>>

Base == 2 ^ LabelBits
WordLabels == Base \div BitmapWords      \* labels of one word of the bitmap
BitmapMin == 2 * BitmapWords             \* as many children need no more bytes as a bitmap (36 in the code)
NoTrie == <<>>
Initial == 0
Nil == -1
Lesser(a, b) == IF a < b THEN a ELSE b

lex_less(x, y) ==
    LET diff == {i \in 1..Lesser(Len(x), Len(y)) : x[i] # y[i]}
    IN  IF diff = {} THEN Len(x) < Len(y) ELSE x[Min(diff)] < y[Min(diff)]

TotalLen(strs) == FoldLeft(LAMBDA n, x : n + Len(x), 0, strs)
Mapped(Op(_), seq) == FoldLeft(LAMBDA acc, x : Append(acc, Op(x)), <<>>, seq)
UpToLen(n) == Mapped(LAMBDA x : x, [i \in 1..n |-> i])

\* A bit vector with the answers of its rank and select.
BitVec(bits) ==
    [bits  |-> bits,
     ranks |-> FoldLeft(LAMBDA acc, b : Append(acc, Last(acc) + b), <<0>>, bits),
     ones  |-> SelectSeq([i \in 1..Len(bits) |-> i - 1], LAMBDA p : bits[p + 1] = 1),
     zeros |-> SelectSeq([i \in 1..Len(bits) |-> i - 1], LAMBDA p : bits[p + 1] = 0)]
bit(v, i) == v.bits[i + 1] = 1
rank1(v, i) == v.ranks[i + 1]
max_rank1(v) == Last(v.ranks)
select0(v, i) == v.zeros[i + 1]
select1(v, i) == v.ones[i + 1]
one_seq_len(v, pos) == Min({p \in pos..Len(v.bits) : p = Len(v.bits) \/ ~bit(v, p)}) - pos

-----------------------------------------------------------------------------
(* build_self_trie: one level of the nest.  A string is [s, id]; rows are  *)
(* in ascending order.  A range of rows that share the columns below col   *)
(* is waiting in todo for its node's children.                             *)

\* getRealMinLinkStrLen
MinLink(conf) == IF conf.mixed /\ conf.minLink < 2 THEN 2 ELSE conf.minLink

unmatch_from(x, y, lo, hi) ==
    LET diff == {c \in lo..(hi - 1) : c >= Len(y) \/ x[c + 1] # y[c + 1]}
    IN  IF diff = {} THEN hi ELSE Min(diff)

\* Where a label that belongs to one string is cut: at a delimiter, or else where it becomes too long.
CutForward(conf, frag, str, beg, end) ==
    LET stops == {c \in (beg + frag[3])..(end - 1) :
                     str[c + 1] \in conf.delims \/ (c >= beg + frag[2] /\ str[c + 1] \in conf.punct)}
    IN  IF stops = {} THEN end ELSE Min(stops)
CutBackward(conf, str, beg, end) ==
    LET range  == (beg + conf.minFrag + 1)..end
        delims == {c \in range : str[c] \in conf.delims}
        punct  == {c \in range : str[c] \in conf.punct}
    IN  IF delims # {} THEN Max(delims) ELSE IF punct # {} THEN Max(punct) ELSE end

LabelEnd(conf, level, rows, first, last, beg) ==
    LET str  == rows[first].s
        frag == conf.frags[level + 1]
        end  == Lesser(Len(str), beg + conf.maxFrag)
        cut  == Lesser(end, beg + frag[1])
    IN  IF last > first THEN unmatch_from(str, rows[last].s, beg + 1, end)
        ELSE IF end - beg <= frag[3] THEN end
        ELSE IF conf.forward THEN CutForward(conf, frag, str, beg, cut) ELSE CutBackward(conf, str, beg, cut)

\* The child that the row beg of a range begins: its rows, the column behind its label, and its label.
ChildOf(fast, conf, level, rows, range, beg) ==
    LET skip == IF fast THEN 1 ELSE 0
        char(r) == rows[r].s[range.col + 1]
        Child(last, end, long, col, here) ==
            [first |-> beg + Cardinality(here), last |-> last, col |-> col, long |-> long, here |-> here,
             label |-> IF long /\ ~fast THEN 0 ELSE char(beg),
             frag  |-> SubSeq(rows[beg].s, range.col + 1 + skip, end)]
        At(last, end, long, col) == Child(last, end, long, col, {r \in beg..last : Len(rows[r].s) = col})
        Labelled(last, end, long) == At(last, end, long, IF long THEN end ELSE range.col + 1)
        Ended(last, end) == Labelled(last, end, end - range.col - skip >= MinLink(conf))
        Shared(last) == Ended(last, LabelEnd(conf, level, rows, beg, last, range.col))
    IN  Shared(Max({r \in beg..range.last : \A q \in beg..r : char(q) = char(beg)}))

AddChild(out, rows, c) ==
    LET node == Len(out.link)
    IN  [out EXCEPT !.link = Append(@, IF c.long THEN 1 ELSE 0), !.label = Append(@, c.label),
                    !.louds = Append(@, 1), !.frags = IF c.long THEN Append(@, c.frag) ELSE @,
                    !.todo = Append(@, [first |-> c.first, last |-> c.last, col |-> c.col]),
                    !.vec = FoldSet(LAMBDA r, v : [v EXCEPT ![rows[r].id] = node], @, c.here)]

RECURSIVE AddChildren(_, _, _, _, _, _, _)
AddChildren(fast, conf, level, rows, range, beg, out) ==
    IF beg > range.last THEN [out EXCEPT !.louds = Append(@, 0)]
    ELSE LET More(c) == AddChildren(fast, conf, level, rows, range, c.last + 1, AddChild(out, rows, c))
         IN  More(ChildOf(fast, conf, level, rows, range, beg))

RECURSIVE Levels(_, _, _, _, _)
Levels(fast, conf, level, rows, out) ==
    IF out.todo = <<>> THEN out
    ELSE LET range == Head(out.todo)
         IN  Levels(fast, conf, level, rows,
                    AddChildren(fast, conf, level, rows, range, range.first, [out EXCEPT !.todo = Tail(@)]))

build_self_trie(fast, strs, level, conf) ==
    LET empty == Cardinality({i \in 1..Len(strs) : strs[i] = <<>>})
        From(rows) ==
            Levels(fast, conf, level, rows,
                   [link |-> <<0>>, label |-> <<0>>, louds |-> <<1, 0>>, frags |-> <<>>,
                    vec |-> Mapped(LAMBDA x : 0, strs),
                    todo |-> <<[first |-> empty + 1, last |-> Len(rows), col |-> 0]>>])
        Trie(out) ==
            [fast |-> fast, link |-> BitVec(out.link), louds |-> BitVec(out.louds), label |-> out.label,
             frags |-> out.frags, vec |-> out.vec, next |-> <<>>, core |-> <<>>, lenBits |-> 0, minLen |-> 0,
             maxLink |-> 0, sub |-> NoTrie]
    IN  Trie(From(SortSeq([i \in 1..Len(strs) |-> [s |-> strs[i], id |-> i]], LAMBDA a, b : lex_less(a.s, b.s))))

-----------------------------------------------------------------------------
(* Where the long labels go.                                               *)

\* build_link: without FastLabel the low bits of a link take the place of the label.
build_link(t, vals) ==
    LET low(k) == IF bit(t.link, k) /\ ~t.fast THEN vals[rank1(t.link, k) + 1] % Base ELSE t.label[k + 1]
    IN  [t EXCEPT !.label = Mapped(LAMBDA i : low(i - 1), UpToLen(Len(@))),
                  !.next = Mapped(LAMBDA v : IF t.fast THEN v ELSE v \div Base, vals)]

\* Mutant: a string that begins the one before it shares the bytes of the pool's end.
compress_core_Last(strs, conf) ==
    LET order == IF conf.zip THEN SortSeq(UpToLen(Len(strs)), LAMBDA i, j : lex_less(strs[j], strs[i]))
                 ELSE UpToLen(Len(strs))
        put(acc, i) ==
            IF conf.zip /\ IsPrefix(strs[i], acc.last)
            THEN [acc EXCEPT !.offs[i] = Len(acc.pool) - Len(strs[i]), !.last = strs[i]]
            ELSE [pool |-> acc.pool \o strs[i], offs |-> [acc.offs EXCEPT ![i] = Len(acc.pool)],
                  off |-> Len(acc.pool), last |-> strs[i]]
    IN  FoldLeft(put, [pool |-> <<>>, offs |-> Mapped(LAMBDA x : 0, strs), off |-> 0, last |-> <<>>], order)

\* compress_core: in descending order a string that begins the one before it shares its bytes (level 1).
compress_core(strs, conf) ==
    LET order == IF conf.zip THEN SortSeq(UpToLen(Len(strs)), LAMBDA i, j : lex_less(strs[j], strs[i]))
                 ELSE UpToLen(Len(strs))
        put(acc, i) ==
            IF conf.zip /\ IsPrefix(strs[i], acc.last)
            THEN [acc EXCEPT !.offs[i] = acc.off, !.last = strs[i]]
            ELSE [pool |-> acc.pool \o strs[i], offs |-> [acc.offs EXCEPT ![i] = Len(acc.pool)],
                  off |-> Len(acc.pool), last |-> strs[i]]
    IN  FoldLeft(put, [pool |-> <<>>, offs |-> Mapped(LAMBDA x : 0, strs), off |-> 0, last |-> <<>>], order)

bits_of(n) == CHOOSE b \in 0..8 : n < 2 ^ b /\ (b = 0 \/ n >= 2 ^ (b - 1))

build_core_no_reverse_keys(t, strs, conf) ==
    LET lens == {Len(strs[i]) : i \in 1..Len(strs)}
        Links(core, bits, minLen) ==
            Mapped(LAMBDA i : core.offs[i] * 2 ^ bits + (Len(strs[i]) - minLen), UpToLen(Len(strs)))
        Linked(core, bits, minLen) ==
            [build_link(t, Links(core, bits, minLen)) EXCEPT
                !.core = core.pool, !.lenBits = bits, !.minLen = minLen, !.maxLink = Len(core.pool) * 2 ^ bits]
    IN  Linked(compress_core(strs, conf), bits_of(Max(lens) - Min(lens)), Min(lens))

build_core(t, strs, conf) == build_core_no_reverse_keys(t, Mapped(Reverse, strs), conf)

RECURSIVE build_strpool_loop(_, _, _)

\* build_mixed: short strings to the core, the others to the next trie; links to the latter are the larger.
build_mixed(t, strs, level, conf) ==
    LET all == UpToLen(Len(strs))
        rank(i, seq) == Cardinality({j \in 1..Len(seq) : seq[j] <= i})
        val(i, short, long, core, sub) ==
            IF Len(strs[i]) <= ShortLen
            THEN core.offs[rank(i, short)] * 2 + (Len(strs[i]) - (ShortLen - 1))
            ELSE sub.vec[rank(i, long)] + Len(core.pool) * 2
        Linked(short, long, core, sub) ==
            [build_link(t, Mapped(LAMBDA i : val(i, short, long, core, sub), all)) EXCEPT
                !.core = core.pool, !.maxLink = Len(core.pool) * 2, !.sub = sub,
                !.lenBits = IF short = <<>> THEN 0 ELSE 1, !.minLen = IF short = <<>> THEN 0 ELSE ShortLen - 1]
        Split(short, long) ==
            Linked(short, long, compress_core(Mapped(LAMBDA i : Reverse(strs[i]), short), conf),
                   build_strpool_loop(Mapped(LAMBDA i : strs[i], long), level - 1, conf))
    IN  Split(SelectSeq(all, LAMBDA i : Len(strs[i]) <= ShortLen), SelectSeq(all, LAMBDA i : Len(strs[i]) > ShortLen))

build_nested(t, strs, level, conf) ==
    IF conf.mixed THEN build_mixed(t, strs, level, conf)
    ELSE LET Linked(sub) == [build_link(t, sub.vec) EXCEPT !.sub = sub]
         IN  Linked(build_strpool_loop(strs, level - 1, conf))

\* A nested trie; its strings are reversed already, and so are its own long labels.
build_strpool_loop(strs, level, conf) ==
    LET Nest(self) ==
            IF self.frags = <<>> THEN self
            ELSE IF level > 1 /\ TotalLen(self.frags) * conf.nestScale > TotalLen(strs)
                 THEN build_nested(self, self.frags, level, conf)
            ELSE build_core(self, self.frags, conf)
    IN  IF strs = <<>> THEN NoTrie ELSE Nest(build_self_trie(FALSE, strs, level, conf))

build_strpool(strs, conf) == build_strpool_loop(Mapped(Reverse, strs), conf.nestLevel, conf)

\* build_patricia_tpl and build_strpool2: the first trie, of the strings as they are.
FirstTrie(fast, strs, conf) ==
    LET Nest(self) ==
            IF self.frags = <<>> THEN self
            ELSE IF TotalLen(self.frags) * conf.nestScale > TotalLen(strs)
                 THEN build_nested(self, Mapped(Reverse, self.frags), conf.nestLevel, conf)
            ELSE build_core_no_reverse_keys(self, self.frags, conf)
    IN  Nest(build_self_trie(fast, strs, conf.nestLevel, conf))

child0_of(t, parent) == select0(t.louds, parent) - parent
num_children(t, parent) == one_seq_len(t.louds, select0(t.louds, parent) + 1)

\* The labels of a node with many children become a bitmap with the ranks of its words in front.
LabelBitmap(labels) ==
    LET word(w) == {x \in 1..Len(labels) : labels[x] \div WordLabels = w}
        bits(w) == FoldSet(LAMBDA x, n : n + 2 ^ (labels[x] % WordLabels), 0, word(w))
        rank(w) == Cardinality({x \in 1..Len(labels) : labels[x] \div WordLabels < w})
        at(i) == IF i <= BitmapWords THEN rank(i - 1)
                 ELSE IF i <= BitmapMin THEN bits(i - 1 - BitmapWords) ELSE 0
    IN  Mapped(at, UpToLen(Len(labels)))

WithBitmaps(t) ==
    LET put(label, parent) ==
            LET c0 == child0_of(t, parent - 1)   n == num_children(t, parent - 1)
            IN  IF n < BitmapMin THEN label
                ELSE SubSeq(label, 1, c0) \o LabelBitmap(SubSeq(label, c0 + 1, c0 + n)) \o SubSeq(label, c0 + n + 1, Len(label))
    IN  [t EXCEPT !.label = FoldLeft(put, @, UpToLen(Len(t.link.bits)))]

\* build_patricia and, without bitmaps, build_strpool2
build_patricia(fast, strs, conf) ==
    LET Done(t) == IF fast THEN WithBitmaps(t) ELSE t IN Done(FirstTrie(fast, strs, conf))

-----------------------------------------------------------------------------
(* Reading: from a node to the root.                                       *)

get_link_val(t, node) ==
    LET hig == t.next[rank1(t.link, node) + 1]
    IN  IF t.fast THEN hig ELSE hig * Base + t.label[node + 1]

get_core_str(t, val) == SubSeq(t.core, val \div 2 ^ t.lenBits + 1,
                               val \div 2 ^ t.lenBits + (val % 2 ^ t.lenBits) + t.minLen)

\* The label of a child, through the bitmap of its siblings if there are many.
rs_select1(t, c0, ith) ==
    LET rank(w) == t.label[c0 + w + 1]
        w == Max({v \in 0..(BitmapWords - 1) : rank(v) <= ith})
        bits == t.label[c0 + BitmapWords + w + 1]
        set == {j \in 0..(WordLabels - 1) : (bits \div 2 ^ j) % 2 = 1}
    IN  w * WordLabels + (CHOOSE j \in set : Cardinality({i \in set : i < j}) = ith - rank(w))
get_parent(t, child) == select1(t.louds, child) - child - 1
get_label(t, child) ==
    LET parent == get_parent(t, child)   c0 == child0_of(t, parent)
    IN  IF num_children(t, parent) < BitmapMin THEN t.label[child + 1] ELSE rs_select1(t, c0, child - c0)

RECURSIVE restore_string_loop(_, _, _, _)
restore_next_string(t, val, str) ==
    IF val < t.maxLink THEN str \o get_core_str(t, val)
    ELSE restore_string_loop(t.sub, val - t.maxLink, str, FALSE)

\* tpl_restore_string_loop_ex: with rev each long label is turned round, and in the end the whole.
RestoreStep(t, node, str, rev) ==
    LET frag == restore_next_string(t, get_link_val(t, node), <<>>)
        own  == IF bit(t.link, node) THEN IF rev THEN Reverse(frag) ELSE frag
                ELSE IF t.fast THEN <<>> ELSE <<t.label[node + 1]>>
    IN  str \o own \o (IF t.fast THEN <<get_label(t, node)>> ELSE <<>>)
restore_string_loop(t, node, str, rev) ==
    IF node = Initial THEN str
    ELSE restore_string_loop(t, get_parent(t, node), RestoreStep(t, node, str, rev), rev)

restore_string(t, node) == restore_string_loop(t, node, <<>>, FALSE)
restore_dawg_string(t, node) == Reverse(restore_string_loop(t, node, <<>>, TRUE))

-----------------------------------------------------------------------------
NestInit == nlUse \in NestUses /\ nlTrie = NoTrie /\ nlVec = <<>>

\* The whole of a build: one thread, no state is seen in between.
Build ==
    /\ nlTrie = NoTrie
    /\ \E t \in {IF nlUse.kind = "strpool" THEN build_strpool(nlUse.strs, nlUse.conf)
                  ELSE build_patricia(nlUse.fast, nlUse.strs, nlUse.conf)} :
          nlTrie' = t /\ nlVec' = t.vec
    /\ UNCHANGED nlUse

NestNext == Build

NestSpec == NestInit /\ [][NestNext]_nestVars

-----------------------------------------------------------------------------
\* Through every level of the nest, the core and the bitmaps, each string comes back from the node it was
\* given: linkVec[i] of build_patricia and build_strpool2 by restore_dawg_string, of build_strpool by
\* restore_string.
RestoresRight ==
    nlTrie # NoTrie =>
        \A i \in 1..Len(nlUse.strs) :
            nlUse.strs[i] = IF nlUse.kind = "strpool" THEN restore_string(nlTrie, nlVec[i])
                            ELSE restore_dawg_string(nlTrie, nlVec[i])
=============================================================================
