----------------------------- MODULE NestTrieDawg -----------------------------
(***************************************************************************)
(* NestTrieDAWG (fsa/nest_trie_dawg.cpp) on a nested LOUDS trie: which     *)
(* nodes end a word, words and their numbers, lower bounds, and the ranks  *)
(* of words in dictionary order, which are computed from the layers of the *)
(* breadth-first numbering without walking the trie.                       *)
(***************************************************************************)
EXTENDS NestLoudsTrie

CONSTANT DawgKeys   \* what is looked up

VARIABLES ndTerm,    \* is_term: a BitVec over the nodes
          ndLayers,  \* m_layer_id, m_layer_rank: [id, rank], one pair for each depth
          ndCache    \* states of the cache (build_fsa_cache), 0: there is none

dawgVars == <<nestVars, ndTerm, ndLayers, ndCache>>

NullWord == -1
total_states == Len(nlTrie.link.bits)
is_term(s) == bit(ndTerm, s)
term_rank1(s) == rank1(ndTerm, s)
is_pzip(s) == bit(nlTrie.link, s)
Layers == Len(ndLayers)
LayerId(l) == ndLayers[l + 1].id
LayerEnd(l) == IF l = Layers - 1 THEN total_states ELSE LayerId(l + 1)
\* Words that end at nodes of layer l before node s.
RankIn(l, s) == term_rank1(s) - ndLayers[l + 1].rank
FirstOf(s) == select0(nlTrie.louds, s) - s   \* the first child of s, or of a node behind it

-----------------------------------------------------------------------------
(* build_term_bits and init_for_term.                                      *)

TermBits(t, vec) ==
    BitVec(Mapped(LAMBDA i : IF \E k \in 1..Len(vec) : vec[k] = i - 1 THEN 1 ELSE 0, UpToLen(Len(t.link.bits))))

RECURSIVE init_for_term(_, _, _, _)
init_for_term(t, term, id, layers) ==
    LET next == select0(t.louds, id) - id
        new  == Append(layers, [id |-> id, rank |-> rank1(term, id)])
    IN  IF next >= Len(t.link.bits) THEN new ELSE init_for_term(t, term, next, new)

-----------------------------------------------------------------------------
(* Moves.                                                                  *)

RECURSIVE label_first_byte(_, _)
label_first_byte(t, node) ==
    LET val == get_link_val(t, node)
    IN  IF ~bit(t.link, node) THEN t.label[node + 1]
        ELSE IF val >= t.maxLink THEN label_first_byte(t.sub, val - t.maxLink)
        ELSE t.core[val \div 2 ^ t.lenBits + 1]

\* The first of the nodes lo..hi-1 whose label is not below ch, hi if there is none.
RECURSIVE LowerLabel(_, _, _, _)
LowerLabel(t, lo, hi, ch) ==
    LET Half(mid) ==
            IF (IF t.fast THEN t.label[mid + 1] ELSE label_first_byte(t, mid)) < ch
            THEN LowerLabel(t, mid + 1, hi, ch) ELSE LowerLabel(t, lo, mid, ch)
    IN  IF lo >= hi THEN lo ELSE Half((lo + hi) \div 2)

\* fast_search_byte_rs_idx and terark_bit_test on the bitmap of the children from c0 on.
RsIndex(t, c0, ch) ==
    LET w == ch \div WordLabels   bits == t.label[c0 + BitmapWords + w + 1]
    IN  t.label[c0 + w + 1] + Cardinality({j \in 0..((ch % WordLabels) - 1) : (bits \div 2 ^ j) % 2 = 1})
RsTest(t, c0, ch) == (t.label[c0 + BitmapWords + ch \div WordLabels + 1] \div 2 ^ (ch % WordLabels)) % 2 = 1

\* state_move_lower_bound: <<child, whether its label is ch>>
state_move_lower_bound(t, parent, ch) ==
    LET Found(lo, end) == <<lo, lo < end /\ (IF t.fast THEN t.label[lo + 1] ELSE label_first_byte(t, lo)) = ch>>
        Among(c0, n) == IF t.fast /\ n >= BitmapMin THEN <<c0 + RsIndex(t, c0, ch), RsTest(t, c0, ch)>>
                        ELSE Found(LowerLabel(t, c0, c0 + n, ch), c0 + n)
    IN  IF num_children(t, parent) = 0 THEN <<Nil, FALSE>> ELSE Among(child0_of(t, parent), num_children(t, parent))

\* state_move, state_move_fast, state_move_fast2, state_move_slow, state_move_no_link
state_move(t, parent, ch) ==
    LET Exact(mr) == IF mr[2] THEN mr[1] ELSE Nil IN Exact(state_move_lower_bound(t, parent, ch))

\* get_zpath_data: the label of a node without the byte by which it was chosen
get_zpath_data(t, node) ==
    LET Cut(str) == IF t.fast THEN str ELSE Tail(str) IN Cut(restore_next_string(t, get_link_val(t, node), <<>>))

CommonLen(x, y) == Max({n \in 0..Lesser(Len(x), Len(y)) : SubSeq(x, 1, n) = SubSeq(y, 1, n)})

\* matchZpath_loop: compares a nested label, from the node to its root, with key from pos on (pos counts from
\* the byte behind the one that chose the label, base bytes into key).  The number of bytes that match, negated
\* if the label does not end there.
RECURSIVE matchZpath_loop(_, _, _, _, _)
MatchOne(t, node, pos, key, base) ==
    IF base + pos < Len(key) /\ key[base + pos + 1] = t.label[node + 1] THEN [ok |-> TRUE, pos |-> pos + 1]
    ELSE [ok |-> FALSE, pos |-> -pos]
MatchCore(t, val, pos, key, base) ==
    LET str == get_core_str(t, val)   n == CommonLen(str, SubSeq(key, base + pos + 1, Len(key)))
    IN  IF n < Len(str) THEN [ok |-> FALSE, pos |-> -(pos + n)] ELSE [ok |-> TRUE, pos |-> pos + n]
MatchNext(t, val, pos, key, base) ==
    LET p == matchZpath_loop(t.sub, val - t.maxLink, pos, key, base) IN [ok |-> p > 0, pos |-> p]
matchZpath_loop(t, node, pos, key, base) ==
    LET Link(val) == IF val < t.maxLink THEN MatchCore(t, val, pos, key, base) ELSE MatchNext(t, val, pos, key, base)
        Up(m) == IF ~m.ok THEN m.pos ELSE matchZpath_loop(t, get_parent(t, node), m.pos, key, base)
    IN  IF node = Initial THEN pos
        ELSE IF base + pos = Len(key) THEN -pos
        ELSE Up(IF bit(t.link, node) THEN Link(get_link_val(t, node)) ELSE MatchOne(t, node, pos, key, base))

matchZpath(t, node, key, i) ==
    LET Core(path, n) == IF n < Len(path) THEN -n ELSE n
        Compare(path) == Core(path, CommonLen(path, SubSeq(key, i + 1, Len(key))))
        Link(val) ==
            IF val < t.maxLink THEN Compare(IF t.fast THEN get_core_str(t, val) ELSE Tail(get_core_str(t, val)))
            ELSE matchZpath_loop(t.sub, val - t.maxLink, IF t.fast THEN 0 ELSE -1, key, i)
    IN  Link(get_link_val(t, node))

-----------------------------------------------------------------------------
(* Words.  States below ndCache are in the cache, with their zpaths.       *)

RECURSIVE IndexFrom(_, _, _)
IndexFrom(key, curr, i) ==
    LET Cached(zs) == IF IsPrefix(zs, SubSeq(key, i + 1, Len(key))) THEN Len(zs) ELSE 0
        Go(next, at) == IF next = Nil THEN NullWord ELSE IndexFrom(key, next, at + 1)
        Behind(at) ==
            IF at = Len(key) THEN IF is_term(curr) THEN term_rank1(curr) ELSE NullWord
            ELSE Go(state_move(nlTrie, curr, key[at + 1]), at)
        Label(len) == IF len <= 0 THEN NullWord ELSE Behind(i + len)
    IN  IF ~is_pzip(curr) THEN Behind(i)
        ELSE Label(IF curr < ndCache THEN Cached(get_zpath_data(nlTrie, curr)) ELSE matchZpath(nlTrie, curr, key, i))
index(key) == IndexFrom(key, Initial, 0)

nth_word(nth) == restore_dawg_string(nlTrie, select1(ndTerm, nth))

\* tpl_match_dawg: the words that key begins with, as <<length, number>>
RECURSIVE MatchFrom(_, _, _, _)
MatchFrom(key, curr, i, found) ==
    LET Go(next, at, seen) == IF next = Nil THEN seen ELSE MatchFrom(key, next, at + 1, seen)
        Seen(at, seen) == IF at = Len(key) THEN seen ELSE Go(state_move(nlTrie, curr, key[at + 1]), at, seen)
        Behind(at) == Seen(at, IF is_term(curr) THEN Append(found, <<at, term_rank1(curr)>>) ELSE found)
        Label(len) == IF len <= 0 THEN found ELSE Behind(i + len)
    IN  IF is_pzip(curr) THEN Label(matchZpath(nlTrie, curr, key, i)) ELSE Behind(i)
match_dawg(key) == MatchFrom(key, Initial, 0, <<>>)

-----------------------------------------------------------------------------
(* Steps in dictionary order.                                              *)

HasChild(s) == bit(nlTrie.louds, select0(nlTrie.louds, s) + 1)
HasBrother(s) == bit(nlTrie.louds, select1(nlTrie.louds, s) + 1)
HasElder(s) == bit(nlTrie.louds, select1(nlTrie.louds, s) - 1)

\* the next brother of the nearest ancestor that has one
RECURSIVE UncleOf(_)
UncleOf(s) ==
    LET parent == get_parent(nlTrie, s)
    IN  IF parent = Initial THEN Nil ELSE IF HasBrother(parent) THEN parent + 1 ELSE UncleOf(parent)

RECURSIVE state_next(_)
state_next(s) ==
    LET next == IF HasChild(s) THEN FirstOf(s) ELSE IF HasBrother(s) THEN s + 1 ELSE UncleOf(s)
    IN  IF next = Nil \/ is_term(next) THEN next ELSE state_next(next)

RECURSIVE LastUnder(_)
LastUnder(s) == LET n == num_children(nlTrie, s) IN IF n = 0 THEN s ELSE LastUnder(FirstOf(s) + n - 1)

RECURSIVE state_prev(_)
state_prev(s) ==
    LET prev == IF HasElder(s) THEN LastUnder(s - 1) ELSE get_parent(nlTrie, s)
    IN  IF s = Initial THEN Nil ELSE IF is_term(prev) THEN prev ELSE state_prev(prev)

state_begin == IF is_term(Initial) THEN Initial ELSE state_next(Initial)
state_end == LET s == LastUnder(Initial) IN IF is_term(s) THEN s ELSE state_prev(s)

-----------------------------------------------------------------------------
(* Ranks in dictionary order: words at the ancestors, words before in the  *)
(* node's own layer, and in every deeper layer those before the first node *)
(* that is not under a node before it.                                     *)

RECURSIVE RankAbove(_, _)
RankAbove(s, layer) ==
    LET parent == get_parent(nlTrie, s)
    IN  IF s = Initial THEN 0 ELSE RankIn(layer - 1, parent + 1) + RankAbove(parent, layer - 1)

RECURSIVE RankBelow(_, _)
RankBelow(s, layer) ==   \* layer: the one below s
    LET child == FirstOf(s)
    IN  IF layer >= Layers THEN 0
        ELSE IF child = LayerId(layer) THEN 0 ELSE RankIn(layer, child) + RankBelow(child, layer + 1)

LayerOf(s) == Max({l \in 0..(Layers - 1) : LayerId(l) <= s})

state_to_dict_rank(s) ==
    LET layer == LayerOf(s) IN RankAbove(s, layer) + RankIn(layer, s) + RankBelow(s, layer + 1)

\* dict_rank_to_state narrows a range of nodes in every layer, halving the widest one each time.
RECURSIVE MidsAbove(_, _, _)
MidsAbove(s, layer, mids) ==
    IF s = Initial THEN mids
    ELSE LET p == get_parent(nlTrie, s) IN MidsAbove(p, layer - 1, [mids EXCEPT ![layer] = p])
RECURSIVE MidsBelow(_, _, _)
MidsBelow(s, layer, mids) ==
    LET child == FirstOf(s)
    IN  IF layer >= Layers THEN mids
        ELSE IF child = LayerId(layer)
             THEN Mapped(LAMBDA l : IF l - 1 >= layer THEN LayerId(l - 1) ELSE mids[l], UpToLen(Layers))
        ELSE MidsBelow(child, layer + 1, [mids EXCEPT ![layer + 1] = child])

Widest(ranges) ==   \* the first of the widest layers
    CHOOSE l \in 0..(Layers - 1) : \A k \in 0..(Layers - 1) :
        LET size(x) == ranges[x + 1].end - ranges[x + 1].beg IN size(k) <= size(l) /\ (k < l => size(k) < size(l))

\* what is left when every layer has at most one node
LastChoice(ranges, rank, layer, nth) ==
    LET found == {l \in 0..(Layers - 1) :
                     /\ ranges[l + 1].beg < ranges[l + 1].end /\ is_term(ranges[l + 1].beg)
                     /\ IF rank = nth THEN l > layer ELSE state_to_dict_rank(ranges[l + 1].beg) = nth}
    IN  IF found = {} THEN Nil ELSE ranges[Min(found) + 1].beg

RECURSIVE NarrowRanges(_, _, _)
NarrowRanges(ranges, layer, nth) ==
    LET r    == ranges[layer + 1]
        s    == (r.beg + r.end) \div 2
        zero == [Mapped(LAMBDA x : x.beg, ranges) EXCEPT ![layer + 1] = s]
        mids == MidsBelow(s, layer + 1, MidsAbove(s, layer, zero))
        rank == state_to_dict_rank(s)
        new  == Mapped(LAMBDA l :
                    IF nth < rank THEN [ranges[l] EXCEPT !.end = mids[l] + (IF l - 1 < layer THEN 1 ELSE 0)]
                    ELSE [ranges[l] EXCEPT !.beg = mids[l] - (IF l - 1 > layer THEN 1 ELSE 0)], UpToLen(Layers))
    IN  IF rank = nth /\ is_term(s) THEN s
        ELSE IF r.end - r.beg = 1 THEN LastChoice(ranges, rank, layer, nth)
        ELSE NarrowRanges(new, Widest(new), nth)
dict_rank_to_state(nth) ==
    LET ranges == Mapped(LAMBDA l : [beg |-> LayerId(l - 1), end |-> LayerEnd(l - 1)], UpToLen(Layers))
    IN  NarrowRanges(ranges, Widest(ranges), nth)

-----------------------------------------------------------------------------
(* lower_bound: the number of a word (its index) and the rank.             *)

TransState(s, dec, layer, rank) ==
    [index |-> IF s = LayerEnd(layer) THEN NullWord
               ELSE IF dec /\ is_term(s) THEN term_rank1(s)
               ELSE LET next == state_next(s) IN IF next = Nil THEN NullWord ELSE term_rank1(next),
     rank  |-> rank + RankBelow(s, layer + 1) - (IF dec THEN 1 ELSE 0)]

RECURSIVE LowerFrom(_, _, _, _, _)
LowerFrom(word, curr, i, layer, rank) ==
    LET Move(mr, at) ==
            IF mr[2] THEN LowerFrom(word, mr[1], at + 1, layer + 1, rank + RankIn(layer + 1, mr[1] + 1))
            ELSE IF mr[1] = Nil THEN TransState(curr, FALSE, layer, rank)
            ELSE TransState(mr[1], FALSE, layer + 1, rank + RankIn(layer + 1, mr[1]))
        Behind(at) ==
            IF at >= Len(word) THEN TransState(curr, is_term(curr), layer, rank)
            ELSE Move(state_move_lower_bound(nlTrie, curr, word[at + 1]), at)
        Apart(less) == TransState(IF less THEN curr ELSE curr + 1, less /\ is_term(curr), layer, rank)
        Compare(zs, n) ==
            IF n < Len(zs) /\ i + n < Len(word) THEN Apart(word[i + n + 1] < zs[n + 1]) ELSE Behind(i + Len(zs))
        Label(zs) == Compare(zs, CommonLen(zs, SubSeq(word, i + 1, Len(word))))
    IN  Label(IF is_pzip(curr) THEN get_zpath_data(nlTrie, curr) ELSE <<>>)
dawg_lower_bound(word) == LowerFrom(word, Initial, 0, 0, IF ndCache > 0 THEN 0 ELSE RankIn(0, 1))

-----------------------------------------------------------------------------
DawgInit == NestInit /\ ndTerm = <<>> /\ ndLayers = <<>> /\ ndCache = 0

\* build_from (kind "patricia") and build_with_id (kind "strpool2"), which makes no layers; a plain trie of
\* strings (kind "strpool") has no words
build_from ==
    /\ Build
    /\ IF nlUse.kind = "strpool" THEN UNCHANGED <<ndTerm, ndLayers>>
       ELSE /\ ndTerm' = TermBits(nlTrie', nlVec')
            /\ ndLayers' = IF nlUse.kind = "patricia" THEN init_for_term(nlTrie', ndTerm', Initial, <<>>) ELSE <<>>
    /\ UNCHANGED ndCache

build_fsa_cache(size) ==
    /\ nlTrie # NoTrie /\ ndLayers # <<>> /\ ndCache = 0 /\ size \in 1..total_states
    /\ ndCache' = size /\ UNCHANGED <<nestVars, ndTerm, ndLayers>>

Words == Range(nlUse.strs)
CacheSizes == {1, 2, 4}   \* bound: what ratios make of the number of states

\* With a cache lower_bound forgets the empty word: DawgNext caches no trie that has it, DawgAnyNext any.
DawgNext ==
    \/ build_from
    \/ <<>> \notin Words /\ \E size \in CacheSizes : build_fsa_cache(size)
DawgAnyNext == build_from \/ \E size \in CacheSizes : build_fsa_cache(size)

DawgSpec == DawgInit /\ [][DawgNext]_dawgVars

-----------------------------------------------------------------------------
Below(word) == {w \in Words : lex_less(w, word)}
NodeOf(w) == nlVec[CHOOSE i \in 1..Len(nlUse.strs) : nlUse.strs[i] = w]

WordsRight(key) ==
    /\ index(key) = IF key \in Words THEN term_rank1(NodeOf(key)) ELSE NullWord
    /\ {<<m[1], nth_word(m[2])>> : m \in Range(match_dawg(key))} = {<<Len(w), w>> : w \in {v \in Words : IsPrefix(v, key)}}

\* Whatever long labels there are, wherever they are kept and whether or not the top of the trie is cached:
\* index finds the words and nothing else, nth_word gives them back, and match_dawg reports exactly the words
\* a key begins with.
LookupsRight == ndTerm # <<>> => \A key \in DawgKeys : WordsRight(key)

FirstFrom(key) ==
    LET rest == Words \ Below(key)
    IN  IF rest = {} THEN NullWord ELSE term_rank1(NodeOf(CHOOSE x \in rest : \A y \in rest : ~lex_less(y, x)))

\* The ranks that are computed layer by layer are those of the dictionary: of each word and back
\* (state_to_dict_rank, dict_rank_to_state), of every lower bound, and in steps from word to word; the lower bound
\* of what a word begins with also has the right index.
RanksRight ==
    ndLayers # <<>> =>
        /\ \A key \in DawgKeys :
              LET at == dawg_lower_bound(key)
              IN  /\ at.rank = Cardinality(Below(key))
                  /\ (\E w \in Words : IsPrefix(key, w)) => at.index = FirstFrom(key)
        /\ \A w \in Words :
              LET s == NodeOf(w)   k == Cardinality(Below(w))
                  after == {v \in Words : lex_less(w, v)}
              IN  /\ state_to_dict_rank(s) = k
                  /\ dict_rank_to_state(k) = s
                  /\ IF after = {} THEN state_next(s) = Nil /\ state_end = s
                     ELSE LET v == CHOOSE x \in after : \A y \in after : ~lex_less(y, x)
                          IN  state_next(s) = NodeOf(v) /\ state_prev(NodeOf(v)) = s
                  /\ k = 0 => state_begin = s /\ state_prev(s) = Nil

\* lower_bound's index is that of the first word not below the key, as tools/fsa/nlt_build.cpp expects.
IndexBoundRight == ndLayers # <<>> => \A key \in DawgKeys : dawg_lower_bound(key).index = FirstFrom(key)

-----------------------------------------------------------------------------
(***************************************************************************)
(* The iterator of NestTrieDAWG (NestLoudsTrieTpl::Iterator): a stack of   *)
(* the nodes from the root to the current word, each with the child that   *)
(* is taken, and the word.  The steps walk the stack, not the trie.        *)
(***************************************************************************)

CONSTANTS IterKeys,   \* what iterators seek
          IterUses,   \* bound: the tries that have an iterator
          IterSteps   \* bound: operations on one iterator

VARIABLES niStack,  \* m_base .. m_top: [state, child0, n, nth, zlen]
          niWord,   \* m_word
          niCall,   \* the last operation: [op, key, ret]
          niOps     \* operations so far

iterVars == <<niStack, niWord, niCall, niOps>>
allIterVars == <<dawgVars, iterVars>>

At(stack, word) == [stack |-> stack, word |-> word]
Nowhere == At(<<>>, <<>>)   \* reset1
CutBy(word, n) == SubSeq(word, 1, Len(word) - n)

Zpath(s) == IF is_pzip(s) THEN get_zpath_data(nlTrie, s) ELSE <<>>
initIterEntry(s, zs) ==   \* zs: the node's Zpath
    [state |-> s, child0 |-> child0_of(nlTrie, s), n |-> num_children(nlTrie, s), nth |-> 0, zlen |-> Len(zs)]
Top(stack, nth) == Append(Front(stack), [Last(stack) EXCEPT !.nth = nth])   \* the top takes another child
has_next(e) == e.nth + 1 < e.n

\* Labels of a node's children; of many children they are found in the bitmap.
BitOn(c0, ch) == RsTest(nlTrie, c0, ch)
ManyFast(e) == nlTrie.fast /\ e.n >= BitmapMin
getNthChar(e, nth) ==
    IF ManyFast(e) THEN rs_select1(nlTrie, e.child0, nth)
    ELSE IF nlTrie.fast THEN nlTrie.label[e.child0 + nth + 1] ELSE label_first_byte(nlTrie, e.child0 + nth)
getFirstChar(e) ==
    IF ManyFast(e) THEN Min({ch \in 0..(Base - 1) : BitOn(e.child0, ch)}) ELSE getNthChar(e, 0)
rs_next_one_pos(c0, cch) == Min({ch \in (cch + 1)..(Base - 1) : BitOn(c0, ch)})
rs_prev_one_pos(c0, cch) == Max({ch \in 0..(cch - 1) : BitOn(c0, ch)})
getNthCharNext(e, nth, cch) == IF ManyFast(e) THEN rs_next_one_pos(e.child0, cch) ELSE getNthChar(e, nth)
getNthCharPrev(e, nth, cch) == IF ManyFast(e) THEN rs_prev_one_pos(e.child0, cch) ELSE getNthChar(e, nth)

-----------------------------------------------------------------------------
(* Down: to the first, or to the last, word under a node.                  *)

RECURSIVE append_lex_min_suffix(_, _, _)
append_lex_min_suffix(s, stack, word) ==
    LET Down(e, w) == IF is_term(s) THEN At(Append(stack, e), w)
                      ELSE append_lex_min_suffix(e.child0, Append(stack, e), Append(w, getFirstChar(e)))
        Enter(zs) == Down(initIterEntry(s, zs), word \o zs)
    IN  Enter(Zpath(s))

RECURSIVE append_lex_max_suffix(_, _, _)
append_lex_max_suffix(s, stack, word) ==
    LET Down(e, w) == IF e.n = 0 THEN At(Append(stack, e), w)
                      ELSE append_lex_max_suffix(e.child0 + e.n - 1, Append(stack, [e EXCEPT !.nth = e.n - 1]),
                                                 Append(w, getNthChar(e, e.n - 1)))
        Enter(zs) == Down(initIterEntry(s, zs), word \o zs)
    IN  Enter(Zpath(s))

-----------------------------------------------------------------------------
(* Seeks.                                                                  *)

\* RewindStackForNext: word ends with the label of the node that would come next on the stack.
RECURSIVE RewindStackForNext(_, _)
RewindStackForNext(stack, word) ==
    LET Up(e, nth) ==
            IF has_next(e) THEN append_lex_min_suffix(e.child0 + nth, Top(stack, nth),
                                                      Append(CutBy(word, 1), getNthChar(e, nth)))
            ELSE RewindStackForNext(Front(stack), CutBy(word, e.zlen + 1))
    IN  IF stack = <<>> THEN Nowhere ELSE Up(Last(stack), Last(stack).nth + 1)

\* CurrMinSuffix, at an entry that is not yet on the stack
CurrMinSuffix(e, stack, word) ==
    IF is_term(e.state) THEN At(Append(stack, e), word)
    ELSE IF e.n > 0 THEN append_lex_min_suffix(e.child0, Append(stack, e), Append(word, getFirstChar(e)))
    ELSE Nowhere

\* The first child whose label is not below ch: its number, e.n if there is none.
LowerChild(e, ch) == IF e.n = 0 THEN 0 ELSE state_move_lower_bound(nlTrie, e.state, ch)[1] - e.child0

RECURSIVE LowerWord(_, _, _, _, _)
LowerWord(key, s, pos, stack, word) ==
    LET Down(e, w, ch, lo, ch2, down) ==   \* to the child whose label ch2 is not below ch
            IF ch2 = ch THEN LowerWord(key, e.child0 + lo, pos + e.zlen + 1, down, Append(w, ch))
            ELSE append_lex_min_suffix(e.child0 + lo, down, Append(w, ch2))
        Child(e, w, ch, lo) ==
            IF lo >= e.n THEN RewindStackForNext(stack, word)
            ELSE Down(e, w, ch, lo,
                      IF ManyFast(e) /\ ~BitOn(e.child0, ch) THEN rs_next_one_pos(e.child0, ch) ELSE getNthChar(e, lo),
                      Append(stack, [e EXCEPT !.nth = lo]))
        Branch(e, w, ch) == Child(e, w, ch, LowerChild(e, ch))
        Match(e, zs, rest, c) ==
            IF c < Len(zs) /\ c < Len(rest) /\ rest[c + 1] > zs[c + 1] THEN RewindStackForNext(stack, word)
            ELSE IF c < Len(zs) \/ c = Len(rest) THEN CurrMinSuffix(e, stack, word \o zs)
            ELSE Branch(e, word \o zs, rest[c + 1])
        Compare(zs, rest) == Match(initIterEntry(s, zs), zs, rest, CommonLen(zs, rest))
    IN  Compare(Zpath(s), SubSeq(key, pos + 1, Len(key)))

\* seek_max_prefix: how much of key matches, and the longest word it passes
RECURSIVE MaxPrefix(_, _, _, _, _)
MaxPrefix(key, s, pos, stack, best) ==
    LET Child(e, at, top, lo) ==
            IF lo >= e.n \/ state_move(nlTrie, s, key[at + 1]) = Nil THEN [ret |-> at, at |-> top]
            ELSE MaxPrefix(key, e.child0 + lo, at + 1, Append(stack, [e EXCEPT !.nth = lo]), top)
        Branch(e, at, top) ==
            IF at = Len(key) THEN [ret |-> at, at |-> top] ELSE Child(e, at, top, LowerChild(e, key[at + 1]))
        Match(e, at) ==
            IF at < pos + e.zlen THEN [ret |-> at, at |-> best]
            ELSE Branch(e, at, IF is_term(s) THEN At(Append(stack, e), SubSeq(key, 1, at)) ELSE best)
        Compare(zs) == Match(initIterEntry(s, zs), pos + CommonLen(zs, SubSeq(key, pos + 1, Len(key))))
    IN  Compare(Zpath(s))

-----------------------------------------------------------------------------
(* Steps.                                                                  *)

RECURSIVE NextBrother(_, _)
NextBrother(stack, word) ==   \* from a leaf: word ends behind the label that is to change
    LET Up(e, nth) ==
            IF has_next(e) THEN append_lex_min_suffix(e.child0 + nth, Top(stack, nth),
                                                      Append(CutBy(word, 1), getNthCharNext(e, nth, Last(word))))
            ELSE IF Len(stack) = 1 THEN Nowhere
            ELSE NextBrother(Front(stack), CutBy(word, e.zlen + 1))
    IN  Up(Last(stack), Last(stack).nth + 1)

Incr ==
    LET e == Last(niStack)
    IN  IF e.n > 0 THEN append_lex_min_suffix(e.child0, niStack, Append(niWord, getFirstChar(e)))
        ELSE IF Len(niStack) = 1 THEN Nowhere
        ELSE NextBrother(Front(niStack), CutBy(niWord, e.zlen))

RECURSIVE PrevBrother(_, _)
PrevBrother(stack, word) ==   \* word ends behind the label by which the top's child was taken
    LET e == Last(stack)
    IN  IF e.nth > 0
        THEN append_lex_max_suffix(e.child0 + e.nth - 1, Top(stack, e.nth - 1),
                                   Append(CutBy(word, 1), getNthCharPrev(e, e.nth - 1, Last(word))))
        ELSE IF is_term(e.state) THEN At(stack, CutBy(word, 1))
        ELSE IF Len(stack) = 1 THEN Nowhere
        ELSE PrevBrother(Front(stack), CutBy(word, e.zlen + 1))

\* Mutant: the word keeps the bytes of the label it leaves.
Decr_KeepZpath == IF Len(niStack) = 1 THEN Nowhere ELSE PrevBrother(Front(niStack), niWord)

Decr == IF Len(niStack) = 1 THEN Nowhere
        ELSE PrevBrother(Front(niStack), CutBy(niWord, Last(niStack).zlen))

-----------------------------------------------------------------------------
IterIdle == niStack = <<>> /\ niWord = <<>> /\ niCall = [op |-> "none", key |-> <<>>, ret |-> FALSE] /\ niOps = 0
IterInit == DawgInit /\ IterIdle

Goes(to, op, key, ret) ==
    /\ niStack' = to.stack /\ niWord' = to.word
    /\ niCall' = [op |-> op, key |-> key, ret |-> ret] /\ niOps' = niOps + 1
Moves(where, op, key) == \E to \in {where} : Goes(to, op, key, to # Nowhere)

HasIter == ndLayers # <<>> /\ ndCache = 0 /\ nlUse \in IterUses /\ niOps < IterSteps

seek_end == HasIter /\ Moves(append_lex_max_suffix(Initial, <<>>, <<>>), "seek_end", <<>>)
seek_lower_bound(key) == HasIter /\ Moves(LowerWord(key, Initial, 0, <<>>, <<>>), "seek_lower_bound", key)

seek_max_prefix(key) ==
    HasIter /\ \E to \in {MaxPrefix(key, Initial, 0, <<>>, Nowhere)} : Goes(to.at, "seek_max_prefix", key, to.ret)
incr == HasIter /\ Moves(IF niStack = <<>> THEN Nowhere ELSE Incr, "incr", <<>>)
decr == HasIter /\ Moves(IF niStack = <<>> THEN Nowhere ELSE Decr, "decr", <<>>)

\* Iterators of one trie are objects of their own: one of them is enough.
IterNext ==
    \/ DawgNext /\ UNCHANGED iterVars
    \/ seek_end /\ UNCHANGED dawgVars
    \/ \E key \in IterKeys : seek_lower_bound(key) /\ UNCHANGED dawgVars
    \/ \E key \in IterKeys : seek_max_prefix(key) /\ UNCHANGED dawgVars
    \/ incr /\ UNCHANGED dawgVars
    \/ decr /\ UNCHANGED dawgVars

IterSpec == IterInit /\ [][IterNext]_allIterVars

-----------------------------------------------------------------------------
LeastOf(set) == CHOOSE x \in set : \A y \in set : ~lex_less(y, x)
MostOf(set) == CHOOSE x \in set : \A y \in set : ~lex_less(x, y)
ToWord(set, Pick(_)) == IF set = {} THEN niStack' = <<>> ELSE niStack' # <<>> /\ niWord' = Pick(set)

\* What an operation may do, in terms of the sorted words alone.
CursorStep ==
    LET key == niCall'.key
    IN  CASE niCall'.op = "seek_end" -> ToWord(Words, MostOf)
          [] niCall'.op = "seek_lower_bound" -> ToWord(Words \ Below(key), LeastOf)
          [] niCall'.op = "seek_max_prefix" -> ToWord({w \in Words : IsPrefix(w, key)}, MostOf)
          [] niStack = <<>> -> niStack' = <<>>
          [] niCall'.op = "incr" -> ToWord({w \in Words : lex_less(niWord, w)}, LeastOf)
          [] OTHER -> ToWord({w \in Words : lex_less(w, niWord)}, MostOf)

\* An iterator behaves as a cursor in the sorted words, whatever operations come before: seek_max_prefix then
\* decr, incr behind a seek that failed, from one end to the other and back.
IteratesWords == [][niOps' > niOps => CursorStep]_allIterVars

\* The stack is the path to the word's node and fits its memory, and the entry on top is as incr and decr
\* expect it (their asserts).
StackIsPath ==
    niStack # <<>> =>
        /\ Last(niStack).state = NodeOf(niWord) /\ Last(niStack).nth = 0
        /\ Len(niStack) <= Layers + 2
        /\ \A i \in 1..(Len(niStack) - 1) : niStack[i].child0 + niStack[i].nth = niStack[i + 1].state
=============================================================================
