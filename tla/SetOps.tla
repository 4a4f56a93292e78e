------------------------------- MODULE SetOps -------------------------------
(***************************************************************************)
(* Operations on sorted sequences (set_op.hpp), the merge of several ways  *)
(* with a loser tree or a heap (set_op.hpp, heap_ext.hpp, multi_way_*.hpp) *)
(* and radix sort of strings (radix_sort.hpp, radix_sort.cpp).             *)
(*                                                                         *)
(* A behaviour is about one of them: a pair of sequences, a merge that     *)
(* goes on element by element, or a vector of strings to sort.             *)
(***************************************************************************)
EXTENDS Naturals, Sequences, SequencesExt, FiniteSets, FiniteSetsExt, TLC

CONSTANTS
    MaxKey,      \* m_max_key, the guard at the end of a way; the keys are below it
    WaySizes,    \* numbers of ways that are merged, with a bound for the elements of a way
    SetLen,      \* bound: elements of a sequence
    Threshold,   \* when multiset_fast_intersection searches (32)
    Strings,     \* strings that are sorted
    StrCount     \* bound: strings that are sorted

VARIABLES
    job,    \* the input: what is merged or sorted
    tree,   \* loser tree: m_tree and m_head; heap: m_heap
    pos,    \* per way: elements consumed
    run,    \* the run of equal keys: its key, its elements, the ways they came from
    out     \* what the algorithms have written

setVars == <<job, tree, pos, run, out>>

Key == 0..(MaxKey - 1)
NonDesc(s) == \A i, j \in DOMAIN s : i < j => s[i] <= s[j]
Sorted(n) == {s \in UNION {[1..m -> Key] : m \in 0..n} : NonDesc(s)}

----------------------------------------------------------------------------
(* Two sequences.  An iterator is an index from 1, the end is Len + 1. *)

\* std::lower_bound, std::upper_bound in b from lo to hi - 1.
LowerBound(b, lo, hi, x) == lo + Cardinality({i \in lo..(hi - 1) : b[i] < x})
UpperBound(b, lo, hi, x) == lo + Cardinality({i \in lo..(hi - 1) : b[i] <= x})

\* The elements of a that are in b.
multiset_intersection(a, b) ==
    LET go[i \in 1..(Len(a) + 1), j \in 1..(Len(b) + 1)] ==
          IF i > Len(a) \/ j > Len(b) THEN <<>>
          ELSE CASE a[i] < b[j] -> go[i + 1, j]
                 [] a[i] > b[j] -> go[i, j + 1]
                 [] OTHER -> <<a[i]>> \o go[i + 1, j]
    IN  go[1, 1]

multiset_1small_intersection(a, b) ==
    LET go[i \in 1..(Len(a) + 1), j \in 1..(Len(b) + 1)] ==
          IF i > Len(a) \/ j > Len(b) THEN <<>>
          ELSE LET lo == LowerBound(b, j, Len(b) + 1, a[i])
                   hi == UpperBound(b, j, Len(b) + 1, a[i])
                   \* the elements of a up to *range.first
                   k == UpperBound(a, i, Len(a) + 1, b[lo])
               IN  IF lo = hi THEN go[i + 1, hi] ELSE SubSeq(a, i, k - 1) \o go[k, hi]
    IN  go[1, 1]

multiset_fast_intersection(a, b) ==
    IF Len(a) * Threshold < Len(b) THEN multiset_1small_intersection(a, b)
    ELSE multiset_intersection(a, b)

\* The elements of b that are in a.
multiset_intersection2(a, b) ==
    LET go[i \in 1..(Len(a) + 1), j \in 1..(Len(b) + 1)] ==
          IF i > Len(a) \/ j > Len(b) THEN <<>>
          ELSE CASE a[i] < b[j] -> go[i + 1, j]
                 [] a[i] > b[j] -> go[i, j + 1]
                 [] OTHER -> <<b[j]>> \o go[i, j + 1]
    IN  go[1, 1]

multiset_1small_intersection2(a, b) ==
    LET go[i \in 1..(Len(a) + 1), j \in 1..(Len(b) + 1)] ==
          IF i > Len(a) \/ j > Len(b) THEN <<>>
          ELSE LET lo == LowerBound(b, j, Len(b) + 1, a[i])
                   hi == UpperBound(b, j, Len(b) + 1, a[i])
               IN  SubSeq(b, lo, hi - 1) \o go[i + 1, hi]
    IN  go[1, 1]

multiset_fast_intersection2(a, b) ==
    IF Len(a) * Threshold < Len(b) THEN multiset_1small_intersection2(a, b)
    ELSE multiset_intersection2(a, b)

\* The first of every run, written over the front of the sequence.
set_unique(a) ==
    LET Step(q, x) == IF q # <<>> /\ q[Len(q)] = x THEN q ELSE Append(q, x) IN FoldLeft(Step, <<>>, a)

\* Upper bound of the first element; looked for before the prediction first.
find_next_larger(a, first, prediction) ==
    LET i == UpperBound(a, first, prediction, a[first])
    IN  IF i = prediction /\ ~(a[first] < a[prediction])
        THEN UpperBound(a, prediction, Len(a) + 1, a[first])
        ELSE i

\* The elements of bad are swapped behind the others; dest is the new end.
remove_swap_if(a, bad) ==
    LET Step(s, i) == IF s.vec[i] \in bad THEN s
                      ELSE [vec |-> [s.vec EXCEPT ![s.dest] = s.vec[i], ![i] = s.vec[s.dest]],
                            dest |-> s.dest + 1]
    IN  FoldLeft(Step, [vec |-> a, dest |-> 1], [i \in DOMAIN a |-> i])

----------------------------------------------------------------------------
(* Merge of several ways, numbered from 0 *)

Len0(ws) == Cardinality(DOMAIN ws)

\* The key of way i when p elements of each have been consumed; the guard at the end.
HeadKey(ws, p, i) == IF p[i] < Len(ws[i]) THEN ws[i][p[i] + 1] ELSE MaxKey

\* comp_cache_item; equal keys of a stable merge in the order of the ways.
Before(j, p, x, y) ==
    LET kx == HeadKey(j.ways, p, x)
        ky == HeadKey(j.ways, p, y)
    IN  kx < ky \/ (j.stable /\ kx = ky /\ kx < MaxKey /\ x < y)

\* get_loser_winner into node i of the tree.
Play(j, p, t, i, l, r) ==
    IF Before(j, p, l, r) THEN [loser |-> (i :> r) @@ t.loser, winner |-> (i :> l) @@ t.winner]
    ELSE [loser |-> (i :> l) @@ t.loser, winner |-> (i :> r) @@ t.winner]

Down(hi, lo) == [k \in 1..(hi - lo + 1) |-> hi - k + 1]

\* LoserTree::start: the nodes above two external ones, the one in the middle, the others.
LoserStart(j) ==
    LET n == Len0(j.ways)
        p == [i \in DOMAIN j.ways |-> 0]
        mid == n \div 2
        none == [loser |-> [i \in {} |-> 0], winner |-> [i \in {} |-> 0]]
        exter(t, i) == Play(j, p, t, i, 2 * i - n, 2 * i - n + 1)
        t1 == FoldLeft(exter, none, Down(n - 1, mid + 1))
        t2 == IF n % 2 = 1 THEN Play(j, p, t1, mid, t1.winner[n - 1], 0) ELSE Play(j, p, t1, mid, 0, 1)
        inner(t, i) == Play(j, p, t, i, t.winner[2 * i], t.winner[2 * i + 1])
        t3 == FoldLeft(inner, t2, Down(mid - 1, 1))
    IN  IF n = 1 THEN [loser |-> [i \in {} |-> 0], head |-> 0]
        ELSE [loser |-> t3.loser, head |-> t3.winner[1]]

\* Mutant: the loser stays where it was met.
ajust_NoSwap(j, p, t, s) ==
    LET n == Len0(j.ways)
        Up(c, parent) == IF parent \in DOMAIN c.loser /\ Before(j, p, c.loser[parent], c.head)
                         THEN [c EXCEPT !.head = c.loser[parent]]
                         ELSE c
        parents == SelectSeq([k \in 1..n |-> (s + n) \div 2 ^ k], LAMBDA x : x > 0)
    IN  FoldLeft(Up, [loser |-> t.loser, head |-> s], parents)

\* ajust: way s plays against the losers on its way up.
ajust(j, p, t, s) ==
    LET n == Len0(j.ways)
        Up(c, parent) == IF parent \in DOMAIN c.loser /\ Before(j, p, c.loser[parent], c.head)
                         THEN [loser |-> [c.loser EXCEPT ![parent] = c.head], head |-> c.loser[parent]]
                         ELSE c
        parents == SelectSeq([k \in 1..n |-> (s + n) \div 2 ^ k], LAMBDA x : x > 0)
    IN  FoldLeft(Up, [loser |-> t.loser, head |-> s], parents)

\* terark_heap_hole_down and terark_heap_hole_up in h[0..len - 1] for the value x: the
\* hole goes down to a leaf, then up to where x belongs.
terark_adjust_heap(j, p, h, len, x) ==
    LET Less(a, b) == Before(j, p, b, a)    \* HeapCompare
        down[c \in 0..len, g \in [0..(Len(h) - 1) -> DOMAIN j.ways]] ==
          LET c2 == 2 * c + 2
              c3 == IF Less(g[c2], g[c2 - 1]) THEN c2 - 1 ELSE c2
          IN  IF c2 < len THEN down[c3, [g EXCEPT ![c] = g[c3]]]
              ELSE IF c2 = len THEN <<c2 - 1, [g EXCEPT ![c] = g[c2 - 1]]>>
              ELSE <<c, g>>
        up[c \in 0..len, g \in [0..(Len(h) - 1) -> DOMAIN j.ways]] ==
          LET q == (c - 1) \div 2
          IN  IF c > 0 /\ Less(g[q], x) THEN up[q, [g EXCEPT ![c] = g[q]]] ELSE [g EXCEPT ![c] = x]
        d == down[0, [i \in 0..(Len(h) - 1) |-> h[i + 1]]]
        u == up[d[1], d[2]]
    IN  [i \in 1..len |-> u[i - 1]]

adjust_heap_top(j, p, h) == IF Len(h) > 1 THEN terark_adjust_heap(j, p, h, Len(h), h[1]) ELSE h

\* Without its top, the last element in the hole.
pop_heap_ignore_top(j, p, h) ==
    IF Len(h) > 1 THEN terark_adjust_heap(j, p, h, Len(h) - 1, h[Len(h)]) ELSE <<>>

\* std::make_heap leaves any heap: no way before the one above it.
IsHeap(j, p, h) == \A i \in 2..Len(h) : ~Before(j, p, h[i], h[i \div 2])

current_way == IF job.kind = "tree" THEN tree.head ELSE tree.heap[1]

\* empty: the guard has come up, or no way has elements.
merge_empty(t, p) == IF job.kind = "tree" THEN HeadKey(job.ways, p, t.head) = MaxKey ELSE t.heap = <<>>

\* increment: the next element of the way on top, then its new place.
increment(p) ==
    LET w == current_way
    IN  IF job.kind = "tree" THEN ajust(job, p, tree, w)
        ELSE [heap |-> IF p[w] = Len(job.ways[w]) THEN pop_heap_ignore_top(job, p, tree.heap)
                       ELSE adjust_heap_top(job, p, tree.heap)]

\* What is written when the run of equal keys r ends: union_set; key_to_equal_count;
\* intersection_n, which counts elements; intersection_32, which looks at their ways.
EndRun(o, r) ==
    LET n == Len0(job.ways)
        If(b, q) == IF b THEN Append(q, r.key) ELSE q
    IN  [o EXCEPT !.union = Append(@, r.key),
                  !.counts = Append(@, <<r.key, r.n>>),
                  !.isect_n = If(r.n = n, @),
                  !.isect_32 = If(r.mask = 0..(n - 1), @)]

NoRun == [key |-> MaxKey, n |-> 0, mask |-> {}]
NoOut == [merged |-> <<>>, union |-> <<>>, counts |-> <<>>, isect_n |-> <<>>, isect_32 |-> <<>>]

\* One increment of the loops do { increment } while (!comp_key(x, y)).
MergeStep ==
    /\ job.kind \in {"tree", "heap"} /\ ~merge_empty(tree, pos)
    /\ LET w == current_way
           k == HeadKey(job.ways, pos, w)
           top == IF job.kind = "tree" THEN tree'.head ELSE tree'.heap[1]
           ends == merge_empty(tree', pos') \/ HeadKey(job.ways, pos', top) > k
           o == [out EXCEPT !.merged = Append(@, <<k, w>>)]
       IN  /\ pos' = [pos EXCEPT ![w] = @ + 1]
           /\ tree' = increment(pos')
           /\ run' = [key |-> k, n |-> (IF run.key = k THEN run.n ELSE 0) + 1,
                       mask |-> (IF run.key = k THEN run.mask ELSE {}) \cup {w}]
           /\ out' = IF ends THEN EndRun(o, run') ELSE o
    /\ UNCHANGED job

----------------------------------------------------------------------------
(* Radix sort.  Lists linked through next are sequences of indices. *)

\* distribute and collect: by the key's element at n, in the order of the list.
Redistribute(list, v, n, radix) ==
    FoldLeft(LAMBDA q, b : q \o SelectSeq(list, LAMBDA i : v[i][n] = b), <<>>, [b \in 1..radix |-> b - 1])

Lens(v) == {Len(v[i]) : i \in DOMAIN v}
OfLen(v, n) == SelectSeq([i \in DOMAIN v |-> i], LAMBDA i : Len(v[i]) = n)

\* Impl::sort: at every position from the last; the keys of one length come in front when
\* their last position is due, and the empty ones at the end.
RadixOrder(v, radix) ==
    LET At(list, n) == Redistribute(OfLen(v, n) \o list, v, n, radix)
    IN  OfLen(v, 0) \o FoldLeft(At, <<>>, Down(Max(Lens(v)), 1))

\* radix_sort_tpl: the positions between two lengths that occur are passed over.
TplOrder(v, radix) ==
    LET At(list, n) == IF OfLen(v, n) = <<>> THEN list
                       ELSE Redistribute(OfLen(v, n) \o list, v, n, radix)
    IN  OfLen(v, 0) \o FoldLeft(At, <<>>, Down(Max(Lens(v)), 1))

\* rearrange: along the cycles of the permutation addr, with one element in hand (temp, or
\* where swap has put it).
RearrangeStrings(v, addr) ==
    LET Cycle(s, i) ==
          LET step[n \in 0..Len(v)] ==
                IF n = 0 THEN [vec |-> s.vec, addr |-> s.addr, j |-> i, on |-> TRUE]
                ELSE LET c == step[n - 1]
                         k == c.addr[c.j]
                     IN  IF ~c.on THEN c
                         ELSE [vec |-> [c.vec EXCEPT ![c.j] = c.vec[k]],
                               addr |-> [c.addr EXCEPT ![c.j] = c.j], j |-> k, on |-> c.addr[k] # i]
              e == step[Len(v)]
          IN  IF s.addr[i] = i THEN s
              ELSE [vec |-> [e.vec EXCEPT ![e.j] = s.vec[i]], addr |-> [e.addr EXCEPT ![e.j] = e.j]]
    IN  FoldLeft(Cycle, [vec |-> v, addr |-> addr], [i \in DOMAIN v |-> i]).vec

----------------------------------------------------------------------------
SetsInit ==
    /\ job \in {[kind |-> "sets", ways |-> <<a, b>>, stable |-> FALSE] : a, b \in Sorted(SetLen)}
    /\ tree = [heap |-> <<>>] /\ pos = <<>>

\* start: the tree, or some heap of the ways that have elements.
MergeInit ==
    \E wl \in WaySizes, kind \in {"tree", "heap"}, stable \in BOOLEAN :
        \E ws \in [0..(wl[1] - 1) -> Sorted(wl[2])] :
            /\ job = [kind |-> kind, ways |-> ws, stable |-> stable]
            /\ pos = [i \in DOMAIN ws |-> 0]
            /\ IF kind = "tree" THEN tree = LoserStart(job)
               ELSE LET some == {i \in DOMAIN ws : ws[i] # <<>>}
                    IN  \E h \in {q \in [1..Cardinality(some) -> some] : Range(q) = some} :
                            IsHeap(job, pos, h) /\ tree = [heap |-> h]

\* A call with empty keys only is not allowed (assert(0)); radix_sort_tpl is used where
\* every length up to the longest occurs.
SortInit ==
    /\ \E n \in 1..StrCount, kind \in {"radix", "tpl"} :
          \E v \in [1..n -> Strings] :
             /\ Max(Lens(v)) > 0
             /\ kind = "tpl" => 1..Max(Lens(v)) \subseteq Lens(v)
             /\ job = [kind |-> kind, ways |-> v, stable |-> FALSE]
    /\ tree = [heap |-> <<>>] /\ pos = <<>>

SetOpsInit == run = NoRun /\ out = NoOut /\ (SetsInit \/ MergeInit \/ SortInit)

SetOpsSpec == SetOpsInit /\ [][MergeStep]_setVars

----------------------------------------------------------------------------
(* Properties *)

In(x, q) == \E i \in DOMAIN q : q[i] = x
Keep(q, P(_)) == SelectSeq(q, P)

\* The intersections keep what is in both, as often as the sequence it is copied from has
\* it, whichever way it is searched; unique and remove keep one of each, and the others.
SetsRight ==
    job.kind = "sets" =>
        LET a == job.ways[1]
            b == job.ways[2]
            both == Keep(a, LAMBDA x : In(x, b))
            both2 == Keep(b, LAMBDA x : In(x, a))
            rm == remove_swap_if(a, {0})
        IN  /\ multiset_intersection(a, b) = both
            /\ multiset_1small_intersection(a, b) = both
            /\ multiset_fast_intersection(a, b) = both
            /\ multiset_intersection2(a, b) = both2
            /\ multiset_1small_intersection2(a, b) = both2
            /\ multiset_fast_intersection2(a, b) = both2
            /\ Range(set_unique(a)) = Range(a) /\ Len(set_unique(a)) = Cardinality(Range(a))
            /\ NonDesc(set_unique(a))
            /\ \A i \in DOMAIN a : \A p \in i..Len(a) :
                  find_next_larger(a, i, p) = UpperBound(a, i, Len(a) + 1, a[i])
            /\ SubSeq(rm.vec, 1, rm.dest - 1) = Keep(a, LAMBDA x : x # 0)




\* The merge gives the elements of all ways in ascending order, equal ones in the order of
\* the ways if it is stable; union, intersection and counts are those of the ways.
MergeRight ==
    job.kind \in {"tree", "heap"} =>
        LET ws == job.ways
            m == out.merged
            keys == UNION {Range(ws[i]) : i \in DOMAIN ws}
            inAll == {k \in keys : \A i \in DOMAIN ws : In(k, ws[i])}
            times(k) == FoldFunctionOnSet(LAMBDA q, n : n + Len(Keep(q, LAMBDA x : x = k)), 0, ws, DOMAIN ws)
            sorted == SetToSortSeq(keys, LAMBDA x, y : x < y)
            single == \A i \in DOMAIN ws : Cardinality(Range(ws[i])) = Len(ws[i])
            chosen(S) == SelectSeq(sorted, LAMBDA k : k \in S)
        IN  /\ \A i \in 1..(Len(m) - 1) :
                  m[i][1] < m[i + 1][1]
                    \/ (m[i][1] = m[i + 1][1] /\ (job.stable => m[i][2] <= m[i + 1][2]))
            /\ merge_empty(tree, pos) =>
                  /\ \A w \in DOMAIN ws : pos[w] = Len(ws[w])
                  /\ out.union = sorted
                  /\ out.counts = [i \in DOMAIN sorted |-> <<sorted[i], times(sorted[i])>>]
                  /\ out.isect_32 = chosen(inAll)
                  /\ single => out.isect_n = chosen(inAll)

StringLess(a, b) ==
    \/ IsStrictPrefix(a, b)
    \/ \E i \in 1..Min({Len(a), Len(b)}) : a[i] < b[i] /\ SubSeq(a, 1, i - 1) = SubSeq(b, 1, i - 1)

\* The radix sorts leave the strings sorted, equal ones in their old order.
SortRight ==
    job.kind \in {"radix", "tpl"} =>
        LET v == job.ways
            order == IF job.kind = "radix" THEN RadixOrder(v, MaxKey) ELSE TplOrder(v, MaxKey)
            res == RearrangeStrings(v, order)
        IN  /\ res = [i \in DOMAIN v |-> v[order[i]]]
            /\ \A i \in 1..(Len(v) - 1) :
                  StringLess(res[i], res[i + 1]) \/ (res[i] = res[i + 1] /\ order[i] < order[i + 1])

SetOpsRight == SetsRight /\ MergeRight /\ SortRight
=============================================================================
