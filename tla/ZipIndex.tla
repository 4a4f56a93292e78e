------------------------------ MODULE ZipIndex ------------------------------
(***************************************************************************)
(* TerarkIndex (idx/terark_zip_index.cpp): an index of sorted keys, in     *)
(* three parts.  The head all keys share is cut off; the prefix part finds *)
(* a key's number by its first bytes as an integer (bits of an ascending,  *)
(* or of a non descending, sequence), by a static trie or by crit-bit      *)
(* tries; the suffix part holds what the prefix part does not, as strings  *)
(* of one length or in a blob store.  Keys are numbered by their rank, or  *)
(* after Reorder by the trie's word ids.  The rank-select kinds, the trie, *)
(* the stores and the checksums are other modules': here bits are a        *)
(* sequence, a trie its sorted words and their ids.                        *)
(***************************************************************************)
EXTENDS Integers, Sequences, SequencesExt, FiniteSetsExt

-----------------------------------------------------------------------------
(***************************************************************************)
(* The packed crit-bit tries of fsa/crit_bit_trie.cpp.  Keys come in one   *)
(* order, ascending or descending; a trie has a node for every two         *)
(* neighbours, with the bit in which they differ, and is stored in breadth *)
(* first order: two bits a node (whether it has that child) and the bit    *)
(* number as a difference to the parent's, split in a base and an extra    *)
(* part.  Leaves are not stored: a key's rank is counted from the zeros.   *)
(* Nodes and positions begin at 0, as in the code.                         *)
(***************************************************************************)

CONSTANTS KeyBits,        \* bits of a byte of a key (8)
          EntryPerTrie,   \* cbtEntryPerTrie
          CbtHashBits     \* cbtHashBits: 0, no hashes

ASSUME CbtAssumption == KeyBits \in Nat \ {0} /\ EntryPerTrie \in Nat \ {0, 1} /\ CbtHashBits \in Nat

NoNode == -1   \* invalid_pos
DiffUnit == KeyBits + 1
KeyBit(byte, j) == (byte \div 2 ^ (KeyBits - j)) % 2   \* its j-th bit from the left

SamePrefix(a, b) == Max({n \in 0..Min({Len(a), Len(b)}) : \A i \in 1..n : a[i] = b[i]})
RECURSIVE KeyLess(_, _)
KeyLess(a, b) ==
    IF a = <<>> \/ b = <<>> THEN a = <<>> /\ b # <<>>
    ELSE Head(a) < Head(b) \/ (Head(a) = Head(b) /\ KeyLess(Tail(a), Tail(b)))

comp_key(a, b) ==
    LET d == SamePrefix(a, b)
    IN  IF d = Min({Len(a), Len(b)}) THEN d * DiffUnit
        ELSE d * DiffUnit + Min({j \in 1..KeyBits : KeyBit(a[d + 1], j) # KeyBit(b[d + 1], j)})
test_key(key, bit) ==
    LET q == bit \div DiffUnit   r == bit % DiffUnit
    IN  IF q < Len(key) /\ (r = 0 \/ KeyBit(key[q + 1], r) = 1) THEN 1 ELSE 0
KeyHash(key) == FoldLeft(LAMBDA h, c : h * 3 + c + 1, 0, key) % 2 ^ CbtHashBits

-----------------------------------------------------------------------------
(* The builder of one trie.  A new key is the last one, so its node is on  *)
(* the path of last children (first ones, when the keys descend).          *)

NoBuilder == [nodes |-> <<>>, root |-> NoNode, any |-> FALSE, prev |-> <<>>, smallest |-> <<>>, hashes |-> <<>>]

\* Where on that path a node for bit goes: [parent, child, leaf].
RECURSIVE Place(_, _, _, _, _)
Place(nodes, side, bit, parent, child) ==
    LET node == nodes[child + 1]
    IN  IF bit < node.diff THEN [parent |-> parent, child |-> child, leaf |-> FALSE]
        ELSE IF node.child[side] = NoNode THEN [parent |-> parent, child |-> child, leaf |-> TRUE]
        ELSE Place(nodes, side, bit, child, node.child[side])

insert_node(b, key, rev) ==
    LET bit  == comp_key(key, b.prev)
        last == IF rev THEN 1 ELSE 2
        pos  == Len(b.nodes)
        at   == Place(b.nodes, last, bit, NoNode, b.root)
        new  == [child |-> <<NoNode, NoNode>>, diff |-> bit]
    IN  IF b.root = NoNode THEN [b EXCEPT !.nodes = <<new>>, !.root = 0]
        ELSE IF at.leaf THEN [b EXCEPT !.nodes = Append([@ EXCEPT ![at.child + 1].child[last] = pos], new)]
        ELSE LET over == [new EXCEPT !.child[3 - last] = at.child]
             IN  IF at.parent = NoNode THEN [b EXCEPT !.nodes = Append(@, over), !.root = pos]
                 ELSE [b EXCEPT !.nodes = Append([@ EXCEPT ![at.parent + 1].child[last] = pos], over)]

\* insert: the first key has no node.
CbtInsert(b, key, rev) ==
    LET hashed == IF CbtHashBits = 0 THEN b ELSE [b EXCEPT !.hashes = Append(@, KeyHash(key))]
    IN  IF ~b.any THEN [hashed EXCEPT !.any = TRUE, !.prev = key, !.smallest = key]
        ELSE [insert_node(hashed, key, rev) EXCEPT !.prev = key]

-----------------------------------------------------------------------------
(* Encoding.                                                               *)

Rank0(bits, pos) == Cardinality({i \in 1..pos : bits[i] = 0})   \* rank0
Rank1(bits, pos) == pos - Rank0(bits, pos)                       \* rank1

\* The nodes layer by layer.
RECURSIVE CbtLayers(_, _)
CbtLayers(nodes, layer) ==
    IF layer = <<>> THEN <<>>
    ELSE <<layer>> \o CbtLayers(nodes, SelectSeq(FlattenSeq([i \in DOMAIN layer |-> nodes[layer[i] + 1].child]),
                                              LAMBDA c : c # NoNode))

encode(b) ==
    LET layers == CbtLayers(b.nodes, IF b.nodes = <<>> THEN <<>> ELSE <<b.root>>)
        order  == FlattenSeq(layers)
        Has(c) == IF c = NoNode THEN 0 ELSE 1
    IN  [bits   |-> FlattenSeq([i \in DOMAIN order |-> LET c == b.nodes[order[i] + 1].child IN <<Has(c[1]), Has(c[2])>>]) \o <<0>>,
         diffs  |-> [i \in DOMAIN order |-> b.nodes[order[i] + 1].diff],
         layers |-> Len(layers)]

\* Each node's difference to its parent, in the order of the nodes.
DiffDeltas(e) ==
    LET Of(i, pos) == IF e.bits[pos + 1] = 0 THEN <<>> ELSE << e.diffs[Rank1(e.bits, pos + 1) + 1] - e.diffs[i + 1] >>
    IN  IF e.diffs = <<>> THEN <<>>
        ELSE << e.diffs[1] >> \o FlattenSeq([k \in DOMAIN e.diffs |-> Of(k - 1, 2 * k - 2) \o Of(k - 1, 2 * k - 1)])

UintBits(x) == Min({n \in 0..30 : x < 2 ^ n})
\* The width of base_: the first that needs the least storage.
BaseBits(deltas) ==
    LET most == UintBits(IF deltas = <<>> THEN 0 ELSE Max(Range(deltas)))
        Cost(i) == Len(deltas) * i + Len(SelectSeq(deltas, LAMBDA d : d >= 2 ^ i - 1)) * (most - i)
        best == {i \in 1..most : \A j \in 1..most : Cost(i) <= Cost(j)}
    IN  IF most = 0 THEN 0 ELSE Min(best)

compress_diff_bit_array(e) ==
    LET deltas == DiffDeltas(e)
        bits   == BaseBits(deltas)
        Big(d) == d >= 2 ^ bits
    IN  [baseBits |-> bits,
         base     |-> [i \in DOMAIN deltas |-> deltas[i] % 2 ^ bits],
         bitmap   |-> [i \in DOMAIN deltas |-> IF Big(deltas[i]) THEN 1 ELSE 0],
         extra    |-> LET big == SelectSeq(deltas, Big) IN [i \in DOMAIN big |-> big[i] \div 2 ^ bits]]

\* The first node of each layer, and the zeros before it; one more layer than there is.
calculat_layer_pos(bits, layers) ==
    FoldLeft(LAMBDA acc, l : LET pos == (acc.id[l] + 1) * 2   rank == Rank0(bits, pos)
                             IN  [id |-> Append(acc.id, pos - rank), rank |-> Append(acc.rank, rank)],
             [id |-> <<0>>, rank |-> <<0>>], [l \in 1..layers |-> l])

\* One trie as newcbt makes it: size is what base_.size() says.
CbtOf(b, rev) ==
    LET e == encode(b)   c == compress_diff_bit_array(e)   at == calculat_layer_pos(e.bits, e.layers)
    IN  [bits |-> e.bits, base |-> c.base, bitmap |-> c.bitmap, extra |-> c.extra, baseBits |-> c.baseBits, size |-> Len(c.base),
         id |-> at.id, rank |-> at.rank, hashes |-> IF rev THEN Reverse(b.hashes) ELSE b.hashes]

\* newcbt and get_bounds(false): the last key that came, or the first when they descend.
CbtPacked(keys, rev) ==
    LET nums  == (Len(keys) + EntryPerTrie - 1) \div EntryPerTrie
        Of(t) == FoldLeft(LAMBDA b, k : CbtInsert(b, k, rev), NoBuilder,
                          SubSeq(keys, t * EntryPerTrie + 1, Min({(t + 1) * EntryPerTrie, Len(keys)})))
        built == [i \in 1..nums |-> Of(i - 1)]
    IN  [words |-> Len(keys), tries |-> [i \in 1..nums |-> CbtOf(built[i], rev)],
         bounds |-> [i \in 1..nums |-> IF rev THEN built[i].smallest ELSE built[i].prev]]

base_rank_id(t) == t * EntryPerTrie
get_largest_id(p, t) == Min({EntryPerTrie * (t + 1) - 1, p.words - 1})

\* load: the last trie's size is a remainder, so it wraps when the last trie is full.
WrappedSize == 2 ^ 30
LoadedSize(p, t) ==
    LET n == IF t + 1 < Len(p.tries) THEN EntryPerTrie ELSE p.words % EntryPerTrie
    IN  IF n = 0 THEN WrappedSize ELSE n - 1
CbtLoad(p) == [p EXCEPT !.tries = [i \in DOMAIN p.tries |-> [p.tries[i] EXCEPT !.size = LoadedSize(p, i - 1)]]]

-----------------------------------------------------------------------------
(* Lookup in one trie.  Walks count in rank the leaves to the left of the  *)
(* path in each layer, and CountBelow those of the layers below its end.   *)

make_diff_bit(t, id, diffBase) ==
    LET low == t.base[id + 1] + diffBase
    IN  IF t.bitmap[id + 1] = 0 THEN low ELSE t.extra[Rank1(t.bitmap, id) + 1] * 2 ^ t.baseBits + low

RECURSIVE CountBelow(_, _, _, _)
CountBelow(t, id, rank, layer) ==
    IF id = t.id[layer + 1] THEN rank
    ELSE LET pos == (id + 1) * 2
         IN  CountBelow(t, Rank1(t.bits, pos), rank + Rank0(t.bits, pos) - t.rank[layer + 2], layer + 1)

LeafRank(t, pos, layer) == Rank0(t.bits, pos) - t.rank[layer + 1]

\* index: the rank of the only key that can be this one, and the path to it.
RECURSIVE IndexWalk(_, _, _, _, _, _, _)
IndexWalk(t, key, id, rank, diffBase, layer, path) ==
    LET bit   == make_diff_bit(t, id, diffBase)
        right == test_key(key, bit)
        pos   == id * 2 + right
        r     == rank + LeafRank(t, pos, layer)
        went  == Append(path, [id |-> id, right |-> right])
    IN  IF t.bits[pos + 1] = 0 THEN [rank |-> CountBelow(t, Rank1(t.bits, pos), r, layer), path |-> went]
        ELSE IndexWalk(t, key, Rank1(t.bits, pos + 1), r, bit, layer + 1, went)
CbtIndex(t, key) == IF t.size = 0 THEN [rank |-> 0, path |-> <<>>] ELSE IndexWalk(t, key, 0, 0, 0, 0, <<>>)

\* lower_bound: down the first or the last children of the node behind which key differs from what index found.
RECURSIVE EdgeWalk(_, _, _, _, _)
EdgeWalk(t, side, id, rank, layer) ==
    LET pos == id * 2 + side
        to  == Rank1(t.bits, pos + 1)
        r   == rank + LeafRank(t, pos, layer)
    IN  IF t.bits[pos + 1] = 0 THEN CountBelow(t, to, r, layer) ELSE EdgeWalk(t, side, to, r, layer + 1)

RECURSIVE BoundWalk(_, _, _, _, _, _, _)
BoundWalk(t, path, common, side, rank, diffBase, layer) ==
    LET step == path[layer + 1]
        bit  == make_diff_bit(t, step.id, diffBase)
        pos  == step.id * 2 + step.right
        r    == rank + LeafRank(t, pos, layer)
    IN  IF bit > common THEN EdgeWalk(t, side, step.id, rank, layer)
        ELSE IF layer + 1 = Len(path) THEN CountBelow(t, Rank1(t.bits, pos), r, layer)
        ELSE BoundWalk(t, path, common, side, r, bit, layer + 1)

CbtLowerBound(t, key, best, path) ==
    LET side == IF KeyLess(best, key) THEN 1 ELSE 0
    IN  IF path = <<>> THEN side ELSE BoundWalk(t, path, comp_key(key, best), side, 0, 0, 0) + side

hash_match(t, key, id) == CbtHashBits = 0 \/ KeyHash(key) = t.hashes[id + 1]

-----------------------------------------------------------------------------
(* The index.                                                              *)

CONSTANTS IndexInputs,   \* sequences of at least two keys, ascending or descending
          IndexOptions,  \* the options: [uint, composite, dynamic, cbt, nonDesc]
          IndexProbes,   \* keys that are looked up and sought
          MaxRun,        \* keys with one integer prefix, at most (32)
          IndexSteps     \* bound: operations of the iterator

VARIABLES zxKeys,   \* the keys, as they come
          zxIndex,  \* the index, or NoIndex
          zxIter,   \* the iterator: [id, pos, pkey, rec, key]
          zxCall,   \* its last operation, with the key it was about
          zxOps     \* operations so far

indexVars == <<zxKeys, zxIndex, zxIter, zxCall, zxOps>>

NoIndex == <<>>
NoId == -1   \* size_t(-1)
NullSuffix == -2   \* no answer: a suffix is read through a null pointer
KeyBase == 2 ^ KeyBits
Drop(s, n) == SubSeq(s, n + 1, Len(s))
Take(s, n) == SubSeq(s, 1, Min({n, Len(s)}))
StartsWith(s, p) == Len(p) <= Len(s) /\ SubSeq(s, 1, Len(p)) = p
Total(ss) == FoldLeft(LAMBDA n, s : n + Len(s), 0, ss)
KeyLens(ss) == {Len(ss[i]) : i \in DOMAIN ss}
OneLen(ss) == Cardinality(KeyLens(ss)) = 1

-----------------------------------------------------------------------------
(* KeyStat and the choice of the parts.                                    *)

\* processKey's part of stat.diff: neighbours that agree in more than i bytes, in all and in a row.
DiffStep(diff, same) ==
    LET wide == diff \o [i \in 1..Max({0, same - Len(diff)}) |-> [cur |-> 0, cnt |-> 0, max |-> 0]]
    IN  [i \in DOMAIN wide |-> IF i <= same THEN [wide[i] EXCEPT !.cur = @ + 1, !.cnt = @ + 1]
                               ELSE [wide[i] EXCEPT !.max = Max({@, wide[i].cur}), !.cur = 0]]
Sames(keys) == [i \in DOMAIN keys |-> IF i = Len(keys) THEN 0 ELSE SamePrefix(keys[i], keys[i + 1])]
\* As many bytes of each key as tell it from its neighbours.
MinimizePrefix(keys) ==
    LET same == Sames(keys)
    IN  [i \in DOMAIN keys |-> Min({Len(keys[i]), Max({same[i], IF i = 1 THEN 0 ELSE same[i - 1]}) + 1})]
KeyStat(keys) ==
    [diff |-> FoldLeft(DiffStep, <<>>, Sames(keys)), count |-> Len(keys), cplen |-> SamePrefix(keys[1], Last(keys)),
     minLen |-> Min(KeyLens(keys)), maxLen |-> Max(KeyLens(keys)), rev |-> KeyLess(Last(keys), keys[1])]

\* Keys that have an integer prefix of i bytes of their own.
EntryCount(ks, i) == ks.count - IF ks.cplen + i <= Len(ks.diff) THEN ks.diff[ks.cplen + i].cnt ELSE 0
UintLens(ks, opt) ==
    {i \in 2..Min({8, ks.minLen - ks.cplen}) :
        /\ opt.composite \/ (ks.maxLen = ks.minLen /\ ks.cplen + i = ks.maxLen)
        /\ ks.cplen + i < Len(ks.diff) => ks.diff[ks.cplen + i + 1].max <= MaxRun /\ EntryCount(ks, i) * 4 >= ks.count
        /\ EntryCount(ks, i) = ks.count \/ opt.nonDesc}
\* What GetPrefixBuildInfo may choose: [kind, len].  Which is cheapest depends on sizes that are not modelled.
GetPrefixBuildInfo(ks, opt) ==
    LET tries == {[kind |-> "trie", len |-> 0]} \cup (IF opt.cbt THEN {[kind |-> "cbt", len |-> 0]} ELSE {})
    IN  IF ~opt.uint \/ (~opt.dynamic /\ ks.maxLen # ks.minLen) THEN tries
        ELSE tries \cup {[kind |-> IF EntryCount(ks, i) = ks.count THEN "asc" ELSE "nondesc", len |-> i] : i \in UintLens(ks, opt)}

-----------------------------------------------------------------------------
(* Building.                                                               *)

ReadBigEndian(key, len) == FoldLeft(LAMBDA v, i : v * KeyBase + (IF i <= Len(key) THEN key[i] ELSE 0), 0, [i \in 1..len |-> i])
SaveAsBigEndian(v, len) == [i \in 1..len |-> (v \div KeyBase ^ (len - i)) % KeyBase]

\* One bit for each integer from the least to the greatest.
AscendingBits(vals, lo, hi) == FoldLeft(LAMBDA bits, v : [bits EXCEPT ![v - lo + 1] = 1], [i \in 1..(hi - lo + 1) |-> 0], vals)
\* A zero for each integer, and behind it a one for each key that has it; from the end when the keys descend.
NonDescendingBits(vals, lo, hi, rev) ==
    LET n == hi - lo + 1 + Len(vals)
        Up(acc, v)   == LET p == acc.pos + (v - acc.last) + 1 IN [bits |-> [acc.bits EXCEPT ![p + 1] = 1], pos |-> p, last |-> v]
        Down(acc, v) == LET p == acc.pos - (acc.last - v) IN [bits |-> [acc.bits EXCEPT ![p + 1] = 1], pos |-> p - 1, last |-> v]
        zero == [i \in 1..n |-> 0]
    IN  IF rev THEN FoldLeft(Down, [bits |-> zero, pos |-> n - 1, last |-> hi], vals).bits
        ELSE FoldLeft(Up, [bits |-> zero, pos |-> 0, last |-> lo], vals).bits

UintPrefix(kind, heads, len, rev) ==
    LET vals == [i \in DOMAIN heads |-> ReadBigEndian(heads[i], len)]
        lo   == Min(Range(vals))   hi == Max(Range(vals))
    IN  [kind |-> kind, len |-> len, min |-> lo, max |-> hi,
         bits |-> IF kind = "asc" THEN AscendingBits(vals, lo, hi) ELSE NonDescendingBits(vals, lo, hi, rev)]
TriePrefix(heads, rev, ids) ==
    [kind |-> "trie", words |-> IF rev THEN Reverse(heads) ELSE heads, ids |-> ids, bfs |-> FALSE, cached |-> FALSE]
CbtPrefix(heads, rev) == [kind |-> "cbt", cbt |-> CbtPacked(heads, rev)]

\* Word ids of a trie follow its nodes' breadth first order: of the orders they can have, two.
WordIds(n) == {[i \in 1..n |-> n - i], [i \in 1..n |-> (i + n - 2) % n]}

SuffixParts(tails, rev) ==
    IF Total(tails) = 0 THEN {[kind |-> "empty", recs |-> <<>>, rev |-> FALSE]}
    ELSE {[kind |-> k, recs |-> tails, rev |-> rev] : k \in {"blob"} \cup IF OneLen(tails) THEN {"fixed"} ELSE {}}

\* Every index Build can make of the keys.
Built(keys, opt) ==
    LET ks    == KeyStat(keys)
        cp    == ks.cplen
        bare  == [i \in DOMAIN keys |-> Drop(keys[i], cp)]
        heads == MinimizePrefix(keys)
        tails == [i \in DOMAIN keys |-> Drop(keys[i], heads[i])]
        whole == (~opt.dynamic /\ ~OneLen(tails)) \/ ~opt.composite
        short == [i \in DOMAIN keys |-> Drop(Take(keys[i], heads[i]), cp)]
        Parts(prefixes, suffixes) == {[common |-> Take(keys[1], cp), prefix |-> p, suffix |-> s] : p \in prefixes, s \in suffixes}
        Trie(words) == {TriePrefix(words, ks.rev, ids) : ids \in WordIds(Len(keys))}
        None == SuffixParts(<<>>, ks.rev)
        Of(info) ==
            CASE info.kind \in {"asc", "nondesc"} ->
                     Parts({UintPrefix(info.kind, [i \in DOMAIN bare |-> Take(bare[i], info.len)], info.len, ks.rev)},
                           SuffixParts([i \in DOMAIN bare |-> Drop(bare[i], info.len)], ks.rev))
              [] info.kind = "cbt" -> Parts({CbtPrefix(bare, ks.rev)}, SuffixParts(bare, ks.rev))
              [] OTHER -> Parts(Trie(bare), None) \cup IF whole THEN {} ELSE Parts(Trie(short), SuffixParts(tails, ks.rev))
    IN  UNION {Of(info) : info \in GetPrefixBuildInfo(ks, opt)}

-----------------------------------------------------------------------------
(* Suffixes.                                                               *)

HasSuffix(x) == x.suffix.kind # "empty"
SuffixAt(s, id) == s.recs[(IF s.rev THEN Len(s.recs) - id - 1 ELSE id) + 1]
AppendKey(s, id) == IF s.kind = "empty" THEN <<>> ELSE SuffixAt(s, id)

\* lower_bound of a vector or store, over records [lo, hi): a binary search, whatever their order is.
RECURSIVE RecBound(_, _, _, _)
RecBound(recs, lo, hi, key) ==
    LET mid == (lo + hi) \div 2
    IN  IF lo >= hi THEN lo
        ELSE IF KeyLess(recs[mid + 1], key) THEN RecBound(recs, mid + 1, hi, key) ELSE RecBound(recs, lo, mid, key)

\* LowerBound: [id, key].
SuffixLowerBound(s, key, id, count) ==
    LET n  == Len(s.recs)
        lo == IF s.rev THEN n - id - count ELSE id
        at == RecBound(s.recs, lo, lo + count, key)
    IN  [id |-> IF s.rev THEN n - at - 1 ELSE at, key |-> IF at = lo + count THEN <<>> ELSE s.recs[at + 1]]
\* IterSeek: [ok, id, rec].
SuffixIterSeek(s, key, id, count) ==
    LET n  == Len(s.recs)
        lo == IF s.rev THEN n - id - count ELSE id
        at == RecBound(s.recs, lo, lo + count, key)
    IN  [ok |-> at # lo + count, id |-> IF s.rev THEN n - at - count ELSE at,
         rec |-> IF at = lo + count THEN <<>> ELSE s.recs[at + 1]]

-----------------------------------------------------------------------------
(* Integer prefixes.  pos is the position of a bit.                        *)

IsOne(p, pos) == p.bits[pos + 1] = 1
MaxRank1(p) == Rank1(p.bits, Len(p.bits))
SeqLen(p, bit, pos) == Min({i \in pos..Len(p.bits) : i = Len(p.bits) \/ p.bits[i + 1] # bit}) - pos        \* one_seq_len, zero_seq_len
SeqRevLen(p, bit, pos) == pos - Max({i \in 0..pos : i = 0 \/ p.bits[i] # bit})                             \* ..._seq_revlen
Select0(p, k) == Min({i \in 0..(Len(p.bits) - 1) : p.bits[i + 1] = 0 /\ Rank0(p.bits, i) = k})
Select1(p, k) == Min({i \in 0..(Len(p.bits) - 1) : p.bits[i + 1] = 1 /\ Rank1(p.bits, i) = k})

\* SeekImpl of both kinds: [ok, exact, id, count, pos].
Found(ok, exact, id, count, pos) == [ok |-> ok, exact |-> exact, id |-> id, count |-> count, pos |-> pos]
NotFound == Found(FALSE, FALSE, NoId, 0, 0)

AscSeek(p, key) ==
    LET v   == ReadBigEndian(key, p.len)
        pos == v - p.min
        id  == Rank1(p.bits, pos)
    IN  IF v > p.max THEN NotFound
        ELSE IF v < p.min THEN Found(TRUE, FALSE, 0, 1, 0)
        ELSE IF ~IsOne(p, pos) THEN Found(TRUE, FALSE, id, 1, pos + SeqLen(p, 0, pos))
        ELSE IF Len(key) <= p.len THEN Found(TRUE, TRUE, id, 1, pos)
        ELSE IF pos = Len(p.bits) - 1 THEN NotFound
        ELSE Found(TRUE, FALSE, id + 1, 1, pos + SeqLen(p, 0, pos + 1) + 1)

NonDescSeek(p, key) ==
    LET v    == ReadBigEndian(key, p.len)
        pos  == Select0(p, v - p.min) + 1
        past == pos + SeqLen(p, 1, pos)
        next == past + SeqLen(p, 0, past + 1) + 1
        At(exact, q) == Found(TRUE, exact, Rank1(p.bits, q), SeqLen(p, 1, q), q)
    IN  IF v > p.max THEN NotFound
        ELSE IF v < p.min THEN Found(TRUE, FALSE, 0, SeqLen(p, 1, 1), 1)
        ELSE IF Len(key) <= p.len /\ IsOne(p, pos) THEN At(Len(key) = p.len, pos)
        ELSE IF past = Len(p.bits) THEN NotFound
        ELSE At(FALSE, next)

UintSeek(p, key) == IF p.kind = "asc" THEN AscSeek(p, key) ELSE NonDescSeek(p, key)
UintKey(p, pos) == SaveAsBigEndian((IF p.kind = "asc" THEN pos ELSE Rank1([i \in DOMAIN p.bits |-> 1 - p.bits[i]], pos) - 1) + p.min, p.len)

UintFind(x, key) ==
    LET p    == x.prefix
        v    == ReadBigEndian(key, p.len)
        rest == Drop(key, p.len)
        pos  == IF p.kind = "asc" THEN v - p.min ELSE Select0(p, v - p.min) + 1
        cnt  == IF p.kind = "asc" THEN p.bits[pos + 1] ELSE SeqLen(p, 1, pos)
        id   == Rank1(p.bits, pos)
        lb   == SuffixLowerBound(x.suffix, rest, id, cnt)
    IN  IF Len(key) < p.len \/ v < p.min \/ v > p.max THEN NoId
        ELSE IF cnt = 0 THEN NoId
        ELSE IF ~HasSuffix(x) THEN IF rest = <<>> THEN id ELSE NoId
        ELSE IF cnt = 1 THEN IF AppendKey(x.suffix, id) = rest THEN id ELSE NoId
        ELSE IF lb.id = id + cnt \/ lb.key # rest THEN NoId ELSE lb.id

UintDictRank(x, key) ==
    LET p    == x.prefix
        s    == UintSeek(p, Take(key, p.len))
        rest == Drop(key, p.len)
    IN  IF ~s.ok THEN MaxRank1(p)
        ELSE IF Len(key) < p.len \/ ~s.exact THEN s.id
        ELSE IF ~HasSuffix(x) THEN s.id + IF rest = <<>> THEN 0 ELSE 1
        ELSE IF s.count = 1 THEN s.id + IF KeyLess(AppendKey(x.suffix, s.id), rest) THEN 1 ELSE 0
        ELSE SuffixLowerBound(x.suffix, rest, s.id, s.count).id

-----------------------------------------------------------------------------
(* Trie prefixes.  The trie's own operations are those of NestLoudsTrie    *)
(* and NestTrieDawg, here by what they answer; a state of its iterator is  *)
(* the rank of the word.                                                   *)

RankOf(words, key) == Cardinality({i \in DOMAIN words : KeyLess(words[i], key)})
TrieId(p, rank) == IF p.bfs THEN p.ids[rank + 1] ELSE rank
\* The word that can be the head of key: its rank, or -1.
HeadWord(p, key) ==
    LET r == RankOf(p.words, key)
    IN  IF r < Len(p.words) THEN IF p.words[r + 1] = key THEN r ELSE r - 1 ELSE Len(p.words) - 1

TrieFind(x, key) ==
    LET p == x.prefix
        r == HeadWord(p, key)
        w == p.words[r + 1]
        id == TrieId(p, r)
    IN  IF ~HasSuffix(x) /\ p.bfs THEN IF key \in Range(p.words) THEN p.ids[RankOf(p.words, key) + 1] ELSE NoId
        ELSE IF r = -1 THEN NoId
        ELSE IF ~StartsWith(key, w) THEN NoId
        ELSE IF ~HasSuffix(x) THEN NullSuffix
        ELSE IF AppendKey(x.suffix, id) = Drop(key, Len(w)) THEN id ELSE NoId

\* lower_bound: with a cache it does not count the empty word (and wraps for the empty key).
CachedRank(p, key) == RankOf(p.words, key) - IF p.cached /\ <<>> \in Range(p.words) THEN 1 ELSE 0

TrieDictRank(x, key) ==
    LET p == x.prefix
        r == HeadWord(p, key)
        w == p.words[r + 1]
    IN  IF ~HasSuffix(x) THEN CachedRank(p, key)
        ELSE IF r = -1 THEN 0
        ELSE IF ~StartsWith(key, w) THEN r + 1
        ELSE r + IF KeyLess(AppendKey(x.suffix, TrieId(p, r)), Drop(key, Len(w))) THEN 1 ELSE 0

-----------------------------------------------------------------------------
(* Crit-bit prefixes: the suffix part holds the keys.                      *)

FindTrie(c, key) == RecBound(c.bounds, 0, Len(c.bounds), key)
CbtFind(x, key) ==
    LET c  == x.prefix.cbt
        t  == FindTrie(c, key)
        id == CbtIndex(c.tries[t + 1], key).rank
    IN  IF t = Len(c.tries) THEN NoId
        ELSE IF ~hash_match(c.tries[t + 1], key, id) THEN NoId
        ELSE IF AppendKey(x.suffix, id + base_rank_id(t)) = key THEN id + base_rank_id(t) ELSE NoId
CbtRank(x, key, none) ==
    LET c    == x.prefix.cbt
        t    == FindTrie(c, key)
        hit  == CbtIndex(c.tries[t + 1], key)
        best == AppendKey(x.suffix, hit.rank + base_rank_id(t))
    IN  IF t = Len(c.tries) THEN none
        ELSE IF best = key THEN hit.rank + base_rank_id(t)
        ELSE CbtLowerBound(c.tries[t + 1], key, best, hit.path) + base_rank_id(t)

-----------------------------------------------------------------------------
(* The index.                                                              *)

NumKeys(x) == CASE x.prefix.kind = "trie" -> Len(x.prefix.words) [] x.prefix.kind = "cbt" -> x.prefix.cbt.words [] OTHER -> MaxRank1(x.prefix)

Find(x, key) ==
    LET k == Drop(key, Len(x.common))
    IN  IF ~StartsWith(key, x.common) THEN NoId
        ELSE CASE x.prefix.kind = "trie" -> TrieFind(x, k) [] x.prefix.kind = "cbt" -> CbtFind(x, k) [] OTHER -> UintFind(x, k)

\* A key that leaves the common head: whether it is before all others.
BeforeAll(x, key) == LET n == SamePrefix(key, x.common) IN Len(key) = n \/ key[n + 1] < x.common[n + 1]
DictRank(x, key) ==
    LET k == Drop(key, Len(x.common))
    IN  IF ~StartsWith(key, x.common) THEN IF BeforeAll(x, key) THEN 0 ELSE NumKeys(x)
        ELSE CASE x.prefix.kind = "trie" -> TrieDictRank(x, k)
               [] x.prefix.kind = "cbt" -> CbtRank(x, k, NumKeys(x))
               [] OTHER -> UintDictRank(x, k)

PrefixKeyAt(p, rank) == IF p.kind = "trie" THEN p.words[rank + 1] ELSE <<>>
MinKey(x) ==
    LET p == x.prefix
    IN  x.common \o (IF p.kind \in {"asc", "nondesc"} THEN SaveAsBigEndian(p.min, p.len) ELSE PrefixKeyAt(p, 0))
                 \o AppendKey(x.suffix, IF p.kind = "trie" THEN TrieId(p, 0) ELSE 0)
MaxKey(x) ==
    LET p == x.prefix   last == NumKeys(x) - 1
    IN  x.common \o (IF p.kind \in {"asc", "nondesc"} THEN SaveAsBigEndian(p.max, p.len) ELSE PrefixKeyAt(p, last))
                 \o AppendKey(x.suffix, IF p.kind = "trie" THEN TrieId(p, last) ELSE last)

\* SaveMmap, LoadMemory: the crit-bit tries take their bounds from the suffixes, and a trie's cache is not saved.
Loaded(x) ==
    IF x.prefix.kind = "trie" THEN [x EXCEPT !.prefix.cached = FALSE]
    ELSE IF x.prefix.kind # "cbt" THEN x
    ELSE LET c == CbtLoad(x.prefix.cbt)
         IN  [x EXCEPT !.prefix.cbt = [c EXCEPT !.bounds = [i \in DOMAIN c.bounds |-> AppendKey(x.suffix, get_largest_id(c, i - 1))]]]

NeedsReorder(x) == x.prefix.kind = "trie" /\ ~x.prefix.bfs
\* GetOrderMap and Reorder: the records in the order of word ids.  Who calls it turns the map when the keys descend.
Reordered(x) ==
    LET p == x.prefix
        rankOf == [id \in 0..(Len(p.ids) - 1) |-> (CHOOSE r \in DOMAIN p.ids : p.ids[r] = id) - 1]
    IN  [x EXCEPT !.prefix.bfs = TRUE, !.prefix.cached = FALSE, !.suffix.rev = FALSE,
                  !.suffix.recs = IF HasSuffix(x) THEN [i \in 1..Len(p.ids) |-> SuffixAt(x.suffix, rankOf[i - 1])] ELSE <<>>]

-----------------------------------------------------------------------------
(* The prefix part of the iterator.  A step gives [ok, id, pos, pkey,      *)
(* count]; what an iterator that is not valid keeps is never read.         *)

PrefixAt(id, pos, pkey, count) == [ok |-> TRUE, id |-> id, pos |-> pos, pkey |-> pkey, count |-> count]
PrefixNone == [ok |-> FALSE, id |-> NoId, pos |-> 0, pkey |-> <<>>, count |-> 0]
UintAt(p, id, pos, count) == PrefixAt(id, pos, UintKey(p, pos), count)
WordAt(p, rank) == IF rank \in 0..(Len(p.words) - 1) THEN PrefixAt(TrieId(p, rank), rank, p.words[rank + 1], 1) ELSE PrefixNone
RankAt(p, id) == IF id \in 0..(p.cbt.words - 1) THEN PrefixAt(id, 0, <<>>, 1) ELSE PrefixNone

PrefixSeekToFirst(p) ==
    CASE p.kind = "asc" -> UintAt(p, 0, 0, 1)
      [] p.kind = "nondesc" -> UintAt(p, 0, 1, SeqLen(p, 1, 1))
      [] p.kind = "trie" -> WordAt(p, 0)
      [] OTHER -> RankAt(p, 0)
\* group: whether the number of keys in the last group is asked for
PrefixSeekToLast(p, group) ==
    LET n == Len(p.bits)   run == SeqRevLen(p, 1, n)
    IN  CASE p.kind = "asc" -> UintAt(p, MaxRank1(p) - 1, n - 1, 1)
          [] p.kind = "nondesc" -> IF group THEN UintAt(p, MaxRank1(p) - run, n - run, run) ELSE UintAt(p, MaxRank1(p) - 1, n - 1, 1)
          [] p.kind = "trie" -> WordAt(p, Len(p.words) - 1)
          [] OTHER -> RankAt(p, p.cbt.words - 1)
PrefixSeek(x, key) ==
    LET p == x.prefix   s == UintSeek(p, key)
    IN  CASE p.kind \in {"asc", "nondesc"} -> IF s.ok THEN UintAt(p, s.id, s.pos, s.count) ELSE PrefixNone
          [] p.kind = "trie" -> WordAt(p, RankOf(p.words, key))
          [] OTHER -> RankAt(p, CbtRank(x, key, NoId))
NextOne(p, pos) == pos + SeqLen(p, 0, pos + 1) + 1
UintNext(p, it, n) ==
    IF it.id + n >= MaxRank1(p) THEN PrefixNone
    ELSE IF p.kind = "asc" THEN UintAt(p, it.id + n, FoldLeft(LAMBDA pos, i : NextOne(p, pos), it.pos, [i \in 1..n |-> i]), 1)
    ELSE IF n > 1 THEN UintAt(p, it.id + n, Select1(p, it.id + n), 1)
    ELSE IF NextOne(p, it.pos) = it.pos + 1 THEN PrefixAt(it.id + 1, it.pos + 1, it.pkey, 1)
    ELSE UintAt(p, it.id + 1, NextOne(p, it.pos), 1)
PrefixNext(p, it, n) ==
    CASE p.kind \in {"asc", "nondesc"} -> UintNext(p, it, n)
      [] p.kind = "trie" -> WordAt(p, it.pos + n)
      [] OTHER -> RankAt(p, it.id + n)
NonDescPrevGroup(p, it) ==
    LET pos == it.pos - SeqRevLen(p, 0, it.pos) - 1
        run == SeqRevLen(p, 1, pos)
    IN  IF it.pos = 1 THEN PrefixNone ELSE UintAt(p, it.id - run - 1, pos - run, run + 1)
UintPrev(p, it, group) ==
    LET gap == SeqRevLen(p, 0, it.pos)
    IN  IF it.id = 0 THEN PrefixNone
        ELSE IF p.kind = "nondesc" /\ group THEN NonDescPrevGroup(p, it)
        ELSE IF p.kind = "nondesc" /\ gap = 0 THEN PrefixAt(it.id - 1, it.pos - 1, it.pkey, 1)
        ELSE UintAt(p, it.id - 1, it.pos - gap - 1, 1)
PrefixPrev(p, it, group) ==
    CASE p.kind \in {"asc", "nondesc"} -> UintPrev(p, it, group)
      [] p.kind = "trie" -> WordAt(p, it.pos - 1)
      [] OTHER -> RankAt(p, it.id - 1)

-----------------------------------------------------------------------------
(* IndexIterator.                                                          *)

NotValid == [id |-> NoId, pos |-> 0, pkey |-> <<>>, rec |-> <<>>, key |-> <<>>]
\* UpdateKey, with the suffix that rec is: a blob store's iterator keeps it, other suffixes are read by number.
WithKey(x, p, rec) ==
    LET sfx == IF x.suffix.kind = "fixed" THEN SuffixAt(x.suffix, p.id) ELSE rec
    IN  [id |-> p.id, pos |-> p.pos, pkey |-> p.pkey, rec |-> rec, key |-> x.common \o p.pkey \o sfx]
\* IterSet and UpdateKey
Settle(x, p) == IF p.ok THEN WithKey(x, p, IF x.suffix.kind = "blob" THEN SuffixAt(x.suffix, p.id) ELSE <<>>) ELSE NotValid

SeekToFirst(x) == Settle(x, PrefixSeekToFirst(x.prefix))
SeekToLast(x) == Settle(x, PrefixSeekToLast(x.prefix, FALSE))
NextKey(x, it) == Settle(x, PrefixNext(x.prefix, it, 1))
PrevKey(x, it) == Settle(x, PrefixPrev(x.prefix, it, FALSE))

\* In the group of keys with the prefix p, or behind it.
SeekInGroup(x, p, key) ==
    LET At(down, s) == IF down.ok THEN WithKey(x, down, s.rec) ELSE NotValid
        Hit(s) ==
            IF StartsWith(key, p.pkey) /\ s.ok
            THEN At(IF s.id > p.id THEN PrefixNext(x.prefix, p, s.id - p.id) ELSE p, s)
            ELSE Settle(x, PrefixNext(x.prefix, p, p.count))
    IN  Hit(SuffixIterSeek(x.suffix, Drop(key, Len(p.pkey)), p.id, p.count))

\* The group that key can be in is the one before the first prefix that is not below key.
SeekParts_NoStepBack(x, key) ==
    LET p == PrefixSeek(x, key)
    IN  IF p.ok THEN SeekInGroup(x, p, key) ELSE SeekInGroup(x, PrefixSeekToLast(x.prefix, TRUE), key)
SeekParts(x, key) ==
    LET InGroup(p) == IF p.ok THEN SeekInGroup(x, p, key) ELSE SeekToFirst(x)
        Group(p) == IF ~p.ok THEN PrefixSeekToLast(x.prefix, TRUE)
                    ELSE IF p.pkey = key THEN p ELSE PrefixPrev(x.prefix, p, TRUE)
    IN  InGroup(Group(PrefixSeek(x, key)))

Seek(x, key) ==
    LET k == Drop(key, Len(x.common))
    IN  IF ~StartsWith(key, x.common) THEN IF BeforeAll(x, key) THEN SeekToFirst(x) ELSE NotValid
        ELSE IF x.prefix.kind = "cbt" \/ ~HasSuffix(x) THEN Settle(x, PrefixSeek(x, k))
        ELSE SeekParts(x, k)

IterDictRank(x, it) ==
    CASE x.prefix.kind = "trie" -> it.pos
      [] x.prefix.kind = "cbt" -> it.id
      [] OTHER -> IF it.id = NoId THEN MaxRank1(x.prefix) ELSE it.id

-----------------------------------------------------------------------------
IndexIdle == zxKeys = <<>> /\ zxIndex = NoIndex /\ zxIter = NotValid /\ zxCall = [op |-> "none", key |-> <<>>] /\ zxOps = 0
IndexInit == /\ zxKeys \in IndexInputs
             /\ zxIndex = NoIndex /\ zxIter = NotValid /\ zxCall = [op |-> "none", key |-> <<>>] /\ zxOps = 0

BuildAny == /\ zxIndex = NoIndex
            /\ \E opt \in IndexOptions : zxIndex' \in Built(zxKeys, opt)
            /\ UNCHANGED <<zxKeys, zxIter, zxCall, zxOps>>
\* Descending keys leave a group's suffixes, and the bounds of several crit-bit tries, in descending order; both
\* are then searched as if they ascended.  IndexNext builds what is not broken by that, IndexAnyNext everything.
OrderHolds(x) == KeyLess(Last(zxKeys), zxKeys[1]) =>
                     x.prefix.kind # "nondesc" /\ (x.prefix.kind = "cbt" => Len(x.prefix.cbt.tries) = 1)
BuildIndex == BuildAny /\ OrderHolds(zxIndex')

Fresh == zxIndex # NoIndex /\ zxOps = 0
SaveAndLoad == Fresh /\ zxIndex' = Loaded(zxIndex) /\ UNCHANGED <<zxKeys, zxIter, zxCall, zxOps>>
ReorderIndex == /\ Fresh /\ NeedsReorder(zxIndex)
           /\ zxIndex' = Reordered(zxIndex)
           /\ UNCHANGED <<zxKeys, zxIter, zxCall, zxOps>>

\* Only tries have a cache, and only lower_bound reads it.
CacheAny == /\ Fresh /\ zxIndex.prefix.kind = "trie" /\ ~zxIndex.prefix.cached
            /\ zxIndex' = [zxIndex EXCEPT !.prefix.cached = TRUE]
            /\ UNCHANGED <<zxKeys, zxIter, zxCall, zxOps>>
\* IndexNext caches no trie that has the empty word, IndexAnyNext any.
BuildCache == CacheAny /\ <<>> \notin Range(zxIndex.prefix.words)

Steps(op, key, it) == /\ zxIndex # NoIndex /\ zxOps < IndexSteps
                      /\ zxIter' = it /\ zxCall' = [op |-> op, key |-> key] /\ zxOps' = zxOps + 1
                      /\ UNCHANGED <<zxKeys, zxIndex>>
IterSeekToFirst == zxIndex # NoIndex /\ Steps("first", <<>>, SeekToFirst(zxIndex))
IterSeekToLast == zxIndex # NoIndex /\ Steps("last", <<>>, SeekToLast(zxIndex))
IterSeek == zxIndex # NoIndex /\ \E key \in IndexProbes \cup Range(zxKeys) : Steps("seek", key, Seek(zxIndex, key))
IterNext1 == zxIter.id # NoId /\ Steps("next", zxIter.key, NextKey(zxIndex, zxIter))
IterPrev1 == zxIter.id # NoId /\ Steps("prev", zxIter.key, PrevKey(zxIndex, zxIter))

IndexUse == SaveAndLoad \/ ReorderIndex \/ IterSeekToFirst \/ IterSeekToLast \/ IterSeek \/ IterNext1 \/ IterPrev1
IndexNext == BuildIndex \/ BuildCache \/ IndexUse
IndexAnyNext == BuildAny \/ CacheAny \/ IndexUse
IndexAnySpec == IndexInit /\ [][IndexAnyNext]_indexVars
IndexSpec == IndexInit /\ [][IndexNext]_indexVars

-----------------------------------------------------------------------------
\* An index is the sorted set of its keys.  Find gives each key, and no other, the number under which the
\* iterator comes to it; DictRank counts the keys below; the iterator is a cursor in their order.  For every
\* choice of the parts, both orders of input, before and after SaveMmap, LoadMemory and Reorder.
Sorted == IF KeyLess(Last(zxKeys), zxKeys[1]) THEN Reverse(zxKeys) ELSE zxKeys
NumberOf(key) == LET r == RankOf(Sorted, key) IN IF zxIndex.prefix.kind = "trie" THEN TrieId(zxIndex.prefix, r) ELSE r
\* A trie without suffixes gives out word ids: before Reorder it has no answer for a key that it has.
NoAnswer == NeedsReorder(zxIndex) /\ ~HasSuffix(zxIndex)
LookupRight(key) ==
    /\ \/ Find(zxIndex, key) = IF key \in Range(zxKeys) THEN NumberOf(key) ELSE NoId
       \/ NoAnswer /\ Find(zxIndex, key) = NullSuffix
    /\ DictRank(zxIndex, key) = RankOf(Sorted, key)
\* Where the last operation must have gone: a rank, or one that no key has.
Expected ==
    CASE zxCall.op = "first" -> 0
      [] zxCall.op = "last" -> Len(zxKeys) - 1
      [] zxCall.op = "seek" -> RankOf(Sorted, zxCall.key)
      [] zxCall.op = "next" -> RankOf(Sorted, zxCall.key) + 1
      [] zxCall.op = "prev" -> RankOf(Sorted, zxCall.key) - 1
CursorRight ==
    IF Expected \in 0..(Len(zxKeys) - 1)
    THEN LET key == Sorted[Expected + 1]
         IN  zxIter.key = key /\ zxIter.id = NumberOf(key) /\ IterDictRank(zxIndex, zxIter) = Expected
    ELSE zxIter.id = NoId
IndexRight ==
    zxIndex # NoIndex =>
        IF zxOps > 0 THEN CursorRight
        ELSE /\ \A key \in IndexProbes \cup Range(zxKeys) : LookupRight(key)
             /\ MinKey(zxIndex) = Sorted[1] /\ MaxKey(zxIndex) = Last(Sorted) /\ NumKeys(zxIndex) = Len(zxKeys)

\* No lookup reads a suffix of an index that has none (terark_zip_index.cpp:1993).  It fails for a trie
\* without suffixes that has not been reordered, asked for one of its words.
SuffixIsThere == zxIndex # NoIndex => \A key \in Range(zxKeys) : Find(zxIndex, key) # NullSuffix
=============================================================================
