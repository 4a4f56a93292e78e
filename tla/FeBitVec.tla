------------------------------ MODULE FeBitVec ------------------------------
(***************************************************************************)
(* The plain bit vectors all others are built from: febitvec, a vector of  *)
(* words with a size in bits and a capacity that doubles (bitmap.cpp), and *)
(* static_bitmap, a fixed number of words whose last one may lend its high *)
(* bits to somebody else (bitmap.hpp).                                     *)
(*                                                                         *)
(* A word is the set of its bits that are 1, so that masks are intervals   *)
(* and shifts move them.  Memory that realloc adds holds anything: junk is *)
(* all zeros or all ones.                                                  *)
(***************************************************************************)
EXTENDS Integers, FiniteSets, FiniteSetsExt, SequencesExt

CONSTANTS FeBits,        \* bits of a word and of an allocation (64)
          MaxFe,         \* bound on the size of a febitvec
          StaticSizes    \* TotalBits of the static bitmaps

ASSUME FeAssumption == FeBits \in Nat \ {0} /\ MaxFe \in Nat /\ StaticSizes \subseteq Nat \ {0}

VARIABLES feKind,   \* "vec" or "static"
          fe,       \* the words, and the size or TotalBits
          feWant    \* what it stands for: bits, or bits and extra bits of a static bitmap
feVars == <<feKind, fe, feWant>>

AllBits == 0..(FeBits - 1)
Junks == {{}, AllBits}
ShiftL(x, n) == {b + n : b \in x} \cap AllBits
ShiftR(x, n) == {b - n : b \in x} \cap AllBits
Flip(x) == AllBits \ x
High(n) == n..(FeBits - 1)    \* Uint(-1) << n
Low(n) == 0..(n - 1)
BlocksOf(n) == (n + FeBits - 1) \div FeBits

bit_test(w, i) == (i % FeBits) \in w[i \div FeBits]
bit_set_val(w, i, val) ==
    [w EXCEPT ![i \div FeBits] = IF val THEN @ \cup {i % FeBits} ELSE @ \ {i % FeBits}]

\* The words that i..k-1 covers whole are overwritten, the first and the last one masked.
bits_range_set0(w, i, k) ==
    LET from == i % FeBits
        first == i \div FeBits
        one == first = (k - 1) \div FeBits
        whole == (IF from = 0 THEN first ELSE first + 1)..((k \div FeBits) - 1)
    IN  IF i = k THEN w
        ELSE IF one THEN [w EXCEPT ![first] = @ \cap (Low(from) \cup High(((k - 1) % FeBits) + 1))]
        ELSE [j \in DOMAIN w |->
                 CASE j \in whole -> {}
                   [] j = first /\ from # 0 -> w[j] \cap Low(from)
                   [] j = k \div FeBits /\ k % FeBits # 0 -> w[j] \cap High(k % FeBits)
                   [] OTHER -> w[j]]
bits_range_set1(w, i, k) ==
    LET from == i % FeBits
        first == i \div FeBits
        one == first = (k - 1) \div FeBits
        whole == (IF from = 0 THEN first ELSE first + 1)..((k \div FeBits) - 1)
    IN  IF i = k THEN w
        ELSE IF one THEN [w EXCEPT ![first] = @ \cup (High(from) \cap Low(((k - 1) % FeBits) + 1))]
        ELSE [j \in DOMAIN w |->
                 CASE j \in whole -> AllBits
                   [] j = first /\ from # 0 -> w[j] \cup High(from)
                   [] j = k \div FeBits /\ k % FeBits # 0 -> w[j] \cup Low(k % FeBits)
                   [] OTHER -> w[j]]
bits_range_set(w, i, k, val) == IF val THEN bits_range_set1(w, i, k) ELSE bits_range_set0(w, i, k)

-----------------------------------------------------------------------------
(* Memory of a febitvec *)

NoWords == [j \in {} |-> {}]
EmptyVec == [words |-> NoWords, size |-> 0]
FeCap(v) == FeBits * Cardinality(DOMAIN v.words)
num_words(v) == BlocksOf(v.size)

realloc(w, bits, junk) ==
    [j \in 0..((bits \div FeBits) - 1) |-> IF j \in DOMAIN w THEN w[j] ELSE junk]

fe_reserve(v, newcap, junk) ==
    LET cap == FeBits * BlocksOf(newcap)
    IN  IF cap > FeCap(v) THEN [v EXCEPT !.words = realloc(@, cap, junk)] ELSE v

fe_resize_no_init(v, newsize, junk) ==
    LET start == Max({FeCap(v), FeBits})
        cap == Min({c \in {start * 2 ^ k : k \in 0..newsize} : c >= newsize})
    IN  [words |-> IF FeCap(v) < newsize THEN realloc(v.words, cap, junk) ELSE v.words, size |-> newsize]

fe_resize(v, newsize, val, junk) ==
    LET u == fe_resize_no_init(v, newsize, junk)
    IN  IF v.size < newsize THEN [u EXCEPT !.words = bits_range_set(@, v.size, newsize, val)] ELSE u

fe_fill(v, val) == [v EXCEPT !.words = [j \in DOMAIN @ |-> IF j < num_words(v) THEN IF val THEN AllBits ELSE {} ELSE @[j]]]

fe_push_back(v, val, junk) ==
    IF v.size < FeCap(v) THEN [words |-> bit_set_val(v.words, v.size, val), size |-> v.size + 1]
    ELSE LET u == fe_resize_no_init(v, v.size + 1, junk)
         IN  [u EXCEPT !.words[u.size \div FeBits] = IF val THEN {0} ELSE {}]

\* append: bit by bit, here of a part of the vector itself, which may move meanwhile.
fe_append(v, beg, len, junk) ==
    FoldLeft(LAMBDA u, i : fe_push_back(u, bit_test(u.words, i), junk), v, [n \in 1..len |-> beg + n - 1])

\* febitvec(y): as many words as the size needs.
fe_copy(y) == [y EXCEPT !.words = [j \in 0..(num_words(y) - 1) |-> @[j]]]

\* febitvec(y, beg, len): the words around the range, then all shifted to the right.
fe_slice(y, beg, len) ==
    LET first == beg \div FeBits
        n == BlocksOf(beg + len) - first
        right == beg % FeBits
        w == [j \in 0..(n - 1) |-> y.words[first + j]]
    IN  IF len = 0 THEN EmptyVec
        ELSE [size |-> len,
              words |-> IF right = 0 THEN w
                        ELSE [j \in 0..(n - 1) |-> ShiftR(w[j], right)
                                                   \cup IF j < n - 1 THEN ShiftL(w[j + 1], FeBits - right) ELSE {}]]

\* febitvec(bits, val, padding): what lies behind the bits in the last word.
fe_padded(bits, val, padding, junk) ==
    LET u == fe_fill(fe_resize_no_init(EmptyVec, bits, junk), val)
        low == ShiftR(AllBits, FeCap(u) - bits) \ {0}
    IN  IF bits # FeCap(u) /\ padding # val
        THEN [u EXCEPT !.words[num_words(u) - 1] = IF padding THEN Flip(low) ELSE low] ELSE u

fe_shrink_to_fit(v) == [v EXCEPT !.words = [j \in 0..(num_words(v) - 1) |-> @[j]]]

\* operator -=, ^=, &= and |=: word by word, as far as both have words.
OpWord(op, x, y) ==
    CASE op = "-" -> x \ y [] op = "^" -> (x \ y) \cup (y \ x) [] op = "&" -> x \cap y [] op = "|" -> x \cup y
fe_combine(v, op, y) ==
    [v EXCEPT !.words = [j \in DOMAIN @ |-> IF j < Min({num_words(v), num_words(y)}) THEN OpWord(op, @[j], y.words[j]) ELSE @[j]]]
fe_block_op(v, op, y, start, cnt) ==
    [v EXCEPT !.words = [j \in DOMAIN @ |-> IF j \in start..(start + cnt - 1) THEN OpWord(op, @[j], y.words[j]) ELSE @[j]]]

\* An integer of width bits is the set of its bits.
s_set_uint(w, pos, width, val) ==
    LET p == pos \div FeBits
        off == pos % FeBits
        low == ShiftL(val, off)
    IN  IF off + width < FeBits
        THEN [w EXCEPT ![p] = (@ \cap (Low(off) \cup High(off + width))) \cup low]
        ELSE [j \in DOMAIN w |->
                 CASE j = p -> (w[j] \cap Low(off)) \cup low
                   [] j = p + 1 /\ off + width > FeBits ->
                        (w[j] \cap High((off + width) % FeBits)) \cup ShiftR(val, FeBits - off)
                   [] OTHER -> w[j]]
s_get_uint(w, pos, width) ==
    LET p == pos \div FeBits
        off == pos % FeBits
        mask == Low(width)
        low == ShiftR(w[p], off)
    IN  IF off + width <= FeBits THEN mask \cap low ELSE mask \cap (low \cup ShiftL(w[p + 1], FeBits - off))

fe_push_uint(v, width, val, junk) ==
    IF v.size + width <= FeCap(v)
    THEN [words |-> s_set_uint(v.words, v.size, width, val), size |-> v.size + width]
    ELSE LET u == fe_resize_no_init(v, v.size + width, junk)
         IN  [u EXCEPT !.words = s_set_uint(bits_range_set0(@, v.size, u.size), v.size, width, val)]

-----------------------------------------------------------------------------
(* Reading a febitvec *)

isall0(v) ==
    /\ \A j \in 0..((v.size \div FeBits) - 1) : v.words[j] = {}
    /\ v.size % FeBits # 0 => v.words[v.size \div FeBits] \cap Low(v.size % FeBits) = {}
isall1(v) ==
    /\ \A j \in 0..((v.size \div FeBits) - 1) : v.words[j] = AllBits
    /\ v.size % FeBits # 0 => Low(v.size % FeBits) \subseteq v.words[v.size \div FeBits]
popcnt(v) ==
    LET n == v.size \div FeBits
    IN  FoldLeft(LAMBDA s, j : s + Cardinality(v.words[j - 1]), 0, [j \in 1..n |-> j])
        + IF v.size % FeBits # 0 THEN Cardinality(v.words[n] \cap Low(v.size % FeBits)) ELSE 0

\* Whole words of ones from word j up, then the low ones of the next.
OnesUp(words, len, j0) ==
    LET go[j \in 0..len] == IF j = len THEN 0
                            ELSE IF Flip(words[j]) = {} THEN FeBits + go[j + 1] ELSE Min(Flip(words[j]))
    IN  go[j0]
OnesDown(words, j0) ==
    LET go[j \in 0..j0] == IF j = 0 THEN 0
                           ELSE IF Flip(words[j - 1]) = {} THEN FeBits + go[j - 1] ELSE FeBits - 1 - Max(Flip(words[j - 1]))
    IN  go[j0]
Flipped(w) == [j \in DOMAIN w |-> Flip(w[j])]

one_seq_len(v, pos) ==
    LET j == pos \div FeBits
        off == pos % FeBits
        ctz == Min(Flip(ShiftR(v.words[j], off)))
    IN  IF off = 0 THEN OnesUp(v.words, num_words(v), j)
        ELSE IF off \notin v.words[j] THEN 0
        ELSE IF ctz < FeBits - off THEN ctz ELSE ctz + OnesUp(v.words, num_words(v), j + 1)
zero_seq_len(v, pos) ==
    LET j == pos \div FeBits
        off == pos % FeBits
        y == ShiftR(v.words[j], off)
    IN  IF off = 0 THEN OnesUp(Flipped(v.words), num_words(v), j)
        ELSE IF off \in v.words[j] THEN 0
        ELSE IF y # {} THEN Min(y) ELSE FeBits - off + OnesUp(Flipped(v.words), num_words(v), j + 1)
one_seq_revlen(v, end) ==
    LET off == end % FeBits
        x == v.words[(end - 1) \div FeBits]
        clz == FeBits - 1 - Max(Flip(ShiftL(x, FeBits - off)))
    IN  IF off = 0 THEN OnesDown(v.words, end \div FeBits)
        ELSE IF (end - 1) % FeBits \notin x THEN 0
        ELSE IF clz < off THEN clz ELSE clz + OnesDown(v.words, end \div FeBits)
zero_seq_revlen(v, end) ==
    LET off == end % FeBits
        x == v.words[(end - 1) \div FeBits]
        y == ShiftL(x, FeBits - off)
    IN  IF off = 0 THEN OnesDown(Flipped(v.words), end \div FeBits)
        ELSE IF (end - 1) % FeBits \in x THEN 0
        ELSE IF y # {} THEN FeBits - 1 - Max(y) ELSE off + OnesDown(Flipped(v.words), end \div FeBits)

-----------------------------------------------------------------------------
(* static_bitmap: size bits, and extra ones above them in the last word *)

LastBlock(b) == BlocksOf(b.size) - 1
LastBits(b) == b.size % FeBits
HasExtra(b) == LastBits(b) # 0
LastMask(b) == IF HasExtra(b) THEN Low(LastBits(b)) ELSE AllBits

get_extra(b) == ShiftR(b.words[LastBlock(b)] \ LastMask(b), LastBits(b))
set_extra(b, x) ==
    [b EXCEPT !.words[LastBlock(b)] = (@ \cap LastMask(b)) \cup ShiftL(x, LastBits(b))]

sb_fill_all(b, val) == [b EXCEPT !.words = [j \in DOMAIN @ |-> IF val THEN AllBits ELSE {}]]
sb_fill(b, val) ==
    LET last == b.words[LastBlock(b)]
    IN  IF HasExtra(b)
        THEN [sb_fill_all(b, val) EXCEPT !.words[LastBlock(b)] = (last \ LastMask(b)) \cup IF val THEN LastMask(b) ELSE {}]
        ELSE sb_fill_all(b, val)

sb_combine(b, op, y) ==
    [b EXCEPT !.words = [j \in DOMAIN @ |->
        IF HasExtra(b) /\ j = LastBlock(b)
        THEN (OpWord(op, @[j], y[j]) \cap LastMask(b)) \cup (@[j] \ LastMask(b)) ELSE OpWord(op, @[j], y[j])]]

\* By whole blocks from the top, then each block takes what the one below it loses.
do_shl(w, n, real) ==
    LET c == n \div FeBits
        m == n % FeBits
        moved == [j \in DOMAIN w |-> IF j >= real THEN w[j] ELSE IF j >= c THEN w[j - c] ELSE {}]
    IN  IF m = 0 THEN moved
        ELSE [j \in DOMAIN w |->
                 CASE j = c -> ShiftL(moved[j], m)
                   [] j \in (c + 1)..(real - 1) -> ShiftL(moved[j], m) \cup ShiftR(moved[j - 1], FeBits - m)
                   [] OTHER -> moved[j]]
sb_shl(b, n, real) ==
    IF HasExtra(b)
    THEN LET u == set_extra(b, {}) IN set_extra([u EXCEPT !.words = do_shl(@, n, real)], get_extra(b))
    ELSE [b EXCEPT !.words = do_shl(@, n, real)]

CountBlocks(b, n) == FoldLeft(LAMBDA s, j : s + Cardinality(b.words[j - 1]), 0, [j \in 1..n |-> j])
sb_popcnt(b) == CountBlocks(b, BlocksOf(b.size)) - Cardinality(b.words[LastBlock(b)] \ LastMask(b))
popcnt_aligned(b, bits) ==
    CountBlocks(b, BlocksOf(bits))
    - IF BlocksOf(bits) = BlocksOf(b.size) THEN Cardinality(b.words[LastBlock(b)] \ LastMask(b)) ELSE 0
popcnt_index(b, pos) ==
    CountBlocks(b, pos \div FeBits) + Cardinality(b.words[pos \div FeBits] \cap Low(pos % FeBits))
is_all0(b) == /\ \A j \in DOMAIN b.words \ {LastBlock(b)} : b.words[j] = {}
              /\ b.words[LastBlock(b)] \cap LastMask(b) = {}
is_all1(b) == /\ \A j \in DOMAIN b.words \ {LastBlock(b)} : b.words[j] = AllBits
              /\ b.words[LastBlock(b)] \cap LastMask(b) = LastMask(b)

-----------------------------------------------------------------------------
(* Use *)

VecOf(want, pad) ==
    LET n == Cardinality(DOMAIN want)
    IN  [words |-> [j \in 0..(BlocksOf(n) - 1) |->
                       {b \in AllBits : IF j * FeBits + b < n THEN want[j * FeBits + b] ELSE pad}], size |-> n]
BitStrings(n) == [0..(n - 1) -> BOOLEAN]
Resized(want, n, val) == [i \in 0..(n - 1) |-> IF i \in DOMAIN want THEN want[i] ELSE val]
Filled0(want, i, k, val) == [x \in DOMAIN want |-> IF x \in i..(k - 1) THEN val ELSE want[x]]
OpBool(op, x, y) == CASE op = "-" -> x /\ ~y [] op = "^" -> x # y [] op = "&" -> x /\ y [] op = "|" -> x \/ y

Becomes(v, want) == feKind = "vec" /\ fe' = v /\ feWant' = want /\ UNCHANGED feKind

FePush(val) ==
    \E junk \in Junks : fe.size < MaxFe /\ Becomes(fe_push_back(fe, val, junk), Resized(feWant, fe.size + 1, val))
FePop == fe.size > 0 /\ Becomes([fe EXCEPT !.size = @ - 1], Resized(feWant, fe.size - 1, FALSE))
FeResize(n, val) == \E junk \in Junks : n # fe.size /\ Becomes(fe_resize(fe, n, val, junk), Resized(feWant, n, val))
\* Bits that nobody has set are what the memory holds.
FeResizeNoInit(n) ==
    \E junk \in Junks :
       LET v == fe_resize_no_init(fe, n, junk)
       IN  Becomes(v, [i \in 0..(n - 1) |-> IF i < fe.size THEN feWant[i] ELSE bit_test(v.words, i)])
FeResizeFill(n, val) ==
    \E junk \in Junks : Becomes(fe_fill(fe_resize_no_init(fe, n, junk), val), [i \in 0..(n - 1) |-> val])
FeReserve(n) == \E junk \in Junks : Becomes(fe_reserve(fe, n, junk), feWant)
FeShrink == fe.size > 0 /\ Becomes(fe_shrink_to_fit(fe), feWant)
FeCopy == Becomes(fe_copy(fe), feWant)
FeClear == Becomes(EmptyVec, Resized(feWant, 0, FALSE))
FeSlice(beg, len) ==
    beg + len <= fe.size /\ Becomes(fe_slice(fe, beg, len), [i \in 0..(len - 1) |-> feWant[beg + i]])
FeAppend(beg, len) ==
    \E junk \in Junks :
       /\ beg + len <= fe.size /\ fe.size + len <= MaxFe
       /\ Becomes(fe_append(fe, beg, len, junk),
                  [i \in 0..(fe.size + len - 1) |-> IF i < fe.size THEN feWant[i] ELSE feWant[beg + i - fe.size]])
\* ensure_set: the bits between are 0.
FeEnsureSet(i, val) ==
    \E junk \in Junks :
       LET u == IF i < fe.size THEN fe ELSE fe_resize(fe, i + 1, FALSE, junk)
       IN  Becomes([u EXCEPT !.words = bit_set_val(@, i, val)],
                   [Resized(feWant, Max({fe.size, i + 1}), FALSE) EXCEPT ![i] = val])
\* set0, set1, set and beg_end_set of a range.
FeSetRange(i, k, val) ==
    i <= k /\ k <= fe.size /\ Becomes([fe EXCEPT !.words = bits_range_set(@, i, k, val)], Filled0(feWant, i, k, val))
\* Operators with a vector of the same size, whatever lies behind its bits.
FeCombine(op) ==
    \E y \in BitStrings(fe.size), pad \in BOOLEAN :
       /\ fe.size > 0
       /\ LET want == [i \in DOMAIN feWant |-> OpBool(op, feWant[i], y[i])]
          IN  \/ Becomes(fe_combine(fe, op, VecOf(y, pad)), want)
              \/ op \in {"|", "&"} /\ Becomes(fe_block_op(fe, op, VecOf(y, pad), 0, num_words(fe)), want)
FePushUint(width, val) ==
    \E junk \in Junks :
       /\ fe.size + width <= MaxFe
       /\ Becomes(fe_push_uint(fe, width, val, junk),
                  [i \in 0..(fe.size + width - 1) |-> IF i < fe.size THEN feWant[i] ELSE (i - fe.size) \in val])
FeSetUint(pos, width, val) ==
    /\ pos + width <= fe.size
    /\ Becomes([fe EXCEPT !.words = s_set_uint(@, pos, width, val)],
               [i \in DOMAIN feWant |-> IF i \in pos..(pos + width - 1) THEN (i - pos) \in val ELSE feWant[i]])

StaticBecomes(b, bits, extra) ==
    feKind = "static" /\ fe' = b /\ feWant' = [bits |-> bits, extra |-> extra] /\ UNCHANGED feKind
StaticBits == 0..(fe.size - 1)
SbSet(n, val) ==
    StaticBecomes([fe EXCEPT !.words = bit_set_val(@, n, val)],
                  IF val THEN feWant.bits \cup {n} ELSE feWant.bits \ {n}, feWant.extra)
SbFill(val) == StaticBecomes(sb_fill(fe, val), IF val THEN StaticBits ELSE {}, feWant.extra)
SbSetExtra(x) == HasExtra(fe) /\ StaticBecomes(set_extra(fe, x), feWant.bits, x)
SbCombine(op) ==
    \E y \in SUBSET (0..(FeBits * BlocksOf(fe.size) - 1)) :
       StaticBecomes(sb_combine(fe, op, [j \in DOMAIN fe.words |-> {b \in AllBits : j * FeBits + b \in y}]),
                     {i \in StaticBits : OpBool(op, i \in feWant.bits, i \in y)}, feWant.extra)
SbShl(n, real) ==
    LET Inside(i) == i < real * FeBits
    IN  /\ n < FeBits * real
        /\ StaticBecomes(sb_shl(fe, n, real),
                         {i \in StaticBits : IF Inside(i) THEN i - n \in feWant.bits ELSE i \in feWant.bits}, feWant.extra)

FeInit ==
    \/ feKind = "vec" /\ fe = EmptyVec /\ feWant = [i \in {} |-> FALSE]
    \/ /\ feKind = "static"
       /\ \E t \in StaticSizes, val \in BOOLEAN :
             LET b == sb_fill_all([words |-> [j \in 0..(BlocksOf(t) - 1) |-> {}], size |-> t], val)
             IN  /\ fe = b
                 /\ feWant = [bits |-> IF val THEN 0..(t - 1) ELSE {}, extra |-> get_extra(b)]

VecNext0 ==
    \/ FePop \/ FeShrink \/ FeCopy \/ FeClear
    \/ \E n \in 0..MaxFe : FeResizeNoInit(n) \/ FeReserve(n)
    \/ \E n \in 0..MaxFe, val \in BOOLEAN : FeResize(n, val) \/ FeResizeFill(n, val)
    \/ \E val \in BOOLEAN : FePush(val) \/ \E i \in 0..(MaxFe - 1) : FeEnsureSet(i, val)
    \/ \E i, k \in 0..MaxFe : FeSlice(i, k) \/ FeAppend(i, k) \/ \E val \in BOOLEAN : FeSetRange(i, k, val)
    \/ \E op \in {"-", "^", "&", "|"} : FeCombine(op)
    \/ \E width \in 1..FeBits : \E val \in SUBSET Low(width) :
          FePushUint(width, val) \/ \E pos \in 0..MaxFe : FeSetUint(pos, width, val)
StaticNext0 ==
    \/ \E val \in BOOLEAN : SbFill(val) \/ \E n \in StaticBits : SbSet(n, val)
    \/ \E x \in SUBSET Low(FeBits - LastBits(fe)) : SbSetExtra(x)
    \/ \E op \in {"-", "^", "&", "|"} : SbCombine(op)
    \/ \E real \in 1..BlocksOf(fe.size), n \in 1..(FeBits * BlocksOf(fe.size)) : SbShl(n, real)
FeNext == IF feKind = "vec" THEN VecNext0 ELSE StaticNext0

-----------------------------------------------------------------------------
(* Properties *)

RunLength(from, step, n, val) ==    \* how many of the n bits at from, from + step, ... have the value
    Max({k \in 0..n : \A m \in 0..(k - 1) : feWant[from + m * step] = val})

\* febitvec holds its bits whatever the memory behind them held: they are found by test, count, whole-vector tests
\* and packed reads, and the runs of equal bits that begin or end anywhere are as long as they are, where a run up
\* to the last bit may be reported longer, since what follows is not looked at.
FeVecRight ==
    feKind = "vec" =>
        /\ fe.size <= FeCap(fe) /\ feWant = [i \in 0..(fe.size - 1) |-> bit_test(fe.words, i)]
        /\ popcnt(fe) = Cardinality({i \in DOMAIN feWant : feWant[i]})
        /\ fe.size > 0 => /\ isall0(fe) <=> \A i \in DOMAIN feWant : ~feWant[i]
                          /\ isall1(fe) <=> \A i \in DOMAIN feWant : feWant[i]
        /\ \A i \in DOMAIN feWant :
              /\ Min({one_seq_len(fe, i), fe.size - i}) = RunLength(i, 1, fe.size - i, TRUE)
              /\ Min({zero_seq_len(fe, i), fe.size - i}) = RunLength(i, 1, fe.size - i, FALSE)
              /\ \A w \in 1..Min({FeBits, fe.size - i}) : s_get_uint(fe.words, i, w) = {b \in Low(w) : feWant[i + b]}
        /\ \A e \in 0..fe.size : /\ one_seq_revlen(fe, e) = RunLength(e - 1, -1, e, TRUE)
                                 /\ zero_seq_revlen(fe, e) = RunLength(e - 1, -1, e, FALSE)

\* static_bitmap: bits and extra bits share the last word, and no operation on the ones changes the others.
StaticRight ==
    feKind = "static" =>
        /\ feWant.bits = {i \in StaticBits : bit_test(fe.words, i)}
        /\ HasExtra(fe) => get_extra(fe) = feWant.extra
        /\ sb_popcnt(fe) = Cardinality(feWant.bits)
        /\ is_all0(fe) <=> feWant.bits = {}
        /\ is_all1(fe) <=> feWant.bits = StaticBits
        /\ \A i \in StaticBits : /\ popcnt_index(fe, i) = Cardinality(feWant.bits \cap 0..(i - 1))
                            /\ popcnt_aligned(fe, i + 1)
                               = Cardinality(feWant.bits \cap 0..(FeBits * BlocksOf(i + 1) - 1))

\* A run of ones ends with the vector ("number of continuous one/zero bits starts at bitpos", bitmap.hpp:378).
RunsEndInside == feKind = "vec" => \A i \in DOMAIN feWant : one_seq_len(fe, i) <= fe.size - i

\* febitvec(bits, val, padding) has its bits.
PaddedRight ==
    \A n \in 1..FeBits, val \in BOOLEAN, pad \in BOOLEAN :
       \A i \in 0..(n - 1) : bit_test(fe_padded(n, val, pad, {}).words, i) = val
=============================================================================
