----------------------------- MODULE RankSelect -----------------------------
(***************************************************************************)
(* The succinct bit vectors of src/terark/succinct: rank_select_simple,    *)
(* rank_select_se (256), rank_select_se_512, rank_select_il (256) and      *)
(* rank_select_il_256_32_41.  Bits are kept in lines of words; build_cache *)
(* clears the padding of the last line, stores the number of ones before   *)
(* every line (lev1) and before every word of it (lev2), and, for a select *)
(* that is to be fast, the line in which each LineBits-th (or LineBits/Q-  *)
(* th) zero or one lies.  These indexes follow the lines in one block of   *)
(* 32 bit slots, which risk_mmap_from walks again when the block is mapped *)
(* from a file.                                                            *)
(*                                                                         *)
(* Then the vectors of several dimensions in one block, and the sparse     *)
(* vector, rank_select_few.                                                *)
(*                                                                         *)
(* The size of a word and the number of words of a line are constants; the *)
(* unrolled decision over the words of a line is the word in whose range   *)
(* the rank falls, and a binary search is the bound it returns.            *)
(***************************************************************************)
EXTENDS Integers, Sequences, FiniteSets, FiniteSetsExt

CONSTANTS WordBits,    \* bits of a word (64)
          LineWords,   \* words of a 256 bit line (4)
          BitKinds,    \* the classes looked at
          FastWalk,    \* the lines from which fast_select halves its range (32)
          MaxBits      \* bound on the size of a bit vector

ASSUME RankSelectAssumption ==
    /\ WordBits \in Nat \ {0} /\ LineWords \in Nat \ {0} /\ MaxBits \in Nat /\ FastWalk \in Nat
    /\ BitKinds \subseteq {"simple", "se", "se_512", "il", "il_41"}

CeilDiv(a, b) == (a + b - 1) \div b

Words(kind) == IF kind \in {"se_512", "mixed_se"} THEN 2 * LineWords ELSE LineWords

LineBits(kind) == WordBits * Words(kind)

Q0(kind) == IF kind = "il_41" THEN LineWords ELSE 1

NULL == -1

NoCache == [kind |-> "none"]

Ones(b, i, k) == Cardinality({j \in i..(k - 1) : b[j] = 1})

-----------------------------------------------------------------------------
(* build_cache. *)

\* bits_range_set0 of what lies behind the last bit
Padded(kind, b, size) ==
    [i \in 0..(LineBits(kind) * CeilDiv(size, LineBits(kind)) - 1) |->
        IF i < size THEN b[i] ELSE 0]

RankLines(kind, c, n) ==
    LET L == LineBits(kind)
    IN  [i \in 0..n |->
            [lev1 |-> Ones(c, 0, i * L),
             lev2 |-> [j \in 0..(Words(kind) - 1) |->
                          IF i = n THEN 0 ELSE Ones(c, i * L, i * L + j * WordBits)]]]

\* ones, or zeros, before line k
Before(kind, lines, bit, k) ==
    IF bit = 1 THEN lines[k].lev1 ELSE k * LineBits(kind) - lines[k].lev1

\* the slots of a select index: the line where the (step * j)-th bit is
SelIndex(kind, lines, n, bit, slots, step) ==
    [j \in 0..slots |->
        IF j = slots THEN n
        ELSE Min({k \in 0..(n + 1) : k > n \/ Before(kind, lines, bit, k) >= step * j})]

Slots(kind, max, q) == (max + LineBits(kind) - 1) \div (LineBits(kind) \div q)

BuildCache(kind, b, size, s0, s1) ==
    LET L     == LineBits(kind)
        n     == CeilDiv(size, L)
        c     == Padded(kind, b, size)
        lines == RankLines(kind, c, n)
        max1  == lines[n].lev1
        max0  == size - max1
        w0    == IF s0 THEN Slots(kind, max0, Q0(kind)) + 1 ELSE 0
        w1    == IF s1 THEN Slots(kind, max1, 1) + 1 ELSE 0
        i0    == SelIndex(kind, lines, n, 0, w0 - 1, L \div Q0(kind))
        i1    == SelIndex(kind, lines, n, 1, w1 - 1, L)
    IN  [kind |-> kind, bits |-> c, size |-> size, lines |-> lines, nlines |-> n,
         max0 |-> max0, max1 |-> max1, flags |-> <<s0, s1>>,
         block |-> [k \in 0..(w0 + w1 - 1) |-> IF k < w0 THEN i0[k] ELSE i1[k - w0]],
         sel0 |-> IF s0 THEN 0 ELSE NULL, sel1 |-> IF s1 THEN w0 ELSE NULL]

se_build_cache(b, size, s0, s1)     == BuildCache("se", b, size, s0, s1)
se_512_build_cache(b, size, s0, s1) == BuildCache("se_512", b, size, s0, s1)
il_build_cache_q(kind, b, size, s0, s1) == BuildCache(kind, b, size, s0, s1)

\* both parameters of the simple one are place holders
simple_build_cache(b, size, s0, s1) == BuildCache("simple", b, size, FALSE, FALSE)

build_cache(kind, b, size, s0, s1) ==
    CASE kind = "simple" -> simple_build_cache(b, size, s0, s1)
      [] kind = "se"     -> se_build_cache(b, size, s0, s1)
      [] kind = "se_512" -> se_512_build_cache(b, size, s0, s1)
      [] OTHER           -> il_build_cache_q(kind, b, size, s0, s1)

-----------------------------------------------------------------------------
(* risk_mmap_from: the pointers, from the flags and the ones of the file.  *)
(* Every class counts the slots of the select0 index with Q = 1.           *)

RiskMmap(rs) ==
    LET max1 == rs.lines[rs.nlines].lev1
        max0 == rs.size - max1
        w0   == IF rs.flags[1] THEN Slots(rs.kind, max0, 1) + 1 ELSE 0
    IN  [rs EXCEPT !.max1 = max1, !.max0 = max0,
                   !.sel0 = IF rs.flags[1] THEN 0 ELSE NULL,
                   !.sel1 = IF rs.flags[2] THEN w0 ELSE NULL]

se_risk_mmap_from(rs)     == RiskMmap(rs)
se_512_risk_mmap_from(rs) == RiskMmap(rs)
il_risk_mmap_from(rs)     == RiskMmap(rs)
simple_risk_mmap_from(rs) == RiskMmap(rs)

risk_mmap_from(rs) ==
    CASE rs.kind = "simple" -> simple_risk_mmap_from(rs)
      [] rs.kind = "se"     -> se_risk_mmap_from(rs)
      [] rs.kind = "se_512" -> se_512_risk_mmap_from(rs)
      [] OTHER              -> il_risk_mmap_from(rs)

-----------------------------------------------------------------------------
(* Queries. *)

\* the line's count, the word's count, the ones of the word before the bit
Rank1(rs, pos) ==
    LET L    == LineBits(rs.kind)
        line == rs.lines[pos \div L]
        from == pos - (pos % WordBits)
    IN  line.lev1 + line.lev2[(pos % L) \div WordBits]
          + (IF pos % WordBits = 0 THEN 0 ELSE Ones(rs.bits, from, pos))

\* without lev2: the words of the line are counted
simple_rank1(rs, pos) ==
    LET L == LineBits(rs.kind)
    IN  rs.lines[pos \div L].lev1 + Ones(rs.bits, pos - (pos % L), pos)

se_rank1(rs, pos)     == Rank1(rs, pos)
se_512_rank1(rs, pos) == Rank1(rs, pos)
il_rank1(rs, pos)     == Rank1(rs, pos)

\* the position of the r-th (from 0) bit of that value in line k
InLine(rs, bit, k, r) ==
    LET L    == LineBits(rs.kind)
        hit  == Before(rs.kind, rs.lines, bit, k)
        Upto(j) == IF bit = 1 THEN rs.lines[k].lev2[j]
                   ELSE WordBits * j - rs.lines[k].lev2[j]
        word == Max({j \in 0..(Words(rs.kind) - 1) : j = 0 \/ hit + Upto(j) <= r})
        from == k * L + word * WordBits
        rest == r - (hit + Upto(word))
    IN  CHOOSE p \in from..(from + WordBits - 1) :
            /\ rs.bits[p] = bit
            /\ Cardinality({q \in from..(p - 1) : rs.bits[q] = bit}) = rest

\* upper_bound in lo..hi, then the line before it; an index that is wrong
\* leads to no line that has the bit
SelectIn(rs, bit, r, lo, hi) ==
    LET up == Min({k \in lo..hi : k >= hi \/ Before(rs.kind, rs.lines, bit, k) > r} \cup
                  IF lo > hi THEN {lo} ELSE {})
    IN  IF up \in 1..rs.nlines /\ Before(rs.kind, rs.lines, bit, up) > r
                               /\ Before(rs.kind, rs.lines, bit, up - 1) <= r
        THEN InLine(rs, bit, up - 1, r) ELSE NULL

\* where the search ends if there is no index: for most classes one line more when the last line is full
EndLine(rs) ==
    IF rs.kind \in {"simple", "il", "il_41"} THEN rs.nlines
    ELSE (rs.size + LineBits(rs.kind) + 1) \div LineBits(rs.kind)

Select(rs, bit, r, sel, q) ==
    LET step == LineBits(rs.kind) \div q
    IN  IF sel = NULL
        THEN SelectIn(rs, bit, r, 0, EndLine(rs))
        ELSE SelectIn(rs, bit, r, rs.block[sel + r \div step], rs.block[sel + r \div step + 1])

simple_select0(rs, r) == SelectIn(rs, 0, r, 0, rs.nlines)
simple_select1(rs, r) == SelectIn(rs, 1, r, 0, rs.nlines)
se_select0(rs, r) == Select(rs, 0, r, rs.sel0, 1)
se_select1(rs, r) == Select(rs, 1, r, rs.sel1, 1)
se_512_select0(rs, r) == Select(rs, 0, r, rs.sel0, 1)
se_512_select1(rs, r) == Select(rs, 1, r, rs.sel1, 1)
il_select0_q(rs, r) == Select(rs, 0, r, rs.sel0, Q0(rs.kind))
il_select1_q(rs, r) == Select(rs, 1, r, rs.sel1, 1)

\* the static variants look the index up without asking whether there is one, and walk from its lower
\* bound when the range is short; a range that ends before it begins counts as long (hi - lo wraps)
FastSelect(rs, bit, r, sel, q) ==
    LET at == sel + r \div (LineBits(rs.kind) \div q)
        lo == rs.block[at]
        hi == rs.block[at + 1]
    IN  SelectIn(rs, bit, r, lo, IF hi - lo \in 0..(FastWalk \div q - 1) THEN rs.nlines ELSE hi)

se_fast_select0(rs, r) == FastSelect(rs, 0, r, rs.sel0, 1)
se_fast_select1(rs, r) == FastSelect(rs, 1, r, rs.sel1, 1)
se_512_fast_select0(rs, r) == FastSelect(rs, 0, r, rs.sel0, 1)
se_512_fast_select1(rs, r) == FastSelect(rs, 1, r, rs.sel1, 1)
il_fast_select0_q(rs, r) == FastSelect(rs, 0, r, rs.sel0, Q0(rs.kind))
il_fast_select1_q(rs, r) == FastSelect(rs, 1, r, rs.sel1, 1)

\* how far bits of one value go on from a position, and back from its end
RunLen(b, cap, pos, bit) ==
    Min({n \in 0..(cap - pos) : pos + n = cap \/ b[pos + n] # bit})

RunRevLen(b, end, bit) ==
    Min({n \in 0..end : n = end \/ b[end - 1 - n] # bit})

CapOf(rs) == LineBits(rs.kind) * rs.nlines

il_one_seq_len(rs, pos) == RunLen(rs.bits, CapOf(rs), pos, 1)
il_zero_seq_len(rs, pos) == RunLen(rs.bits, CapOf(rs), pos, 0)
il_one_seq_revlen(rs, end) == RunRevLen(rs.bits, end, 1)
il_zero_seq_revlen(rs, end) == RunRevLen(rs.bits, end, 0)

bits_rank1(rs, pos) ==
    CASE rs.kind = "simple" -> simple_rank1(rs, pos)
      [] rs.kind = "se"     -> se_rank1(rs, pos)
      [] rs.kind = "se_512" -> se_512_rank1(rs, pos)
      [] OTHER              -> il_rank1(rs, pos)

\* what the member and the static function answer
bits_selects(rs, bit, r) ==
    CASE rs.kind = "simple" -> {IF bit = 0 THEN simple_select0(rs, r) ELSE simple_select1(rs, r)}
      [] rs.kind = "se" ->
            IF bit = 0
            THEN {se_select0(rs, r)} \cup IF rs.sel0 # NULL THEN {se_fast_select0(rs, r)} ELSE {}
            ELSE {se_select1(rs, r)} \cup IF rs.sel1 # NULL THEN {se_fast_select1(rs, r)} ELSE {}
      [] rs.kind = "se_512" ->
            IF bit = 0
            THEN {se_512_select0(rs, r)} \cup IF rs.sel0 # NULL THEN {se_512_fast_select0(rs, r)} ELSE {}
            ELSE {se_512_select1(rs, r)} \cup IF rs.sel1 # NULL THEN {se_512_fast_select1(rs, r)} ELSE {}
      [] OTHER ->
            IF bit = 0
            THEN {il_select0_q(rs, r)} \cup IF rs.sel0 # NULL THEN {il_fast_select0_q(rs, r)} ELSE {}
            ELSE {il_select1_q(rs, r)} \cup IF rs.sel1 # NULL THEN {il_fast_select1_q(rs, r)} ELSE {}

-----------------------------------------------------------------------------
(* A bit vector's life. *)

VARIABLES
    bvKind,   \* the class
    bvBits,   \* the bits, with the padding of the last line
    bvSize,   \* m_size
    bvRef,    \* the bits a caller has pushed: what the vector stands for
    bvRs      \* the cache, or NoCache

bvVars == <<bvKind, bvBits, bvSize, bvRef, bvRs>>

BitsInit ==
    /\ bvKind \in BitKinds
    /\ bvBits = [i \in {} |-> 0] /\ bvSize = 0 /\ bvRef = [i \in {} |-> 0]
    /\ bvRs = NoCache

BitsCap == Cardinality(DOMAIN bvBits)

\* push_back: in the padding of the last line, or in a line that is added;
\* the one the bit vector adds is zero, febitvec's holds what realloc left
bits_push_back(v) ==
    /\ bvRs = NoCache /\ bvSize < MaxBits
    /\ \E junk \in (IF bvKind \in {"il", "il_41"} THEN {0} ELSE {0, 1}) :
         /\ bvSize < BitsCap => junk = 0
         /\ bvBits' = [i \in 0..((IF bvSize < BitsCap THEN BitsCap ELSE BitsCap + LineBits(bvKind)) - 1) |->
                         IF i = bvSize THEN v ELSE IF i < BitsCap THEN bvBits[i] ELSE junk]
    /\ bvSize' = bvSize + 1
    /\ bvRef' = [i \in 0..bvSize |-> IF i = bvSize THEN v ELSE bvRef[i]]
    /\ UNCHANGED <<bvKind, bvRs>>

\* bits_pop_back leaves the bit in the padding
bits_pop_back ==
    /\ bvRs = NoCache /\ bvSize > 0
    /\ bvSize' = bvSize - 1
    /\ bvRef' = [i \in 0..(bvSize - 2) |-> bvRef[i]]
    /\ UNCHANGED <<bvKind, bvBits, bvRs>>

BuildBits(s0, s1) ==
    /\ bvRs = NoCache /\ BitsCap > 0
    /\ bvRs' = build_cache(bvKind, bvBits, bvSize, s0, s1)
    /\ UNCHANGED <<bvKind, bvBits, bvSize, bvRef>>

\* the block is written to a file and mapped; rank_select_il_256_32_41 with
\* both indexes is left to MapBitsAny
MapBits ==
    /\ bvRs # NoCache
    /\ ~ (bvKind = "il_41" /\ bvRs.flags = <<TRUE, TRUE>>)
    /\ bvRs' = risk_mmap_from(bvRs)
    /\ UNCHANGED <<bvKind, bvBits, bvSize, bvRef>>

MapBitsAny == bvRs # NoCache /\ bvRs' = risk_mmap_from(bvRs) /\ UNCHANGED <<bvKind, bvBits, bvSize, bvRef>>

BitsNext ==
    \/ \E v \in {0, 1} : bits_push_back(v)
    \/ bits_pop_back
    \/ \E s0, s1 \in BOOLEAN : BuildBits(s0, s1)
    \/ MapBits

BitsSpec == BitsInit /\ [][BitsNext]_bvVars

BitsSpecAny == BitsInit /\ [][BitsNext \/ MapBitsAny]_bvVars

-----------------------------------------------------------------------------
(* Properties. *)

RefRank(b, pos) == Ones(b, 0, pos)

RefSelect(b, bit, r) ==
    CHOOSE p \in DOMAIN b : b[p] = bit /\ Cardinality({q \in 0..(p - 1) : b[q] = bit}) = r

\* Whatever a vector went through before build_cache (bits popped, lines that
\* realloc gave), and whether its block was built here or mapped from a file:
\* every rank and every select, by the member and by the static function, with
\* and without an index, is the one of the bits pushed; so are the run lengths,
\* but for a run of zeros that reaches the padding.
RankSelectRight ==
    bvRs # NoCache =>
        /\ \A pos \in 0..bvSize : bits_rank1(bvRs, pos) = RefRank(bvRef, pos)
        /\ bvRs.max1 = RefRank(bvRef, bvSize) /\ bvRs.max0 + bvRs.max1 = bvSize
        /\ \A r \in 0..(bvRs.max0 - 1) : bits_selects(bvRs, 0, r) = {RefSelect(bvRef, 0, r)}
        /\ \A r \in 0..(bvRs.max1 - 1) : bits_selects(bvRs, 1, r) = {RefSelect(bvRef, 1, r)}
        /\ bvKind = "il" =>
             \A pos \in 0..(bvSize - 1) :
                /\ il_one_seq_len(bvRs, pos) = RunLen(bvRef, bvSize, pos, 1)
                /\ LET z == RunLen(bvRef, bvSize, pos, 0)
                   IN  pos + z < bvSize => il_zero_seq_len(bvRs, pos) = z
                /\ il_one_seq_revlen(bvRs, pos + 1) = RunRevLen(bvRef, pos + 1, 1)
                /\ il_zero_seq_revlen(bvRs, pos + 1) = RunRevLen(bvRef, pos + 1, 0)

\* "number of continuous one/zero bits starts at bitpos": a run of zeros ends
\* with the bits of the vector.
ZeroRunEnds ==
    bvRs # NoCache /\ bvKind = "il" =>
        \A pos \in 0..(bvSize - 1) : pos + il_zero_seq_len(bvRs, pos) <= bvSize

(***************************************************************************)
(* Several bit vectors (dimensions) interleaved in one block of memory:    *)
(* rank_select_mixed_il_256, rank_select_mixed_se_512 (two dimensions) and *)
(* rank_select_mixed_xl_256<Arity>.  Each dimension's cache is built by a  *)
(* call of its own, in any order; the select indexes of all of them share  *)
(* the tail of the block, behind the lines, and the flag word at its end   *)
(* says which of them there are.  A build makes the block larger and puts  *)
(* its indexes behind (il, se) or between (xl) the ones already there.     *)
(***************************************************************************)

CONSTANTS
    MixedUses     \* the uses looked at: [kind, arity, bits, sizes, speeds, moves];
                  \* bits bounds the bits of a dimension

VARIABLES
    mxUse,      \* the class and how it is used
    mxBits,     \* per dimension, its bits
    mxRs,       \* per dimension, ranks and counts; NoCache before its build
    mxFlags,    \* per dimension, its bits of m_flags: [a, b] at offsets +1, +2
    mxFirst1,   \* bit 0 of m_flags: dimension 1 was built first
    mxBlock,    \* the slots behind the lines
    mxPtr       \* per dimension, <<m_sel0_cache, m_sel1_cache>>; Stale if moved

mxVars == <<mxUse, mxBits, mxRs, mxFlags, mxFirst1, mxBlock, mxPtr>>

Dims == 0..(mxUse.arity - 1)

Stale == -2

DimSize(d) == Cardinality(DOMAIN mxBits[d])

\* speeds: may a caller ask for one index only; sizes: may the sizes differ
MixedInit ==
    /\ mxUse \in MixedUses
    /\ mxBits \in [Dims -> UNION {[0..(n - 1) -> {0, 1}] : n \in 1..mxUse.bits}]
    /\ ~ mxUse.sizes => \A d \in Dims : DimSize(d) = DimSize(0)
    /\ mxRs = [d \in Dims |-> NoCache]
    /\ mxFlags = [d \in Dims |-> [a |-> FALSE, b |-> FALSE]]
    /\ mxFirst1 = FALSE
    /\ mxBlock = [i \in {} |-> 0]
    /\ mxPtr = [d \in Dims |-> <<NULL, NULL>>]

MaxSize == Max({DimSize(d) : d \in Dims})

\* every dimension has the lines of the longest one
DimCache(kind, d, s0, s1) ==
    LET L == LineBits(kind)
        n == CeilDiv(MaxSize, L)
        c == [i \in 0..(n * L - 1) |-> IF i < DimSize(d) THEN mxBits[d][i] ELSE 0]
        lines == RankLines(kind, c, n)
    IN  [kind |-> kind, bits |-> c, size |-> DimSize(d), lines |-> lines, nlines |-> n,
         max1 |-> lines[n].lev1, max0 |-> DimSize(d) - lines[n].lev1,
         flags |-> <<s0, s1>>]

Width(rs, bit) == Slots(rs.kind, IF bit = 0 THEN rs.max0 ELSE rs.max1, 1) + 1

\* the slots a built dimension uses, as the flags tell
DimUsed(d) == (IF mxFlags[d].a THEN Width(mxRs[d], 0) ELSE 0)
             + (IF mxFlags[d].b THEN Width(mxRs[d], 1) ELSE 0)

SlotAt(f, i) == IF i \in DOMAIN f THEN f[i] ELSE 0

\* the two indexes, laid from `at' into a block that is zero there
LayIndexes(block, at, rs, s0, s1) ==
    LET w0 == IF s0 THEN Width(rs, 0) ELSE 0
        w1 == IF s1 THEN Width(rs, 1) ELSE 0
        i0 == SelIndex(rs.kind, rs.lines, rs.nlines, 0, w0 - 1, LineBits(rs.kind))
        i1 == SelIndex(rs.kind, rs.lines, rs.nlines, 1, w1 - 1, LineBits(rs.kind))
    IN  [i \in DOMAIN block |->
            IF i \in at..(at + w0 - 1) THEN i0[i - at]
            ELSE IF i \in (at + w0)..(at + w0 + w1 - 1) THEN i1[i - at - w0]
            ELSE block[i]]

\* reserve_bytes may move the block; the pointers are not made again
MovedPtr(moves, ptr, d) ==
    [e \in Dims |-> IF moves /\ e # d
                    THEN [k \in 1..2 |-> IF ptr[e][k] = NULL THEN NULL ELSE Stale]
                    ELSE ptr[e]]

-----------------------------------------------------------------------------
(* build_cache_dx of the two dimensional classes: the new indexes follow   *)
(* the used slots, all behind them is cleared first.                       *)

BuildDx(d, s0, s1, moves) ==
    LET rs   == DimCache(mxUse.kind, d, s0, s1)
        e    == 1 - d
        used == IF mxRs[e] = NoCache THEN 0 ELSE DimUsed(e)
        own  == (IF s0 THEN Width(rs, 0) ELSE 0) + (IF s1 THEN Width(rs, 1) ELSE 0)
        clear == [i \in 0..(used + own - 1) |-> IF i < used THEN SlotAt(mxBlock, i) ELSE 0]
    IN  /\ mxRs' = [mxRs EXCEPT ![d] = rs]
        /\ mxFlags' = [mxFlags EXCEPT ![d] = [a |-> s1, b |-> s0]]
        /\ mxFirst1' = (mxFirst1 \/ (mxRs[e] # NoCache /\ d = 0))
        /\ mxBlock' = LayIndexes(clear, used, rs, s0, s1)
        /\ mxPtr' = [MovedPtr(moves, mxPtr, d) EXCEPT ![d] =
                       <<IF s0 THEN used ELSE NULL,
                         IF s1 THEN used + (IF s0 THEN Width(rs, 0) ELSE 0) ELSE NULL>>]

mixed_il_build_cache_dx(d, s0, s1, moves) == mxUse.kind = "mixed_il" /\ BuildDx(d, s0, s1, moves)
mixed_se_build_cache_dx(d, s0, s1, moves) == mxUse.kind = "mixed_se" /\ BuildDx(d, s0, s1, moves)

\* the pointers of the dimensions above d keep their place
ShiftUp_None(d, own) == mxPtr

\* the pointers of the dimensions above d move up with their indexes
ShiftUp(d, own) ==
    [e \in Dims |-> [k \in 1..2 |-> IF e > d /\ mxPtr[e][k] >= 0 THEN mxPtr[e][k] + own ELSE mxPtr[e][k]]]

\* the indexes of the dimensions above d move up to make room
mixed_xl_build_cache_impl(d, s0, s1, moves) ==
    LET rs    == DimCache(mxUse.kind, d, s0, s1)
        UsedOf(e) == IF mxRs[e] = NoCache THEN 0 ELSE DimUsed(e)
        start == MapThenSumSet(UsedOf, {e \in Dims : e < d})
        after == MapThenSumSet(UsedOf, {e \in Dims : e > d})
        own   == (IF s0 THEN Width(rs, 0) ELSE 0) + (IF s1 THEN Width(rs, 1) ELSE 0)
        moved == [i \in 0..(start + own + after - 1) |->
                    IF i < start THEN SlotAt(mxBlock, i)
                    ELSE IF i < start + own THEN 0 ELSE SlotAt(mxBlock, i - own)]
    IN  /\ mxUse.kind = "mixed_xl"
        /\ mxRs' = [mxRs EXCEPT ![d] = rs]
        /\ mxFlags' = [mxFlags EXCEPT ![d] = [a |-> s0, b |-> s1]]
        /\ mxBlock' = LayIndexes(moved, start, rs, s0, s1)
        /\ mxPtr' = [MovedPtr(moves, ShiftUp(d, own), d) EXCEPT ![d] =
                       <<IF s0 THEN start ELSE NULL,
                         IF s1 THEN start + (IF s0 THEN Width(rs, 0) ELSE 0) ELSE NULL>>]
        /\ UNCHANGED mxFirst1

BuildDim(d) ==
    /\ mxRs[d] = NoCache
    /\ \E s0, s1 \in BOOLEAN, moves \in (IF mxUse.moves THEN BOOLEAN ELSE {FALSE}) :
        /\ mxUse.speeds \/ s0 = s1
        /\ \/ mixed_il_build_cache_dx(d, s0, s1, moves)
           \/ mixed_se_build_cache_dx(d, s0, s1, moves)
           \/ mixed_xl_build_cache_impl(d, s0, s1, moves)
    /\ UNCHANGED <<mxUse, mxBits>>

-----------------------------------------------------------------------------
(* risk_mmap_from: the dimensions in the order of the flag word, each as   *)
(* its two flag bits say, the first for select0 and the second for select1.*)

LoadOrder == IF mxFirst1 THEN <<1, 0>> ELSE [i \in 1..mxUse.arity |-> i - 1]

LoadPtr(d) ==
    LET pos == CHOOSE i \in DOMAIN LoadOrder : LoadOrder[i] = d
        UsedOf(i) == DimUsed(LoadOrder[i])
        at  == MapThenSumSet(UsedOf, 1..(pos - 1))
    IN  <<IF mxFlags[d].a THEN at ELSE NULL,
          IF mxFlags[d].b THEN at + (IF mxFlags[d].a THEN Width(mxRs[d], 0) ELSE 0) ELSE NULL>>

\* the lines are counted from the first two dimensions only
LoadLines(d) ==
    LET L == LineBits(mxUse.kind)
        n == CeilDiv(Max({DimSize(0), DimSize(1)}), L)
    IN  IF n >= mxRs[d].nlines THEN mxRs[d] ELSE [mxRs[d] EXCEPT !.nlines = n]

MixedMmap ==
    /\ \A d \in Dims : mxRs[d] # NoCache
    /\ mxPtr' = [d \in Dims |-> LoadPtr(d)]
    /\ mxRs' = [d \in Dims |-> LoadLines(d)]
    /\ UNCHANGED <<mxUse, mxBits, mxFlags, mxFirst1, mxBlock>>

mixed_il_risk_mmap_from == mxUse.kind = "mixed_il" /\ MixedMmap
mixed_se_risk_mmap_from == mxUse.kind = "mixed_se" /\ MixedMmap
mixed_xl_risk_mmap_from == mxUse.kind = "mixed_xl" /\ MixedMmap

MixedNext ==
    \/ \E d \in Dims : BuildDim(d)
    \/ mixed_il_risk_mmap_from
    \/ mixed_se_risk_mmap_from
    \/ mixed_xl_risk_mmap_from

MixedSpec == MixedInit /\ [][MixedNext]_mxVars

-----------------------------------------------------------------------------
(* Queries of one dimension. *)

\* what a pointer that no longer points into the block reads is no line
SelectDx(d, bit, r) ==
    LET rs  == mxRs[d]
        sel == mxPtr[d][bit + 1]
        at  == sel + r \div LineBits(rs.kind)
    IN  IF sel = NULL THEN SelectIn(rs, bit, r, 0, EndLine(rs))
        ELSE IF sel = Stale \/ ~ {at, at + 1} \subseteq DOMAIN mxBlock THEN NULL
        ELSE SelectIn(rs, bit, r, mxBlock[at], mxBlock[at + 1])

mixed_il_select0_dx(d, r) == SelectDx(d, 0, r)
mixed_il_select1_dx(d, r) == SelectDx(d, 1, r)
mixed_se_select0_dx(d, r) == SelectDx(d, 0, r)
mixed_se_select1_dx(d, r) == SelectDx(d, 1, r)
mixed_xl_select0_dx(d, r) == SelectDx(d, 0, r)
mixed_xl_select1_dx(d, r) == SelectDx(d, 1, r)

mixed_il_rank1_dx(d, pos) == Rank1(mxRs[d], pos)
mixed_se_rank1_dx(d, pos) == Rank1(mxRs[d], pos)
mixed_xl_rank1_dx(d, pos) == Rank1(mxRs[d], pos)

\* the runs of a dimension: il and xl look one line further than the bits
mixed_il_one_seq_len_dx(d, pos) == RunLen(mxRs[d].bits, CapOf(mxRs[d]), pos, 1)
mixed_se_one_seq_len_dx(d, pos) ==
    RunLen(mxRs[d].bits, WordBits * CeilDiv(DimSize(d), WordBits), pos, 1)
mixed_xl_one_seq_len_dx(d, pos) == RunLen(mxRs[d].bits, CapOf(mxRs[d]), pos, 1)
mixed_one_seq_revlen_dx(d, end) == RunRevLen(mxRs[d].bits, end, 1)
mixed_zero_seq_revlen_dx(d, end) == RunRevLen(mxRs[d].bits, end, 0)

select_dx(d, bit, r) ==
    CASE mxUse.kind = "mixed_il" -> IF bit = 0 THEN mixed_il_select0_dx(d, r) ELSE mixed_il_select1_dx(d, r)
      [] mxUse.kind = "mixed_se" -> IF bit = 0 THEN mixed_se_select0_dx(d, r) ELSE mixed_se_select1_dx(d, r)
      [] OTHER -> IF bit = 0 THEN mixed_xl_select0_dx(d, r) ELSE mixed_xl_select1_dx(d, r)

rank1_dx(d, pos) ==
    CASE mxUse.kind = "mixed_il" -> mixed_il_rank1_dx(d, pos)
      [] mxUse.kind = "mixed_se" -> mixed_se_rank1_dx(d, pos)
      [] OTHER -> mixed_xl_rank1_dx(d, pos)

one_seq_len_dx(d, pos) ==
    CASE mxUse.kind = "mixed_il" -> mixed_il_one_seq_len_dx(d, pos)
      [] mxUse.kind = "mixed_se" -> mixed_se_one_seq_len_dx(d, pos)
      [] OTHER -> mixed_xl_one_seq_len_dx(d, pos)

-----------------------------------------------------------------------------
\* The indexes of the dimensions share one block, in the order in which they
\* were built and again in the order in which they are loaded: every
\* dimension that is built answers every rank, every select and every run of
\* ones as its own bits say, after each build of another one and after the
\* block was mapped from a file.
DimensionsRight ==
    \A d \in Dims : mxRs[d] # NoCache =>
        LET b == mxBits[d]
        IN  /\ \A pos \in 0..DimSize(d) : rank1_dx(d, pos) = RefRank(b, pos)
            /\ \A bit \in {0, 1} : \A r \in 0..(Cardinality({i \in DOMAIN b : b[i] = bit}) - 1) :
                  select_dx(d, bit, r) = RefSelect(b, bit, r)
            /\ \A pos \in DOMAIN b :
                  /\ one_seq_len_dx(d, pos) = RunLen(b, DimSize(d), pos, 1)
                  /\ mixed_one_seq_revlen_dx(d, pos + 1) = RunRevLen(b, pos + 1, 1)
                  /\ mixed_zero_seq_revlen_dx(d, pos + 1) = RunRevLen(b, pos + 1, 0)

-----------------------------------------------------------------------------
(***************************************************************************)
(* rank_select_few<P, W>: a bit vector that stores the positions of its    *)
(* rarer value, the pivots, in a sorted array; above it, layer after       *)
(* layer, the first of every Fan (256) entries of the layer below.  The    *)
(* builder takes the positions of the ones in ascending or in descending   *)
(* order.  Every query has a second form that is given a hint, the index   *)
(* where a former query ended, and tries its neighbours first.             *)
(***************************************************************************)
CONSTANTS Fan,       \* entries of a layer per entry of the next (256)
          FewBits    \* bound on the bits of a vector

ASSUME FewAssumption == Fan \in Nat \ {0, 1} /\ FewBits \in Nat \ {0}

VARIABLES
    fwP,       \* P: which value is the pivot
    fwRev,     \* m_rev: the ones come in descending order
    fwRef,     \* the positions of the ones: what the vector stands for
    fwSize,    \* m_num0 + m_num1
    fwTodo,    \* the ones not inserted yet, in the order of insertion
    fwLast,    \* m_last
    fwPool,    \* the pivots stored so far (in their final order)
    fwLayers,  \* the layers after finish, <<>> before
    fwHint,    \* the hint a reader carries from query to query
    fwAsked    \* the last query: [op, arg, got]

fewVars == <<fwP, fwRev, fwRef, fwSize, fwTodo, fwLast, fwPool, fwLayers, fwHint, fwAsked>>

Ascending(S) == CHOOSE s \in [1..Cardinality(S) -> S] :
                    \A i, j \in 1..Cardinality(S) : i < j => s[i] < s[j]

RevSeq(s) == [i \in 1..Len(s) |-> s[Len(s) + 1 - i]]

\* the builder is constructed with the two counts
FewInit ==
    /\ fwP \in {0, 1} /\ fwRev \in BOOLEAN
    /\ fwSize \in 1..FewBits
    /\ fwRef \in SUBSET (0..(fwSize - 1))
    /\ (IF fwP = 1 THEN fwRef ELSE (0..(fwSize - 1)) \ fwRef) # {}
    /\ fwTodo = (IF fwRev THEN RevSeq(Ascending(fwRef)) ELSE Ascending(fwRef))
    /\ fwLast = (IF fwRev THEN fwSize - 1 ELSE 0)
    /\ fwPool = <<>> /\ fwLayers = <<>>
    /\ fwHint = 0 /\ fwAsked = [op |-> "none", arg |-> 0, got |-> 0]

\* values stored in the direction of construction
FewStore(pool, vals) == IF fwRev THEN RevSeq(vals) \o pool ELSE pool \o vals

\* m_last runs to `upto', storing what it passes
Passed(upto) == IF fwRev THEN [i \in 1..(fwLast - upto) |-> fwLast + 1 - i]
                ELSE [i \in 1..(upto - fwLast) |-> fwLast + i - 1]

\* insert(pos): a one; with P = 0 the zeros between it and the former one
few_insert ==
    /\ fwTodo # <<>> /\ fwLayers = <<>>
    /\ LET pos == Head(fwTodo)
       IN  IF fwP = 1
           THEN fwPool' = FewStore(fwPool, <<pos>>) /\ UNCHANGED fwLast
           ELSE /\ fwPool' = FewStore(fwPool, Passed(pos))
                /\ fwLast' = IF fwRev THEN pos - 1 ELSE pos + 1
    /\ fwTodo' = Tail(fwTodo)
    /\ UNCHANGED <<fwP, fwRev, fwRef, fwSize, fwLayers, fwHint, fwAsked>>

\* the number of pivots the builder was told of
Pivots == IF fwP = 1 THEN Cardinality(fwRef) ELSE fwSize - Cardinality(fwRef)

\* the upper layers: as long as n \div Fan leaves something
LayerOf(pool, k) == [i \in 1..(Len(pool) \div Fan ^ k) |-> pool[(i - 1) * Fan ^ k + 1]]

NumLayers(num) == Max({k \in 1..(FewBits + 1) : num \div Fan ^ (k - 1) > 0})

\* finish: with P = 0 the zeros behind the last one fill the pool
few_finish ==
    /\ fwTodo = <<>> /\ fwLayers = <<>>
    /\ LET left == Pivots - Len(fwPool)
           rest == [i \in 1..left |-> IF fwRev THEN fwLast + 1 - i ELSE fwLast + i - 1]
           pool == IF fwP = 0 THEN FewStore(fwPool, rest) ELSE fwPool
       IN  /\ fwPool' = pool
           /\ fwLayers' = [k \in 1..NumLayers(Pivots) |-> LayerOf(pool, k - 1)]
    /\ UNCHANGED <<fwP, fwRev, fwRef, fwSize, fwTodo, fwLast, fwHint, fwAsked>>

-----------------------------------------------------------------------------
(* Queries without a hint. *)

FewLen == Len(fwPool)

\* val_a_logi: a pivot; behind the last, the first entry of the layer above or
\* the zero kept as a bound
few_val_a_logi(i) == IF i < FewLen THEN fwPool[i + 1]
                 ELSE IF Len(fwLayers) > 1 /\ i = FewLen THEN fwLayers[2][1] ELSE 0

\* one layer down: the last entry of the layer that is not above val, from
\* `from' on (or from itself), as an index of the layer below
FewDescend(layer, from, val) ==
    LET stop == Min({i \in from..Len(layer) : i = Len(layer) \/ layer[i + 1] > val})
    IN  (IF stop > 0 THEN stop - 1 ELSE stop) * Fan

DescentTo[k \in 0..(FewBits + 1), val \in 0..FewBits] ==
    IF k >= Len(fwLayers) THEN 0 ELSE FewDescend(fwLayers[k + 1], DescentTo[k + 1, val], val)

few_lower_bound(val) ==
    LET from == DescentTo[1, val]
    IN  Min({i \in from..FewLen : i = FewLen \/ fwPool[i + 1] >= val})

\* the same descent with id + pos, where pos counts the pivots passed
Complement[k \in 0..(FewBits + 1), id \in 0..FewBits] ==
    IF k >= Len(fwLayers) THEN 0
    ELSE LET layer == fwLayers[k + 1]
             from  == Complement[k + 1, id]
             stop  == Min({i \in from..Len(layer) :
                             i = Len(layer) \/ id + i * Fan ^ k < layer[i + 1]})
         IN  (IF stop > 0 THEN stop - 1 ELSE stop) * Fan

few_select_complement(id) ==
    IF id < fwPool[1] THEN id
    ELSE IF id + FewLen > fwPool[FewLen] THEN id + FewLen
    ELSE LET from == Complement[1, id]
         IN  id + Min({i \in from..FewLen : i = FewLen \/ id + i < fwPool[i + 1]})

few_at(pos) == (few_val_a_logi(few_lower_bound(pos)) = pos) = (fwP = 1)
few_rank0(pos) == IF fwP = 1 THEN pos - few_lower_bound(pos) ELSE few_lower_bound(pos)
few_rank1(pos) == IF fwP = 1 THEN few_lower_bound(pos) ELSE pos - few_lower_bound(pos)
few_select0(id) == IF fwP = 1 THEN few_select_complement(id) ELSE few_val_a_logi(id)
few_select1(id) == IF fwP = 1 THEN few_val_a_logi(id) ELSE few_select_complement(id)

\* runs of the pivot value are walked, runs of the other end at a pivot
PivotRun(idx, pos) ==
    IF few_val_a_logi(idx) # pos THEN 0
    ELSE Min({c \in 1..(FewLen + 1) : few_val_a_logi(idx + c) # pos + c})

PivotRevRun(idx, pos) ==
    IF few_val_a_logi(idx) # pos THEN 0
    ELSE Min({c \in 1..(idx + 1) : c = idx + 1 \/ few_val_a_logi(idx - c) + c # pos})

OtherRun(idx, pos) == IF idx = FewLen THEN fwSize - pos ELSE few_val_a_logi(idx) - pos

OtherRevRun(idx, pos) == IF idx > 0 THEN pos - 1 - few_val_a_logi(idx - 1) ELSE pos

few_zero_seq_len(pos) == IF fwP = 1 THEN OtherRun(few_lower_bound(pos), pos) ELSE PivotRun(few_lower_bound(pos), pos)
few_one_seq_len(pos) == IF fwP = 1 THEN PivotRun(few_lower_bound(pos), pos) ELSE OtherRun(few_lower_bound(pos), pos)
few_zero_seq_revlen(pos) ==
    IF pos = 0 THEN 0
    ELSE IF fwP = 1 THEN OtherRevRun(few_lower_bound(pos), pos) ELSE PivotRevRun(few_lower_bound(pos - 1), pos - 1)
few_one_seq_revlen(pos) ==
    IF pos = 0 THEN 0
    ELSE IF fwP = 1 THEN PivotRevRun(few_lower_bound(pos - 1), pos - 1) ELSE OtherRevRun(few_lower_bound(pos), pos)

-----------------------------------------------------------------------------
(* Queries with a hint: [ret, hint], the value and the hint left behind. *)

Hinted(ret, hint) == [ret |-> ret, hint |-> hint]

few_lower_bound_hint(val, h) ==
    LET slow == Hinted(few_lower_bound(val), few_lower_bound(val))
    IN  IF h < FewLen
        THEN IF h > 0 /\ few_val_a_logi(h - 1) < val /\ few_val_a_logi(h) >= val THEN Hinted(h, h)
             ELSE IF h + 1 < FewLen /\ few_val_a_logi(h) < val /\ few_val_a_logi(h + 1) >= val THEN Hinted(h + 1, h + 1)
             ELSE IF h > 1 /\ few_val_a_logi(h - 2) < val /\ few_val_a_logi(h - 1) >= val THEN Hinted(h - 1, h - 1)
             ELSE IF h = 0 /\ few_val_a_logi(0) >= val THEN Hinted(0, h)
             ELSE IF h + 1 = FewLen /\ few_val_a_logi(h) < val THEN Hinted(FewLen, h)
             ELSE slow
        ELSE IF h = FewLen /\ few_val_a_logi(FewLen - 1) <= val
        THEN LET x == IF few_val_a_logi(FewLen - 1) = val THEN FewLen - 1 ELSE FewLen IN Hinted(x, x)
        ELSE slow

few_select_complement_hint(id, h) ==
    LET val  == id + h
        slow == Hinted(few_select_complement(id), few_select_complement(id))
    IN  IF h < FewLen
        THEN IF h > 0 /\ few_val_a_logi(h - 1) <= val - 1 /\ few_val_a_logi(h) > val THEN Hinted(id + h, h)
             ELSE IF h + 1 < FewLen /\ few_val_a_logi(h) <= val /\ few_val_a_logi(h + 1) > val + 1
                  THEN Hinted(id + h + 1, h + 1)
             ELSE IF h > 1 /\ few_val_a_logi(h - 2) <= val - 2 /\ few_val_a_logi(h - 1) > val - 1
                  THEN Hinted(id + h - 1, h - 1)
             ELSE IF h + 1 = FewLen /\ few_val_a_logi(h) <= val THEN Hinted(id + FewLen, h)
             ELSE IF h = 0 /\ few_val_a_logi(0) > val THEN Hinted(id, h)
             ELSE slow
        ELSE IF h = FewLen /\ few_val_a_logi(FewLen - 1) <= val
        THEN LET x == IF few_val_a_logi(FewLen - 1) = val THEN FewLen - 1 ELSE FewLen IN Hinted(id + x, x)
        ELSE slow

few_at_with_hint(pos, h) ==
    LET lb == few_lower_bound_hint(pos, h)
    IN  Hinted(IF (few_val_a_logi(lb.ret) = pos) = (fwP = 1) THEN 1 ELSE 0, lb.hint)

few_rank1_hint(pos, h) ==
    LET lb == few_lower_bound_hint(pos, h)
    IN  Hinted(IF fwP = 1 THEN lb.ret ELSE pos - lb.ret, lb.hint)

few_select1_hint(id, h) ==
    IF fwP = 1 THEN Hinted(few_val_a_logi(id), h) ELSE few_select_complement_hint(id, h)

few_select0_hint(id, h) ==
    IF fwP = 1 THEN few_select_complement_hint(id, h) ELSE Hinted(few_val_a_logi(id), h)

\* the runs go on with the hint, not with what lower_bound returned
few_one_seq_len_hint(pos, h) ==
    LET x == few_lower_bound_hint(pos, h).hint
    IN  IF fwP = 1 THEN LET c == PivotRun(x, pos) IN Hinted(c, x + c)
        ELSE Hinted(OtherRun(x, pos), x)

few_zero_seq_len_hint(pos, h) ==
    LET x == few_lower_bound_hint(pos, h).hint
    IN  IF fwP = 0 THEN LET c == PivotRun(x, pos) IN Hinted(c, x + c)
        ELSE Hinted(OtherRun(x, pos), x)

\* one query of a reader that keeps its hint
FewAsk(op, arg, res) ==
    /\ fwLayers # <<>>
    /\ fwHint' = res.hint
    /\ fwAsked' = [op |-> op, arg |-> arg, got |-> res.ret]
    /\ UNCHANGED <<fwP, fwRev, fwRef, fwSize, fwTodo, fwLast, fwPool, fwLayers>>

AskBits ==
    \E pos \in 0..(fwSize - 1) :
        \/ FewAsk("at", pos, few_at_with_hint(pos, fwHint))
        \/ FewAsk("rank1", pos, few_rank1_hint(pos, fwHint))

AskSelect ==
    \/ \E id \in 0..(Cardinality(fwRef) - 1) : FewAsk("select1", id, few_select1_hint(id, fwHint))
    \/ \E id \in 0..(fwSize - Cardinality(fwRef) - 1) : FewAsk("select0", id, few_select0_hint(id, fwHint))

AskRuns ==
    \E pos \in 0..(fwSize - 1) :
        \/ FewAsk("one_seq_len", pos, few_one_seq_len_hint(pos, fwHint))
        \/ FewAsk("zero_seq_len", pos, few_zero_seq_len_hint(pos, fwHint))

FewNext == few_insert \/ few_finish \/ AskBits

FewSpec == FewInit /\ [][FewNext]_fewVars

FewHintSpec == FewInit /\ [][FewNext \/ AskSelect \/ AskRuns]_fewVars

-----------------------------------------------------------------------------
(* Properties. *)

BitOf(pos) == IF pos \in fwRef THEN 1 ELSE 0

NthOf(S, id) == CHOOSE p \in S : Cardinality({q \in S : q < p}) = id

RunOf(pos, bit) == Min({c \in 0..(fwSize - pos) : pos + c = fwSize \/ BitOf(pos + c) # bit})
RevRunOf(end, bit) == Min({c \in 0..end : c = end \/ BitOf(end - 1 - c) # bit})

\* Whichever value is the pivot, in whichever direction the ones came, and
\* however many layers there are: each query answers as the bits say, and
\* so does operator[] and rank1 with a hint that earlier queries left.
FewRight ==
    /\ fwLayers # <<>> =>
        /\ \A pos \in 0..(fwSize - 1) :
             /\ few_at(pos) <=> pos \in fwRef
             /\ few_rank1(pos) = Cardinality({p \in fwRef : p < pos})
             /\ few_rank0(pos) = pos - Cardinality({p \in fwRef : p < pos})
             /\ few_one_seq_len(pos) = RunOf(pos, 1) /\ few_zero_seq_len(pos) = RunOf(pos, 0)
             /\ few_one_seq_revlen(pos + 1) = RevRunOf(pos + 1, 1)
             /\ few_zero_seq_revlen(pos + 1) = RevRunOf(pos + 1, 0)
        /\ \A id \in 0..(Cardinality(fwRef) - 1) : few_select1(id) = NthOf(fwRef, id)
        /\ \A id \in 0..(fwSize - Cardinality(fwRef) - 1) :
             few_select0(id) = NthOf((0..(fwSize - 1)) \ fwRef, id)
    /\ fwAsked.op = "at" => fwAsked.got = BitOf(fwAsked.arg)
    /\ fwAsked.op = "rank1" => fwAsked.got = Cardinality({p \in fwRef : p < fwAsked.arg})

\* "impl of hint probing": a hint makes a query faster, not different; the
\* selects and the run lengths with a hint are those of the bits.
HintsAgree ==
    /\ fwAsked.op = "select1" => fwAsked.got = NthOf(fwRef, fwAsked.arg)
    /\ fwAsked.op = "select0" => fwAsked.got = NthOf((0..(fwSize - 1)) \ fwRef, fwAsked.arg)
    /\ fwAsked.op = "one_seq_len" => fwAsked.got = RunOf(fwAsked.arg, 1)
    /\ fwAsked.op = "zero_seq_len" => fwAsked.got = RunOf(fwAsked.arg, 0)
=============================================================================
