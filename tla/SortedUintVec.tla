--------------------------- MODULE SortedUintVec ---------------------------
(***************************************************************************)
(* SortedUintVec: unsigned integers, ascending or nearly so, in blocks of  *)
(* BlockUnits values.  The index has, for each block and once more for the *)
(* end, the offset of its bytes and its first value (the sample).  A block *)
(* is stored as differences of neighbours in one of four forms, or, when   *)
(* it is not ascending, as what a quadratic interpolation between its ends *)
(* and its middle misses.  Blocks are records here: their byte lengths are *)
(* kept, the position of each bit is not.                                  *)
(***************************************************************************)
EXTENDS Integers, Sequences, SequencesExt, FiniteSets, FiniteSetsExt

CONSTANTS
    BlockUnits,   \* values of a block: 2^log2 (64 or 128)
    HeaderSizes,  \* {<<bits, bytes>>}: what WriteHeader can hold ({<<10,2>>,<<18,3>>,<<26,4>>,<<50,7>>})
    DiffBits,     \* push_back refuses a difference of more bits (51)
    UintUses      \* {<<vals, max>>}: up to max values of the set vals are pushed

ASSUME UintVecAssumption ==
    /\ BlockUnits \in {2 ^ k : k \in 2..7} /\ DiffBits \in Nat
    /\ \A u \in UintUses : u[1] \subseteq Nat /\ u[2] \in Nat

VARIABLES
    suUse,     \* the member of UintUses a behaviour is about
    suSorted,  \* m_is_sorted: the builder refuses descending values
    suRef,     \* the values accepted: what the vector stands for
    suBlock,   \* m_block
    suLast,    \* m_lastValue
    suMax,     \* m_maxValue
    suReal,    \* m_is_real_sorted
    suData,    \* the blocks encoded so far
    suIndex,   \* m_index
    suState    \* "build", "done", "thrown", "abort"

uintVars == <<suUse, suSorted, suRef, suBlock, suLast, suMax, suReal, suData, suIndex, suState>>

bsr(x) == CHOOSE k \in 0..62 : 2 ^ k <= x /\ x < 2 ^ (k + 1)
safe_bsr(x) == IF x = 0 THEN 0 ELSE bsr(x)
UpDiv(a, b) == (a + b - 1) \div b
\* C++ division: towards zero
TruncDiv(a, b) == IF a >= 0 THEN a \div b ELSE -((-a) \div b)

encode_signed(x) == IF x < 0 THEN 2 * (-x - 1) + 1 ELSE 2 * x
decode_signed(x) == IF x % 2 = 1 THEN -(x \div 2) - 1 ELSE x \div 2

\* the parabola through (0, 0), (BlockUnits / 2, fm), (BlockUnits, fb), rounded towards zero
lagrange(x, fm, fb) ==
    TruncDiv(2 * fm * x * (BlockUnits - x) + fb * x * (x - BlockUnits \div 2),
             (BlockUnits * BlockUnits) \div 2)

\* bytes of a header that holds v; 0: no form does, abort()
HeaderLen(v) == LET fits == {s \in HeaderSizes : v < 2 ^ s[1]}
                IN  IF fits = {} THEN 0 ELSE Min({s[2] : s \in fits})

used_small_width(w) == CASE w <= 10 -> w [] w \in 11..12 -> 12 [] w \in 13..16 -> 16
                         [] w \in 17..20 -> 20 [] OTHER -> 0

getWidthType(small, large) ==
    CASE small = 1 /\ large = 1 -> 11
      [] small = 2 /\ large = 2 -> 15
      [] small = 16 -> 13
      [] small = 20 -> 14
      [] OTHER -> small

----------------------------------------------------------------------------
\* append_block

Diffs(vals) == [i \in 1..(BlockUnits - 1) |-> vals[i + 1] - vals[i]]

\* bits the differences need when those of rank lo..hi-1 are small units
bits(lo, hi, ds) ==
    LET small == used_small_width(1 + bsr(ds[hi] - ds[lo + 1] + 1))
        large == 1 + bsr(ds[BlockUnits - 1])
    IN  IF small = 0 THEN (large + 1) * (BlockUnits - 1)
        ELSE small * (IF 64 % small = 0 THEN BlockUnits - 1 ELSE BlockUnits)
             + large * (BlockUnits - 1 - (hi - lo))

SmallRanges == {[lo |-> lo, hi |-> BlockUnits - 1 - j] : lo, j \in 0..((BlockUnits \div 2) - 1)}

\* the first of the cheapest ranges, by lo and then from the largest hi down
compute_lo_hi_index(ds) ==
    CHOOSE r \in SmallRanges :
        \A q \in SmallRanges :
            \/ bits(r.lo, r.hi, ds) < bits(q.lo, q.hi, ds)
            \/ /\ bits(r.lo, r.hi, ds) = bits(q.lo, q.hi, ds)
               /\ r.lo < q.lo \/ (r.lo = q.lo /\ r.hi >= q.hi)

Block(type, water, units, large, len) ==
    [type |-> type, water |-> water, units |-> units, large |-> large, len |-> len]

\* every difference in width bits, from the least one up
EvenBlock(diffs, least, type, width) ==
    Block(type, least, [i \in 1..(BlockUnits - 1) |-> diffs[i] - least], <<>>,
          HeaderLen(least) + UpDiv(BlockUnits * width, 8))

\* bytes of the large units: n of them, of the given width
LargeBytes(n, width, small) ==
    IF n = 0 THEN 0 ELSE UpDiv(width * n + 6 - (IF 64 % small = 0 THEN small ELSE 0), 8)

\* differences of lo..hi in small units, the others, marked by a zero unit, apart
MixedBlock(diffs, lo, hi, small, largeWidth) ==
    Block(getWidthType(small, largeWidth), lo,
          [i \in 1..(BlockUnits - 1) |-> IF diffs[i] \in lo..hi THEN diffs[i] - lo + 1 ELSE 0],
          SelectSeq(diffs, LAMBDA d : d \notin lo..hi),
          HeaderLen(lo) + UpDiv(small * BlockUnits, 8)
              + LargeBytes(Cardinality({i \in DOMAIN diffs : diffs[i] \notin lo..hi}), largeWidth, small))

CheapestBlock(diffs, ds, r) ==
    MixedBlock(diffs, ds[r.lo + 1], ds[r.hi], used_small_width(1 + bsr(ds[r.hi] - ds[r.lo + 1] + 1)),
               1 + bsr(ds[BlockUnits - 1]))

BlockOfDiffs(diffs, ds, least, most) ==
    IF least = most THEN Block(0, least, <<>>, <<>>, HeaderLen(least))
    ELSE IF least + 1 = most THEN EvenBlock(diffs, least, getWidthType(1, 1), 1)
    ELSE IF least + 3 >= most THEN EvenBlock(diffs, least, getWidthType(2, 2), 2)
    ELSE CheapestBlock(diffs, ds, compute_lo_hi_index(ds))

append_block_impl(vals) ==
    LET diffs == Diffs(vals)
        Sorted(ds) == BlockOfDiffs(diffs, ds, ds[1], ds[BlockUnits - 1])
    IN  Sorted(SortSeq(diffs, <))

\* x of the interpolated values: all but the first and the middle one
Interpolated == SelectSeq([i \in 1..(BlockUnits - 1) |-> i], LAMBDA x : x # BlockUnits \div 2)

append_block_impl_lagrange(vals, next) ==
    LET fb == next - vals[1]
        fm == vals[BlockUnits \div 2 + 1] - vals[1]
        water == encode_signed(fm - TruncDiv(fb, 2))
        fix == [i \in 1..(BlockUnits - 2) |->
                   encode_signed(vals[Interpolated[i] + 1] - vals[1]
                                 - lagrange(Interpolated[i], fm, fb))]
        maxFix == Max(ToSet(fix))
        width == IF maxFix < 4 THEN 2 ELSE bsr(maxFix) + 1
    IN  Block(getWidthType(2, 2), water, fix, <<>>,
              HeaderLen(water) + UpDiv(6 + width * (BlockUnits - 2), 8))

IsAscending(s) == \A i \in 1..(Len(s) - 1) : s[i] <= s[i + 1]

append_block(vals, next) == IF IsAscending(vals) THEN append_block_impl(vals)
                            ELSE append_block_impl_lagrange(vals, next)

m_indexOffset == FoldSeq(LAMBDA b, n : n + b.len, 0, suData)

----------------------------------------------------------------------------
UintVecInit ==
    /\ suUse \in UintUses
    /\ suSorted \in BOOLEAN /\ suRef = <<>> /\ suBlock = <<>>
    /\ suLast = 0 /\ suMax = 0 /\ suReal = TRUE
    /\ suData = <<>> /\ suIndex = <<>> /\ suState = "build"

\* the value is judged, and the block that was full is stored
Push(val, full, block) ==
    LET refused == \/ val < suLast /\ suSorted
                   \/ val >= suLast /\ suRef # <<>> /\ val - suLast >= 2 ^ DiffBits
    IN  IF refused
        THEN suState' = "thrown" /\ UNCHANGED <<suRef, suBlock, suLast, suMax, suReal, suData, suIndex>>
        ELSE /\ suData' = IF full THEN Append(suData, block) ELSE suData
             /\ suIndex' = IF full THEN Append(suIndex, [offset |-> m_indexOffset, sample |-> suBlock[1]])
                           ELSE suIndex
             /\ suBlock' = IF full THEN <<val>> ELSE Append(suBlock, val)
             /\ suReal' = (suReal /\ val >= suLast)
             /\ suMax' = Max({suMax, val})
             /\ suLast' = val
             /\ suRef' = Append(suRef, val)
             /\ UNCHANGED suState

NoBlock == Block(0, 0, <<>>, <<>>, 0)

Aborts == suState' = "abort" /\ UNCHANGED <<suRef, suBlock, suLast, suMax, suReal, suData, suIndex>>

\* a full block is encoded first, as the next value is known; then the value is judged
uint_push_back(val) ==
    /\ suState = "build" /\ Len(suRef) < suUse[2]
    /\ \E full \in {Len(suBlock) = BlockUnits} :
          \E block \in {IF full THEN append_block(suBlock, val) ELSE NoBlock} :
              IF HeaderLen(block.water) = 0 THEN Aborts ELSE Push(val, full, block)
    /\ UNCHANGED <<suUse, suSorted>>

\* finish writes the blocks and the index, with its end entry, sampleWidth bits a sample
Finish(data, index, sampleWidth) ==
    LET end == FoldSeq(LAMBDA b, n : n + b.len, 0, data)
        Narrow(e, offsetWidth) == [offset |-> e.offset % 2 ^ offsetWidth, sample |-> e.sample % 2 ^ sampleWidth]
    IN  /\ suData' = data
        /\ suIndex' = [i \in 1..(Len(index) + 1) |->
                          Narrow(Append(index, [offset |-> end, sample |-> suLast])[i], 1 + safe_bsr(end))]
        /\ suState' = "done"
        /\ UNCHANGED <<suRef, suBlock, suLast, suMax, suReal>>

\* the last block is filled up with the last value
FinishLast(rest, sampleWidth) ==
    IF suBlock = <<>> THEN Finish(suData, suIndex, sampleWidth)
    ELSE \E last \in {append_block(rest, suLast)} :
            IF HeaderLen(last.water) = 0 THEN Aborts
            ELSE Finish(Append(suData, last),
                        Append(suIndex, [offset |-> m_indexOffset, sample |-> rest[1]]), sampleWidth)

PaddedBlock == suBlock \o [i \in 1..(BlockUnits - Len(suBlock)) |-> suLast]

\* the width of the samples is taken from the last value
uint_finish_LastWidth ==
    /\ suState = "build"
    /\ FinishLast(PaddedBlock, 1 + safe_bsr(suLast))
    /\ UNCHANGED <<suUse, suSorted>>

uint_finish ==
    /\ suState = "build"
    /\ FinishLast(PaddedBlock, 1 + safe_bsr(suMax))
    /\ UNCHANGED <<suUse, suSorted>>

UintVecNext == uint_finish \/ \E val \in suUse[1] : uint_push_back(val)

UintVecSpec == UintVecInit /\ [][UintVecNext]_uintVars

----------------------------------------------------------------------------
\* readers

is_samples_full_sorted ==
    suReal \/ \A i \in 1..(Len(suIndex) - 1) : suIndex[i].sample <= suIndex[i + 1].sample

Sample(blk) == suIndex[blk + 1].sample

\* a block of type 15 is interpolated when it is longer than 2 bits a unit
IsLagrange(blk) ==
    LET b == suData[blk + 1]
    IN  /\ b.type = 15
        /\ suIndex[blk + 2].offset - suIndex[blk + 1].offset
               > HeaderLen(b.water) + (BlockUnits * 2) \div 8

\* an interpolated block's value at x
computeVal(blk, x) ==
    LET b == suData[blk + 1]
        fb == Sample(blk + 1) - Sample(blk)
        fm == TruncDiv(fb, 2) + decode_signed(b.water)
        at == IF x < BlockUnits \div 2 THEN x ELSE x - 1
    IN  Sample(blk) + (IF x = 0 THEN 0
                       ELSE IF x = BlockUnits \div 2 THEN fm
                       ELSE lagrange(x, fm, fb) + decode_signed(b.units[at]))

\* the difference after unit j of a block (j from 0)
Diff(b, j) ==
    CASE b.type = 0 -> b.water
      [] b.type \in {11, 15} -> b.water + b.units[j + 1]
      [] OTHER -> IF b.units[j + 1] # 0 THEN b.water - 1 + b.units[j + 1]
                  ELSE b.large[Cardinality({i \in 1..(j + 1) : b.units[i] = 0})]

\* get2: the small units are added up, each counted from the low water mark; the large ones apart
Get2Small(b, sub) ==
    CASE b.type = 0 -> b.water * sub
      [] b.type \in {11, 15} -> MapThenSumSet(LAMBDA i : b.units[i], 1..sub) + b.water * sub
      [] OTHER -> LET rank == Cardinality({i \in 1..sub : b.units[i] = 0})
                  IN  MapThenSumSet(LAMBDA i : b.units[i], 1..sub)
                      + MapThenSumSet(LAMBDA i : b.large[i], 1..rank)
                      + (b.water - 1) * (sub - rank)

get2(idx) ==
    LET blk == idx \div BlockUnits
        sub == idx % BlockUnits
        b == suData[blk + 1]
        v == IF IsLagrange(blk) THEN computeVal(blk, sub) ELSE Sample(blk) + Get2Small(b, sub)
    IN  <<v, IF sub + 1 = BlockUnits THEN Sample(blk + 1)
             ELSE IF IsLagrange(blk) THEN computeVal(blk, sub + 1)
             ELSE v + Diff(b, sub)>>

uint_get(idx) == get2(idx)[1]

\* get_block: value after value
get_block(blk) ==
    LET b == suData[blk + 1]
        val[i \in 0..(BlockUnits - 1)] ==
            IF IsLagrange(blk) THEN computeVal(blk, i)
            ELSE IF i = 0 THEN Sample(blk) ELSE val[i - 1] + Diff(b, i - 1)
    IN  val

\* the first position of lo..hi whose element is not below (lower) or above (upper) the key
FirstNot(Below(_), lo, hi) ==
    LET search[r \in (lo..hi) \X (lo..hi)] ==
            LET mid == (r[1] + r[2]) \div 2
            IN  IF r[1] >= r[2] THEN r[1]
                ELSE IF Below(mid) THEN search[<<mid + 1, r[2]>>] ELSE search[<<r[1], mid>>]
    IN  search[<<lo, hi>>]

\* lower_bound (Passes is <) and upper_bound (Passes is <=) differ in one exit
Bound(lo, hi, key, Passes(_, _), lower) ==
    LET loBlk0 == lo \div BlockUnits
        hiBlk == UpDiv(hi, BlockUnits)
        unsorted == ~is_samples_full_sorted
        skip == loBlk0 + 1 < hiBlk /\ unsorted /\ Passes(Sample(loBlk0 + 1), key)
        loBlk == IF skip THEN loBlk0 + 1 ELSE loBlk0
        from == IF skip THEN loBlk * BlockUnits ELSE lo
        searched == loBlk0 + 1 < hiBlk /\ (unsorted => skip)
        hit == FirstNot(LAMBDA b : Passes(Sample(b), key), loBlk, hiBlk)
        InBlock(i) ==
            LET block == get_block(i)
                l == IF i = loBlk THEN from % BlockUnits ELSE 0
                u == IF i + 1 = hiBlk THEN ((hi - 1) % BlockUnits) + 1 ELSE BlockUnits
            IN  i * BlockUnits + FirstNot(LAMBDA k : Passes(block[k], key), l, u)
    IN  IF lo = hi THEN lo
        ELSE IF ~searched THEN InBlock(loBlk)
        ELSE IF hit = loBlk /\ (lower => key < Sample(hit)) THEN from
        ELSE IF hit = loBlk THEN InBlock(hit) ELSE InBlock(hit - 1)

uint_lower_bound(lo, hi, key) == Bound(lo, hi, key, LAMBDA a, b : a < b, TRUE)
uint_upper_bound(lo, hi, key) == Bound(lo, hi, key, LAMBDA a, b : a <= b, FALSE)

uint_equal_range(lo, hi, key) ==
    LET loBlk0 == lo \div BlockUnits
        hiBlk == UpDiv(hi, BlockUnits)
        several == loBlk0 + 1 < hiBlk
        unsorted == several /\ ~is_samples_full_sorted
        next == Sample(loBlk0 + 1)
        loBlk == IF unsorted THEN loBlk0 + 1 ELSE loBlk0
        from == IF unsorted THEN loBlk * BlockUnits ELSE lo
        In(blk, l, u, upper) ==
            LET block == get_block(blk)
            IN  blk * BlockUnits
                + FirstNot(LAMBDA k : block[k] < key \/ (upper /\ block[k] = key), l, u)
        \* the two searches of the samples
        i0 == IF several THEN FirstNot(LAMBDA b : Sample(b) < key, loBlk, hiBlk) ELSE loBlk
        j == IF several THEN FirstNot(LAMBDA b : Sample(b) <= key, loBlk, hiBlk) ELSE hiBlk
        i == IF several /\ i0 > loBlk THEN i0 - 1 ELSE i0
        hi_u == IF j = hiBlk THEN ((hi - 1) % BlockUnits) + 1 ELSE BlockUnits
        lo_l == IF i = loBlk THEN from % BlockUnits ELSE 0
    IN  IF lo = hi THEN <<lo, lo>>
        ELSE IF unsorted /\ next = key
        THEN <<In(loBlk0, lo % BlockUnits, BlockUnits, FALSE),
               uint_upper_bound(loBlk0 * BlockUnits + BlockUnits, hi, key)>>
        ELSE IF unsorted /\ next > key
        THEN <<In(loBlk0, lo % BlockUnits, BlockUnits, FALSE),
               In(loBlk0, lo % BlockUnits, BlockUnits, TRUE)>>
        ELSE IF several /\ j = loBlk THEN <<from, from>>
        ELSE <<In(i, lo_l, IF i < j - 1 THEN BlockUnits ELSE hi_u, FALSE),
               In(j - 1, IF i < j - 1 THEN 0 ELSE lo_l, hi_u, TRUE)>>

----------------------------------------------------------------------------
\* reference

Vals == [i \in 0..(Len(suRef) - 1) |-> suRef[i + 1]]

RefBound(lo, hi, Passes(_)) == Min({p \in lo..hi : p = hi \/ ~Passes(Vals[p])})

(***************************************************************************)
(* Every value comes back from get, get2 and get_block, with its           *)
(* successor (get2 of the last value: the padding repeats it).  Whatever   *)
(* form a block was stored in, the reader recognises it from the type and  *)
(* from the distance of two offsets alone (case 15 of get2).               *)
(***************************************************************************)
ReadsBack ==
    suState = "done" =>
        \A i \in DOMAIN Vals :
            /\ get2(i) = <<Vals[i], IF i + 1 \in DOMAIN Vals THEN Vals[i + 1] ELSE suLast>>
            /\ get_block(i \div BlockUnits)[i % BlockUnits] = Vals[i]

RangeFound(lo, hi, key) ==
    LET low == RefBound(lo, hi, LAMBDA v : v < key)
        up == RefBound(lo, hi, LAMBDA v : v <= key)
    IN  /\ uint_lower_bound(lo, hi, key) = low
        /\ uint_upper_bound(lo, hi, key) = up
        /\ uint_equal_range(lo, hi, key) = <<low, up>>

AscendingRanges == {r \in (0..Len(suRef)) \X (0..Len(suRef)) :
                       r[1] <= r[2] /\ \A p \in r[1]..(r[2] - 2) : Vals[p] <= Vals[p + 1]}

(***************************************************************************)
(* lower_bound, upper_bound and equal_range on an ascending range of the   *)
(* vector are those of a plain array, across blocks and when the samples   *)
(* are out of order; of a vector that is not ascending although its        *)
(* samples are, only ranges that begin at a block are claimed.             *)
(***************************************************************************)
BoundsRight ==
    suState = "done" =>
        \A r \in AscendingRanges, key \in suUse[1] :
            (suReal \/ ~is_samples_full_sorted \/ r[1] % BlockUnits = 0) => RangeFound(r[1], r[2], key)

(***************************************************************************)
(* The same for every ascending range.  Not so: with the samples in order  *)
(* the search takes the sample of the first block for a bound of the range *)
(* though the range begins behind it.                                      *)
(***************************************************************************)
BoundsAlwaysRight ==
    suState = "done" => \A r \in AscendingRanges, key \in suUse[1] : RangeFound(r[1], r[2], key)

(***************************************************************************)
(* WriteHeader's abort "should not happen": push_back refuses what cannot  *)
(* be stored.  Not so: it lets pass differences of DiffBits bits, one more *)
(* than the header holds.                                                  *)
(***************************************************************************)
NeverAborts == suState # "abort"
=============================================================================
