---------------------------- MODULE DictZipCodec ----------------------------
(***************************************************************************)
(* How DictZipBlobStore compresses one record: literals, copies from the   *)
(* global dictionary, copies from what the record already said, in eight   *)
(* kinds of operations (DzType), and how the decoders undo it.             *)
(*                                                                         *)
(* The widths of the fields are constants, so that every kind of operation *)
(* and every limit of a field is met by short records.  The cost of an     *)
(* operation (in bytes) is the code's.  A compressed record is a sequence  *)
(* of cells: <<"op", type, n>> the first byte of an operation, <<"u", d>>  *)
(* a byte of an offset or a distance, <<"v", d, more>> a byte of a         *)
(* variable length integer, <<"lit", x>> a byte of the record.             *)
(***************************************************************************)
EXTENDS Integers, Sequences, FiniteSets, FiniteSetsExt, TLC

CONSTANTS
    DzLenBits,   \* bits of the length beside the type in an operation's first byte (5)
    NearBits,    \* bits of NearShort's length, the others hold its distance (2)
    DzByteBits,  \* bits of a byte of a distance (8)
    VarBits,     \* bits a byte of a variable length integer adds (7)
    DzRecords,   \* the records
    Dicts,       \* the global dictionaries
    Probes       \* values of maxMatchProbe

ASSUME DzCodecAssumption ==
    /\ {DzLenBits, NearBits, DzByteBits, VarBits} \subseteq Nat \ {0} /\ NearBits < DzLenBits
    /\ \A d \in Dicts : Len(d) > 5      \* gMinLen

VARIABLES dzRec, dzDict, dzSuffix, dzProbe, dzOut
codecVars == <<dzRec, dzDict, dzSuffix, dzProbe, dzOut>>

Short == 2 ^ DzLenBits           \* 32
DzByte == 2 ^ DzByteBits         \* 256
gMinLen == 5
NoPos == -1                      \* nil

---------------------------------------------------------------------------
(* Cells. *)

op(type, n) == <<<<"op", type, n % Short>>>>
WriteUint(bytes, x) == [i \in 1..bytes |-> <<"u", (x \div DzByte ^ (i - 1)) % DzByte>>]
ReadUint(z, pos, bytes) ==
    LET f[i \in 0..bytes] == IF i = 0 THEN 0 ELSE f[i - 1] + z[pos + i - 1][2] * DzByte ^ (i - 1) IN f[bytes]
var_size_t(x) ==
    LET f[v \in 0..x] == IF v < 2 ^ VarBits THEN <<<<"v", v, FALSE>>>>
                         ELSE <<<<"v", v % 2 ^ VarBits, TRUE>>>> \o f[v \div 2 ^ VarBits]
    IN  f[x]
\* FAST_READ_VAR_UINT32: the value, and the position behind it.
READ_VAR_UINT32(z, pos) ==
    LET f[p \in pos..Len(z)] ==
            IF z[p][3] THEN LET r == f[p + 1] IN <<z[p][2] + r[1] * 2 ^ VarBits, r[2]>> ELSE <<z[p][2], p + 1>>
    IN  f[pos]

---------------------------------------------------------------------------
(* Compression. *)

GetBackRef_EncodingMeta(distance, len) ==
    CASE distance = 1 /\ len <= Short + 1 -> <<"RLE", 1>>
      [] distance \in 2..(2 ^ (DzLenBits - NearBits) + 1) /\ len <= 2 ^ NearBits + 1 -> <<"NearShort", 1>>
      [] distance \in (2 ^ (DzLenBits - NearBits) + 2)..(DzByte + 1) /\ len <= Short + 1 -> <<"Far1Short", 2>>
      [] distance \in 2..(2 ^ (DzLenBits - NearBits) + 1) /\ len \in (2 ^ NearBits + 2)..(Short + 1) -> <<"Far1Short", 2>>
      [] distance \in (DzByte + 2)..(DzByte + 1 + DzByte ^ 2) /\ len <= Short + 1 -> <<"Far2Short", 3>>
      [] distance <= DzByte ^ 2 - 1 /\ len >= Short + 2 -> <<"Far2Long", IF len <= 2 * Short THEN 3 ELSE 6>>
      [] OTHER -> <<"Far3Long", IF len <= Short + 3 THEN 4 ELSE 7>>

bsr(x) == CHOOSE b \in 0..30 : 2 ^ b <= x /\ x < 2 ^ (b + 1)
gOffsetBits(dict) == bsr(Len(dict) - gMinLen) + 1
gOffsetBytes(dict) == IF gOffsetBits(dict) <= 3 * DzByteBits THEN 3 ELSE 4
gLenBitsInOffset(dict) == gOffsetBytes(dict) * DzByteBits - gOffsetBits(dict)
gMaxShortLen(dict) == 2 ^ (DzLenBits + gLenBitsInOffset(dict)) - 2 + gMinLen

GlobalMatchEncLen(len, dict) ==
    LET over == len - gMaxShortLen(dict)
        more == IF over <= 0 THEN 0 ELSE IF over <= 2 ^ VarBits - 1 THEN 1 ELSE IF over <= 2 ^ (2 * VarBits) - 1 THEN 2 ELSE 3
    IN  gOffsetBytes(dict) + 1 + more

\* unmatchPos: how far the record repeats at j what it has at pos.
unmatchPos(rec, j, pos) ==
    LET n == Len(rec) - j
        f[k \in 0..n] == IF k < n /\ rec[j + k + 1] = rec[pos + k + 1] THEN f[k + 1] ELSE k
    IN  f[0]

NoMatch == [pos |-> NoPos, len |-> 0, meta |-> <<"Literal", 2>>]
Gain(m) == m.len - m.meta[2]
LocalMatch(rec, j, pos) ==
    LET len == unmatchPos(rec, j, pos)
    IN  IF len >= 2 THEN [pos |-> pos, len |-> len, meta |-> GetBackRef_EncodingMeta(j - pos, len)] ELSE NoMatch
InReach(j, pos) == pos < j /\ j - pos < DzByte ^ 3

\* External: divsufsort; sa[r + 1] is the suffix of rank r.
SuffixLess(rec, a, b) ==
    LET f[k \in 0..Len(rec)] ==
            IF a + k >= Len(rec) THEN b + k < Len(rec) ELSE IF b + k >= Len(rec) THEN FALSE
            ELSE IF rec[a + k + 1] = rec[b + k + 1] THEN f[k + 1] ELSE rec[a + k + 1] < rec[b + k + 1]
    IN  f[0]
divsufsort(rec) == SortSeq([r \in 1..Len(rec) |-> r - 1], LAMBDA a, b : SuffixLess(rec, a, b))

\* The first of the neighbours in the suffix array, going down or up, that is better than what there is.
Neighbour(rec, j, sa, ranks, best) ==
    LET n == Len(ranks)
        f[k \in 1..(n + 1)] ==
            IF k > n THEN best
            ELSE LET pos == sa[ranks[k] + 1]
                     m == LocalMatch(rec, j, pos)
                 IN  IF InReach(j, pos) /\ m.len >= 2 /\ Gain(m) > Gain(best) THEN m ELSE f[k + 1]
    IN  f[1]
SuffixMatch(rec, j, sa, probe) ==
    LET n == Len(rec)
        rank == CHOOSE r \in 0..(n - 1) : sa[r + 1] = j
        lo == IF rank > probe THEN rank - probe ELSE 0
        hi == IF n = 1 THEN rank ELSE IF rank + probe < n - 2 THEN rank + probe ELSE n - 2
        below == Neighbour(rec, j, sa, [k \in 1..(rank - lo) |-> rank - k], NoMatch)
    IN  Neighbour(rec, j, sa, IF hi > rank THEN [k \in 1..(hi - rank) |-> rank + k] ELSE <<>>, below)

\* HashPtr over four bytes; different strings may meet.
HashPtr(rec, j, buckets) == (rec[j + 1] + 3 * rec[j + 2] + 5 * rec[j + 3] + 7 * rec[j + 4]) % buckets
Buckets(rec) == IF Len(rec) = 1 THEN 2 ELSE 2 ^ (bsr(Len(rec) - 1) + 1)
\* tabl: the positions of a bucket, the last first (tabl and link).
HashMatch(rec, j, chain, probe) ==
    LET near == {k \in 1..Min({probe, Len(chain)}) : \A i \in 1..k : j - chain[i] < DzByte ^ 3}
        found == {k \in near : LocalMatch(rec, j, chain[k]).len >= 2}
        most == Max({Gain(LocalMatch(rec, j, chain[k])) : k \in found})
    IN  IF found = {} THEN NoMatch
        ELSE LocalMatch(rec, j, chain[Min({k \in found : Gain(LocalMatch(rec, j, chain[k])) = most})])

\* SuffixDictCacheDFA::da_match_max_length: the length of the longest match, and of the suffixes of the dictionary that
\* have it the first in the suffix array (sa[lo]).
da_match_max_length(dict, rest) ==
    LET same(o) == LET f[d \in 0..Len(rest)] == IF d < Len(rest) /\ o + d < Len(dict) /\ dict[o + d + 1] = rest[d + 1] THEN f[d + 1] ELSE d
                   IN  f[0]
        depth  == Max({same(o) : o \in 0..(Len(dict) - 1)})
        places == {o \in 0..(Len(dict) - 1) : same(o) = depth}
    IN  [depth |-> depth, offset |-> CHOOSE o \in places : \A q \in places \ {o} : SuffixLess(dict, o, q)]

emitLiteral(rec, j, len) ==
    LET first == j - len
        full == len \div Short
        piece(i) == LET n == IF i <= full THEN Short ELSE len - full * Short IN
                    op("Literal", n - 1) \o [k \in 1..n |-> <<"lit", rec[first + (i - 1) * Short + k]>>]
        f[i \in 0..(full + 1)] == IF i = 0 THEN <<>> ELSE IF i > full /\ len % Short = 0 THEN f[i - 1] ELSE f[i - 1] \o piece(i)
    IN  f[full + 1]

emitGlobal(dict, g) ==
    LET encLen == g.depth - gMinLen
        bits == gLenBitsInOffset(dict)
    IN  IF g.depth <= gMaxShortLen(dict)
        THEN op("Global", encLen) \o WriteUint(gOffsetBytes(dict), g.offset * 2 ^ bits + encLen \div Short)
        ELSE op("Global", Short - 1) \o WriteUint(gOffsetBytes(dict), g.offset * 2 ^ bits + 2 ^ bits - 1)
             \o var_size_t(g.depth - gMaxShortLen(dict) - 1)

emitLocal(j, m) ==
    LET distance == j - m.pos
        type == m.meta[1]
    IN  CASE type = "RLE" -> op(type, m.len - 2)
          [] type = "NearShort" -> op(type, (m.len - 2) + (distance - 2) * 2 ^ NearBits)
          [] type = "Far1Short" -> op(type, m.len - 2) \o WriteUint(1, distance - 2)
          [] type = "Far2Short" -> op(type, m.len - 2) \o WriteUint(2, distance - DzByte - 2)
          [] type = "Far2Long" -> (IF m.len <= 2 * Short THEN op(type, m.len - Short - 2)
                                   ELSE op(type, Short - 1) \o var_size_t(m.len - 2 * Short - 1)) \o WriteUint(2, distance)
          [] type = "Far3Long" -> (IF m.len <= Short + 3 THEN op(type, m.len - 5)
                                   ELSE op(type, Short - 1) \o var_size_t(m.len - Short - 4)) \o WriteUint(3, distance)

\* One turn of the loop over the record: s holds j, literal_len, what is written and the hash table.
ZipStep(rec, dict, suffix, probe, sa, s) ==
    LET j == s.j
        hashed == ~suffix /\ j + 4 <= Len(rec)
        h == HashPtr(rec, j, Buckets(rec))
        local == IF suffix THEN SuffixMatch(rec, j, sa, probe) ELSE IF hashed THEN HashMatch(rec, j, s.tabl[h], probe) ELSE NoMatch
        tabl == IF hashed THEN [s.tabl EXCEPT ![h] = <<j>> \o @] ELSE s.tabl
        g == da_match_max_length(dict, SubSeq(rec, j + 1, Len(rec)))
        better == IF Gain(local) > 0 THEN Gain(local) ELSE 0
    IN  IF g.depth - GlobalMatchEncLen(g.depth, dict) > better
        THEN [j |-> j + g.depth, lit |-> 0, out |-> s.out \o emitLiteral(rec, j, s.lit) \o emitGlobal(dict, g), tabl |-> tabl]
        ELSE IF Gain(local) <= 0 THEN [s EXCEPT !.j = @ + 1, !.lit = @ + 1, !.tabl = tabl]
        ELSE [j |-> j + local.len, lit |-> 0, out |-> s.out \o emitLiteral(rec, j, s.lit) \o emitLocal(j, local), tabl |-> tabl]

zipRecord_impl2(rec, dict, suffix, probe) ==
    LET sa == IF suffix THEN divsufsort(rec) ELSE <<>>
        start == [j |-> 0, lit |-> 0, out |-> <<>>, tabl |-> [b \in 0..(Buckets(rec) - 1) |-> <<>>]]
        f[k \in 0..Len(rec)] == IF k = 0 THEN start
                                ELSE LET s == f[k - 1] IN IF s.j >= Len(rec) THEN s ELSE ZipStep(rec, dict, suffix, probe, sa, s)
        Closed(done) == done.out \o emitLiteral(rec, Len(rec), done.lit)
    IN  IF rec = <<>> THEN <<>> ELSE Closed(f[Len(rec)])

---------------------------------------------------------------------------
(* Decompression. *)

\* The operation at pos: type, length, distance or offset, and the position behind it.
LongLen(z, pos, base) ==
    IF z[pos][3] < Short - 1 THEN <<z[pos][3] + base, pos + 1>>
    ELSE LET r == READ_VAR_UINT32(z, pos + 1) IN <<r[1] + base + Short - 1, r[2]>>
GlobalOp(z, pos, dict) ==
    LET bytes == gOffsetBytes(dict)
        bits == gLenBitsInOffset(dict)
        w == ReadUint(z, pos + 1, bytes)
        len == (w % 2 ^ bits) * Short + z[pos][3]
        mask == 2 ^ (DzLenBits + bits) - 1
        r == IF len < mask THEN <<len + gMinLen, pos + 1 + bytes>>
             ELSE LET v == READ_VAR_UINT32(z, pos + 1 + bytes) IN <<v[1] + gMinLen + mask, v[2]>>
    IN  [type |-> "Global", len |-> r[1], at |-> w \div 2 ^ bits, next |-> r[2]]
ReadOp(z, pos, dict) ==
    LET type == z[pos][2]
        n == z[pos][3]
    IN  CASE type = "Literal" -> [type |-> type, len |-> n + 1, at |-> 0, next |-> pos + 1 + n + 1]
          [] type = "Global" -> GlobalOp(z, pos, dict)
          [] type = "RLE" -> [type |-> type, len |-> n + 2, at |-> 1, next |-> pos + 1]
          [] type = "NearShort" -> [type |-> type, len |-> (n % 2 ^ NearBits) + 2, at |-> n \div 2 ^ NearBits + 2, next |-> pos + 1]
          [] type = "Far1Short" -> [type |-> type, len |-> n + 2, at |-> 2 + ReadUint(z, pos + 1, 1), next |-> pos + 2]
          [] type = "Far2Short" -> [type |-> type, len |-> n + 2, at |-> DzByte + 2 + ReadUint(z, pos + 1, 2), next |-> pos + 3]
          [] type = "Far2Long" -> LET l == LongLen(z, pos, Short + 2) IN
                                  [type |-> type, len |-> l[1], at |-> ReadUint(z, l[2], 2), next |-> l[2] + 2]
          [] type = "Far3Long" -> LET l == LongLen(z, pos, 5) IN
                                  [type |-> type, len |-> l[1], at |-> ReadUint(z, l[2], 3), next |-> l[2] + 3]

Unset == -1      \* a byte of the output that is not written yet
CopyForward(out, distance, len) ==
    LET f[k \in 0..len] == IF k = 0 THEN out ELSE LET o == f[k - 1] IN Append(o, o[Len(out) + k - distance]) IN f[len]
Literals(z, o) == [k \in 1..o.len |-> z[o.next - o.len + k - 1][2]]
FromDict(dict, at, len) == [k \in 1..len |-> dict[at + k]]

\* DoUnzipSwitch, DoUnzipThread: each operation as it is read.
DoUnzip(z, dict) ==
    LET step(s, o) ==
            [pos |-> o.next, out |-> CASE o.type = "Literal" -> s.out \o Literals(z, o)
                                       [] o.type = "Global" -> s.out \o FromDict(dict, o.at, o.len)
                                       [] OTHER -> CopyForward(s.out, o.at, o.len)]
        after(s) == IF s.pos > Len(z) THEN s ELSE step(s, ReadOp(z, s.pos, dict))
        f[k \in 0..Len(z)] == IF k = 0 THEN [pos |-> 1, out |-> <<>>] ELSE after(f[k - 1])
    IN  f[Len(z)].out

\* DoUnzipDelayG: a copy from the dictionary is made after the next operation is read; that operation copies first
\* when it is a literal, or a far copy that cannot touch the bytes still missing.
Filled(s, dict) ==
    LET n == Len(s.out) IN
    IF s.gLen = 0 THEN s.out
    ELSE [i \in 1..n |-> IF i > s.gEnd - s.gLen /\ i <= s.gEnd THEN dict[s.gAt + i - (s.gEnd - s.gLen)] ELSE s.out[i]]
\* Operation o on the bytes so far; the copy that was delayed is made before it, or, when o copies first, after it.
Produce(z, o, out) ==
    CASE o.type = "Literal" -> out \o Literals(z, o)
      [] o.type = "Global" -> out \o [k \in 1..o.len |-> Unset]
      [] OTHER -> CopyForward(out, o.at, o.len)
Delayed(z, dict, s, o, first) ==
    LET next(out) == [pos |-> o.next, out |-> out, gLen |-> IF o.type = "Global" THEN o.len ELSE 0,
                      gAt |-> o.at, gEnd |-> Len(out)]
    IN  next(IF first THEN Filled([s EXCEPT !.out = Produce(z, o, s.out)], dict) ELSE Produce(z, o, Filled(s, dict)))
CopiesFirst_Early(s, o) == o.type \in {"Literal", "Far2Short", "Far2Long"} \/ s.gLen = 0
CopiesFirst(s, o) == \/ o.type = "Literal" \/ s.gLen = 0
                     \/ o.type \in {"Far2Short", "Far2Long"} /\ o.at >= s.gLen + o.len
DelayStep(z, dict, s) ==
    LET step(o) == Delayed(z, dict, s, o, CopiesFirst(s, o)) IN step(ReadOp(z, s.pos, dict))
DoUnzipDelayG(z, dict) ==
    LET after(s) == IF s.pos > Len(z) THEN s ELSE DelayStep(z, dict, s)
        f[k \in 0..Len(z)] == IF k = 0 THEN [pos |-> 1, out |-> <<>>, gLen |-> 0, gAt |-> 0, gEnd |-> 0]
                              ELSE after(f[k - 1])
    IN  Filled(f[Len(z)], dict)

---------------------------------------------------------------------------
(* One record is compressed. *)

NotZipped == <<<<"none", 0, 0>>>>
CodecInit == /\ dzRec \in DzRecords /\ dzDict \in Dicts /\ dzSuffix \in BOOLEAN /\ dzProbe \in Probes /\ dzOut = NotZipped
CodecIdle == dzRec = <<>> /\ dzDict = <<>> /\ dzSuffix = FALSE /\ dzProbe = 0 /\ dzOut = NotZipped
ZipRecord == /\ dzOut = NotZipped
             /\ dzOut' = zipRecord_impl2(dzRec, dzDict, dzSuffix, dzProbe)
             /\ UNCHANGED <<dzRec, dzDict, dzSuffix, dzProbe>>
CodecSpec == CodecInit /\ [][ZipRecord]_codecVars

(* What the decoders make of a compressed record is the record: the one that copies at once and the one that delays
   copies from the dictionary; for every kind of operation, at every limit of its fields. *)
UnzipRight ==
    dzOut # NotZipped => DoUnzip(dzOut, dzDict) = dzRec /\ DoUnzipDelayG(dzOut, dzDict) = dzRec
=============================================================================
