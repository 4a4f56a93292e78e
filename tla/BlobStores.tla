----------------------------- MODULE BlobStores -----------------------------
(***************************************************************************)
(* The blob stores with plain records (zbs/): a builder takes records and  *)
(* writes a file; the file is loaded, read by record, saved again, written *)
(* in another order, its meta data moved to other memory.                  *)
(*                                                                         *)
(* A file is a sequence of cells, one for each byte: <<"sym", x>> a byte   *)
(* of a record, <<"bits", b>> a byte of a packed integer vector, <<"crc",  *)
(* r, k>> a byte of the checksum of r, <<"head", h>> the header, <<"hash", *)
(* s>> the hash of s, and so on.  What a reader takes from a file, it      *)
(* takes from the cells at the place that it computes.                     *)
(*                                                                         *)
(* zstd is external; other modules model what is inside the bytes of       *)
(* SortedUintVec, of rank-select and of the Huffman coder.                 *)
(***************************************************************************)
EXTENDS Integers, Sequences, FiniteSets

CONSTANTS
    Align,       \* sections of a file begin at multiples of it (16)
    SizeT,       \* sizeof(size_t) (8)
    UnitBits,    \* bits of a byte (8)
    HeaderLen,   \* sizeof(FileHeader) (128)
    FooterLen,   \* sizeof(BlobStoreFileFooter) (64)
    FlushSize,   \* offset_flush_size (128)
    BlockLen,    \* values of a block of SortedUintVec (64 or 128)
    Inputs,      \* the sequences of records a builder is given
    Bases,       \* where in its file a store begins
    StoreUses    \* the stores: [kind, level, type, fixed, zstd, order, raw]

ASSUME StoresAssumption ==
    /\ {Align, SizeT, UnitBits, FooterLen, FlushSize, BlockLen} \subseteq Nat \ {0} /\ HeaderLen \in Nat \ {0}
    /\ HeaderLen % Align = 0 /\ FooterLen % Align = 0 /\ FlushSize % (Align * UnitBits) = 0
    /\ \A b \in Bases : b \in Nat /\ b % SizeT = 0

VARIABLES
    use,       \* the member of StoreUses a behaviour is about
    phase,     \* "add", "file", "loaded"
    recs,      \* the records the file should give, in its order
    todo,      \* the records still to be added
    builder,   \* what the builder holds
    disk,      \* the file, with what precedes the store in it
    from,      \* where in the file the store begins
    store,     \* the loaded store
    cached,    \* CacheOffsets: [block, offsets]
    broken     \* whether a byte of the file was changed

storeVars == <<use, phase, recs, todo, builder, disk, from, store, cached, broken>>

---------------------------------------------------------------------------
(* Cells. *)

AlignUp(n, a) == ((n + a - 1) \div a) * a
Pad == <<"pad", 0>>
Zeros(n) == [i \in 1..n |-> Pad]
\* PadzeroForAlign<16>
PadzeroForAlign(n) == Zeros(AlignUp(n, Align) - n)
CellAt(mem, p) == IF p \in 0..(Len(mem) - 1) THEN mem[p + 1] ELSE <<"none", 0>>
Slice(mem, p, n) == [i \in 1..n |-> CellAt(mem, p + i - 1)]
Concat(ss) == LET f[i \in 0..Len(ss)] == IF i = 0 THEN <<>> ELSE f[i - 1] \o ss[i] IN f[Len(ss)]
Lens(ss) == [i \in 1..Len(ss) |-> Len(ss[i])]
\* The n + 1 places at which pieces of these lengths begin and end.
Starts(lens) == LET f[i \in 0..Len(lens)] == IF i = 0 THEN <<0>> ELSE LET g == f[i - 1] IN Append(g, g[i] + lens[i])
                IN  f[Len(lens)]
Thrown == <<<<"thrown", 0>>>>

\* UintVecMin0Base: compute_uintbits, compute_mem_size, set_wire and fast_get.
compute_uintbits(v) == CHOOSE b \in 0..30 : v < 2 ^ b /\ (b = 0 \/ v >= 2 ^ (b - 1))
compute_mem_size(b, n) == AlignUp((b * n + UnitBits - 1) \div UnitBits + SizeT - 1, Align)
Packed(vals, b) ==
    LET bit(p) == IF p \div b < Len(vals) THEN (vals[p \div b + 1] \div 2 ^ (p % b)) % 2 ELSE 0
    IN  [i \in 1..((b * Len(vals) + UnitBits - 1) \div UnitBits) |->
            <<"bits", [k \in 1..UnitBits |-> bit((i - 1) * UnitBits + k - 1)]>>]
UintVec(vals, b) == LET p == Packed(vals, b) IN p \o Zeros(compute_mem_size(b, Len(vals)) - Len(p))
fast_get(mem, p, b, i) ==
    LET bit(q) == LET c == CellAt(mem, p + q \div UnitBits) IN IF c[1] = "bits" THEN c[2][(q % UnitBits) + 1] ELSE IF c[1] = "pad" THEN 0 ELSE 1
        val[k \in 0..b] == IF k = 0 THEN 0 ELSE val[k - 1] + bit(b * i + k - 1) * 2 ^ (k - 1)
    IN  val[b]

\* UintVecMin0Builder: whole groups of FlushSize values as they come, the rest in finish.
uint_builder(vals, b) ==
    LET groups == Len(vals) \div FlushSize
        group(g) == SubSeq(Packed(SubSeq(vals, (g - 1) * FlushSize + 1, g * FlushSize), b), 1, (b * FlushSize) \div UnitBits)
        rest == SubSeq(vals, groups * FlushSize + 1, Len(vals))
    IN  Concat([g \in 1..groups |-> group(g)])
        \o (IF Len(rest) > 0 THEN UintVec(rest, b) ELSE Zeros(compute_mem_size(b, 0)))

\* The bytes of a SortedUintVec (SortedUintVec models its blocks) and of a rank-select bit vector (RankSelect), by
\* what they hold: whole, they give the values back, and otherwise nothing.
SortedVec(vals) == [k \in 1..AlignUp(Len(vals) + 1, Align) |-> <<"sorted", vals, k>>]
SortedVals(mem, p, n) == LET c == CellAt(mem, p) IN
    IF c[1] = "sorted" /\ Slice(mem, p, n) = SortedVec(c[2]) THEN c[2] ELSE <<>>
RankSelectMem(bits) == [k \in 1..AlignUp(Len(bits) + 1, SizeT) |-> <<"rank", bits, k>>]
RankSelectBits(mem, p, n) == LET c == CellAt(mem, p) IN
    IF c[1] = "rank" /\ Slice(mem, p, n) = RankSelectMem(c[2]) THEN c[2] ELSE <<>>

\* Checksums (Crc32c_update, Crc16c_update, XXHash64): as values that no other bytes have.
CrcLen(type) == IF type = "crc16" THEN SizeT \div 2 ELSE SizeT
Crc(rec, type) == [k \in 1..CrcLen(type) |-> <<"crc", rec, k>>]
Footer(bytes) == <<<<"hash", bytes>>>> \o Zeros(FooterLen - 1)
HeaderBytes(h) == <<<<"head", h>>>> \o Zeros(HeaderLen - 1)
Whole(bytes) == bytes \o Footer(bytes)
HeaderOf(mem) == CellAt(mem, 0)[2]
\* At level 3 the whole file is compared with the hash in its footer.
HashWrong(mem) ==
    LET h == HeaderOf(mem) IN
    h.level = 3 /\ CellAt(mem, h.fileSize - FooterLen) # <<"hash", SubSeq(mem, 1, h.fileSize - FooterLen)>>

\* At level 2 a record is followed by its checksum.
WithCrc(rec, u) == IF u.level = 2 THEN rec \o Crc(rec, u.type) ELSE rec
CrcChecked(data, st) ==
    IF st.level # 2 THEN data
    ELSE LET n == Len(data) - CrcLen(st.type) IN
         IF n >= 0 /\ SubSeq(data, n + 1, Len(data)) = Crc(SubSeq(data, 1, n), st.type) THEN SubSeq(data, 1, n) ELSE Thrown

---------------------------------------------------------------------------
(* PlainBlobStore *)

plain_add_record(b, rec, u) == [b EXCEPT !.offsets = Append(@, Len(b.content)), !.content = @ \o WithCrc(rec, u)]

plain_header(n, content, offsetBytes, bits, level, type) ==
    [class |-> "plain", fileSize |-> HeaderLen + AlignUp(content, Align) + offsetBytes + FooterLen, records |-> n,
     contentBytes |-> content, offsetsBytes |-> offsetBytes, offsetsUintBits |-> bits, level |-> level, type |-> type]

\* The builder's integers are as wide as the declared size needs, the header says what the real size needs.
plain_finish(b, u, declared) ==
    LET offsets == uint_builder(Append(b.offsets, Len(b.content)), compute_uintbits(declared))
        body == b.content \o PadzeroForAlign(Len(b.content)) \o offsets
        n == Len(b.offsets)
    IN  Whole(HeaderBytes(plain_header(n, Len(b.content), compute_mem_size(compute_uintbits(Len(b.content)), n + 1),
                                compute_uintbits(Len(b.content)), u.level, u.type)) \o body)

plain_init_from_memory(mem) ==
    LET h == HeaderOf(mem) IN
    [kind |-> "plain", mem |-> mem, meta |-> mem, n |-> h.records, level |-> h.level, type |-> h.type, content |-> h.contentBytes,
     offs |-> HeaderLen + AlignUp(h.contentBytes, Align), bits |-> h.offsetsUintBits]

PlainRange(st, i) == <<fast_get(st.meta, st.offs, st.bits, i), fast_get(st.meta, st.offs, st.bits, i + 1)>>
plain_get_record_append(st, i) == LET r == PlainRange(st, i) IN CrcChecked(Slice(st.mem, HeaderLen + r[1], r[2] - r[1]), st)
plain_fspread_record_append(st, file, base, i) ==
    LET r == PlainRange(st, i) IN CrcChecked(Slice(file, base + HeaderLen + r[1], r[2] - r[1]), st)

plain_get_meta_blocks(st) == Slice(st.meta, st.offs, compute_mem_size(st.bits, st.n + 1))
\* The offsets are looked for behind the content's size, although the block holds nothing but them.
plain_detach_meta_blocks(st, block) == [st EXCEPT !.meta = block, !.offs = AlignUp(st.content, Align)]

plain_store_header(st) ==
    plain_header(st.n, st.content, compute_mem_size(st.bits, st.n + 1), st.bits, st.level, st.type)
plain_save_mmap(st) ==
    Whole(HeaderBytes(plain_store_header(st)) \o Slice(st.mem, HeaderLen, st.content) \o PadzeroForAlign(st.content)
          \o plain_get_meta_blocks(st))

\* Data in the new order, then the new offsets, flushed in groups as the builder does.
plain_reorder_zip_data(st, newToOld) ==
    LET piece(i) == LET r == PlainRange(st, newToOld[i]) IN Slice(st.mem, HeaderLen + r[1], r[2] - r[1])
        pieces == Concat([i \in 1..st.n |-> <<piece(i)>>])
        total == Starts(Lens(pieces))[st.n + 1]
    IN  Whole(HeaderBytes(plain_store_header(st)) \o Concat(pieces) \o PadzeroForAlign(total)
              \o uint_builder(Starts(Lens(pieces)), compute_uintbits(fast_get(st.meta, st.offs, st.bits, st.n))))

---------------------------------------------------------------------------
(* MixedLenBlobStore: records of the fixed length together, the others with offsets. *)

AllVar == -1    \* fixedLen when no record has the fixed length

mixed_add_record(b, rec, u) ==
    IF Len(rec) = u.fixed
    THEN [b EXCEPT !.fixed = @ \o WithCrc(rec, u), !.isFixed = Append(@, TRUE)]
    ELSE [b EXCEPT !.offsets = Append(@, Len(b.content)), !.content = @ \o WithCrc(rec, u), !.isFixed = Append(@, FALSE)]

mixed_header(n, fixedLen, fixedNum, fixedBytes, varBytes, offsetBytes, bits, rsBytes, level, type) ==
    [class |-> "mixed", fileSize |-> HeaderLen + AlignUp(fixedBytes, Align) + AlignUp(varBytes, Align) + offsetBytes
                                     + AlignUp(rsBytes, Align) + FooterLen,
     records |-> n, fixedLen |-> fixedLen, fixedNum |-> fixedNum, varLenBytes |-> varBytes, offsetsUintBits |-> bits,
     isFixedBytes |-> rsBytes, level |-> level, type |-> type]

mixed_finish(b, u, declared) ==
    LET n == Len(b.isFixed)
        vars == Len(b.offsets)
        bits == compute_uintbits(declared)
        offsets == IF vars = 0 THEN <<>> ELSE uint_builder(Append(b.offsets, Len(b.content)), bits)
        rank == IF vars \in {0, n} THEN <<>> ELSE RankSelectMem(b.isFixed)
        fixedLen == IF vars > 0 /\ vars = n THEN AllVar ELSE u.fixed + (IF u.level = 2 THEN CrcLen(u.type) ELSE 0)
        h == mixed_header(n, fixedLen, n - vars, Len(b.fixed), Len(b.content), Len(offsets),
                          IF Len(b.content) > 0 THEN bits ELSE 0, Len(rank), u.level, u.type)
        body == b.fixed \o PadzeroForAlign(Len(b.fixed)) \o b.content \o PadzeroForAlign(Len(b.content))
                \o offsets \o rank \o PadzeroForAlign(Len(rank))
    IN  IF HeaderLen + Len(body) # h.fileSize - FooterLen THEN Thrown ELSE Whole(HeaderBytes(h) \o body)

mixed_init_from_memory(mem) ==
    LET h == HeaderOf(mem)
        vars == h.records - h.fixedNum
        varAt == HeaderLen + (IF h.fixedNum > 0 THEN AlignUp(h.fixedLen * h.fixedNum, Align) ELSE 0)
        offs == varAt + (IF vars > 0 THEN AlignUp(h.varLenBytes, Align) ELSE 0)
        rank == offs + (IF vars > 0 THEN compute_mem_size(h.offsetsUintBits, vars + 1) ELSE 0)
    IN  [kind |-> "mixed", mem |-> mem, meta |-> mem, n |-> h.records, level |-> h.level, type |-> h.type, fixedLen |-> h.fixedLen,
         fixedNum |-> h.fixedNum, varAt |-> varAt, varLen |-> h.varLenBytes, offs |-> offs, bits |-> h.offsetsUintBits,
         isFixed |-> IF h.isFixedBytes > 0 THEN RankSelectBits(mem, rank, h.isFixedBytes) ELSE <<>>, hasRank |-> h.isFixedBytes > 0]

Rank(bits, v, i) == Cardinality({j \in 1..i : j <= Len(bits) /\ bits[j] = v})
\* set_func_ptr and the functions with isFixedLen: which of the two kinds record i is, and its number in it.
MixedPlace(st, i) ==
    IF ~st.hasRank THEN <<st.fixedLen # AllVar, i>>
    ELSE IF i >= Len(st.isFixed) THEN <<FALSE, st.n>>
    ELSE <<st.isFixed[i + 1], Rank(st.isFixed, st.isFixed[i + 1], i)>>
VarRange(st, k) == <<fast_get(st.meta, st.offs, st.bits, k), fast_get(st.meta, st.offs, st.bits, k + 1)>>
\* Where the record's bytes are in the store's memory, and how many they are.
FixLenPlace(st, k) == <<HeaderLen + st.fixedLen * k, st.fixedLen>>
VarLenPlace(st, k) == LET r == VarRange(st, k) IN <<st.varAt + r[1], r[2] - r[1]>>
getFixLenRecordAppend(st, k) == LET p == FixLenPlace(st, k) IN CrcChecked(Slice(st.mem, p[1], p[2]), st)
getVarLenRecordAppend(st, k) == LET p == VarLenPlace(st, k) IN CrcChecked(Slice(st.mem, p[1], p[2]), st)
mixed_get_record_append(st, i) ==
    LET w == MixedPlace(st, i) IN IF w[1] THEN getFixLenRecordAppend(st, w[2]) ELSE getVarLenRecordAppend(st, w[2])
fspread_FixLenRecordAppend(st, file, base, k) == LET p == FixLenPlace(st, k) IN CrcChecked(Slice(file, base + p[1], p[2]), st)
fspread_VarLenRecordAppend(st, file, base, k) == LET p == VarLenPlace(st, k) IN CrcChecked(Slice(file, base + p[1], p[2]), st)
mixed_fspread_record_append(st, file, base, i) ==
    LET w == MixedPlace(st, i) IN
    IF w[1] THEN fspread_FixLenRecordAppend(st, file, base, w[2]) ELSE fspread_VarLenRecordAppend(st, file, base, w[2])

VarNum(st) == st.n - st.fixedNum
mixed_get_meta_blocks(st) == IF VarNum(st) > 0 THEN Slice(st.meta, st.offs, compute_mem_size(st.bits, VarNum(st) + 1)) ELSE <<>>
mixed_detach_meta_blocks(st, block) == IF VarNum(st) > 0 THEN [st EXCEPT !.meta = block, !.offs = 0] ELSE st

mixed_store_header(st) ==
    mixed_header(st.n, st.fixedLen, st.fixedNum, IF st.fixedNum > 0 THEN st.fixedLen * st.fixedNum ELSE 0, st.varLen,
                 Len(mixed_get_meta_blocks(st)), st.bits, IF st.hasRank THEN Len(RankSelectMem(st.isFixed)) ELSE 0, st.level, st.type)
FixedBytes(st) == IF st.fixedNum > 0 THEN st.fixedLen * st.fixedNum ELSE 0
RankSection(bits) == LET r == RankSelectMem(bits) IN r \o PadzeroForAlign(Len(r))
mixed_save_mmap(st) ==
    Whole(HeaderBytes(mixed_store_header(st))
          \o Slice(st.mem, HeaderLen, FixedBytes(st)) \o PadzeroForAlign(FixedBytes(st))
          \o (IF VarNum(st) > 0 THEN Slice(st.mem, st.varAt, st.varLen) \o PadzeroForAlign(st.varLen) ELSE <<>>)
          \o mixed_get_meta_blocks(st) \o (IF st.hasRank THEN RankSection(st.isFixed) ELSE <<>>))

\* pushFixLen over all records, then pushVarLen over all records.
mixed_reorder_zip_data(st, newToOld) ==
    LET place(i) == MixedPlace(st, newToOld[i])
        isFixed == Concat([i \in 1..st.n |-> <<place(i)[1]>>])
        bytes(i) == LET p == IF place(i)[1] THEN FixLenPlace(st, place(i)[2]) ELSE VarLenPlace(st, place(i)[2])
                    IN  Slice(st.mem, p[1], p[2])
        fixed == Concat([i \in 1..st.n |-> IF isFixed[i] THEN bytes(i) ELSE <<>>])
        vars == SelectSeq([i \in 1..st.n |-> i], LAMBDA i : ~isFixed[i])
        pieces == Concat([k \in 1..Len(vars) |-> <<bytes(vars[k])>>])
        starts == Starts(Lens(pieces))
        last == IF VarNum(st) > 0 THEN fast_get(st.meta, st.offs, st.bits, VarNum(st)) ELSE 0
    IN  Whole(HeaderBytes(mixed_store_header(st)) \o fixed \o PadzeroForAlign(FixedBytes(st))
              \o Concat(pieces) \o PadzeroForAlign(starts[Len(pieces) + 1])
              \o (IF Len(vars) > 0 THEN uint_builder(starts, compute_uintbits(last)) ELSE <<>>)
              \o (IF Len(vars) > 0 /\ Len(vars) < st.n THEN RankSection(isFixed) ELSE <<>>))

---------------------------------------------------------------------------
(* ZipOffsetBlobStore: offsets in a SortedUintVec, records compressed or not. *)

\* External: zstd gives a record back, and a record of no bytes takes some.
ZSTD_compress(rec) == [k \in 1..(Len(rec) \div 2 + 1) |-> <<"zstd", rec, k>>]
ZSTD_decompress(data) ==
    IF Len(data) > 0 /\ data[1][1] = "zstd" /\ data = ZSTD_compress(data[1][2]) THEN data[1][2] ELSE Thrown

\* MyBuilder's constructors: with compression no checksums.
zip_options(u) == IF u.zstd THEN [u EXCEPT !.level = 1, !.type = "crc32"] ELSE u
zip_add_record(b, rec, u) ==
    LET o == zip_options(u)
        bytes == WithCrc(IF o.zstd THEN ZSTD_compress(rec) ELSE rec, o)
    IN  [b EXCEPT !.offsets = Append(@, Len(b.content)), !.content = @ \o bytes]

zip_header(n, content, offsets, u) ==
    [class |-> "zip", fileSize |-> HeaderLen + AlignUp(content, Align) + Len(SortedVec(offsets)) + FooterLen, records |-> n,
     contentBytes |-> content, offsetsBytes |-> Len(SortedVec(offsets)), level |-> u.level, type |-> u.type, zstd |-> u.zstd]
zip_finish(b, u) ==
    LET offsets == Append(b.offsets, Len(b.content))
    IN  Whole(HeaderBytes(zip_header(Len(offsets) - 1, Len(b.content), offsets, zip_options(u)))
              \o b.content \o PadzeroForAlign(Len(b.content)) \o SortedVec(offsets))

zip_init_from_memory(mem) ==
    LET h == HeaderOf(mem)
        offsets == SortedVals(mem, HeaderLen + AlignUp(h.contentBytes, Align), h.offsetsBytes)
    IN  IF Len(offsets) # h.records + 1 THEN [kind |-> "thrown"]
        ELSE [kind |-> "zip", mem |-> mem, n |-> h.records, level |-> h.level, type |-> h.type, zstd |-> h.zstd,
              content |-> h.contentBytes, offsets |-> offsets]

ZipData(data, st) == IF st.zstd THEN ZSTD_decompress(data) ELSE CrcChecked(data, st)
zip_get_record_append(st, i) ==
    ZipData(Slice(st.mem, HeaderLen + st.offsets[i + 1], st.offsets[i + 2] - st.offsets[i + 1]), st)
zip_fspread_record_append(st, file, base, i) ==
    ZipData(Slice(file, base + HeaderLen + st.offsets[i + 1], st.offsets[i + 2] - st.offsets[i + 1]), st)

\* CacheOffsets: the offsets of the record's block, and the first of the next block after them.
BlockOffsets(offsets, blk) ==
    [k \in 1..(BlockLen + 1) |-> LET j == blk * BlockLen + k IN IF j <= Len(offsets) THEN offsets[j] ELSE offsets[Len(offsets)]]
LoadBlock(st, co, i) ==
    IF i \div BlockLen = co.block THEN co ELSE [block |-> i \div BlockLen, offsets |-> BlockOffsets(st.offsets, i \div BlockLen)]
zip_get_record_append_CacheOffsets(st, co, i) ==
    LET k == i % BlockLen IN ZipData(Slice(st.mem, HeaderLen + co.offsets[k + 1], co.offsets[k + 2] - co.offsets[k + 1]), st)

zip_detach_meta_blocks(st) == st
zip_save_mmap(st) ==
    Whole(HeaderBytes(zip_header(st.n, st.content, st.offsets, st))
          \o Slice(st.mem, HeaderLen, st.content) \o PadzeroForAlign(st.content) \o SortedVec(st.offsets))
zip_reorder_zip_data(st, newToOld) ==
    LET piece(i) == LET j == newToOld[i] IN Slice(st.mem, HeaderLen + st.offsets[j + 1], st.offsets[j + 2] - st.offsets[j + 1])
        pieces == Concat([i \in 1..st.n |-> <<piece(i)>>])
        starts == Starts(Lens(pieces))
    IN  Whole(HeaderBytes(zip_header(st.n, st.content, starts, st))
              \o Concat(pieces) \o PadzeroForAlign(starts[st.n + 1]) \o SortedVec(starts))

---------------------------------------------------------------------------
(* EntropyZipBlobStore: one string of bits, offsets in bits, the coder's table behind it. *)

Bit(v) == <<"b", v>>
\* A prefix code in which symbol x is x ones and a zero stands for the Huffman code (Huffman models it), with its
\* table, as encoder or as decoder.
Encode(rec) == Concat([i \in 1..Len(rec) |-> [k \in 1..rec[i][2] |-> Bit(1)] \o <<Bit(0)>>])
Decode(bits) ==
    LET zeros == SelectSeq([k \in 1..Len(bits) |-> k], LAMBDA k : bits[k] = Bit(0))
        len(j) == zeros[j] - 1 - (IF j = 1 THEN 0 ELSE zeros[j - 1])
    IN  IF (\A k \in 1..Len(bits) : bits[k][1] = "b") /\ (Len(bits) = 0 \/ bits[Len(bits)] = Bit(0))
        THEN [j \in 1..Len(zeros) |-> <<"sym", len(j)>>] ELSE Thrown
Table(order, raw) == [k \in 1..(IF raw THEN 5 ELSE 3) |-> <<"table", order, raw, k>>]
CrcBits(rec, type) == [k \in 1..(CrcLen(type) * UnitBits) |-> <<"crc", rec, k>>]

BitBytes(bits) == (Len(bits) + UnitBits - 1) \div UnitBits
\* EntropyBitsWriter: the bits one after the other, the last byte filled with zeros.
EntropyBytes(bits) ==
    [i \in 1..BitBytes(bits) |->
        <<"ebits", [k \in 1..UnitBits |-> LET j == (i - 1) * UnitBits + k IN IF j <= Len(bits) THEN bits[j] ELSE Bit(0)]>>]
BitsOf(mem, p, q, n) ==
    [k \in 1..n |-> LET c == CellAt(mem, p + (q + k - 1) \div UnitBits) IN
                    IF c[1] = "ebits" THEN c[2][((q + k - 1) % UnitBits) + 1] ELSE <<"none", 0>>]

entropy_add_record(b, rec, u) ==
    [b EXCEPT !.offsets = Append(@, Len(b.content)),
              !.content = @ \o Encode(rec) \o (IF u.level = 2 THEN CrcBits(rec, u.type) ELSE <<>>)]

AlignEntropyZipSize(bits, table) == ((bits + table * UnitBits + Align * UnitBits - 1) \div (Align * UnitBits)) * Align
entropy_header(n, bits, offsets, table, u) ==
    [class |-> "entropy", fileSize |-> HeaderLen + AlignEntropyZipSize(bits, table) + Len(SortedVec(offsets)) + FooterLen,
     records |-> n, contentBits |-> bits, offsetsBytes |-> Len(SortedVec(offsets)), order |-> u.order, level |-> u.level,
     type |-> u.type, raw |-> u.raw, tableBytes |-> table]
EntropyBody(bytes, table, offsets) == bytes \o table \o PadzeroForAlign(Len(bytes) + Len(table)) \o SortedVec(offsets)
entropy_finish(b, u) ==
    LET offsets == Append(b.offsets, Len(b.content))
    IN  Whole(HeaderBytes(entropy_header(Len(b.offsets), Len(b.content), offsets, Len(Table(u.order, u.raw)), u))
              \o EntropyBody(EntropyBytes(b.content), Table(u.order, u.raw), offsets))

entropy_init_from_memory(mem) ==
    LET h == HeaderOf(mem)
        bytes == (h.contentBits + UnitBits - 1) \div UnitBits
        offsets == SortedVals(mem, HeaderLen + AlignEntropyZipSize(h.contentBits, h.tableBytes), h.offsetsBytes)
    IN  IF Len(offsets) # h.records + 1 THEN [kind |-> "thrown"]
        ELSE [kind |-> "entropy", mem |-> mem, n |-> h.records, level |-> h.level, type |-> h.type, order |-> h.order,
              raw |-> h.raw, bits |-> h.contentBits, offsets |-> offsets, table |-> Slice(mem, HeaderLen + bytes, h.tableBytes)]

\* The record from its bits; without its table nothing can be decoded.
EntropyRecord(st, code, crc) ==
    LET rec == IF st.table = Table(st.order, st.raw) THEN Decode(code) ELSE Thrown
    IN  IF rec # Thrown /\ st.level = 2 /\ crc # CrcBits(rec, st.type) THEN Thrown ELSE rec
CodeLen(st, n) == IF st.level = 2 THEN n - CrcLen(st.type) * UnitBits ELSE n
EntropyRead(st, r) ==
    LET n == CodeLen(st, r[2] - r[1]) IN
    EntropyRecord(st, BitsOf(st.mem, HeaderLen, r[1], n), BitsOf(st.mem, HeaderLen, r[1] + n, r[2] - r[1] - n))
entropy_get_record_append(st, i) == EntropyRead(st, <<st.offsets[i + 1], st.offsets[i + 2]>>)
entropy_get_record_append_CacheOffsets(st, co, i) ==
    LET k == i % BlockLen IN EntropyRead(st, <<co.offsets[k + 1], co.offsets[k + 2]>>)
\* Whole words of the file around the record; the checksum is taken from the loaded memory.
entropy_fspread_record_append(st, file, base, i) ==
    LET word == SizeT * UnitBits
        b == st.offsets[i + 1]
        e == st.offsets[i + 2]
        byte_beg == (b - (b % word)) \div UnitBits
        byte_end == ((e + word - 1) \div word) * SizeT
        data == Slice(file, base + HeaderLen + byte_beg, byte_end - byte_beg)
        n == CodeLen(st, e - b)
    IN  EntropyRecord(st, BitsOf(data, 0, b - byte_beg * UnitBits, n), BitsOf(st.mem, HeaderLen, b + n, e - b - n))

entropy_detach_meta_blocks(st) == st
entropy_save_mmap(st) ==
    Whole(HeaderBytes(entropy_header(st.n, st.offsets[st.n + 1], st.offsets, Len(st.table), st))
          \o EntropyBody(Slice(st.mem, HeaderLen, (st.bits + UnitBits - 1) \div UnitBits), st.table, st.offsets))
entropy_reorder_zip_data(st, newToOld) ==
    LET piece(i) == LET j == newToOld[i] IN BitsOf(st.mem, HeaderLen, st.offsets[j + 1], st.offsets[j + 2] - st.offsets[j + 1])
        pieces == Concat([i \in 1..st.n |-> <<piece(i)>>])
        starts == Starts(Lens(pieces))
    IN  Whole(HeaderBytes(entropy_header(st.n, starts[st.n + 1], starts, Len(st.table), st))
              \o EntropyBody(EntropyBytes(Concat(pieces)), st.table, starts))

---------------------------------------------------------------------------
(* ZeroLengthBlobStore and SimpleZipBlobStore. *)

zero_save_mmap(n) == HeaderBytes([class |-> "zero", fileSize |-> HeaderLen, records |-> n, level |-> 0, type |-> "crc32"])
zero_init_from_memory(mem) == [kind |-> "zero", mem |-> mem, n |-> HeaderOf(mem).records, level |-> 0]
zero_get_record_append(st, i) == <<>>
zero_fspread_record_append(st, file, base, i) == <<>>
zero_reorder_zip_data(st, newToOld) == zero_save_mmap(st.n)

\* SimpleZipBlobStore::build_from: a record is cut into pieces of MinFrag..MaxFrag bytes, each ending before a
\* delimiter; equal pieces are stored once (compress_strpool is external).  The store is not written and loaded:
\* init_from_memory and reorder_zip_data throw.
MinFrag == 1
MaxFrag == 2
Delim == <<"sym", 2>>
Lowest(S) == CHOOSE x \in S : \A y \in S : x <= y
FragEnd(rec, p) ==
    LET t == Lowest({p + MaxFrag, Len(rec)})
        q == Lowest({p + MinFrag, Len(rec)})
    IN  Lowest({t} \cup {k \in q..t : k < t /\ rec[k + 1] = Delim})
Fragments(rec) ==
    LET cut[p \in 0..Len(rec)] == IF p = Len(rec) THEN <<>> ELSE <<SubSeq(rec, p + 1, FragEnd(rec, p))>> \o cut[FragEnd(rec, p)]
    IN  cut[0]
simple_build_from(all) ==
    LET frags == Concat([i \in 1..Len(all) |-> Fragments(all[i])])
        kept == SelectSeq([i \in 1..Len(frags) |-> i], LAMBDA i : \A j \in 1..(i - 1) : frags[j] # frags[i])
        pool == [k \in 1..Len(kept) |-> frags[kept[k]]]
        starts == Starts(Lens(pool))
        maxLen == IF frags = <<>> THEN 0 ELSE CHOOSE n \in {Len(frags[i]) : i \in 1..Len(frags)} : \A i \in 1..Len(frags) : Len(frags[i]) <= n
        lenBits == compute_uintbits(maxLen)
        offset(f) == starts[CHOOSE k \in 1..Len(pool) : pool[k] = f]
    IN  [kind |-> "simple", n |-> Len(all), mem |-> Concat(pool), level |-> 0, lenBits |-> lenBits,
         off_len |-> [i \in 1..Len(frags) |-> offset(frags[i]) * 2 ^ lenBits + Len(frags[i])],
         records |-> Starts([i \in 1..Len(all) |-> Len(Fragments(all[i]))])]
simple_get_record_append(st, i) ==
    Concat([k \in 1..(st.records[i + 2] - st.records[i + 1]) |->
               LET ol == st.off_len[st.records[i + 1] + k] IN Slice(st.mem, ol \div 2 ^ st.lenBits, ol % 2 ^ st.lenBits)])

---------------------------------------------------------------------------
(* ZReorderMap: the new order as runs of ids that go up, or down, by one. *)

\* Builder::push_back and finish: 2 v + 1 is the single value v, <<2 v, n>> a run of n from v.
RunEntry(base, n) == IF n > 1 THEN <<2 * base, n>> ELSE IF n = 1 THEN <<2 * base + 1>> ELSE <<>>
reorder_push_back(b, value, sign) ==
    IF value = b.base + b.len * sign THEN [b EXCEPT !.len = @ + 1]
    ELSE [out |-> b.out \o RunEntry(b.base, b.len), base |-> value, len |-> 1]
ReorderFile(order, sign) ==
    LET f[i \in 0..Len(order)] == IF i = 0 THEN [out |-> <<>>, base |-> -1, len |-> 0] ELSE reorder_push_back(f[i - 1], order[i], sign)
        b == f[Len(order)]
    IN  b.out \o RunEntry(b.base, b.len)
\* read_, operator* and operator++: the value and what is left of its run after each step.
reorder_read(out, pos) ==
    IF out[pos] % 2 = 1 THEN [value |-> out[pos] \div 2, len |-> 1, pos |-> pos + 1]
    ELSE [value |-> out[pos] \div 2, len |-> out[pos + 1], pos |-> pos + 2]
ReorderValues(out, n, sign) ==
    LET f[i \in 1..n] == IF i = 1 THEN reorder_read(out, 1)
                         ELSE LET r == f[i - 1] IN
                              IF r.len = 1 THEN reorder_read(out, r.pos) ELSE [r EXCEPT !.value = @ + sign, !.len = @ - 1]
    IN  Concat([i \in 1..n |-> <<f[i].value>>])

---------------------------------------------------------------------------
(* The stores behind AbstractBlobStore. *)

NewBuilder == [content |-> <<>>, offsets |-> <<>>, fixed |-> <<>>, isFixed |-> <<>>]

add_record(b, rec, u) == CASE u.kind = "plain" -> plain_add_record(b, rec, u) [] u.kind = "mixed" -> mixed_add_record(b, rec, u)
                           [] u.kind = "zip" -> zip_add_record(b, rec, u) [] u.kind = "entropy" -> entropy_add_record(b, rec, u)
                           [] u.kind = "zero" -> [b EXCEPT !.offsets = Append(@, 0)] [] OTHER -> [b EXCEPT !.content = Append(@, rec)]

\* The sizes MyBuilder is told: those of the records, with their checksums.
Declared(b) == Len(b.content)

finish(b, u, declared) == CASE u.kind = "plain" -> plain_finish(b, u, declared) [] u.kind = "mixed" -> mixed_finish(b, u, declared)
                            [] u.kind = "zip" -> zip_finish(b, u) [] u.kind = "entropy" -> entropy_finish(b, u)
                            [] OTHER -> zero_save_mmap(Len(b.offsets))

RelaxedSizeCheck(header, size) == AlignUp(header, SizeT) = AlignUp(size, SizeT) /\ header <= size

init_from_memory(mem) ==
    LET c == HeaderOf(mem).class IN
    IF HashWrong(mem) THEN [kind |-> "thrown"]
    ELSE CASE c = "plain" -> plain_init_from_memory(mem) [] c = "mixed" -> mixed_init_from_memory(mem)
           [] c = "zip" -> zip_init_from_memory(mem) [] c = "entropy" -> entropy_init_from_memory(mem)
           [] OTHER -> zero_init_from_memory(mem)

load_from_user_memory(mem) ==
    IF ~RelaxedSizeCheck(HeaderOf(mem).fileSize, Len(mem)) THEN [kind |-> "thrown"] ELSE init_from_memory(mem)

get_record_append(st, i) ==
    CASE st.kind = "plain" -> plain_get_record_append(st, i) [] st.kind = "mixed" -> mixed_get_record_append(st, i)
      [] st.kind = "zip" -> zip_get_record_append(st, i) [] st.kind = "entropy" -> entropy_get_record_append(st, i)
      [] st.kind = "simple" -> simple_get_record_append(st, i) [] OTHER -> zero_get_record_append(st, i)

\* is_offsets_zipped: the stores with a cache of offsets.
OffsetsZipped(st) == st.kind \in {"zip", "entropy"}
get_record_append_CacheOffsets(st, co, i) ==
    CASE st.kind = "zip" -> zip_get_record_append_CacheOffsets(st, co, i)
      [] st.kind = "entropy" -> entropy_get_record_append_CacheOffsets(st, co, i) [] OTHER -> get_record_append(st, i)

fspread_record_append(st, file, base, i) ==
    CASE st.kind = "plain" -> plain_fspread_record_append(st, file, base, i)
      [] st.kind = "mixed" -> mixed_fspread_record_append(st, file, base, i)
      [] st.kind = "zip" -> zip_fspread_record_append(st, file, base, i)
      [] st.kind = "entropy" -> entropy_fspread_record_append(st, file, base, i)
      [] st.kind = "simple" -> simple_get_record_append(st, i) [] OTHER -> zero_fspread_record_append(st, file, base, i)

save_mmap(st) == CASE st.kind = "plain" -> plain_save_mmap(st) [] st.kind = "mixed" -> mixed_save_mmap(st)
                   [] st.kind = "zip" -> zip_save_mmap(st) [] st.kind = "entropy" -> entropy_save_mmap(st)
                   [] OTHER -> zero_save_mmap(st.n)

reorder_zip_data(st, newToOld) ==
    CASE st.kind = "plain" -> plain_reorder_zip_data(st, newToOld) [] st.kind = "mixed" -> mixed_reorder_zip_data(st, newToOld)
      [] st.kind = "zip" -> zip_reorder_zip_data(st, newToOld) [] st.kind = "entropy" -> entropy_reorder_zip_data(st, newToOld)
      [] OTHER -> zero_reorder_zip_data(st, newToOld)

\* Bytewise order of records.
Precedes(a, b) ==
    \E k \in 0..Len(a) : /\ k < Len(b) /\ \A j \in 1..k : a[j] = b[j]
                         /\ k = Len(a) \/ a[k + 1][2] < b[k + 1][2]

\* BlobStore::lower_bound: the place, and the record left in the caller's buffer.
lower_bound_LastRead(st, lo, hi, target) ==
    LET search[a \in 0..hi, b \in 0..hi, last \in 0..hi] ==
            IF a >= b THEN <<a, last>>
            ELSE LET mid == (a + b) \div 2 IN
                 IF Precedes(get_record_append(st, mid), target) THEN search[mid + 1, b, mid] ELSE search[a, mid, mid]
        found(r) == [id |-> r[1], rec |-> IF r[2] # hi THEN get_record_append(st, r[2]) ELSE <<>>]
    IN  found(search[lo, hi, hi])
lower_bound(st, lo, hi, target) ==
    LET search[a \in 0..hi, b \in 0..hi, last \in 0..hi] ==
            IF a >= b THEN <<a, last>>
            ELSE LET mid == (a + b) \div 2 IN
                 IF Precedes(get_record_append(st, mid), target) THEN search[mid + 1, b, mid] ELSE search[a, mid, mid]
        last(r) == IF r[1] # hi THEN r[1] ELSE r[2]
        found(r) == [id |-> r[1], rec |-> IF last(r) # hi THEN get_record_append(st, last(r)) ELSE <<>>]
    IN  found(search[lo, hi, hi])

---------------------------------------------------------------------------
(* The life of a store. *)

NoStore == [kind |-> "none"]
NoCache == [block |-> -1, offsets |-> <<>>]

StoresInit ==
    /\ use \in StoreUses /\ todo \in Inputs /\ from \in Bases
    /\ (use.kind = "zero" => \A i \in 1..Len(todo) : todo[i] = <<>>)
    /\ (use.kind = "mixed" => from = 0 \/ use.level = 3)
    /\ phase = "add" /\ recs = <<>> /\ builder = NewBuilder /\ disk = <<>>
    /\ store = NoStore /\ cached = NoCache /\ broken = FALSE

StoresIdle ==
    /\ use = [kind |-> "none"] /\ todo = <<>> /\ from = 0 /\ phase = "idle" /\ recs = <<>> /\ builder = NewBuilder /\ disk = <<>>
    /\ store = NoStore /\ cached = NoCache /\ broken = FALSE

AddRecord ==
    /\ phase = "add" /\ todo # <<>>
    /\ builder' = add_record(builder, Head(todo), use)
    /\ recs' = Append(recs, Head(todo)) /\ todo' = Tail(todo)
    /\ UNCHANGED <<use, phase, disk, from, store, cached, broken>>

Finish ==
    /\ phase = "add" /\ todo = <<>> /\ use.kind # "simple"
    /\ disk' = Zeros(from) \o finish(builder, use, Declared(builder))
    /\ phase' = "file" /\ builder' = NewBuilder
    /\ UNCHANGED <<use, recs, todo, from, store, cached, broken>>

BuildSimple ==
    /\ phase = "add" /\ todo = <<>> /\ use.kind = "simple"
    /\ store' = simple_build_from(builder.content)
    /\ phase' = "loaded" /\ builder' = NewBuilder
    /\ UNCHANGED <<use, recs, todo, disk, from, cached, broken>>

Load ==
    /\ phase = "file"
    /\ store' = load_from_user_memory(SubSeq(disk, from + 1, Len(disk)))
    /\ phase' = "loaded"
    /\ UNCHANGED <<use, recs, todo, builder, disk, from, cached, broken>>

\* A record read through the cache of offsets; a reader keeps its cache from one read to the next.
ReadCached(i) ==
    /\ phase = "loaded" /\ store.kind # "thrown" /\ OffsetsZipped(store) /\ i < store.n
    /\ cached' = LoadBlock(store, cached, i)
    /\ UNCHANGED <<use, phase, recs, todo, builder, disk, from, store, broken>>

\* The store is written again, to a file of its own; the caches of the old store's readers go with it.
Save ==
    /\ phase = "loaded" /\ store.kind \notin {"thrown", "simple"} /\ ~broken
    /\ disk' = save_mmap(store) /\ from' = 0 /\ phase' = "file" /\ store' = NoStore /\ cached' = NoCache
    /\ UNCHANGED <<use, recs, todo, builder, broken>>

Orders(n) == {[i \in 1..n |-> i - 1], [i \in 1..n |-> n - i], [i \in 1..n |-> (i * 2) % n],
              [i \in 1..n |-> IF i = n THEN 0 ELSE i]} 
IsOrder(o) == \A i, j \in DOMAIN o : o[i] = o[j] => i = j

Reorder ==
    /\ phase = "loaded" /\ store.kind \notin {"thrown", "simple"} /\ ~broken /\ store.n > 0
    /\ \E order \in {o \in Orders(store.n) : IsOrder(o)}, sign \in {1, -1} :
          LET newToOld == ReorderValues(ReorderFile(order, sign), store.n, sign) IN
          /\ disk' = reorder_zip_data(store, newToOld)
          /\ recs' = [i \in 1..Len(recs) |-> recs[order[i] + 1]]
    /\ from' = 0 /\ phase' = "file" /\ store' = NoStore /\ cached' = NoCache
    /\ UNCHANGED <<use, todo, builder, broken>>

\* The meta data move to memory of the caller.
Detach ==
    /\ phase = "loaded" /\ store.kind = "mixed" /\ store.meta = store.mem
    /\ store' = mixed_detach_meta_blocks(store, mixed_get_meta_blocks(store))
    /\ UNCHANGED <<use, phase, recs, todo, builder, disk, from, cached, broken>>
DetachPlain ==
    /\ phase = "loaded" /\ store.kind = "plain" /\ store.meta = store.mem
    /\ store' = plain_detach_meta_blocks(store, plain_get_meta_blocks(store))
    /\ UNCHANGED <<use, phase, recs, todo, builder, disk, from, cached, broken>>

\* Fault: one byte of the file is not what was written, where the level promises to notice: anywhere behind the
\* header at level 3, in the records at level 2.
Fault ==
    /\ phase = "file" /\ ~broken
    /\ LET h == HeaderOf(SubSeq(disk, from + 1, Len(disk)))
           last == IF h.level = 3 THEN h.fileSize - FooterLen
                   ELSE IF h.level # 2 THEN 0
                   ELSE HeaderLen + CASE h.class \in {"plain", "zip"} -> h.contentBytes
                                      [] h.class = "entropy" -> h.contentBits \div UnitBits
                                      [] OTHER -> IF h.fixedNum > 0 THEN h.fixedNum * h.fixedLen ELSE h.varLenBytes
       IN  \E p \in (HeaderLen + 1)..last :
              disk' = [disk EXCEPT ![from + p] = <<"none", 0>>]
    /\ broken' = TRUE
    /\ UNCHANGED <<use, phase, recs, todo, builder, from, store, cached>>

StoresNext == AddRecord \/ Finish \/ BuildSimple \/ Load \/ (\E i \in 0..Len(recs) : ReadCached(i)) \/ Save \/ Reorder \/ Detach \/ Fault
StoresSpec == StoresInit /\ [][StoresNext]_storeVars
\* With the plain store's detach_meta_blocks.
StoresDetachSpec == StoresInit /\ [][StoresNext \/ DetachPlain]_storeVars

\* The ways to read record i.
Reads(i) == {get_record_append(store, i), get_record_append_CacheOffsets(store, LoadBlock(store, cached, i), i)}
            \cup (IF disk = <<>> THEN {} ELSE {fspread_record_append(store, disk, from, i)})

(* Every store gives back the records it was built from, in their order, whichever function reads them
   (get_record_append, with the cache of offsets, from the file), after saving, reordering and detaching;
   with a byte changed, level 3 refuses the file and level 2 the records that are touched. *)
StoresRight ==
    phase = "loaded" =>
        /\ ~broken => store.kind # "thrown" /\ store.n = Len(recs)
        /\ broken => store.kind = "thrown" \/ store.level # 3
        /\ store.kind # "thrown" =>
              \A i \in 0..(Len(recs) - 1) : \A r \in Reads(i) : r = recs[i + 1] \/ (broken /\ r = Thrown)

Ascending == \A i \in 1..(Len(recs) - 1) : ~Precedes(recs[i + 1], recs[i])
\* BlobStore::lower_bound finds the first record that is not less, and leaves it in the caller's buffer.
StoreBoundRight ==
    phase = "loaded" /\ ~broken /\ store.kind # "thrown" /\ Ascending =>
        \A lo, hi \in 0..Len(recs) : lo <= hi => \A t \in {recs[i] : i \in 1..Len(recs)} \cup {<<>>} :
            \E r \in {lower_bound(store, lo, hi, t)} :
                /\ r.id = Lowest({hi} \cup {i \in lo..(hi - 1) : ~Precedes(recs[i + 1], t)})
                /\ r.id # hi => r.rec = recs[r.id + 1]
=============================================================================
