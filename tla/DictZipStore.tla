---------------------------- MODULE DictZipStore ----------------------------
(***************************************************************************)
(* DictZipBlobStore around its codec: the builder with one thread or a     *)
(* pipeline, the second pass that codes the compressed records in place,   *)
(* the file with its checksums and its dictionary, and the loaded store    *)
(* that is read, saved, reordered, purged and whose meta data move.        *)
(*                                                                         *)
(* Files are the cells of BlobStores.  What the codec (DictZipCodec) makes *)
(* of a record are the cells <<"z", record, dictionary, k>>, what the      *)
(* entropy coder makes of these are <<"e", cells, k>>.  The dictionary's   *)
(* cells are <<"d", name, k>>, compressed <<"dz", dictionary, k>>.         *)
(***************************************************************************)
EXTENDS BlobStores

CONSTANTS
    RecordsPerBatch,   \* m_opt.recordsPerBatch, the capacity of a task
    BytesPerBatch,     \* m_opt.bytesPerBatch
    LakeCap,           \* capacity of m_lake (the pipeline's queue size)
    LakeBytes,         \* lake_MAX_BYTES
    DictInputs,        \* the sequences of records
    DictUses,          \* the options, see DictInit
    DictLens,          \* a function: name of a dictionary -> its size
    MaxDictOps         \* bound: operations on the loaded store

ASSUME DictAssumption == {RecordsPerBatch, BytesPerBatch, LakeCap, LakeBytes} \subseteq Nat \ {0} /\ MaxDictOps \in Nat

VARIABLES
    dzUse,     \* options: [multi, lake, perm, level, algo, raw, embed, zipped, mem, dict]
    dzPhase,   \* "zip", "drain", "entropy", "drainEntropy", "file", "loaded"
    dzRecs,    \* the records the store should give
    zb,        \* the builder
    dzDisk, dzDictFile, dzStore,
    dzBroken,  \* whether a byte of the file was changed
    dzOps      \* operations done on the store
dictVars == <<dzUse, dzPhase, dzRecs, zb, dzDisk, dzDictFile, dzStore, dzBroken, dzOps>>

---------------------------------------------------------------------------
(* What other modules model, by what it promises: the codec (DictZipCodec), the    *)
(* entropy coders (Huffman, EntropyCoders); and zstd, which is external.           *)

DictMem(name) == [k \in 1..DictLens[name] |-> <<"d", name, k>>]
Zipped(rec, name) == [k \in 1..(Len(rec) + 1) |-> <<"z", rec, name, k>>]
m_unzip(data, dict) ==
    IF data = <<>> THEN <<>>
    ELSE IF data[1][1] = "z" /\ data = Zipped(data[1][2], data[1][3]) /\ dict = DictMem(data[1][3]) THEN data[1][2] ELSE Thrown
\* A record with symbol 1 is coded in half its size, another one grows.
Shrinks(data) == data[1][1] = "z" /\ \E i \in 1..Len(data[1][2]) : data[1][2][i] = <<"sym", 1>>
Coded(data) == [k \in 1..(IF Shrinks(data) THEN Len(data) \div 2 + 1 ELSE Len(data) + 1) |-> <<"e", data, k>>]
Decoded(data) == IF Len(data) > 0 /\ data[1][1] = "e" /\ data = Coded(data[1][2]) THEN data[1][2] ELSE Thrown
CoderTable(algo, raw) == [k \in 1..(IF raw THEN 6 ELSE 3) |-> <<"dtab", algo, raw, k>>]
DictZstd(dict) == [k \in 1..(IF dict[1][2] = "dense" THEN Len(dict) + 1 ELSE Len(dict) \div 2 + 1) |-> <<"dz", dict, k>>]

---------------------------------------------------------------------------
(* The builder. *)

WithCrc32(data, level) == IF level = 2 THEN data \o Crc(data, "crc32") ELSE data
zipRecord(rec, u) == IF rec = <<>> THEN <<>> ELSE WithCrc32(Zipped(rec, u.dict), u.level)

\* What is coded, and whether it is; a record that does not get smaller stays as it is.
CrcOk(data) ==
    LET n == Len(data) - CrcLen("crc32") IN n > 0 /\ SubSeq(data, n + 1, Len(data)) = Crc(SubSeq(data, 1, n), "crc32")
Body(data, level) == IF level = 2 THEN SubSeq(data, 1, Len(data) - CrcLen("crc32")) ELSE data
entropyZip_Always(data, u) ==
    IF data = <<>> THEN <<<<>>, FALSE>>
    ELSE IF u.level = 2 /\ ~CrcOk(data) THEN <<Thrown, FALSE>>
    ELSE <<WithCrc32(Coded(Body(data, u.level)), u.level), TRUE>>
entropyZip(data, u) ==
    LET body == Body(data, u.level) IN
    IF data = <<>> THEN <<<<>>, FALSE>>
    ELSE IF u.level = 2 /\ ~CrcOk(data) THEN <<Thrown, FALSE>>
    ELSE IF (u.algo = "fse" => Len(body) > 2) /\ Len(Coded(body)) < Len(body) THEN <<WithCrc32(Coded(body), u.level), TRUE>>
    ELSE <<data, FALSE>>

\* A task: the records, or with inputIsPerm in the second pass where they are; what the zip stage makes of them.
NewTask == [recs |-> <<>>, bytes |-> 0, done |-> FALSE, out |-> <<>>]
NoTask == [recs |-> <<>>, bytes |-> -1, done |-> FALSE, out |-> <<>>]
NewZip(items) == [todo |-> items, task |-> NoTask, lake |-> <<>>, queue |-> <<>>, input |-> 0,
                 mem |-> <<>>, size |-> 0, lens |-> <<>>, bits |-> <<>>]

SecondPass == dzPhase \in {"entropy", "drainEntropy"}
\* The bytes of an item: a record, or a place in the memory that the second pass reads and overwrites.
Item(b, x) == IF x[1] = "at" THEN SubSeq(b.mem, x[2] + 1, x[2] + x[3]) ELSE x[2]
ItemLen(x) == IF x[1] = "at" THEN x[3] ELSE Len(x[2])
ZipItem(b, x, u, second) == IF second THEN entropyZip(Item(b, x), u) ELSE <<zipRecord(Item(b, x), u), FALSE>>

\* memcpy to m_entropyZipDataBase + m_zipDataSize, or ensureWrite behind what is written.
WriteAt(mem, p, data) == SubSeq(mem, 1, p) \o data \o SubSeq(mem, p + Len(data) + 1, Len(mem))
WriteZipped(b, outs) ==
    LET data == Concat([i \in 1..Len(outs) |-> outs[i][1]]) IN
    [b EXCEPT !.mem = WriteAt(@, b.size, data), !.size = @ + Len(data),
              !.lens = @ \o [i \in 1..Len(outs) |-> Len(outs[i][1])], !.bits = @ \o [i \in 1..Len(outs) |-> outs[i][2]]]

\* SingleThread::addRecord
AddSingle(b, x, u, second) == WriteZipped([b EXCEPT !.input = @ + 1], <<ZipItem(b, x, u, second)>>)

drainLake(b) == [b EXCEPT !.queue = @ \o b.lake, !.lake = <<>>]
\* ibuf.unused(): the buffer grows for a first record that does not fit; records that are not copied (inputIsPerm)
\* can pass its capacity, and the difference wraps.
LargerCapacity == (BytesPerBatch * 103) \div 64
Unused(t, u) ==
    LET first == ItemLen(t.recs[1])
        cap   == IF u.perm \/ first <= BytesPerBatch THEN BytesPerBatch ELSE IF first > LargerCapacity THEN first ELSE LargerCapacity
    IN  IF t.bytes > cap THEN 2 ^ 30 ELSE cap - t.bytes
\* getTask: the current task, or a new one when it is full; a full lake, by tasks or by bytes, goes to the pipeline.
LakeFull(b) == \/ Len(b.lake) = LakeCap
               \/ Starts([i \in 1..Len(b.lake) |-> b.lake[i].bytes])[Len(b.lake) + 1] >= LakeBytes
getTask(b, n, u) ==
    IF b.task = NoTask THEN [b EXCEPT !.task = NewTask]
    ELSE IF Len(b.task.recs) = RecordsPerBatch \/ Unused(b.task, u) < n
         THEN IF u.lake THEN LET d == IF LakeFull(b) THEN drainLake(b) ELSE b
                             IN  [d EXCEPT !.lake = Append(@, b.task), !.task = NewTask]
              ELSE [b EXCEPT !.queue = Append(@, b.task), !.task = NewTask]
    ELSE b
\* MultiThread::addRecord: the bytes are copied, unless the caller keeps them (inputIsPerm).
AddMulti(b, x, u) ==
    LET t == getTask(b, ItemLen(x), u)
        item == IF u.perm THEN x ELSE <<"rec", Item(b, x)>>
    IN  [t EXCEPT !.task.recs = Append(@, item), !.task.bytes = @ + ItemLen(x), !.input = @ + 1]
\* finishZip, before it waits.
SubmitRest(b, u) ==
    LET last == IF b.task # NoTask /\ b.task.recs # <<>> THEN <<b.task>> ELSE <<>>
    IN  [b EXCEPT !.queue = @ \o b.lake \o last, !.lake = <<>>, !.task = NoTask]

ZipTask(b, t, u, second) == [t EXCEPT !.done = TRUE, !.out = [i \in 1..Len(t.recs) |-> ZipItem(b, t.recs[i], u, second)]]

---------------------------------------------------------------------------
(* The file. *)

BitmapBytes(n) == AlignUp(n, Align * UnitBits) \div UnitBits
Bitmap(bits) ==
    LET p == Packed([i \in 1..Len(bits) |-> IF bits[i] THEN 1 ELSE 0], 1) IN p \o Zeros(BitmapBytes(Len(bits)) - Len(p))
OffsetMem(starts, zipped, max) == IF zipped THEN SortedVec(starts) ELSE uint_builder(starts, compute_uintbits(max))

computeFileSize(h) ==
    HeaderLen + h.ptrListBytes + (IF h.zipOffsets THEN h.offsetArrayBytes ELSE compute_mem_size(h.offsetsUintBits, h.records + 1))
    + (IF h.algo = "none" THEN 0 ELSE BitmapBytes(h.records)) + AlignUp(h.entropyTableSize, Align) + FooterLen
\* FileHeader's constructors and patchCRC; a checksum is what it is computed from.
DictHeader(n, size, offs, zipped, max, level, algo, raw, bitmap, table, dict) ==
    LET h == [class |-> "dict", fileSize |-> 0, records |-> n, ptrListBytes |-> AlignUp(size, Align), offsetArrayBytes |-> Len(offs),
              offsetsUintBits |-> compute_uintbits(max), zipOffsets |-> zipped, embeddedDict |-> "external", embeddedDictAligned |-> 0,
              entropyTableSize |-> Len(table), level |-> level, algo |-> algo, entropyTableNoCompress |-> raw,
              entropyTableCRC |-> bitmap \o table, globalDictSize |-> Len(dict), dictXXHash |-> dict, offsetsCRC |-> offs]
    IN  [h EXCEPT !.fileSize = computeFileSize(h)]
setEmbeddedDictType(h, dictSize, type) ==
    [h EXCEPT !.fileSize = @ + AlignUp(dictSize, Align), !.embeddedDict = type,
              !.embeddedDictAligned = AlignUp(dictSize, Align) - dictSize]
NoFoot == Zeros(FooterLen)
DataFoot(data) == <<<<"hash", data>>>> \o Zeros(FooterLen - 1)
Padded16(bytes) == bytes \o PadzeroForAlign(Len(bytes))

\* finish, without the second pass: at level 3 the whole file's checksum is left to the second pass, if there may be one.
FinishPlain(b, u) ==
    LET starts == Starts(b.lens)
        offs == OffsetMem(starts, u.zipped, b.size)
        level == IF u.level <= 2 \/ u.algo = "none" THEN u.level ELSE 1
        data == Padded16(SubSeq(b.mem, 1, b.size))
    IN  HeaderBytes(DictHeader(Len(b.lens), b.size, offs, u.zipped, b.size, level, "none", FALSE, <<>>, <<>>, DictMem(u.dict)))
        \o data \o offs \o (IF u.algo = "none" /\ u.level >= 3 THEN DataFoot(data) ELSE NoFoot)

\* entropyStore, behind the second pass.
FinishEntropy(b, u) ==
    LET starts == Starts(b.lens)
        offs == OffsetMem(starts, u.zipped, b.size)
        data == Padded16(SubSeq(b.mem, 1, b.size))
        bitmap == Bitmap(b.bits)
        table == CoderTable(u.algo, u.raw)
    IN  HeaderBytes(DictHeader(Len(b.lens), b.size, offs, u.zipped, b.size, u.level, u.algo, u.raw, bitmap, table, DictMem(u.dict)))
        \o data \o offs \o bitmap \o Padded16(table) \o DataFoot(data)

\* WriteDict: compressed, when it fits where the dictionary does.
WriteDict(dict, compress) ==
    IF compress /\ Len(DictZstd(dict)) <= Len(dict) THEN <<"zstd", DictZstd(dict)>> ELSE <<"raw", dict>>
SetHeader(file, h) == HeaderBytes(h) \o SubSeq(file, HeaderLen + 1, Len(file))
\* EmbedDict in a file: the dictionary where the footer was, the footer behind it.
EmbedDictFile(file, dict, compress) ==
    LET h == HeaderOf(file)
        w == WriteDict(dict, compress)
        foot == SubSeq(file, h.fileSize - FooterLen + 1, h.fileSize)
    IN  SetHeader(SubSeq(file, 1, h.fileSize - FooterLen) \o Padded16(w[2]) \o foot,
                  setEmbeddedDictType(h, Len(w[2]), w[1]))
\* EmbedDict in memory: the stream is made larger by the dictionary's size, and cut or grown when the size is known.
\* Where it grows the footer is written through the pointer to the memory it had before.
EmbedDictMem(file, dict, compress) ==
    LET h == HeaderOf(file)
        w == WriteDict(dict, compress)
        foot == SubSeq(file, h.fileSize - FooterLen + 1, h.fileSize)
        grows == AlignUp(Len(w[2]), Align) > Len(dict)
    IN  SetHeader(SubSeq(file, 1, h.fileSize - FooterLen) \o Padded16(w[2]) \o (IF grows THEN NoFoot ELSE foot),
                  setEmbeddedDictType(h, Len(w[2]), w[1]))
EmbedDict(file, u) ==
    IF ~u.embed THEN file
    ELSE IF u.mem THEN EmbedDictMem(file, DictMem(u.dict), ~u.raw) ELSE EmbedDictFile(file, DictMem(u.dict), ~u.raw)

---------------------------------------------------------------------------
(* The loaded store. *)

getEmbeddedDict(mem, h) ==
    LET aligned == h.fileSize - computeFileSize(h)
    IN  Slice(mem, h.fileSize - aligned - FooterLen, aligned - h.embeddedDictAligned)
ZstdDict(bytes) == IF bytes # <<>> /\ bytes[1][1] = "dz" /\ bytes = DictZstd(bytes[1][2]) THEN bytes[1][2] ELSE <<>>
ReadDict(mem, h, file) ==
    IF h.embeddedDict = "external"
    THEN LET d == ZstdDict(file) IN IF d # <<>> /\ Len(d) = h.globalDictSize /\ d = h.dictXXHash THEN d ELSE file
    ELSE IF h.embeddedDict = "raw" THEN getEmbeddedDict(mem, h) ELSE ZstdDict(getEmbeddedDict(mem, h))

DictThrown == [kind |-> "thrown"]
setDataMemory(mem, h, dict) ==
    LET offsAt == HeaderLen + h.ptrListBytes
        bitsAt == offsAt + h.offsetArrayBytes
        tableAt == bitsAt + BitmapBytes(h.records)
        coded == h.algo # "none"
        table == IF coded THEN Slice(mem, tableAt, h.entropyTableSize) ELSE <<>>
    IN  IF \/ h.embeddedDict = "external" /\ computeFileSize(h) # Len(mem)
           \/ h.zipOffsets /\ Len(SortedVals(mem, offsAt, h.offsetArrayBytes)) # h.records + 1
           \/ ~h.zipOffsets /\ compute_mem_size(h.offsetsUintBits, h.records + 1) # h.offsetArrayBytes
           \/ coded /\ h.level >= 1 /\ Slice(mem, bitsAt, BitmapBytes(h.records)) \o table # h.entropyTableCRC
           \/ h.level >= 3 /\ CellAt(mem, h.fileSize - FooterLen) # <<"hash", Slice(mem, HeaderLen, h.ptrListBytes)>>
        THEN DictThrown
        ELSE [kind |-> "dict", mem |-> mem, dict |-> dict, n |-> h.records, level |-> h.level, algo |-> h.algo,
              meta |-> mem, offsAt |-> offsAt, bits |-> h.offsetsUintBits, zipped |-> h.zipOffsets, bitsAt |-> bitsAt, tableAt |-> tableAt,
              decodes |-> coded /\ table = CoderTable(h.algo, h.entropyTableNoCompress), detached |-> FALSE]
\* init_from_memory: the dictionary's size and, because only then it is known, its hash.
dict_init_from_memory(mem, file) ==
    LET h == HeaderOf(mem)
        dict == ReadDict(mem, h, file)
    IN  IF Len(dict) # h.globalDictSize \/ dict # h.dictXXHash THEN DictThrown ELSE setDataMemory(mem, h, dict)

\* offsetGet2
offsetGet2(st, i) ==
    IF st.zipped THEN LET v == SortedVals(st.meta, st.offsAt, Len(SortedVec(CellAt(st.meta, st.offsAt)[2]))) IN <<v[i + 1], v[i + 2]>>
    ELSE <<fast_get(st.meta, st.offsAt, st.bits, i), fast_get(st.meta, st.offsAt, st.bits, i + 1)>>
ZipOffsetsOf(st) == CellAt(st.meta, st.offsAt)[2]

read_record_append_entropy(st, data, i) ==
    IF fast_get(st.mem, st.bitsAt, 1, i) = 1
    THEN IF st.decodes /\ Decoded(data) # Thrown THEN m_unzip(Decoded(data), st.dict) ELSE Thrown
    ELSE m_unzip(data, st.dict)
\* read_record_append_tpl and its copy for the cache of offsets; file and base say where readRaw reads.
read_record_append(st, i, range, file, base) ==
    LET data == Slice(file, base + HeaderLen + range[1], range[2] - range[1]) IN
    IF data = <<>> THEN <<>>
    ELSE IF st.level = 2 /\ ~CrcOk(data) THEN Thrown
    ELSE IF st.algo = "none" THEN m_unzip(Body(data, st.level), st.dict)
    ELSE read_record_append_entropy(st, Body(data, st.level), i)

CachedRange(st, i) ==
    LET co == LoadBlock([offsets |-> ZipOffsetsOf(st)], NoCache, i) IN <<co.offsets[(i % BlockLen) + 1], co.offsets[(i % BlockLen) + 2]>>

\* get_meta_blocks and detach_meta_blocks: dictionary and offsets, checked because they were not before.
dict_detach_meta_blocks(st) ==
    LET h == HeaderOf(st.mem)
        block == Slice(st.meta, st.offsAt, h.offsetArrayBytes)
    IN  IF block # h.offsetsCRC \/ st.dict # h.dictXXHash THEN DictThrown
        ELSE [st EXCEPT !.meta = block, !.offsAt = 0, !.detached = TRUE]

\* The entropy table as the rewriting functions look for it: behind the offsets, wherever these are now.
TableBehindOffsets(st, n) ==
    LET h == HeaderOf(st.mem) IN
    Slice(st.meta, st.offsAt + h.offsetArrayBytes + BitmapBytes(n), AlignUp(h.entropyTableSize, Align))
Piece(st, i) == LET r == offsetGet2(st, i) IN Slice(st.mem, HeaderLen + r[1], r[2] - r[1])
WithDict(h, st) ==
    LET old == HeaderOf(st.mem) IN
    IF old.embeddedDict = "external" THEN h ELSE setEmbeddedDictType(h, Len(getEmbeddedDict(st.mem, old)), old.embeddedDict)
OldMax(st) == IF st.n = 0 THEN 0 ELSE offsetGet2(st, st.n - 1)[2]
NewBits(st, ids) == IF st.algo = "none" THEN <<>> ELSE Concat([i \in 1..Len(ids) |-> <<fast_get(st.mem, st.bitsAt, 1, ids[i]) = 1>>])

dict_reorder_zip_data(st, newToOld) ==
    LET old == HeaderOf(st.mem)
        pieces == Concat([i \in 1..st.n |-> <<Piece(st, newToOld[i])>>])
        starts == Starts(Lens(pieces))
        offs == OffsetMem(starts, st.zipped, OldMax(st))
        bitmap == IF st.algo = "none" THEN <<>> ELSE Bitmap(NewBits(st, newToOld))
        table == IF st.algo = "none" THEN <<>> ELSE TableBehindOffsets(st, st.n)
        h == DictHeader(st.n, starts[st.n + 1], offs, st.zipped, OldMax(st), st.level, st.algo, old.entropyTableNoCompress, bitmap,
                        SubSeq(table, 1, old.entropyTableSize), st.dict)
        data == Padded16(Concat(pieces))
        dict == IF old.embeddedDict = "external" THEN <<>> ELSE Padded16(getEmbeddedDict(st.mem, old))
    IN  HeaderBytes(WithDict(h, st)) \o data \o offs \o bitmap \o table \o dict \o DataFoot(data)

\* The new offsets are never a SortedUintVec; the table's form is not kept; a dictionary of whole units gets one more.
dict_purge_zip_data(st, keep) ==
    LET old == HeaderOf(st.mem)
        n == Len(keep)
        pieces == Concat([i \in 1..n |-> <<Piece(st, keep[i])>>])
        starts == Starts(Lens(pieces))
        offs == UintVec(starts, compute_uintbits(OldMax(st)))
        bitmap == IF st.algo = "none" THEN <<>> ELSE Bitmap(NewBits(st, keep))
        table == IF st.algo = "none" THEN <<>> ELSE TableBehindOffsets(st, st.n)
        h == DictHeader(n, starts[n + 1], offs, FALSE, OldMax(st), st.level, st.algo, FALSE, bitmap,
                        SubSeq(table, 1, old.entropyTableSize), st.dict)
        data == Padded16(Concat(pieces))
        embedded == getEmbeddedDict(st.mem, old)
        dict == IF old.embeddedDict = "external" THEN <<>> ELSE embedded \o Zeros(Align - (Len(embedded) % Align))
    IN  HeaderBytes(WithDict(h, st)) \o data \o offs \o bitmap \o table \o dict \o DataFoot(data)

---------------------------------------------------------------------------
(* Actions. *)

DictInit ==
    /\ dzUse \in DictUses /\ \E all \in DictInputs : zb = NewZip([i \in 1..Len(all) |-> <<"rec", all[i]>>]) /\ dzRecs = all
    /\ dzPhase = "zip" /\ dzDisk = <<>> /\ dzDictFile = <<>> /\ dzStore = NoStore /\ dzBroken = FALSE /\ dzOps = 0
DictIdle ==
    /\ dzUse = [algo |-> "none"] /\ zb = NewZip(<<>>) /\ dzRecs = <<>>
    /\ dzPhase = "idle" /\ dzDisk = <<>> /\ dzDictFile = <<>> /\ dzStore = NoStore /\ dzBroken = FALSE /\ dzOps = 0

DictAddRecord ==
    /\ dzPhase \in {"zip", "entropy"} /\ zb.todo # <<>>
    /\ LET x == Head(zb.todo)
           b == [zb EXCEPT !.todo = Tail(@)]
       IN  zb' = IF dzUse.multi THEN AddMulti(b, x, dzUse) ELSE AddSingle(b, x, dzUse, SecondPass)
    /\ UNCHANGED <<dzUse, dzPhase, dzRecs, dzDisk, dzDictFile, dzStore, dzBroken, dzOps>>

\* MyZipStage::process: the tasks in any order.
ZipStage ==
    /\ \E i \in 1..Len(zb.queue) :
          /\ ~zb.queue[i].done
          /\ zb' = [zb EXCEPT !.queue[i] = ZipTask(zb, @, dzUse, SecondPass)]
    /\ UNCHANGED <<dzUse, dzPhase, dzRecs, dzDisk, dzDictFile, dzStore, dzBroken, dzOps>>
\* MyWriteStage::process: in their order.
WriteStage ==
    /\ zb.queue # <<>> /\ Head(zb.queue).done
    /\ zb' = [WriteZipped(zb, Head(zb.queue).out) EXCEPT !.queue = Tail(@)]
    /\ UNCHANGED <<dzUse, dzPhase, dzRecs, dzDisk, dzDictFile, dzStore, dzBroken, dzOps>>

FinishZip ==
    /\ dzPhase \in {"zip", "entropy"} /\ zb.todo = <<>>
    /\ zb' = SubmitRest(zb, dzUse)
    /\ dzPhase' = IF dzPhase = "zip" THEN "drain" ELSE "drainEntropy"
    /\ UNCHANGED <<dzUse, dzRecs, dzDisk, dzDictFile, dzStore, dzBroken, dzOps>>
AllWritten == Len(zb.lens) = zb.input
ToFile(file) ==
    /\ dzDisk' = EmbedDict(file, dzUse) /\ dzPhase' = "file" /\ zb' = NewZip(<<>>)
    /\ dzDictFile' = IF dzUse.embed THEN <<>> ELSE WriteDict(DictMem(dzUse.dict), ~dzUse.raw)[2]
\* finish without entropy coding, or with one that is not worth it.
DictFinish ==
    /\ dzPhase = "drain" /\ AllWritten
    /\ ToFile(FinishPlain(zb, dzUse))
    /\ UNCHANGED <<dzUse, dzRecs, dzStore, dzBroken, dzOps>>
\* entropyStore: the compressed records are read from the memory they are written to.
EntropyStore ==
    /\ dzPhase = "drain" /\ AllWritten /\ dzUse.algo # "none"
    /\ LET starts == Starts(zb.lens) IN
       zb' = [NewZip([i \in 1..Len(zb.lens) |-> <<"at", starts[i], zb.lens[i]>>]) EXCEPT !.mem = Padded16(zb.mem)]
    /\ dzPhase' = "entropy"
    /\ UNCHANGED <<dzUse, dzRecs, dzDisk, dzDictFile, dzStore, dzBroken, dzOps>>
EntropyFinish ==
    /\ dzPhase = "drainEntropy" /\ AllWritten
    /\ ToFile(FinishEntropy(zb, dzUse))
    /\ UNCHANGED <<dzUse, dzRecs, dzStore, dzBroken, dzOps>>

DictLoad ==
    /\ dzPhase = "file"
    /\ dzStore' = dict_init_from_memory(dzDisk, dzDictFile) /\ dzPhase' = "loaded"
    /\ UNCHANGED <<dzUse, dzRecs, zb, dzDisk, dzDictFile, dzBroken, dzOps>>

Alive == dzPhase = "loaded" /\ dzStore.kind # "thrown" /\ ~dzBroken /\ dzOps < MaxDictOps
Rewritten(file) ==
    /\ dzDisk' = file /\ dzPhase' = "file" /\ dzStore' = NoStore /\ dzOps' = dzOps + 1
    /\ UNCHANGED <<dzUse, zb, dzDictFile, dzBroken>>
DictSave == Alive /\ Rewritten(SubSeq(dzStore.mem, 1, HeaderOf(dzStore.mem).fileSize)) /\ UNCHANGED dzRecs
\* With the entropy table where the code looks for it.
TableFound == dzStore.algo = "none" \/ ~dzStore.detached
ReorderStore ==
    \E order \in {o \in Orders(dzStore.n) : IsOrder(o)} :
       /\ Rewritten(dict_reorder_zip_data(dzStore, order))
       /\ dzRecs' = [i \in 1..Len(dzRecs) |-> dzRecs[order[i] + 1]]
DictReorder == Alive /\ TableFound /\ ReorderStore
PurgeStore ==
    \E del \in {{}, {0}, {i \in 0..(dzStore.n - 1) : i % 2 = 1}, 0..(dzStore.n - 1)} :
       LET keep == SelectSeq([i \in 1..dzStore.n |-> i - 1], LAMBDA i : i \notin del) IN
       /\ Rewritten(dict_purge_zip_data(dzStore, keep))
       /\ dzRecs' = [i \in 1..Len(keep) |-> dzRecs[keep[i] + 1]]
\* The dictionary does not fill whole units where the footer counts, the entropy table is compressed.
DictPurge ==
    /\ Alive /\ TableFound
    /\ LET h == HeaderOf(dzStore.mem) IN
       /\ h.embeddedDict # "external" /\ h.embeddedDictAligned = 0 => h.level < 3
       /\ h.algo # "none" => ~h.entropyTableNoCompress
    /\ PurgeStore
DictDetach ==
    /\ dzPhase = "loaded" /\ dzStore.kind # "thrown" /\ dzOps < MaxDictOps /\ ~dzStore.detached
    /\ dzStore' = dict_detach_meta_blocks(dzStore) /\ dzOps' = dzOps + 1
    /\ UNCHANGED <<dzUse, dzPhase, dzRecs, zb, dzDisk, dzDictFile, dzBroken>>

\* Fault: a byte of the compressed records changes, where the header's level promises to notice.
BreakByte(first, last) ==
    /\ dzPhase = "file" /\ ~dzBroken
    /\ \E p \in (first + 1)..last : dzDisk' = [dzDisk EXCEPT ![p] = <<"none", 0>>]
    /\ dzBroken' = TRUE
    /\ UNCHANGED <<dzUse, dzPhase, dzRecs, zb, dzDictFile, dzStore, dzOps>>
DictFault == dzDisk # <<>> /\ HeaderOf(dzDisk).level >= 2 /\ BreakByte(HeaderLen, HeaderLen + HeaderOf(dzDisk).ptrListBytes)
FaultOffsets ==
    LET h == HeaderOf(dzDisk) IN
    /\ dzDisk # <<>> /\ h.level >= 1 /\ ~h.zipOffsets
    /\ BreakByte(HeaderLen + h.ptrListBytes, HeaderLen + h.ptrListBytes + h.offsetArrayBytes)

DictSteps == \/ DictAddRecord \/ ZipStage \/ WriteStage \/ FinishZip \/ DictFinish \/ EntropyStore \/ EntropyFinish
             \/ DictLoad \/ DictSave \/ DictReorder \/ DictPurge \/ DictDetach
DictNext == DictSteps \/ DictFault
DictSpec == DictInit /\ [][DictNext]_dictVars

---------------------------------------------------------------------------
(* Properties. *)

DictReads(i) ==
    LET st == dzStore
        r == offsetGet2(st, i)
    IN  {read_record_append(st, i, r, st.mem, 0), read_record_append(st, i, r, dzDisk, 0)}
        \cup (IF st.zipped THEN {read_record_append(st, i, CachedRange(st, i), st.mem, 0)} ELSE {})

(* A store built by one thread or by the pipeline, its records entropy coded in place or not, gives back its records in
   their order after saving, reordering, purging and detaching; no task of the second pass reads bytes that an
   earlier task has overwritten; with a byte of the data changed a record is right or refused. *)
DictStoreRight ==
    /\ \A i \in 1..Len(zb.queue) : \A k \in 1..Len(zb.queue[i].out) : zb.queue[i].out[k][1] # Thrown
    /\ dzPhase = "loaded" =>
          /\ ~dzBroken => dzStore.kind # "thrown" /\ dzStore.n = Len(dzRecs)
          /\ dzBroken => dzStore.kind = "thrown" \/ dzStore.level # 3
          /\ dzStore.kind # "thrown" =>
                \A i \in 0..(Len(dzRecs) - 1) : \A r \in DictReads(i) : r = dzRecs[i + 1] \/ (dzBroken /\ r = Thrown)

(* createZipBuilder's comment: from level 1 on the offset array is covered by a checksum; a store with a changed
   offset is refused. *)
OffsetsAreChecked == dzPhase = "loaded" /\ dzStore.kind # "thrown" => ~dzBroken
=============================================================================
