------------------------------ MODULE MCStores ------------------------------
(* The stores with plain records, the codec of DictZipBlobStore and the store around it, the static trie, and
   the index. *)
EXTENDS DictZipStore, DictZipCodec, NestTrieDawg, ZipIndex

VARIABLE part    \* which of them a behaviour is about

\* Records and stores.
S(x) == <<"sym", x>>
Recs == {<<>>, <<S(1)>>, <<S(2), S(1)>>, <<S(2), S(2), S(3)>>}
MCInputs == UNION {[1..n -> Recs] : n \in 0..3}
            \cup {[i \in 1..9 |-> IF i % 3 = 0 THEN <<S(1)>> ELSE <<S(2), S(1)>>], [i \in 1..7 |-> IF i = 4 THEN <<>> ELSE <<S(1)>>], [i \in 1..8 |-> <<>>], [i \in 1..8 |-> <<S(i \div 3)>>]}
MCUses == {[kind |-> k, level |-> l, type |-> IF l = 2 THEN "crc16" ELSE "crc32", fixed |-> f, zstd |-> z, order |-> o, raw |-> o = 1] :
             k \in {"plain", "mixed", "zip", "entropy", "zero", "simple"}, l \in 1..3, f \in 0..2, z \in BOOLEAN, o \in 0..1}
MCStoreUses == {u \in MCUses : (u.kind # "mixed" => u.fixed = 1) /\ (u.kind # "zip" => ~u.zstd) /\ (u.kind # "entropy" => u.order = 0)
                                /\ (u.kind \in {"zero", "simple"} => u.level = 1)}

\* Dictionaries, and records made of pieces that every kind of operation of the codec is for.
D1 == [i \in 1..22 |-> (i * i * 3 + i \div 3) % 7]
D2 == [i \in 1..70 |-> (i * i * 5 + i \div 4) % 11]
MCDicts == {D1, D2}
Run(x, n) == [i \in 1..n |-> x]
Cut(d, o, n) == SubSeq(d, o + 1, o + n)
Noise(n) == [i \in 1..n |-> 20 + i]
Period(p, n) == [i \in 1..n |-> 30 + (i % p)]
Pieces == {Run(1, 2), Run(1, 9), Cut(D1, 0, 6), Cut(D1, 1, 17), Cut(D2, 50, 20), Noise(1), Noise(4), Period(3, 8), Period(6, 13)}
MCDzRecords == {<<>>} \cup {a \o b : a, b \in Pieces}
               \cup {a \o Noise(18) \o b \o Run(2, 30) \o a : a, b \in Pieces}

\* The store around the codec.
DRecs == {<<>>, <<S(1), S(2), S(1)>>, <<S(2), S(3)>>}
MCDictInputs == UNION {[1..n -> DRecs] : n \in 0..3} \cup {[i \in 1..5 |-> IF i = 4 THEN <<>> ELSE IF i % 2 = 1 THEN <<S(2), S(3)>> ELSE <<S(1), S(2), S(1)>>]}
MCDictLens == [d \in {"plain", "dense", "whole"} |-> CASE d = "plain" -> 5 [] d = "dense" -> 6 [] OTHER -> 4]
AllDictUses ==
    {[multi |-> m[1], lake |-> m[2], perm |-> m[3], level |-> l, algo |-> a, raw |-> r, embed |-> e, zipped |-> z, mem |-> FALSE, dict |-> d] :
        m \in {<<TRUE, TRUE, TRUE>>, <<TRUE, FALSE, FALSE>>, <<FALSE, FALSE, FALSE>>},
        l \in 1..3, a \in {"none", "fse", "huf"}, r \in BOOLEAN, e \in BOOLEAN, z \in BOOLEAN, d \in {"plain", "dense", "whole"}}
MCDictUses == {u \in AllDictUses : /\ (u.algo # "huf" => ~u.raw) /\ (u.multi /\ u.lake <=> u.level # 2) /\ (u.zipped <=> u.level = 2)
                               /\ (u.embed <=> u.dict # "dense") /\ (u.algo = "fse" => u.dict = "plain")}

\* Strings with shared heads and tails, so that labels are nested in each other, and every way to build from them.
Conf(level, scale, minLink, mixed, fwd, zip) ==
    [nestLevel |-> level, nestScale |-> scale, minLink |-> minLink, mixed |-> mixed, maxFrag |-> 6, forward |-> fwd, zip |-> zip,
     frags |-> << <<3, 2, 2>>, <<4, 3, 2>>, <<5, 4, 3>>, <<6, 5, 4>> >>, minFrag |-> 1, delims |-> {1}, punct |-> {2}]
\* Each value of a parameter with each value of another.
MCConfs == {Conf(l, sc, IF fw THEN 3 ELSE 2, mx, fw, mx # fw) : l \in 1..3, sc \in {1, 8}, mx \in BOOLEAN, fw \in BOOLEAN}
MCStrs == {<< <<>>, <<1>>, <<1, 2>>, <<1, 3, 3>> >>,
           << <<2, 1, 3, 1, 0, 1>>, <<2, 1, 3, 1, 0, 2, 4>>, <<3, 1, 3, 1, 0, 2, 4>>, <<3>> >>,
           << <<0>>, <<2, 5>>, <<3, 1, 1, 1>>, <<5, 1, 1, 1>>, <<7, 0>> >>,
           << <<4, 4, 4, 4, 5, 6, 7, 0, 1, 2, 3, 4, 5, 6, 7, 0, 1, 2, 3, 4, 5, 6>>, <<5, 6, 7, 0, 1, 2, 3, 4, 4>>,
              <<5, 6, 7, 0, 1, 2, 3, 4, 4, 1>>, <<5, 6, 7, 0, 1, 2, 3, 4, 4, 1>> >>}
MCNestUses == {u \in [kind : {"patricia", "strpool", "strpool2"}, fast : BOOLEAN, strs : MCStrs, conf : MCConfs] :
                  u.fast => u.kind = "patricia"}
MCIterUses == {u \in MCNestUses : u.kind = "patricia" /\ u.conf = Conf(2, 8, 2, FALSE, FALSE, FALSE)}
AllStrs == UNION {Range(x) : x \in MCStrs}
MCIterKeys == AllStrs \cup UNION {{SubSeq(k, 1, n) : n \in 0..Lesser(3, Len(k))} : k \in AllStrs} \cup {<<2, 6>>, <<3, 1, 1, 2>>, <<7, 7>>}
MCDawgKeys == UNION {{k, Append(k, 0), Append(k, 3), Append(k, 7)} :
                        k \in AllStrs \cup UNION {{SubSeq(k, 1, n) : n \in 0..Lesser(5, Len(k))} : k \in AllStrs}}

\* Sets of keys with a common head and without, of one length and of several, dense, with groups that share their first
\* bytes, with keys that are heads of others, and enough for two crit-bit tries; each in both orders.
MCIndexOptions == [uint : BOOLEAN, composite : BOOLEAN, dynamic : BOOLEAN, cbt : BOOLEAN, nonDesc : {TRUE}]
KeySets == {<< <<1>>, <<1, 0>>, <<1, 1, 3>>, <<2>> >>,
            << <<1, 0, 0>>, <<1, 0, 3>>, <<1, 2, 1>>, <<1, 2, 2>>, <<1, 2, 3>> >>,
            << <<1, 0, 0, 1, 1>>, <<1, 0, 2, 1>>, <<1, 1, 1, 2, 2, 0>>, <<1, 1, 3, 0, 1>>, <<1, 2, 3, 3>> >>,
            << <<0, 1, 1>>, <<0, 2, 0>>, <<3, 1, 2, 1>>, <<3, 1, 2, 3, 3>>, <<3, 1, 3>>, <<3, 3, 3>> >>,
            << <<0, 0>>, <<0, 1>>, <<0, 2>>, <<0, 3>> >>}
KeyPool == {<<>>, <<0, 1>>, <<0, 1, 1>>, <<1>>, <<1, 3, 0>>, <<1, 3, 2>>, <<2, 0>>}
PoolSets == {w \in UNION {[1..n -> KeyPool] : n \in {2, 4}} : \A i \in 1..(Len(w) - 1) : KeyLess(w[i], w[i + 1])}
MCIndexInputs == UNION {{w, Reverse(w)} : w \in KeySets \cup PoolSets}
MCIndexProbes == {<<>>, <<0>>, <<0, 0>>, <<0, 2, 0, 0>>, <<0, 3>>, <<1>>, <<1, 0, 1>>, <<1, 0, 2, 1, 0>>, <<1, 1>>, <<1, 1, 3, 1>>,
                  <<1, 2>>, <<1, 2, 2, 1>>, <<1, 3>>, <<2, 1>>, <<3, 1, 2, 2>>, <<3, 1, 2>>, <<3, 2>>, <<3, 3, 3, 0>>}

NestIdle == nlUse = <<>> /\ nlTrie = NoTrie /\ nlVec = <<>> /\ ndTerm = <<>> /\ ndLayers = <<>> /\ ndCache = 0 /\ IterIdle

MCInit ==
    \/ part = "stores" /\ StoresInit /\ CodecIdle /\ DictIdle /\ NestIdle /\ IndexIdle
    \/ part = "codec" /\ StoresIdle /\ CodecInit /\ DictIdle /\ NestIdle /\ IndexIdle
    \/ part = "dict" /\ StoresIdle /\ CodecIdle /\ DictInit /\ NestIdle /\ IndexIdle
    \/ part = "trie" /\ StoresIdle /\ CodecIdle /\ DictIdle /\ IterInit /\ IndexIdle
    \/ part = "index" /\ StoresIdle /\ CodecIdle /\ DictIdle /\ NestIdle /\ IndexInit
MCNext ==
    /\ UNCHANGED part
    /\ \/ part = "stores" /\ StoresNext /\ UNCHANGED <<codecVars, dictVars, allIterVars, indexVars>>
       \/ part = "codec" /\ ZipRecord /\ UNCHANGED <<storeVars, dictVars, allIterVars, indexVars>>
       \/ part = "dict" /\ DictNext /\ UNCHANGED <<storeVars, codecVars, allIterVars, indexVars>>
       \/ part = "trie" /\ IterNext /\ UNCHANGED <<storeVars, codecVars, dictVars, indexVars>>
       \/ part = "index" /\ IndexNext /\ UNCHANGED <<storeVars, codecVars, dictVars, allIterVars>>
mcVars == <<part, storeVars, codecVars, dictVars, allIterVars, indexVars>>
MCSpec == MCInit /\ [][MCNext]_mcVars

\* createZipBuilder's promise, with a byte of the offsets changed.
MCOffsetsSpec ==
    /\ part = "dict" /\ StoresIdle /\ CodecIdle /\ DictInit /\ NestIdle /\ IndexIdle
    /\ [][(DictSteps \/ FaultOffsets) /\ UNCHANGED <<part, storeVars, codecVars, allIterVars, indexVars>>]_mcVars

\* The trie alone.
MCTrieSpec ==
    /\ part = "trie" /\ StoresIdle /\ CodecIdle /\ DictIdle /\ IterInit /\ IndexIdle
    /\ [][IterNext /\ UNCHANGED <<part, storeVars, codecVars, dictVars, indexVars>>]_mcVars

\* The trie alone, cached also when it has the empty word.
MCTrieCacheSpec ==
    /\ part = "trie" /\ StoresIdle /\ CodecIdle /\ DictIdle /\ IterInit /\ IndexIdle
    /\ [][DawgAnyNext /\ UNCHANGED <<part, storeVars, codecVars, dictVars, iterVars, indexVars>>]_mcVars

\* The index, with every cache and everything Build makes of descending keys.
MCIndexAnySpec ==
    /\ part = "index" /\ StoresIdle /\ CodecIdle /\ DictIdle /\ NestIdle /\ IndexInit
    /\ [][IndexAnyNext /\ UNCHANGED <<part, storeVars, codecVars, dictVars, allIterVars>>]_mcVars

\* A store gives back its records, in whichever way they are read, and finds the lower bound of a key in sorted ones.
PlainStoresRight == StoresRight /\ StoreBoundRight

\* A static trie restores the strings it was built from, finds them and nothing else, computes their ranks layer by
\* layer as the dictionary has them, and its iterator's stack is the path to the word.  (The iterator's steps leave the
\* trie alone.)
StaticTrieRight == (niOps = 0 => RestoresRight /\ LookupsRight /\ RanksRight) /\ StackIsPath
=============================================================================
