------------------------------ MODULE Huffman ------------------------------
(***************************************************************************)
(* The Huffman coder of entropy/huffman_encoding.cpp, of order 0 and of    *)
(* order 1 with one stream or with N = 2, 4 or 8 interleaved ones.         *)
(*                                                                         *)
(* The encoder walks the record backwards and puts each code in front of   *)
(* what it has written, so a stream of bits is a sequence whose head the   *)
(* decoder reads next.  BLOCK_BITS (12 in the code) bounds the length of a *)
(* code; the normalised counts add up to NORMALISE (2^15 with bytes of 8   *)
(* bits), the largest number the table's two bytes cannot hold.            *)
(***************************************************************************)
EXTENDS EntropyBase

CONSTANT BLOCK_BITS

ASSUME HuffmanAssumption == BLOCK_BITS \in Nat \ {0} /\ BLOCK_BITS >= ByteBits

NORMALISE == 2 ^ (2 * ByteBits - 1)

\* The bits of a number, the highest first, and back.
BitsOf(x, n) == [i \in 1..n |-> (x \div 2 ^ (n - i)) % 2]
ValueOf(bits) == SumFunctionOnSet([i \in DOMAIN bits |-> bits[i] * 2 ^ (Len(bits) - i)], DOMAIN bits)
First(bits, n) == SubSeq(bits, 1, Min({n, Len(bits)}))
Rest(bits, n) == SubSeq(bits, n + 1, Len(bits))

\* while (Cond) Step, at most n times.
While(st, n, Cond(_), Step(_)) ==
    LET at[i \in Nat] == IF i = 0 THEN st
                          ELSE With(at[i - 1], LAMBDA v : IF Cond(v) THEN Step(v) ELSE v)
    IN  at[n]

----------------------------------------------------------------------------
(* The code of a set of counts *)

\* HuffmanBuildSort: by descending count, equal ones in the order of the symbols.
HuffmanBuildSort(freq) == ByRank([c \in Symbols |-> -freq[c]])

\* The tree: leaf n is the (n+1)-st symbol, the inner nodes are Byte, Byte + 1, ...  The two smallest
\* of what is left, from the end of the leaves and from the front of the inner nodes, get a parent.
Huge == 2 ^ 29
Smallest(st) ==
    LET CountOf(n) == IF n < 0 THEN 2 * Huge ELSE IF n \in DOMAIN st.count THEN st.count[n] ELSE Huge IN
    IF CountOf(st.low_S) < CountOf(st.low_N)
    THEN [st EXCEPT !.low_S = @ - 1, !.picked = Append(@, st.low_S)]
    ELSE [st EXCEPT !.low_N = @ + 1, !.picked = Append(@, st.low_N)]

Join(st) ==
    LET two == Smallest(Smallest([st EXCEPT !.picked = <<>>]))
        a == two.picked[1]
        b == two.picked[2]
    IN  [two EXCEPT !.count = (st.next :> st.count[a] + st.count[b]) @@ @,
                    !.parent = (a :> st.next) @@ (b :> st.next) @@ @, !.next = @ + 1]

\* The depths of the leaves 0..last; count gives the counts of the leaves.
Depths(count, last) ==
    LET st == [count |-> (Byte :> count[last] + count[last - 1]) @@ count,
               parent |-> (last :> Byte) @@ (last - 1 :> Byte),
               low_S |-> last - 2, low_N |-> Byte, next |-> Byte + 1, picked |-> <<>>]
        root == Byte + last - 1
    IN  IF last = 0 THEN [n \in {0} |-> 1]
        ELSE With(While(st, last - 1, LAMBDA s : s.next <= root, Join).parent, LAMBDA parent :
                  LET depth[n \in 0..root] == IF n = root THEN 0 ELSE depth[parent[n]] + 1
                  IN  [n \in 0..last |-> depth[n]])

\* HuffmanBuildSetMaxHeight.  rank_last[k] is the last leaf with BLOCK_BITS - k bits, -1 if there is none.
Empty == -1
Repay(st) ==
    LET bsr == CHOOSE k \in 0..30 : 2 ^ k <= st.total /\ st.total < 2 ^ (k + 1)
        Better(k) == st.rank_last[k] # Empty
                     /\ (st.rank_last[k - 1] = Empty
                         \/ st.count[st.rank_last[k]] <= 2 * st.count[st.rank_last[k - 1]])
        some == Max({1} \cup {k \in 2..(bsr + 1) : Better(k)})
        k1 == Min({k \in some..BLOCK_BITS : st.rank_last[k] # Empty} \cup {BLOCK_BITS + 1})
        leaf == st.rank_last[k1]
        bits == [st.bits EXCEPT ![leaf] = @ + 1]
    IN  [st EXCEPT !.total = @ - 2 ^ (k1 - 1), !.bits = bits,
                   !.rank_last[k1 - 1] = IF @ = Empty THEN leaf ELSE @,
                   !.rank_last[k1] = IF leaf = 0 \/ bits[leaf - 1] # BLOCK_BITS - k1 THEN Empty ELSE leaf - 1]

Overshoot(st) ==
    LET n == Max({k \in 0..st.n : st.bits[k] # BLOCK_BITS})
        leaf == IF st.rank_last[1] = Empty THEN n + 1 ELSE st.rank_last[1] + 1
    IN  [st EXCEPT !.total = @ + 1, !.bits[leaf] = @ - 1, !.rank_last[1] = leaf,
                   !.n = IF st.rank_last[1] = Empty THEN n ELSE @]

HuffmanBuildSetMaxHeight(bits, count, last) ==
    LET long == bits[last]
        n1 == Max({n \in 0..last : bits[n] <= BLOCK_BITS})
        cost == [n \in 0..last |-> IF n > n1 THEN 2 ^ (long - BLOCK_BITS) - 2 ^ (long - bits[n]) ELSE 0]
        total == SumFunctionOnSet(cost, 0..last) \div 2 ^ (long - BLOCK_BITS)
        n2 == Max({n \in 0..n1 : bits[n] # BLOCK_BITS})
        rank_last == [k \in 0..(BLOCK_BITS + 1) |->
            LET at == {p \in 0..n2 : bits[p] = BLOCK_BITS - k /\ \A q \in (p + 1)..n2 : bits[q] > bits[p]}
            IN  IF at = {} \/ k = 0 THEN Empty ELSE Max(at)]
        st == [bits |-> [n \in 0..last |-> IF n > n1 THEN BLOCK_BITS ELSE bits[n]],
               count |-> count, n |-> n2, rank_last |-> rank_last, total |-> total]
    IN  IF long <= BLOCK_BITS THEN bits
        ELSE With(While(st, Byte, LAMBDA s : s.total > 0, Repay), LAMBDA paid :
                  While(paid, Byte, LAMBDA s : s.total < 0, Overshoot).bits)

\* HuffmanBuildCTable: the codes; the longest ones start at 0, within a length they follow the symbols.
HuffmanBuildCTable(freq) ==
    LET last == Cardinality({c \in Symbols : freq[c] > 0}) - 1 IN
    With(HuffmanBuildSort(freq), LAMBDA order :
    With([n \in 0..last |-> freq[order[n + 1]]], LAMBDA count :
    With(Depths(count, last), LAMBDA deep :
    With(HuffmanBuildSetMaxHeight(deep, count, last), LAMBDA bits :
    With([c \in Symbols |-> IF freq[c] = 0 THEN 0 ELSE bits[CHOOSE n \in 0..last : order[n + 1] = c]], LAMBDA len :
        LET start[b \in 1..BLOCK_BITS] ==
                IF b = BLOCK_BITS THEN 0
                ELSE (start[b + 1] + Cardinality({c \in Symbols : len[c] = b + 1})) \div 2
        IN  [c \in Symbols |->
                IF len[c] = 0 THEN <<>>
                ELSE BitsOf(start[len[c]] + Cardinality({d \in 0..(c - 1) : len[d] = len[c]}), len[c])])))))

NoCodes == [c \in Symbols |-> <<>>]
CodesOf(freq) == IF Total(freq) = 0 THEN NoCodes ELSE HuffmanBuildCTable(freq)

\* HuffmanBuildDTable: for the next BLOCK_BITS bits the symbol whose code starts last before them.
Ari(codes, peek) ==
    LET Place(c) == ValueOf(codes[c]) * 2 ^ (BLOCK_BITS - Len(codes[c]))
        at == {c \in Symbols : codes[c] # <<>> /\ Place(c) <= peek}
    IN  IF at = {} THEN 0 ELSE CHOOSE c \in at : \A d \in at : Place(d) <= Place(c)
Peek(bits) == ValueOf(First(bits, BLOCK_BITS)) * 2 ^ (BLOCK_BITS - Min({Len(bits), BLOCK_BITS}))
\* The symbol at the head of a stream and the length of its code (cnt_, 255 where there is none).
HeadSymbol(codes, bits) ==
    LET Of(c) == [c |-> c, b |-> IF codes[c] = <<>> THEN 2 ^ ByteBits * ByteBits ELSE Len(codes[c])]
    IN  Of(Ari(codes, Peek(bits)))

----------------------------------------------------------------------------
(* Streams *)

\* EntropyBitsToBytes: a whole number of bytes; a 1 tells where the stream begins.
EntropyBitsToBytes(bits) ==
    With(bits, LAMBDA data :
    With([i \in 1..(ByteBits - 1 - (Len(data) % ByteBits)) |-> 0] \o <<1>> \o data, LAMBDA all :
        [i \in 1..(Len(all) \div ByteBits) |-> ValueOf(SubSeq(all, (i - 1) * ByteBits + 1, i * ByteBits))]))
EntropyBytesToBits(bytes) ==
    With([i \in 1..(Len(bytes) * ByteBits) |->
             BitsOf(bytes[((i - 1) \div ByteBits) + 1], ByteBits)[((i - 1) % ByteBits) + 1]], LAMBDA all :
         Rest(all, CHOOSE i \in 1..ByteBits : all[i] = 1 /\ \A j \in 1..(i - 1) : all[j] = 0))

\* Where the bytes of a record are in the decoder's order: the lanes take turns, each has its part of the
\* record, the first ones one byte more.
LaneBegin(size, n, lane) == (size \div n) * lane + Min({lane, size % n})
LanePlace(size, n, i) ==
    [lane |-> (i - 1) % n, pos |-> LaneBegin(size, n, (i - 1) % n) + ((i - 1) \div n) + 1]

\* The codes a record takes, in the decoder's order; codes gives the code of each context.
RecordCodes(codes, order, record, n) ==
    [i \in 1..Len(record) |->
        LET place == LanePlace(Len(record), n, i)
            ctx == IF order = 0 \/ place.pos = LaneBegin(Len(record), n, place.lane) + 1
                   THEN <<>> ELSE <<record[place.pos - 1]>>
        IN  codes[ctx][record[place.pos]]]

\* bitwise_encode, bitwise_encode_x1.
bitwise_encode(codes, order, record) == Along(LAMBDA out, code : out \o code, <<>>, RecordCodes(codes, order, record, 1))

\* bitwise_encode_xN.  As many of the last codes as fit into the lanes' first blocks make the header; it is
\* cut into the first states of the lanes, the lane whose code did not fit takes the part that is not full.
\* Then each code goes in front of its lane's state and what is more than a block is written.
bitwise_encode_xN(codes, order, record, n) ==
    With(Reverse(RecordCodes(codes, order, record, n)), LAMBDA cs :
    LET size == Len(record)
        Lane(i) == (size - i) % n
        Bits(m) == SumFunctionOnSet([i \in 1..size |-> Len(cs[i])], 1..m)
        fit == Max({m \in 0..size : Bits(m) <= BLOCK_BITS * n})
        header == Along(LAMBDA out, i : cs[i] \o out, <<>>, [i \in 1..fit |-> i])
        remain == Lane(fit + 1)
        part == ((Len(header) - 1) % BLOCK_BITS) + 1
        \* the lanes after remain, from the highest down
        Rank(lane) == Cardinality({k \in 0..(n - 1) : k > lane /\ k # remain})
        start == [lane \in 0..(n - 1) |->
                     IF lane = remain THEN First(header, part)
                     ELSE SubSeq(header, part + Rank(lane) * BLOCK_BITS + 1, part + (Rank(lane) + 1) * BLOCK_BITS)]
        Put(st, i) == LET s == cs[i] \o st.state[Lane(i)] IN
                      [state |-> [st.state EXCEPT ![Lane(i)] = First(s, BLOCK_BITS)],
                       out |-> Rest(s, BLOCK_BITS) \o st.out]
    IN  IF fit = size THEN header
        ELSE With(Along(Put, [state |-> start, out |-> <<>>], [k \in 1..(size - fit) |-> fit + k]), LAMBDA end :
                  Along(LAMBDA out, lane : end.state[lane] \o out, end.out, [i \in 1..n |-> n - i])))

NoRecord == [ok |-> FALSE, record |-> <<>>]

\* The lanes of a stream in turn, from lane on, until it ends; bytes is what has been read.
\* The result has ok FALSE if the last code is not whole.
ReadLanes(codes, order, n, stream, lane0, last0, bytes0) ==
    LET Step(st) ==
            LET Take(h) == IF h.b > Len(st.bits) THEN [st EXCEPT !.ok = FALSE]
                           ELSE [st EXCEPT !.bits = Rest(@, h.b), !.bytes = Append(@, h.c),
                                           !.last[st.lane] = <<h.c>>, !.lane = (@ + 1) % n]
            IN  Take(HeadSymbol(codes[IF order = 0 THEN <<>> ELSE st.last[st.lane]], st.bits))
    IN  While([ok |-> TRUE, bits |-> stream, lane |-> lane0, last |-> last0, bytes |-> bytes0],
              Len(stream), LAMBDA st : st.ok /\ st.bits # <<>>, Step)

\* decoder::bitwise_decode, decoder_o1::bitwise_decode_x1.
bitwise_decode(codes, order, stream) ==
    With(ReadLanes(codes, order, 1, stream, 0, [k \in {0} |-> <<>>], <<>>), LAMBDA r :
         IF r.ok THEN [ok |-> TRUE, record |-> r.bytes] ELSE NoRecord)

\* One round of the lanes: each has a block of bits; c and b are the symbols and the lengths of their codes.
Round(codes, st, n) == [k \in 0..(n - 1) |-> HeadSymbol(codes[st.last[k]], st.state[k])]
RoundBits(round, k) == SumFunctionOnSet([j \in DOMAIN round |-> round[j].b], 0..k)

\* A round for which the rest of the stream has bits and some are left.
FullRound(codes, st, n) ==
    With(Round(codes, st, n), LAMBDA round :
        IF RoundBits(round, n - 1) >= Len(st.bits) THEN [st EXCEPT !.go = FALSE]
        ELSE [st EXCEPT !.bytes = @ \o [k \in 1..n |-> round[k - 1].c],
                        !.last = [k \in 0..(n - 1) |-> <<round[k].c>>],
                        !.state = [k \in 0..(n - 1) |->
                            Rest(@[k], round[k].b)
                            \o SubSeq(st.bits, RoundBits(round, k) - round[k].b + 1, RoundBits(round, k))],
                        !.bits = Rest(@, RoundBits(round, n - 1))])

\* The AVX2 forms for 4 and 8 lanes keep the states in vectors and do the same.
bitwise_decode_x4(codes, st) == FullRound(codes, st, 4)
bitwise_decode_x8(codes, st) == FullRound(codes, st, 8)
LanesRound(codes, st, n) ==
    CASE n = 2 -> FullRound(codes, st, 2) [] n = 4 -> bitwise_decode_x4(codes, st) [] n = 8 -> bitwise_decode_x8(codes, st)

\* HuffmanDecBreak: in the last round the stream ends in the lane remain; the states of the other
\* lanes, in the order of down, and of this one in front of them, make the header again.
BreakRound(codes, st, n, down) ==
    With(Round(codes, st, n), LAMBDA round :
        LET remain == Min({k \in 0..(n - 1) : RoundBits(round, k) >= Len(st.bits)})
            State(k) == IF k > remain THEN st.state[k]
                        ELSE Rest(st.state[k], round[k].b)
                             \o SubSeq(st.bits, RoundBits(round, k) - round[k].b + 1, Min({Len(st.bits), RoundBits(round, k)}))
        IN  [remain |-> remain, bytes |-> st.bytes \o [k \in 1..(remain + 1) |-> round[k - 1].c],
             last |-> [k \in 0..(n - 1) |-> IF k <= remain THEN <<round[k].c>> ELSE st.last[k]],
             header |-> Along(LAMBDA out, k : IF k = remain THEN out ELSE out \o State(k), State(remain), down)])

\* Mutant of LastRound: the states are written in the order of the lanes.
LastRound_Order(codes, st, n) == BreakRound(codes, st, n, [i \in 1..n |-> i - 1])

LastRound(codes, st, n) == BreakRound(codes, st, n, [i \in 1..n |-> n - i])

\* Back from the decoder's order to the record's.
Deinterleave(bytes, n) ==
    LET size == Len(bytes) IN
    [p \in 1..size |-> bytes[CHOOSE i \in 1..size : LanePlace(size, n, i).pos = p]]

bitwise_decode_xN(codes, stream, n) ==
    LET fresh == [k \in 0..(n - 1) |-> <<>>]
        begin == [go |-> TRUE, last |-> fresh, bytes |-> <<>>, bits |-> Rest(stream, BLOCK_BITS * n),
                  state |-> [k \in 0..(n - 1) |-> First(Rest(stream, k * BLOCK_BITS), BLOCK_BITS)]]
        rounds == While(begin, IF Len(stream) > BLOCK_BITS * n THEN Len(stream) \div n ELSE 0, LAMBDA st : st.go, LAMBDA st : LanesRound(codes, st, n))
        short == [remain |-> n - 1, bytes |-> <<>>, last |-> fresh, header |-> stream]
    IN  With(rounds, LAMBDA all :
        With(IF Len(stream) > BLOCK_BITS * n THEN LastRound(codes, all, n) ELSE short, LAMBDA h :
        With(ReadLanes(codes, 1, n, h.header, (h.remain + 1) % n, h.last, h.bytes), LAMBDA r :
            IF r.ok THEN [ok |-> TRUE, record |-> Deinterleave(r.bytes, n)] ELSE NoRecord)))

----------------------------------------------------------------------------
(* Tables *)

\* encoder::init and decoder::init.
HuffTableO0(freqs) == IF Total(freqs[<<>>]) = 0 THEN <<0>> ELSE <<1>> \o FreqTable(freqs[<<>>])
ReadFreqs(t, p) == LET r == ReadFreqTable(t, p) IN [val |-> Filled(r.rows, 0), at |-> r.at]
ReadHuffTableO0(t) ==
    IF t[1] = 0 THEN [freqs |-> [ctx \in {<<>>} |-> NoCounts], size |-> 1]
    ELSE LET r == ReadFreqs(t, 2) IN [freqs |-> [ctx \in {<<>>} |-> r.val], size |-> r.at - 1]

Codes(freqs) == [ctx \in DOMAIN freqs |-> CodesOf(freqs[ctx])]

\* encoder_o1::init: the table is replaced by its order-0 code if that is smaller.
HuffTableO1(freqs, low) ==
    LET some == {l \in Symbols : Total(freqs[<<l>>]) > 0}
        table == IF Total(freqs[<<>>]) = 0 THEN <<0>>
                 ELSE <<1>> \o (IF some = {} THEN <<0>>
                                ELSE <<1>> \o WriteRuns([l \in Symbols |-> l \in some],
                                                       [l \in Symbols |-> FreqTable(freqs[<<l>>])]))
                            \o FreqTable(freqs[<<>>])
    IN  With(table, LAMBDA t :
        With(IF Len(t) >= NORMALISE THEN normalise(0, <<t>>, NORMALISE, low) ELSE Counts(0, <<t>>), LAMBDA h :
        With(Codes(h), LAMBDA codes :
        With(HuffTableO0(h) \o EntropyBitsToBytes(bitwise_encode(codes, 0, t)), LAMBDA packed :
            IF Len(packed) + 1 < Len(t) THEN <<Byte - 1>> \o packed ELSE t))))

\* decoder_o1::init; the table is all of data.
ReadHuffTableO1(data) ==
    LET Unpack(o0, codes) == bitwise_decode(codes, 0, EntropyBytesToBits(Rest(data, 1 + o0.size))).record
        unpacked == With(ReadHuffTableO0(Tail(data)), LAMBDA o0 : With(Codes(o0.freqs), LAMBDA codes : Unpack(o0, codes)))
    IN  With(IF data[1] = Byte - 1 THEN unpacked ELSE data, LAMBDA t :
        IF t[1] = 0 THEN [ctx \in Contexts(1) |-> NoCounts]
        ELSE With(IF t[2] = 0 THEN [rows |-> <<>>, at |-> 3] ELSE ReadRuns(t, 3, LAMBDA p : ReadFreqs(t, p)), LAMBDA o1 :
             [ctx \in Contexts(1) |-> IF ctx = <<>> THEN ReadFreqs(t, o1.at).val
                                      ELSE Filled(o1.rows, NoCounts)[ctx[1]]]))
=============================================================================
