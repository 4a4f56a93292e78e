-------------------------------- MODULE Rans --------------------------------
(***************************************************************************)
(* The range coder with asymmetric numeral systems of                      *)
(* entropy/rans_encoding.cpp (namespace rANS_static_64), orders 0, 1 and   *)
(* 2, with N = 1, 2, 4 or 8 interleaved states ("lanes").                  *)
(*                                                                         *)
(* The encoder walks the record backwards and writes backwards, the        *)
(* decoder walks forwards.  Each lane starts from the last bytes of the    *)
(* record; a header of each lane carries a part of the record's length     *)
(* and, when the reader is to find N itself, a check bit.                  *)
(*                                                                         *)
(* In the code a byte has 8 bits, LBytes is 2, BlockBytes 4, TFShift 12,   *)
(* HeadBits 9, HeadCodes 7 and a word has 64 bits.                         *)
(***************************************************************************)
EXTENDS EntropyBase

CONSTANTS LBytes, BlockBytes, TFShift, HeadBits, HeadCodes, RansBits

ASSUME RansAssumption ==
    /\ {LBytes, BlockBytes, TFShift, HeadBits, HeadCodes, RansBits} \subseteq Nat \ {0}
    /\ TFShift <= LBytes * ByteBits /\ TFShift >= ByteBits

RANS_L == 2 ^ (LBytes * ByteBits)
BLOCK == 2 ^ (BlockBytes * ByteBits)
TOTFREQ == 2 ^ TFShift
RECORD_MAX_SIZE == (2 ^ HeadBits) \div HeadCodes

\* The number of bits of x > 0: terark_bsr_u64(x) + 1.
BitLength(x) == CHOOSE n \in 1..31 : 2 ^ (n - 1) <= x /\ (n = 31 \/ x < 2 ^ n)
CeilLog2(x) == CHOOSE n \in 0..30 : x <= 2 ^ n /\ (n = 0 \/ 2 ^ (n - 1) < x)

\* The n bytes of x, the lowest first, and the number they hold.
Bytes(x, n) == [i \in 1..n |-> (x \div 2 ^ (ByteBits * (i - 1))) % Byte]
Number(data, p, n) == SumFunctionOnSet([i \in 1..n |-> data[p + i - 1] * 2 ^ (ByteBits * (i - 1))], 1..n)

----------------------------------------------------------------------------
(* Symbols *)

Rans64MulHi(a, b) == (a * b) \div 2 ^ RansBits

\* The reciprocal of freq by two divisions of half words.
Rans64EncSymbolInit(start, freq) ==
    LET half == RansBits \div 2
        shift == CeilLog2(freq)
        x1 == 2 ^ (shift + half - 1)
        x0 == (freq - 1) + (x1 % freq) * 2 ^ half
    IN  IF freq < 2
        THEN [freq |-> freq, cmpl |-> TOTFREQ - freq, rcp |-> 2 ^ RansBits - 1, shift |-> 0,
              bias |-> start + TOTFREQ - 1]
        ELSE [freq |-> freq, cmpl |-> TOTFREQ - freq, rcp |-> x0 \div freq + (x1 \div freq) * 2 ^ half,
              shift |-> shift - 1, bias |-> start]

Rans64EncPutSymbol(x, s) == x + s.bias + (Rans64MulHi(x, s.rcp) \div 2 ^ s.shift) * s.cmpl

\* The encoder's symbols: those present have adjacent intervals.
Start(freq, c) == SumFunctionOnSet(freq, 0..(c - 1))
EncSymbol(freq, c) == Rans64EncSymbolInit(Start(freq, c), freq[c])

\* Rans64BuildCTable.
Rans64BuildCTable(freq) == IF \A c \in Symbols : freq[c] = 0 THEN <<0>> ELSE <<1>> \o FreqTable(freq)

\* Rans64BuildDTable: the symbols read at p, and where they end.  A frequency of 0 stands for TOTFREQ.
Rans64BuildDTable(t, p) ==
    LET read == ReadFreqTable(t, p + 1)
        freq == [c \in Symbols |-> IF c \notin DOMAIN read.rows THEN 0
                                   ELSE IF read.rows[c] = 0 THEN TOTFREQ ELSE read.rows[c]]
    IN  IF t[p] = 0 THEN [val |-> NoCounts, at |-> p + 1] ELSE [val |-> freq, at |-> read.at]

\* ari of orders 0 and 1: the symbol whose interval holds m.
AriTable(freq, m) ==
    LET in == {c \in Symbols : freq[c] > 0 /\ LET s == Start(freq, c) IN s <= m /\ m < s + freq[c]} IN
    IF in = {} THEN 0 ELSE CHOOSE c \in in : TRUE

\* convert_symbol: a symbol that is absent starts where the next one does.
convert_symbol(freq) ==
    [c \in Symbols |->
        LET next == {d \in c..(Byte - 1) : freq[d] > 0} IN
        IF next = {} THEN TOTFREQ ELSE Start(freq, Min(next))]

\* ari of order 2: the last symbol that starts at or before m (upper_bound_0(...) - 1).
AriSearch(freq, m) ==
    LET start == convert_symbol(freq) IN Max({c \in Symbols : start[c] <= m})

----------------------------------------------------------------------------
(* Lanes *)

\* Rans64EncInit: a lane takes bytes from the end of what is left of the record.
Rans64EncInit(record, size) ==
    LET Take[n \in 0..size] ==
            LET x == IF n = 0 THEN 1 ELSE Take[n - 1].x * Byte + record[size - n + 1] IN
            [x |-> x, size |-> size - n]
        n == Min({LBytes, size})
    IN  Take[n]

\* Rans64EncRenorm: before x would grow out of the interval its low block is written.
Rans64EncRenorm(x, out, freq) ==
    IF x >= (RANS_L \div TOTFREQ) * BLOCK * freq
    THEN [x |-> x \div BLOCK, out |-> Bytes(x, BlockBytes) \o out]
    ELSE [x |-> x, out |-> out]

\* Rans64DecRenorm: x of 0 stands for a failure.
Rans64DecRenorm(x, data, at) ==
    IF x >= RANS_L THEN [x |-> x, at |-> at]
    ELSE IF at > Len(data) THEN [x |-> 0, at |-> at]
    ELSE [x |-> x * BLOCK + Number(data, at, BlockBytes), at |-> at + BlockBytes]

\* Rans64EncFlush: the state, the record's length modulo RECORD_MAX_SIZE and the bytes this takes.
Rans64EncFlush(x, out, size, check, value) ==
    LET head == HeadBits + (IF check THEN 1 ELSE 0)
        c == (BitLength(x) - 1 + ByteBits + head) \div ByteBits
        s == (size % RECORD_MAX_SIZE) * HeadCodes + (c - 2)
        y == x * 2 ^ HeadBits + s
    IN  [out |-> Bytes(IF check THEN 2 * y + value ELSE y, c) \o out, size |-> size \div RECORD_MAX_SIZE]

Rans64DecInit(data, at, size, check, value) ==
    LET head == HeadBits + (IF check THEN 1 ELSE 0)
        Lane(s, c) == IF at + c - 1 > Len(data) THEN [ok |-> FALSE]
                      ELSE [ok |-> TRUE, x |-> Number(data, at, c) \div 2 ^ head, at |-> at + c,
                            size |-> size * RECORD_MAX_SIZE + (s \div HeadCodes)]
        State(s) == Lane(s, (s % HeadCodes) + 2)
        Word(w) == IF check /\ w % 2 # value THEN [ok |-> FALSE]
                   ELSE State(IF check THEN (w % 2 ^ head) \div 2 ELSE w % 2 ^ head)
    IN  Word(Number(data, at, 2))

\* Rans64DecTail: the bytes a lane started from, as far as there is room; right if 1 is left.
Rans64DecTail(x, room) ==
    LET Tail1[n \in 0..room] == IF n = 0 THEN [x |-> x, out |-> <<>>]
                                ELSE LET r == Tail1[n - 1] IN
                                     IF r.x > 1 THEN [x |-> r.x \div Byte, out |-> Append(r.out, r.x % Byte)] ELSE r
    IN  Tail1[room]

\* XCheck: what the check bit of a lane is.
XCheck(lane, n) == IF n > (CASE lane = 0 -> 1 [] lane = 1 -> 2 [] lane \in 2..3 -> 4 [] OTHER -> 8) THEN 1 ELSE 0

\* Where the decoder finds the bytes, in its order: each lane has its part of the record, and the
\* last one also has the remainder.
Places(size, n) ==
    [i \in 1..size |-> IF i <= size - (size % n)
                       THEN [lane |-> (i - 1) % n, pos |-> (size \div n) * ((i - 1) % n) + (i - 1) \div n]
                       ELSE [lane |-> n - 1, pos |-> i - 1]]

\* The last order bytes before a place, of the same lane.
Context(bytes, place, size, n, order) ==
    LET begin == (size \div n) * place.lane
        len == Min({order, place.pos - begin})
    IN  [i \in 1..len |-> bytes[place.pos - len + i]]

----------------------------------------------------------------------------
(* encode_xN and decode_xN; freqs gives the normalised counts of each context *)

Down(n) == [i \in 1..n |-> n - i]
Up(n) == [i \in 1..n |-> i - 1]

\* The lanes' first states; lane n - 1 takes the last bytes.
EncStart(record, n) ==
    Along(LAMBDA st, k : LET e == Rans64EncInit(record, st.size) IN [x |-> (k :> e.x) @@ st.x, size |-> e.size],
          [x |-> <<>>, size |-> Len(record)], Down(n))

\* One byte goes into its lane.
EncPut(freqs, order, record, size, n, st, place) ==
    LET s == EncSymbol(freqs[Context(record, place, size, n, order)], record[place.pos + 1])
        r == Rans64EncRenorm(st.x[place.lane], st.out, s.freq)
    IN  [x |-> [st.x EXCEPT ![place.lane] = Rans64EncPutSymbol(r.x, s)], out |-> r.out]

\* The loops of the three classes differ in the context of a byte.
encoder_encode_xN(freqs, record, size, n, st, place) == EncPut(freqs, 0, record, size, n, st, place)
encoder_o1_encode_xN(freqs, record, size, n, st, place) == EncPut(freqs, 1, record, size, n, st, place)
encoder_o2_encode_xN(freqs, record, size, n, st, place) == EncPut(freqs, 2, record, size, n, st, place)
EncStep(freqs, order, record, size, n, st, place) ==
    CASE order = 0 -> encoder_encode_xN(freqs, record, size, n, st, place)
      [] order = 1 -> encoder_o1_encode_xN(freqs, record, size, n, st, place)
      [] order = 2 -> encoder_o2_encode_xN(freqs, record, size, n, st, place)

encode_xN(freqs, order, record, n, check) ==
    IF Len(record) >= RECORD_MAX_SIZE ^ n THEN <<>>
    ELSE With(EncStart(record, n), LAMBDA start :
         With(Along(LAMBDA st, place : EncStep(freqs, order, record, start.size, n, st, place),
                    [x |-> start.x, out |-> <<>>], Reverse(Places(start.size, n))), LAMBDA coded :
              LET Flush(st, k) == Rans64EncFlush(coded.x[k], st.out, st.size, check, XCheck(k, n))
              IN  Along(Flush, [out |-> coded.out, size |-> Len(record)], Down(n)).out))

\* What the reader makes of data; read is 0 if it is not a record of this kind.
Failed == [read |-> 0, record |-> <<>>]

\* The lanes' states and the record's length, from their headers.
DecStart(data, n, check) ==
    LET Joined(st, k, d) == IF ~d.ok THEN [st EXCEPT !.ok = FALSE]
                            ELSE [ok |-> TRUE, x |-> (k :> d.x) @@ st.x, at |-> d.at, size |-> d.size] IN
    Along(LAMBDA st, k : IF ~st.ok THEN st
                         ELSE Joined(st, k, Rans64DecInit(data, st.at, st.size, check, XCheck(k, n))),
          [ok |-> TRUE, x |-> <<>>, at |-> 1, size |-> 0], Up(n))

\* One byte comes out of its lane; Ari(freq, m) is the symbol at m.
DecGet(freqs, order, data, size, n, st, place, Ari(_, _)) ==
    LET Byte1(r, c) == [ok |-> r.x # 0, x |-> [st.x EXCEPT ![place.lane] = r.x], at |-> r.at,
                        bytes |-> (place.pos + 1 :> c) @@ st.bytes]
        Advance(freq, x, m, c) ==
            Byte1(Rans64DecRenorm(freq[c] * (x \div TOTFREQ) + m - Start(freq, c), data, st.at), c)
        Symbol(freq, x, m) == Advance(freq, x, m, Ari(freq, m))
        From(freq, x) == Symbol(freq, x, x % TOTFREQ)
    IN  IF ~st.ok THEN st ELSE From(freqs[Context(st.bytes, place, size, n, order)], st.x[place.lane])

decoder_decode_xN(freqs, data, size, n, st, place) == DecGet(freqs, 0, data, size, n, st, place, AriTable)
decoder_o1_decode_xN(freqs, data, size, n, st, place) == DecGet(freqs, 1, data, size, n, st, place, AriTable)
decoder_o2_decode_xN(freqs, data, size, n, st, place) == DecGet(freqs, 2, data, size, n, st, place, AriSearch)
DecStep(freqs, order, data, size, n, st, place) ==
    CASE order = 0 -> decoder_decode_xN(freqs, data, size, n, st, place)
      [] order = 1 -> decoder_o1_decode_xN(freqs, data, size, n, st, place)
      [] order = 2 -> decoder_o2_decode_xN(freqs, data, size, n, st, place)

\* The bytes that the lanes hold, in turn, and at last those that their states hold.
DecBody(freqs, order, data, n, start, size) ==
    Along(LAMBDA st, place : DecStep(freqs, order, data, size, n, st, place),
          [ok |-> start.ok, x |-> start.x, at |-> start.at, bytes |-> <<>>], Places(size, n))
DecEnd(body, n, size, total) ==
    LET Finish(st, k) == With(Rans64DecTail(body.x[k], total - Len(st.out)), LAMBDA r :
                              IF ~st.ok THEN st ELSE [ok |-> r.x = 1, out |-> st.out \o r.out])
    IN  Along(Finish, [ok |-> TRUE, out |-> [i \in 1..size |-> body.bytes[i]]], Up(n))

decode_xN(freqs, order, data, n, check) ==
    IF Len(data) < n * 2 THEN Failed
    ELSE With(DecStart(data, n, check), LAMBDA start :
         With(Max({0, start.size - n * LBytes}), LAMBDA size :
         IF ~start.ok THEN Failed
         ELSE With(DecBody(freqs, order, data, n, start, size), LAMBDA body :
              IF ~body.ok THEN Failed
              ELSE With(DecEnd(body, n, size, start.size), LAMBDA end :
                        IF ~end.ok THEN Failed ELSE [read |-> body.at - 1, record |-> end.out]))))

\* encoder::encode: the number of lanes by the record's length.
encode_any(freqs, order, record) ==
    LET n == CHOOSE k \in {1, 2, 4, 8} : /\ k = 8 \/ Len(record) < RECORD_MAX_SIZE ^ k
                                         /\ k > 1 => Len(record) >= RECORD_MAX_SIZE ^ (k \div 2)
    IN  encode_xN(freqs, order, record, n, TRUE)

\* decoder::decode: 8, 4, 2 and 1 lanes are tried, in that order.
decode_any(freqs, order, data) ==
    With([i \in 1..4 |-> decode_xN(freqs, order, data, 2 ^ (4 - i), TRUE)], LAMBDA tries :
    With({i \in 1..4 : tries[i].read > 0}, LAMBDA good : IF good = {} THEN Failed ELSE tries[Min(good)]))

\* The records' functions of the three classes.
encoder_encode(freqs, record) == encode_any(freqs, 0, record)
encoder_o1_encode(freqs, record) == encode_any(freqs, 1, record)
encoder_o2_encode(freqs, record) == encode_any(freqs, 2, record)
decoder_decode(freqs, data) == decode_any(freqs, 0, data)
decoder_o1_decode(freqs, data) == decode_any(freqs, 1, data)
decoder_o2_decode(freqs, data) == decode_any(freqs, 2, data)

----------------------------------------------------------------------------
(* Tables, and the records that carry their own *)

Rows(present, body) == IF \A c \in Symbols : ~present[c] THEN <<0>> ELSE <<1>> \o WriteRuns(present, body)
Present(freqs, ctx) == \E c \in Symbols : freqs[ctx][c] > 0

\* encoder::init and decoder::init.
TableO0(freqs) == Rans64BuildCTable(freqs[<<>>])
ReadTableO0(t) ==
    LET d == Rans64BuildDTable(t, 1) IN [freqs |-> [ctx \in {<<>>} |-> d.val], size |-> d.at - 1]

\* encode and decode (the functions of the namespace): table and data together.
encode(record, low) ==
    With(normalise(0, <<record>>, TOTFREQ, low), LAMBDA freqs : TableO0(freqs) \o encoder_encode(freqs, record))
decode(data) ==
    With(ReadTableO0(data), LAMBDA t :
    With(decoder_decode(t.freqs, SubSeq(data, t.size + 1, Len(data))), LAMBDA r :
        IF r.read = 0 THEN Failed ELSE [read |-> t.size + r.read, record |-> r.record]))

\* A table is replaced by its coded form if that is smaller.
Packed(table, coded) == IF Len(coded) < Len(table) + 1 THEN <<Byte - 1>> \o coded ELSE <<1>> \o table

\* encoder_o1::init.
TableO1(freqs, low) ==
    LET table == Rows([l \in Symbols |-> Present(freqs, <<l>>)], [l \in Symbols |-> Rans64BuildCTable(freqs[<<l>>])])
                 \o Rans64BuildCTable(freqs[<<>>])
    IN  Packed(table, encode(table, low))

\* Rows read at p: with none, the reader goes on behind the 0.
ReadRows(t, p, ReadBody(_)) ==
    IF t[p] = 0 THEN [rows |-> <<>>, at |-> p + 1] ELSE ReadRuns(t, p + 1, ReadBody)

\* decoder_o1::init.
\* What a table is read from: itself, or what its coded form decodes to.
Unpacked(data, decoded) ==
    IF data[1] = Byte - 1 THEN [t |-> decoded.record, size |-> decoded.read + 1] ELSE [t |-> Tail(data), size |-> 0]
SizeOf(u, at) == IF u.size > 0 THEN u.size ELSE at

ReadTableO1(data) ==
    With(Unpacked(data, decode(Tail(data))), LAMBDA u :
    With(ReadRows(u.t, 1, LAMBDA p : Rans64BuildDTable(u.t, p)), LAMBDA o1 :
    With(Rans64BuildDTable(u.t, o1.at), LAMBDA o0 :
        [freqs |-> [ctx \in Contexts(1) |-> IF ctx = <<>> THEN o0.val ELSE Filled(o1.rows, NoCounts)[ctx[1]]],
         size |-> SizeOf(u, o0.at)])))

encode_o1(record, low) ==
    With(normalise(1, <<record>>, TOTFREQ, low), LAMBDA freqs : TableO1(freqs, low) \o encoder_o1_encode(freqs, record))
decode_o1(data) ==
    With(ReadTableO1(data), LAMBDA t :
    With(decoder_o1_decode(t.freqs, SubSeq(data, t.size + 1, Len(data))), LAMBDA r :
        IF r.read = 0 THEN Failed ELSE [read |-> t.size + r.read, record |-> r.record]))

\* encoder_o2::init.
TableO2(freqs, low) ==
    LET Row(a) == Rows([b \in Symbols |-> Present(freqs, <<a, b>>)],
                       [b \in Symbols |-> Rans64BuildCTable(freqs[<<a, b>>])])
                  \o Rans64BuildCTable(freqs[<<a>>])
        table == Rows([a \in Symbols |-> Present(freqs, <<a>>)], [a \in Symbols |-> Row(a)])
                 \o Rans64BuildCTable(freqs[<<>>])
    IN  Packed(table, encode_o1(table, low))

\* decoder_o2::init.
ReadRowO2(t, p) ==
    With(ReadRows(t, p, LAMBDA q : Rans64BuildDTable(t, q)), LAMBDA o2 :
    With(Rans64BuildDTable(t, o2.at), LAMBDA o1 :
        [val |-> [o1 |-> o1.val, o2 |-> Filled(o2.rows, NoCounts)], at |-> o1.at]))
ReadTableO2(data) ==
    With(Unpacked(data, decode_o1(Tail(data))), LAMBDA u :
    With(ReadRows(u.t, 1, LAMBDA p : ReadRowO2(u.t, p)), LAMBDA rows :
    With(Filled(rows.rows, [o1 |-> NoCounts, o2 |-> NoPairs]), LAMBDA all :
    With(Rans64BuildDTable(u.t, rows.at), LAMBDA o0 :
        [freqs |-> [ctx \in Contexts(2) |-> IF ctx = <<>> THEN o0.val
                                            ELSE IF Len(ctx) = 1 THEN all[ctx[1]].o1 ELSE all[ctx[1]].o2[ctx[2]]],
         size |-> SizeOf(u, o0.at)]))))

encode_o2(record, low) ==
    With(normalise(2, <<record>>, TOTFREQ, low), LAMBDA freqs : TableO2(freqs, low) \o encoder_o2_encode(freqs, record))
decode_o2(data) ==
    With(ReadTableO2(data), LAMBDA t :
    With(decoder_o2_decode(t.freqs, SubSeq(data, t.size + 1, Len(data))), LAMBDA r :
        IF r.read = 0 THEN Failed ELSE [read |-> t.size + r.read, record |-> r.record]))
=============================================================================
