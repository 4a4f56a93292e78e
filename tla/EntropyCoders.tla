--------------------------- MODULE EntropyCoders ---------------------------
(***************************************************************************)
(* The entropy coders as the blob stores use them: the records of a store  *)
(* are counted, the encoder of the counts writes its table, each record is *)
(* encoded by it, and a decoder that has the table only reads the record   *)
(* back.  Where lanes is 0 the range coder finds the number of lanes       *)
(* itself.                                                                 *)
(***************************************************************************)
EXTENDS Rans, Huffman

CONSTANT Stores       \* [records, low]: the records of a store, and whether the products that scale its
                      \* counts come out low

VARIABLES
    coder,    \* [kind, order, lanes, records, freqs, codes]; codes are Huffman's
    table,    \* the encoder's table
    sent,     \* the record that was encoded, and its code
    got       \* what the decoder made of it

coderVars == <<coder, table, sent, got>>

NoCoder == [kind |-> "none"]
Nothing == [record |-> <<>>, data |-> <<>>]
Unread == [ok |-> FALSE]

CoderInit ==
    /\ coder = NoCoder
    /\ table = <<>>
    /\ sent = Nothing
    /\ got = Unread

\* Which encoders there are.
Kinds == [kind : {"rans"}, order : 0..2, lanes : {0, 1, 2, 4, 8}]
         \cup [kind : {"huffman"}, order : {0}, lanes : {1}]
         \cup [kind : {"huffman"}, order : {1}, lanes : {1, 2, 4, 8}]

\* The counts are normalised and the encoder's table is built.
BuildEncoder(k, records, low) ==
    /\ coder = NoCoder
    /\ \E f \in {normalise(k.order, records, IF k.kind = "rans" THEN TOTFREQ ELSE NORMALISE, low)} :
        /\ coder' = [kind |-> k.kind, order |-> k.order, lanes |-> k.lanes, records |-> records, freqs |-> f,
                      codes |-> IF k.kind = "rans" THEN <<>> ELSE Codes(f)]
        /\ table' = IF k.kind = "rans"
                    THEN CASE k.order = 0 -> TableO0(f) [] k.order = 1 -> TableO1(f, low) [] k.order = 2 -> TableO2(f, low)
                    ELSE IF k.order = 0 THEN HuffTableO0(f) ELSE HuffTableO1(f, low)
    /\ UNCHANGED <<sent, got>>

Code(record) ==
    IF coder.kind = "rans"
    THEN IF coder.lanes = 0 THEN encode_any(coder.freqs, coder.order, record)
         ELSE encode_xN(coder.freqs, coder.order, record, coder.lanes, FALSE)
    ELSE EntropyBitsToBytes(IF coder.lanes = 1 THEN bitwise_encode(coder.codes, coder.order, record)
                            ELSE bitwise_encode_xN(coder.codes, coder.order, record, coder.lanes))

\* A record is encoded; one too long for the lanes has no code.
EncodeRecord ==
    /\ coder # NoCoder /\ (sent = Nothing \/ got # Unread)
    /\ \E i \in DOMAIN coder.records :
          \E data \in {Code(coder.records[i])} :
              /\ data # <<>>
              /\ sent' = [record |-> coder.records[i], data |-> data]
    /\ got' = Unread
    /\ UNCHANGED <<coder, table>>

\* The tables a decoder is made of, and how long the table is.
Decoder ==
    IF coder.kind = "rans"
    THEN CASE coder.order = 0 -> ReadTableO0(table \o sent.data)
           [] coder.order = 1 -> ReadTableO1(table \o sent.data)
           [] coder.order = 2 -> ReadTableO2(table \o sent.data)
    ELSE IF coder.order = 0 THEN ReadHuffTableO0(table \o sent.data)
         ELSE [freqs |-> ReadHuffTableO1(table), size |-> Len(table)]

Decoded(d) ==
    IF coder.kind = "rans"
    THEN With(IF coder.lanes = 0 THEN decode_any(d.freqs, coder.order, sent.data)
              ELSE decode_xN(d.freqs, coder.order, sent.data, coder.lanes, FALSE), LAMBDA r :
              [ok |-> r.read > 0, record |-> r.record, read |-> r.read, tableSize |-> d.size])
    ELSE With(EntropyBytesToBits(sent.data), LAMBDA bits :
         With(Codes(d.freqs), LAMBDA codes :
         With(IF coder.lanes = 1 THEN bitwise_decode(codes, coder.order, bits)
              ELSE bitwise_decode_xN(codes, bits, coder.lanes), LAMBDA r :
              [ok |-> r.ok, record |-> r.record, read |-> Len(sent.data), tableSize |-> d.size])))

DecodeRecord ==
    /\ sent # Nothing /\ got = Unread
    /\ got' = With(Decoder, Decoded)
    /\ UNCHANGED <<coder, table, sent>>

CoderNext ==
    \/ \E k \in Kinds, store \in Stores : BuildEncoder(k, store.records, store.low)
    \/ EncodeRecord
    \/ DecodeRecord

CoderSpec == CoderInit /\ [][CoderNext]_coderVars

\* A decoder that knows the table only gives the record back, to the last byte, and says how long the
\* table and the data were (rANS_static_64 and Huffman, encode_x* and decode_x*, all orders and lanes).
RoundTrip ==
    got # Unread => /\ got.ok
                    /\ got.record = sent.record
                    /\ got.read = Len(sent.data)
                    /\ got.tableSize = Len(table)
=============================================================================
