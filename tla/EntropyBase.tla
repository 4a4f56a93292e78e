---------------------------- MODULE EntropyBase ----------------------------
(***************************************************************************)
(* What the entropy coders share: the histograms of a set of records       *)
(* (entropy/entropy_base.cpp), their normalisation to a fixed total, and   *)
(* the tables of frequencies that precede the coded data (written and read *)
(* by entropy/rans_encoding.cpp and entropy/huffman_encoding.cpp).         *)
(*                                                                         *)
(* A byte has ByteBits bits (8 in the code), a record is a sequence of     *)
(* bytes.  The o1_ counters that save memory have CountBits bits (8).      *)
(***************************************************************************)
EXTENDS Integers, Sequences, SequencesExt, FiniteSets, FiniteSetsExt, Functions, TLC

CONSTANTS ByteBits, CountBits

ASSUME EntropyAssumption == ByteBits \in Nat \ {0} /\ CountBits \in Nat \ {0}

Byte == 2 ^ ByteBits
Half == Byte \div 2
Symbols == 0..(Byte - 1)
None == Byte      \* the context before the first byte: 256

\* Body(value), with value evaluated first and once (TLC would evaluate a function anew
\* at each application; the comparison makes it a table).
With(value, Body(_)) == CHOOSE r \in {Body(v) : v \in {w \in {value} : w = w}} : TRUE

\* FoldLeft, in time linear in the sequence and in blocks, so that no recursion is deep.
Along(op(_, _), base, elems) ==
    With(elems, LAMBDA seq :
        LET Part(value, from, to) ==
                LET at[i \in Nat] == IF i = from THEN value ELSE With(at[i - 1], LAMBDA v : op(v, seq[i]))
                IN  at[to]
            block[k \in Nat] ==
                IF k = 0 THEN base
                ELSE With(block[k - 1], LAMBDA v : Part(v, 16 * (k - 1), Min({16 * k, Len(seq)})))
        IN  block[(Len(seq) + 15) \div 16])

Total(h) == SumFunctionOnSet(h, Symbols)

----------------------------------------------------------------------------
(* Histograms *)

NoCounts == [c \in Symbols |-> 0]
NoPairs == [l \in Symbols |-> NoCounts]

\* freq_hist::add_record and finish: four readers count a quarter of the record each.
HistO0(records) ==
    [c \in Symbols |-> Along(LAMBDA n, r : n + Cardinality({i \in DOMAIN r : r[i] = c}), 0, records)]

\* One more pair: the narrow counter o1_, which wraps, carries into hist_.o1.
CountPair(h, l, c) ==
    IF h.narrow[l][c] = 2 ^ CountBits - 1
    THEN [h EXCEPT !.narrow[l][c] = 0, !.o1[l][c] = @ + 2 ^ CountBits]
    ELSE [h EXCEPT !.narrow[l][c] = @ + 1]

\* freq_hist_o1::add_record: the first byte counts for o0, every other one for the byte before it.
AddRecordO1(h, r) ==
    IF r = <<>> THEN h
    ELSE Along(LAMBDA g, i : CountPair(g, r[i - 1], r[i]), [h EXCEPT !.o0[r[1]] = @ + 1],
                  [k \in 1..(Len(r) - 1) |-> k + 1])

\* add_hist: the sums of two histograms that are not finished.
AddHistO1(h, g) ==
    [h EXCEPT !.o0 = [c \in Symbols |-> @[c] + g.o0[c]],
              !.o1 = [l \in Symbols |-> [c \in Symbols |-> @[l][c] + g.o1[l][c] + g.narrow[l][c]]]]

\* freq_hist_o1::finish.
FinishO1(h) ==
    LET o1 == [l \in Symbols |-> [c \in Symbols |-> h.o1[l][c] + h.narrow[l][c]]] IN
    [o1 |-> o1,
     o0 |-> [c \in Symbols |-> h.o0[c] + SumFunctionOnSet([l \in Symbols |-> o1[l][c]], Symbols)]]

EmptyO1 == [o0 |-> NoCounts, o1 |-> NoPairs, narrow |-> NoPairs]

\* The records are counted by two histograms, as by two threads, and added.
HistO1(records) ==
    LET n == Len(records) \div 2
        Count(rs) == Along(AddRecordO1, EmptyO1, rs)
    IN  FinishO1(AddHistO1(Count(SubSeq(records, n + 1, Len(records))), Count(SubSeq(records, 1, n))))

\* freq_hist_o2: the first byte counts for o0, the second for o1, every other one for the two before it.
AddRecordO2(h, r) ==
    LET first == IF r = <<>> THEN h ELSE [h EXCEPT !.o0[r[1]] = @ + 1]
        second == IF Len(r) < 2 THEN first ELSE [first EXCEPT !.o1[r[1]][r[2]] = @ + 1]
    IN  Along(LAMBDA g, i : [g EXCEPT !.o2[r[i - 2]][r[i - 1]][r[i]] = @ + 1], second,
              [k \in 1..Max({0, Len(r) - 2}) |-> k + 2])
HistO2(records) ==
    With(Along(AddRecordO2, [o0 |-> NoCounts, o1 |-> NoPairs, o2 |-> [a \in Symbols |-> NoPairs]], records), LAMBDA h :
    With([b \in Symbols |-> [c \in Symbols |->
             h.o1[b][c] + SumFunctionOnSet([a \in Symbols |-> h.o2[a][b][c]], Symbols)]], LAMBDA o1 :
         [o2 |-> h.o2, o1 |-> o1,
          o0 |-> [c \in Symbols |-> h.o0[c] + SumFunctionOnSet([b \in Symbols |-> o1[b][c]], Symbols)]]))

----------------------------------------------------------------------------
(* normalise_hist: the counts are scaled to a sum of norm, none that is not zero becomes zero. *)

\* The loops that hand out (step 1) or take back (step -1) t units in turn, to the symbols of seq
\* whose count is above floor.
HandOut(h, seq, t0, floor, step) ==
    LET Turn[i \in 0..(Len(seq) - 1), t \in 0..t0, n \in Nat] ==
            IF t = 0 THEN NoCounts
            ELSE LET c == seq[i + 1]
                     next == (i + 1) % Len(seq)
                     rounds == n \div Len(seq)       \* how often the loop has come by
                     now == h[c] + step * rounds
                 IN  IF now > floor
                     THEN LET rest == Turn[next, t - 1, n + 1] IN [rest EXCEPT ![c] = @ + step]
                     ELSE Turn[next, t, n + 1]
    IN  LET given == Turn[0, t0, 0] IN [c \in Symbols |-> h[c] + given[c]]

\* The symbols in the order of rank, equal ones in their own order.
ByRank(rank) ==
    [i \in 1..Byte |->
        CHOOSE c \in Symbols :
            Cardinality({d \in Symbols : rank[d] < rank[c] \/ (rank[d] = rank[c] /\ d < c)}) = i - 1]

\* p is norm / size in double precision: low says that exact products come out one less.
\* The extra units t0 count as given before anything is handed out.  Which symbols come first
\* among equals is the sort's choice; here the smaller one.
Normalised(h, norm, low, t0) ==
    LET Scale(n, q, size) == IF low /\ q * size = n * norm THEN q - 1 ELSE q
        Scaled(size) == [c \in Symbols |-> IF h[c] = 0 THEN 0 ELSE Max({1, Scale(h[c], (h[c] * norm) \div size, size)})]
        First(rank, n) == SubSeq(ByRank(rank), 1, Min({n, Byte}))
        Down(scaled) == [c \in Symbols |-> -scaled[c]]
        Up(scaled) == [c \in Symbols |-> IF scaled[c] <= 1 THEN norm + 1 ELSE scaled[c]]
        Fit(scaled, t) ==
            IF t < norm THEN HandOut(scaled, First(Down(scaled), norm - t), norm - t, 0, 1)
            ELSE IF t > norm THEN HandOut(scaled, First(Up(scaled), t - norm), t - norm, 1, -1)
            ELSE scaled
    IN  IF Total(h) = 0 THEN h ELSE With(Scaled(Total(h)), LAMBDA scaled : Fit(scaled, Total(scaled) + t0))

Alone(h) == Cardinality({c \in Symbols : h[c] # 0}) = 1

\* s == 1: a symbol that is alone gets one unit less than norm.
normalise_hist(h, norm, low) == Normalised(h, norm, low, IF Alone(h) THEN 1 ELSE 0)

\* The counts of the bytes that follow a context: <<>> in a record's (or a lane's) first place,
\* then the last one or two bytes.  Order 1 keeps o0 and o1, order 2 o0, o1 and o2.
Contexts(order) == UNION {[1..k -> Symbols] : k \in 0..order}
Counts(order, records) ==
    CASE order = 0 -> [ctx \in Contexts(0) |-> HistO0(records)]
      [] order = 1 -> With(HistO1(records), LAMBDA h : [ctx \in Contexts(1) |-> IF ctx = <<>> THEN h.o0 ELSE h.o1[ctx[1]]])
      [] order = 2 -> With(HistO2(records), LAMBDA h :
                          [ctx \in Contexts(2) |-> IF ctx = <<>> THEN h.o0
                                                   ELSE IF Len(ctx) = 1 THEN h.o1[ctx[1]] ELSE h.o2[ctx[1]][ctx[2]]])

\* normalise of the three histograms.
normalise(order, records, norm, low) ==
    With(Counts(order, records), LAMBDA h : [ctx \in Contexts(order) |-> normalise_hist(h[ctx], norm, low)])

----------------------------------------------------------------------------
(* Tables *)

\* The entries of the symbols that are present, in order.  A symbol is written unless it
\* follows from a run: the second symbol of a run is followed by the number of those behind it.
WriteRuns(present, body) ==
    LET RunEnd(j) == Min({k \in (j + 1)..Byte : k = Byte \/ ~present[k]})
        Write[j \in 0..Byte, run \in 0..Byte] ==
            IF j = Byte THEN <<0>>
            ELSE IF ~present[j] THEN Write[j + 1, run]
            ELSE IF run > 0 THEN body[j] \o Write[j + 1, run - 1]
            ELSE IF j > 0 /\ present[j - 1]
                 THEN LET n == RunEnd(j) - (j + 1) IN <<j, n>> \o body[j] \o Write[j + 1, n]
                 ELSE <<j>> \o body[j] \o Write[j + 1, 0]
    IN  Write[0, 0]

\* The loop that reads them back; ReadBody(p) is what an entry at place p holds and where it ends.
ReadRuns(t, p0, ReadBody(_)) ==
    LET Read[p \in Nat, j \in Nat, run \in Nat] ==
            LET b == ReadBody(p)
                next == t[b.at]
                Go(at, k, r) ==
                    IF k = 0 THEN [at |-> at, rows |-> (j :> b.val)]
                    ELSE LET m == Read[at, k, r] IN [at |-> m.at, rows |-> (j :> b.val) @@ m.rows]
            IN  IF run = 0 /\ j + 1 = next THEN Go(b.at + 2, next, t[b.at + 1])
                ELSE IF run > 0 THEN Go(b.at, j + 1, run - 1)
                ELSE Go(b.at + 1, next, 0)
    IN  Read[p0 + 1, t[p0], 0]

\* A frequency takes one byte or two.
FreqBytes(f) == IF f < Half THEN <<f>> ELSE <<Half + ((f \div Byte) % Half), f % Byte>>
ReadFreq(t, p) ==
    IF t[p] < Half THEN [val |-> t[p], at |-> p + 1]
    ELSE [val |-> (t[p] - Half) * Byte + t[p + 1], at |-> p + 2]

FreqTable(freq) == WriteRuns([c \in Symbols |-> freq[c] > 0], [c \in Symbols |-> FreqBytes(freq[c])])
ReadFreqTable(t, p) == ReadRuns(t, p, LAMBDA q : ReadFreq(t, q))

\* What was not in a table.
Filled(rows, default) == [c \in Symbols |-> IF c \in DOMAIN rows THEN rows[c] ELSE default]
=============================================================================
