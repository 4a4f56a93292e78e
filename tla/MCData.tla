------------------------------- MODULE MCData -------------------------------
(* Bit vectors, integer vectors, entropy coders, stream buffers and string vectors for TLC. *)
EXTENDS RankSelect, FeBitVec, SortedUintVec, EntropyCoders, StreamBuffers, StrVec

VARIABLE part   \* which of the structures a behaviour is about

(* Rank-select: which mixed vector, with how many bits, and whether sizes differ, speed    *)
(* caches are asked for one dimension at a time, and the block may move.                   *)
MixedUse(k, n, b, sz, sp, mv) ==
    [kind |-> k, arity |-> n, bits |-> b, sizes |-> sz, speeds |-> sp, moves |-> mv]

MCUses == {MixedUse("mixed_il", 2, 5, TRUE, FALSE, FALSE), MixedUse("mixed_se", 2, 4, TRUE, FALSE, FALSE),
           MixedUse("mixed_xl", 2, 5, FALSE, TRUE, FALSE), MixedUse("mixed_xl", 3, 2, FALSE, TRUE, FALSE)}
MCHeaders == {<<2, 2>>, <<4, 3>>, <<6, 4>>}
MCUintUses == {<<{0, 1, 3, 12}, 6>>, <<{2, 7}, 10>>, <<{1, 3, 4}, 8>>}

\* Records for the coders: n bytes below m, and n bytes with skewed frequencies.
Mixture(n, m) == [i \in 1..n |-> (i * i + (i \div 3)) % m]
Skewed(n) == [i \in 1..n |-> CHOOSE k \in 0..7 : i < 2 ^ (k + 1) /\ (k = 0 \/ i >= 2 ^ k)]
MCCoderStores == {[records |-> << <<>>, <<5>>, <<5, 5>> >>, low |-> FALSE],
                  [records |-> << Mixture(2, 8), Mixture(7, 3), Mixture(17, 5) >>, low |-> TRUE],
                  [records |-> << Reverse(Skewed(24)), Mixture(20, 7) >>, low |-> FALSE],
                  [records |-> << Mixture(82, 2) >>, low |-> FALSE]}

MCContents == {<<1, 2, 3, 4, 5>>, <<1, 8, 9, 2, 8, 3>>, <<9, 1, 8>>}

\* String vectors: the strings that are pushed, at most how many, and the fixed length or delimiter.
SeqsOf(S, lens) == UNION {[1..n -> S] : n \in lens}
VecUse(k, strs, m, a) == [kind |-> k, strs |-> strs, max |-> m, arg |-> a]
Short == SeqsOf({0, 1}, 0..2)
MCVecUses ==
    {VecUse("sortable", {<<>>, <<0>>, <<0, 1>>, <<1, 0>>}, 3, 0), VecUse("thin", {<<0>>, <<0, 1>>, <<1, 1>>}, 3, 0),
     VecUse("fixed", SeqsOf({0, 1}, {1}), 3, 1), VecUse("fixed", SeqsOf({0, 1}, {2}), 3, 2),
     VecUse("fixed", {<<0, 0, 1>>, <<0, 1, 0>>, <<1, 0, 1>>}, 3, 3),
     VecUse("fixedrev", SeqsOf({0, 1}, {2}), 3, 2), VecUse("fixedrev", {<<0, 0, 1>>, <<1, 0, 1>>}, 3, 3),
     VecUse("sorted", Short, 3, 5), VecUse("revord", Short, 3, 5), VecUse("uint", Short, 3, 0),
     VecUse("revuint", Short, 3, 0), VecUse("zo", Short, 7, 0), VecUse("fstr", Short, 3, 0)}
MCVecProbes == SeqsOf({0, 1}, 0..3)

\* One initial state for the structures a behaviour is not about.
BitsIdle == bvKind = (CHOOSE k \in BitKinds : TRUE) /\ BitsInit
MixedIdle == mxUse = (CHOOSE u \in MixedUses : TRUE) /\ mxBits = [d \in Dims |-> [i \in {0} |-> 0]] /\ MixedInit
FeIdle == feKind = "vec" /\ FeInit
FewIdle == fwP = 1 /\ fwRev = FALSE /\ fwSize = 1 /\ fwRef = {0} /\ FewInit
UintsIdle == suUse = (CHOOSE u \in UintUses : TRUE) /\ suSorted = TRUE /\ UintVecInit
StreamIdle ==
    s = NewBuffer("input", <<1>>, 2, Plenty) /\ want = <<1>> /\ at = 0 /\ reply = NoReply /\ refused = FALSE /\ ioOps = 0
VecIdle == svUse = (CHOOSE u \in VecUses : TRUE) /\ VecInit

Parts == {"bits", "mixed", "few", "febits", "uints", "coders", "streams", "vectors"}

MCInit ==
    /\ part \in Parts
    /\ IF part = "bits" THEN BitsInit ELSE BitsIdle
    /\ IF part = "mixed" THEN MixedInit ELSE MixedIdle
    /\ IF part = "few" THEN FewInit ELSE FewIdle
    /\ IF part = "febits" THEN FeInit ELSE FeIdle
    /\ IF part = "uints" THEN UintVecInit ELSE UintsIdle
    /\ CoderInit
    /\ IF part = "streams" THEN StreamInit ELSE StreamIdle
    /\ IF part = "vectors" THEN VecInit ELSE VecIdle

MCNext ==
    \/ part = "bits" /\ BitsNext /\ UNCHANGED <<part, feVars, mxVars, fewVars, uintVars, coderVars, ioVars, vecVars>>
    \/ part = "mixed" /\ MixedNext /\ UNCHANGED <<part, feVars, bvVars, fewVars, uintVars, coderVars, ioVars, vecVars>>
    \/ part = "few" /\ FewNext /\ UNCHANGED <<part, feVars, bvVars, mxVars, uintVars, coderVars, ioVars, vecVars>>
    \/ part = "febits" /\ FeNext /\ UNCHANGED <<part, bvVars, mxVars, fewVars, uintVars, coderVars, ioVars, vecVars>>
    \/ part = "uints" /\ UintVecNext /\ UNCHANGED <<part, feVars, bvVars, mxVars, fewVars, coderVars, ioVars, vecVars>>
    \/ part = "coders" /\ CoderNext /\ UNCHANGED <<part, feVars, bvVars, mxVars, fewVars, uintVars, ioVars, vecVars>>
    \/ part = "streams" /\ StreamNext /\ UNCHANGED <<part, feVars, bvVars, mxVars, fewVars, uintVars, coderVars, vecVars>>
    \/ part = "vectors" /\ VecNext /\ UNCHANGED <<part, feVars, bvVars, mxVars, fewVars, uintVars, coderVars, ioVars>>

mcVars == <<part, feVars, bvVars, mxVars, fewVars, uintVars, coderVars, ioVars, vecVars>>

MCSpec == MCInit /\ [][MCNext]_mcVars

\* Further configurations: each adds the case that the listed run leaves out.
MCOneIndex == {MixedUse("mixed_il", 2, 3, FALSE, TRUE, FALSE), MixedUse("mixed_se", 2, 3, FALSE, TRUE, FALSE)}
MCMove == {MixedUse("mixed_il", 2, 3, FALSE, FALSE, TRUE)}
MCVecDelim == {VecUse("uint", Short, 3, 1)}
MCVecLong == {VecUse("sortable", {<<0, 0, 1>>, <<0, 0, 1, 0>>, <<1, 0, 0>>, <<0, 1, 0, 0, 1>>}, 3, 0)}

BitsAnySpec ==
    /\ part = "bits" /\ MCInit
    /\ [][(BitsNext \/ MapBitsAny) /\ UNCHANGED <<part, feVars, mxVars, fewVars, uintVars, coderVars, ioVars, vecVars>>]_mcVars
HintSpec ==
    /\ part = "few" /\ MCInit
    /\ [][(FewNext \/ AskSelect \/ AskRuns) /\ UNCHANGED <<part, feVars, bvVars, mxVars, uintVars, coderVars, ioVars, vecVars>>]_mcVars
MCStreamsInit == part = "streams" /\ MCInit
MCStreams(Step) ==
    (StreamNext \/ Step) /\ UNCHANGED <<part, feVars, bvVars, mxVars, fewVars, uintVars, coderVars, vecVars>>
MCSeekSpec == MCStreamsInit /\ [][MCStreams(\E pos \in 0..4 : SeekWithin(pos))]_mcVars
MCStraddleSpec == MCStreamsInit /\ [][MCStreams(\E n \in IoLens : ReadStraddling(n))]_mcVars
MCLosingSpec == MCStreamsInit /\ [][MCStreams(\E n \in IoLens : ReadLosing(n))]_mcVars
MCLineSpec == MCStreamsInit /\ [][MCStreams(LineThrown)]_mcVars
MCRetrySpec == MCStreamsInit /\ [][MCStreams(FlushAgain)]_mcVars
MCZoSpec ==
    /\ part = "vectors" /\ MCInit
    /\ [][((\E str \in svUse.strs : ZoPush(str)) \/ ZoFinishAny)
          /\ UNCHANGED <<part, feVars, bvVars, mxVars, fewVars, uintVars, coderVars, ioVars>>]_mcVars
MCZipSpec ==
    /\ part = "vectors" /\ MCInit
    /\ [][((\E str \in svUse.strs : EntryPush(str)) \/ \E l \in 2..3 : compress_strpool(l))
          /\ UNCHANGED <<part, feVars, bvVars, mxVars, fewVars, uintVars, coderVars, ioVars>>]_mcVars

\* Ranks, selects and runs of every kind of bit vector are those of its bits.
BitVectorsRight ==
    CASE part = "bits" -> RankSelectRight [] part = "mixed" -> DimensionsRight [] part = "few" -> FewRight
      [] part = "febits" -> FeVecRight /\ StaticRight [] OTHER -> TRUE

\* A packed vector of integers gives back its values, and its searches the bounds of a plain array.
IntegersRight == part = "uints" => ReadsBack /\ BoundsRight

\* A vector of strings reads as what was done to it, and its searches give the bounds of a sorted one.
StringsRight == part = "vectors" => VecRight /\ StrBoundsRight
=============================================================================
