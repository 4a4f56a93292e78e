------------------------------- MODULE StrVec -------------------------------
(***************************************************************************)
(* The string vectors of util/: strings side by side in one pool, found by *)
(*   entries  [offset, length, seq_id]   SortableStrVec, SortThinStrVec    *)
(*   a fixed length                      FixedLenStrVec, FixedRevStrVec    *)
(*   an array of offsets                 SortedStrVec, RevOrdStrVec (of    *)
(*                                       minimal width), ...UintTpl (plain *)
(*                                       integers), ZoSortedStrVec (a      *)
(*                                       SortedUintVec), basic_fstrvec     *)
(* The "rev" kinds are pushed in descending order and read backwards.  A   *)
(* string is a sequence of bytes; indexes are the code's, from 0.          *)
(***************************************************************************)
EXTENDS Integers, Sequences, SequencesExt, FiniteSets, FiniteSetsExt

CONSTANTS
    VecUses,     \* {[kind, strs, max, arg]}: up to max strings of the set strs; arg: m_fixlen, uintmask or m_delim_len
    VecProbes,   \* the keys the searches are asked for
    UintLens,    \* the lengths optimize_func has an integer type for ({1, 2, 4, 8})
    ZoUnits,     \* log2_block_units as a count: values of a block of a ZoSortedStrVec (64 or 128)
    ZoAlign,     \* the largest such count (128); searches read two of it at a time
    MaxVecOps    \* operations after the last push that a behaviour does

ASSUME StrVecAssumption ==
    /\ ZoUnits \in Nat \ {0} /\ ZoAlign \in Nat \ {0} /\ ZoAlign % ZoUnits = 0
    /\ MaxVecOps \in Nat /\ \A u \in VecUses : u.max \in Nat

VARIABLES
    svUse,      \* the member of VecUses a behaviour is about
    svPool,     \* m_strpool
    svIndex,    \* m_index: the entries; or the offsets
    svFast,     \* the length the function pointers of a FixedLenStrVec were chosen for, 0: the slow ones
    svWant,     \* what the vector stands for: <<[id, str]>> in the order of the vector
    svOrder,    \* "lex": sorted; "offset", "id": as named; "pushed": as the caller pushed; "finished": a
                \* ZoSortedStrVec whose builder is done
    svOps

vecVars == <<svUse, svPool, svIndex, svFast, svWant, svOrder, svOps>>

EntryKinds == {"sortable", "thin"}
FixedKinds == {"fixed", "fixedrev"}
RevKinds == {"fixedrev", "revord", "revuint"}
OffsetKinds == {"sorted", "uint", "revord", "revuint", "zo", "fstr"}
kind == svUse.kind
fixlen == svUse.arg

VecInit ==
    /\ svUse \in VecUses
    /\ svPool = <<>> /\ svFast = 0 /\ svWant = <<>> /\ svOrder = "pushed" /\ svOps = 0
    /\ svIndex = IF kind \in OffsetKinds THEN <<0>> ELSE <<>>

-----------------------------------------------------------------------------
(* Bytes and searches.                                                     *)

str_less(x, y) ==
    LET diff == {i \in 1..(IF Len(x) < Len(y) THEN Len(x) ELSE Len(y)) : x[i] # y[i]}
    IN  IF diff = {} THEN Len(x) < Len(y) ELSE x[Min(diff)] < y[Min(diff)]
\* memcmp of the first n bytes
memcmp_less(x, y, n) == str_less(SubSeq(x, 1, n), SubSeq(y, 1, n))
\* the bytes [at, at + n) of a pool
PoolBytes(pool, at, n) == SubSeq(pool, at + 1, at + n)
\* memcpy / memmove of the string s to the pool's byte at: what is not overwritten stays
PutBytes(pool, at, s) ==
    SubSeq(pool, 1, at) \o s \o SubSeq(pool, at + Len(s) + 1, Len(pool))
\* a string as the big-endian integer BYTE_SWAP_IF_LITTLE_ENDIAN makes of it
BigEndian(s) == FoldLeft(LAMBDA n, b : 256 * n + b, 0, s)
ZeroPad(s, n) == [i \in 1..n |-> IF i <= Len(s) THEN s[i] ELSE 0]

\* the loop of all the searches: the first position in lo..hi at which Left no longer holds
BinSearch(lo, hi, Left(_)) ==
    LET go[l \in 0..hi, h \in 0..hi] ==
            IF l >= h THEN l
            ELSE IF Left((l + h) \div 2) THEN go[(l + h) \div 2 + 1, h] ELSE go[l, (l + h) \div 2]
    IN  go[lo, hi]

-----------------------------------------------------------------------------
(* Reading.                                                                *)

NumStrs == CASE kind \in EntryKinds -> Len(svIndex)
             [] kind \in FixedKinds -> Len(svPool) \div fixlen
             [] OTHER -> Len(svIndex) - 1

entry_at(idx) == PoolBytes(svPool, svIndex[idx + 1].offset, svIndex[idx + 1].length)
fixed_at(idx) == PoolBytes(svPool, fixlen * idx, fixlen)
fixedrev_at(idx) == PoolBytes(svPool, fixlen * (NumStrs - 1 - idx), fixlen)
offset_at(idx) == PoolBytes(svPool, svIndex[idx + 1], svIndex[idx + 2] - svIndex[idx + 1])
\* m_delim_len bytes at the end of a string are not part of it
uint_at(idx) == PoolBytes(svPool, svIndex[idx + 1], svIndex[idx + 2] - svIndex[idx + 1] - svUse.arg)
\* as the searches of RevOrdStrVec read; its operator[] and nth_size ignore their argument
revord_at(idx) == offset_at(NumStrs - 1 - idx)
revord_nth(idx) == offset_at(Len(svIndex) - 2)
revuint_at(idx) == uint_at(NumStrs - 1 - idx)

StrAt(idx) ==
    CASE kind \in EntryKinds -> entry_at(idx)
      [] kind = "fixed" -> fixed_at(idx)
      [] kind = "fixedrev" -> fixedrev_at(idx)
      [] kind = "uint" -> uint_at(idx)
      [] kind = "revord" -> revord_at(idx)
      [] kind = "revuint" -> revuint_at(idx)
      [] OTHER -> offset_at(idx)

nth_offset(idx) ==
    CASE kind \in EntryKinds -> svIndex[idx + 1].offset
      [] kind = "fixed" -> fixlen * idx
      [] kind = "fixedrev" -> fixlen * (NumStrs - 1 - idx)
      [] kind \in {"revord", "revuint"} -> svIndex[NumStrs - idx]
      [] OTHER -> svIndex[idx + 1]

-----------------------------------------------------------------------------
(* Entries: SortableStrVec; SortThinStrVec has the same text without       *)
(* seq_id (nth_seq_id is the position), compact and compress_strpool.      *)

Entry(at, n, id) == [offset |-> at, length |-> n, seq_id |-> IF kind = "thin" THEN 0 ELSE id]
VecItem(id, s) == [id |-> IF kind = "sortable" THEN id ELSE 0, str |-> s]
endpos(e) == e.offset + e.length
BackEntry == svIndex[Len(svIndex)]
\* no byte belongs to two entries: not so after compress_strpool
Disjoint == \A i, j \in DOMAIN svIndex :
                i < j => endpos(svIndex[i]) <= svIndex[j].offset \/ endpos(svIndex[j]) <= svIndex[i].offset
\* the last entry's bytes end the pool and are its own, as while strings are being pushed
BackIsLast == /\ svIndex # <<>> /\ endpos(BackEntry) = Len(svPool)
              /\ \A i \in 1..(Len(svIndex) - 1) : endpos(svIndex[i]) <= BackEntry.offset

DoOp == svOps < MaxVecOps /\ svOps' = svOps + 1
\* pushes are free until the first operation of another kind
DoPush == svOps < MaxVecOps /\ svOps' = IF svOps = 0 THEN 0 ELSE svOps + 1
VecIs(pool, index, want, order) ==
    svPool' = pool /\ svIndex' = index /\ svWant' = want /\ svOrder' = order /\ UNCHANGED <<svUse, svFast>>
WantBack(s) == [svWant EXCEPT ![Len(svWant)].str = s]
BackStr == svWant[Len(svWant)].str

EntryPush(s) ==
    /\ kind \in EntryKinds /\ Len(svIndex) < svUse.max /\ s \in svUse.strs /\ DoPush
    /\ VecIs(svPool \o s, Append(svIndex, Entry(Len(svPool), Len(s), Len(svIndex))),
             Append(svWant, VecItem(Len(svIndex), s)), "pushed")

EntryPop ==
    /\ kind \in EntryKinds /\ BackIsLast /\ DoOp
    /\ VecIs(SubSeq(svPool, 1, BackEntry.offset), Front(svIndex), Front(svWant), svOrder)

\* back_append; back_grow_no_init and a caller that fills the new bytes is the same
EntryBackAppend(s) ==
    /\ kind \in EntryKinds /\ BackIsLast /\ DoOp
    /\ VecIs(svPool \o s, [svIndex EXCEPT ![Len(svIndex)].length = @ + Len(s)], WantBack(BackStr \o s), "pushed")

EntryBackShrink(n) ==
    /\ kind \in EntryKinds /\ BackIsLast /\ n <= BackEntry.length /\ DoOp
    /\ VecIs(SubSeq(svPool, 1, Len(svPool) - n), [svIndex EXCEPT ![Len(svIndex)].length = @ - n],
             WantBack(SubSeq(BackStr, 1, Len(BackStr) - n)), "pushed")

Reversed(want) == [i \in DOMAIN want |-> [want[i] EXCEPT !.str = Reverse(@)]]
ReverseIn(pool, e) == PutBytes(pool, e.offset, Reverse(PoolBytes(pool, e.offset, e.length)))

EntryReverseKeys ==
    /\ kind \in EntryKinds /\ Disjoint /\ svIndex # <<>> /\ DoOp
    /\ VecIs(FoldLeft(ReverseIn, svPool, svIndex), svIndex, Reversed(svWant),
             IF svOrder = "lex" THEN "pushed" ELSE svOrder)

\* what std::sort may do: any order of equal elements
SortedPerms(seq, Less(_, _)) ==
    {p \in [DOMAIN seq -> DOMAIN seq] :
        IsInjective(p) /\ \A i, j \in DOMAIN seq : i < j => ~Less(seq[p[j]], seq[p[i]])}
Permute(seq, p) == [i \in DOMAIN p |-> seq[p[i]]]
LessStr(x, y) == str_less(PoolBytes(svPool, x.offset, x.length), PoolBytes(svPool, y.offset, y.length))
CompareBy_offset(x, y) == x.offset < y.offset
CompareBy_seq_id(x, y) == x.seq_id < y.seq_id

EntrySort ==
    /\ kind \in EntryKinds /\ DoOp
    /\ \E p \in SortedPerms(svIndex, LessStr) :
          VecIs(svPool, Permute(svIndex, p), Permute(svWant, p), "lex")

EntrySortBy(field) ==
    /\ kind \in EntryKinds /\ (field = "id" => kind = "sortable") /\ DoOp
    /\ \E p \in IF field = "id" THEN SortedPerms(svIndex, CompareBy_seq_id)
                ELSE SortedPerms(svIndex, CompareBy_offset) :
          VecIs(svPool, Permute(svIndex, p), Permute(svWant, p), field)

\* strings moved, one by one, to the end of what is kept of the pool
MoveDown(pool, index) ==
    LET move(acc, e) == [pool |-> PutBytes(acc.pool, acc.at, PoolBytes(acc.pool, e.offset, e.length)),
                         index |-> Append(acc.index, [e EXCEPT !.offset = acc.at]),
                         at |-> acc.at + e.length]
        end == FoldLeft(move, [pool |-> pool, index |-> <<>>, at |-> 0], index)
    IN  [pool |-> SubSeq(end.pool, 1, end.at), index |-> end.index]

\* strings copied, one by one, to a new pool
CopyOut(pool, index) ==
    LET copy(acc, e) == [pool |-> acc.pool \o PoolBytes(pool, e.offset, e.length),
                         index |-> Append(acc.index, [e EXCEPT !.offset = Len(acc.pool)])]
    IN  FoldLeft(copy, [pool |-> <<>>, index |-> <<>>], index)

\* a caller's choice of parts of the strings: all of one, all but its first byte, nothing
Subkeys(seq, choice, Tail1(_)) ==
    FlattenSeq([i \in DOMAIN seq |->
        CASE choice[i] = "all" -> <<seq[i]>> [] choice[i] = "tail" -> <<Tail1(seq[i])>> [] OTHER -> <<>>])
EntryTail(e) == [e EXCEPT !.offset = @ + 1, !.length = @ - 1]
ItemTail(x) == [x EXCEPT !.str = Tail(@)]
SubChoices == {c \in [DOMAIN svIndex -> {"all", "tail", "none"}] :
                \A i \in DOMAIN c : c[i] = "tail" => svIndex[i].length > 0}

EntrySubkeysInPlace_NoSort ==
    /\ kind \in EntryKinds /\ Disjoint /\ DoOp
    /\ \E c \in SubChoices :
       LET v == MoveDown(svPool, Subkeys(svIndex, c, EntryTail))
       IN  VecIs(v.pool, v.index, Subkeys(svWant, c, ItemTail), "pushed")
\* build_subkeys(speed = false) and compact: in place, from the smallest offset up
EntrySubkeysInPlace ==
    /\ kind \in EntryKinds /\ Disjoint /\ DoOp
    /\ \E c \in SubChoices :
       LET index == Subkeys(svIndex, c, EntryTail) IN
       \E p \in SortedPerms(index, CompareBy_offset) :
          LET v == MoveDown(svPool, Permute(index, p))
          IN  VecIs(v.pool, v.index, Permute(Subkeys(svWant, c, ItemTail), p), "offset")

\* build_subkeys(speed = true), or of memory that is not malloc's; make_ascending_offset
EntrySubkeysCopied ==
    /\ kind = "sortable" /\ DoOp
    /\ \E c \in SubChoices :
       LET v == CopyOut(svPool, Subkeys(svIndex, c, EntryTail))
       IN  VecIs(v.pool, v.index, Subkeys(svWant, c, ItemTail), "offset")

make_ascending_offset ==
    /\ kind \in EntryKinds /\ DoOp
    /\ LET v == CopyOut(svPool, svIndex)
       IN  VecIs(v.pool, v.index, svWant, IF svOrder = "lex" THEN "lex" ELSE "offset")

make_ascending_seq_id ==
    /\ kind = "sortable" /\ DoOp
    /\ VecIs(svPool, [i \in DOMAIN svIndex |-> [svIndex[i] EXCEPT !.seq_id = i - 1]],
             [i \in DOMAIN svWant |-> [svWant[i] EXCEPT !.id = i - 1]],
             IF svOrder = "lex" THEN "lex" ELSE "id")

\* erase_if, erase_if2, erase_if3: the entries must be in the order of their offsets (an assert)
EntryEraseIf ==
    /\ kind \in EntryKinds /\ Disjoint /\ DoOp
    /\ \A i, j \in DOMAIN svIndex : i < j => svIndex[i].offset <= svIndex[j].offset
    /\ \E c \in [DOMAIN svIndex -> {"all", "none"}] :
       LET v == MoveDown(svPool, Subkeys(svIndex, c, EntryTail))
       IN  VecIs(v.pool, v.index, Subkeys(svWant, c, ItemTail), svOrder)

EntryClear ==
    /\ kind \in EntryKinds /\ svIndex # <<>> /\ DoOp
    /\ VecIs(<<>>, <<>>, <<>>, "pushed")

-----------------------------------------------------------------------------
(* compress_strpool.  Level 1 lays the strings out in descending order, so *)
(* that a string that is a prefix of the one before it needs no bytes.     *)

Zipped1(index) ==
    LET laid == CopyOut(svPool, index)
        dedup(acc, i) ==
            LET e == laid.index[i]   prev == acc.index[i - 1]
                s == PoolBytes(acc.pool, e.offset, e.length)
            IN  IF prev.length >= e.length /\ s = PoolBytes(acc.pool, prev.offset, e.length)
                THEN [acc EXCEPT !.index = Append(@, [e EXCEPT !.offset = prev.offset])]
                ELSE [pool |-> PutBytes(acc.pool, acc.at, s),
                      index |-> Append(acc.index, [e EXCEPT !.offset = acc.at]),
                      at |-> acc.at + e.length]
        end == FoldLeft(dedup, [pool |-> laid.pool, index |-> <<laid.index[1]>>, at |-> endpos(laid.index[1])],
                        [i \in 1..(Len(index) - 1) |-> i + 1])
    IN  [pool |-> SubSeq(end.pool, 1, end.at), index |-> end.index]

compress_strpool_level_1 ==
    /\ kind = "sortable" /\ svIndex # <<>> /\ DoOp
    /\ \E p \in SortedPerms(svIndex, LessStr) :
       LET v == Zipped1(Reverse(Permute(svIndex, p)))
       IN  VecIs(v.pool, Reverse(v.index), Permute(svWant, p), "lex")

\* The hash chains of levels 2 and 3 are the list seen of <<position, gram>>, oldest first: a
\* collision of hashes makes a chain longer, never a hit of other bytes, and which of several
\* equal places is taken changes no byte that is read.
FirstHit(seen, pool, s, fits(_)) ==
    LET hits == {k \in DOMAIN seen : /\ seen[k][2] = SubSeq(s, 1, Len(seen[k][2])) /\ fits(seen[k][1])
                                     /\ PoolBytes(pool, seen[k][1], Len(s)) = s}
    IN  IF hits = {} THEN -1 ELSE seen[Min(hits)][1]
\* the n-grams of the string s at the positions it gets; those of a gram the list has are left out
Grams(seen, s, n, at, from, Has(_, _)) ==
    FoldLeft(LAMBDA acc, j : LET g == SubSeq(s, j, j + n - 1)
                             IN  IF Has(acc, g) THEN acc ELSE Append(acc, <<at + j - 1, g>>),
             seen, [j \in 1..(Len(s) - n + 1 - from) |-> j + from])

ZipStart(v) == [pool |-> v.pool, index |-> <<>>, at |-> 0, old |-> -1, seen |-> <<>>, seen3 |-> <<>>, max |-> 0, new |-> -1]
ZipAppend(acc, e, s) ==
    [acc EXCEPT !.pool = PutBytes(@, acc.at, s), !.index = Append(@, [e EXCEPT !.offset = acc.at]),
                !.at = @ + e.length]

\* the first loop of level 2: strings of three bytes take the place of a gram that was seen
Zip2First(acc, e) ==
    LET s == PoolBytes(acc.pool, e.offset, e.length)
        hit == FirstHit(acc.seen, acc.pool, s, LAMBDA at : TRUE)
        Has(seen, g) == \E k \in DOMAIN seen :
                            seen[k][2] = g /\ PoolBytes(acc.pool, seen[k][1], 3) = SubSeq(s, 1, 3)
        next == [acc EXCEPT !.old = e.offset]
    IN  CASE e.offset = acc.old ->
               [acc EXCEPT !.index = Append(@, [e EXCEPT !.offset = acc.index[Len(acc.index)].offset])]
          [] e.offset # acc.old /\ e.length <= 3 /\ hit >= 0 ->
               [next EXCEPT !.index = Append(@, [e EXCEPT !.offset = hit])]
          [] e.offset # acc.old /\ e.length <= 3 /\ hit < 0 ->
               ZipAppend([next EXCEPT !.seen = Append(@, <<acc.at, s>>)], e, s)
          [] OTHER -> ZipAppend([next EXCEPT !.seen = Grams(@, s, 3, acc.at, 0, Has)], e, s)

\* the second loop of level 2: strings inside the last long one, and short ones that were seen
Zip2Second(acc, e) ==
    LET s == PoolBytes(acc.pool, e.offset, e.length)
        hit == FirstHit(acc.seen, acc.pool, s, LAMBDA at : at + e.length <= acc.at)
        prefix == IF e.length < 8 THEN e.length ELSE 8
        from == IF e.length <= 8 THEN 1 ELSE 0
        first == IF from = 1 THEN <<<<acc.at, SubSeq(s, 1, 4)>>>> ELSE <<>>
        Has(seen, g) == \E k \in DOMAIN seen : seen[k][2] = g /\ Len(g) = prefix
    IN  CASE acc.old >= 0 /\ e.offset >= acc.old /\ endpos(e) <= acc.old + acc.max ->
               [acc EXCEPT !.index = Append(@, [e EXCEPT !.offset = acc.new + (e.offset - acc.old)])]
          [] ~(acc.old >= 0 /\ e.offset >= acc.old /\ endpos(e) <= acc.old + acc.max) /\ e.length = 3 ->
               ZipAppend(acc, e, s)
          [] ~(acc.old >= 0 /\ e.offset >= acc.old /\ endpos(e) <= acc.old + acc.max)
             /\ e.length \in 4..8 /\ hit >= 0 ->
               [acc EXCEPT !.index = Append(@, [e EXCEPT !.offset = hit])]
          [] OTHER -> ZipAppend([acc EXCEPT !.seen = Grams(@ \o first, s, 4, acc.at, from, Has),
                                            !.max = e.length, !.old = e.offset, !.new = acc.at], e, s)

CompareBy_pos_lenDesc(x, y) == x.offset < y.offset \/ (x.offset = y.offset /\ x.length > y.length)

Zipped2(v, p) ==
    LET one == FoldLeft(Zip2First, ZipStart(v), v.index)
        kept == SubSeq(one.pool, 1, one.at)
        two == FoldLeft(Zip2Second, ZipStart([pool |-> kept]), Permute(one.index, p))
    IN  [pool |-> SubSeq(two.pool, 1, two.at), index |-> two.index]

\* level 3: a string may take the place of bytes of several strings
Zip3Step(acc, e) ==
    LET s == PoolBytes(acc.pool, e.offset, e.length)
        seen == IF e.length < 4 THEN acc.seen3 ELSE acc.seen
        hit == FirstHit(seen, acc.pool, s, LAMBDA at : e.length < 4 \/ at + e.length <= acc.at)
        next == [acc EXCEPT !.old = e.offset]
        with == ZipAppend(next, e, s)
        back == IF acc.index = <<>> THEN 0 ELSE 1   \* grams that begin in the string before
        Always(l, g) == FALSE
    IN  CASE e.offset = acc.old ->
               [acc EXCEPT !.index = Append(@, [e EXCEPT !.offset = acc.index[Len(acc.index)].offset])]
          [] e.offset # acc.old /\ hit >= 0 -> [next EXCEPT !.index = Append(@, [e EXCEPT !.offset = hit])]
          [] e.offset # acc.old /\ hit < 0 /\ e.length < 4 -> [with EXCEPT !.seen3 = Append(@, <<acc.at, s>>)]
          [] OTHER ->
               LET span(n) == PoolBytes(with.pool, acc.at - n, with.at - acc.at + n)
               IN  [with EXCEPT !.seen3 = Grams(@, span(2 * back), 3, acc.at - 2 * back, 0, Always),
                                !.seen = Grams(@, span(3 * back), 4, acc.at - 3 * back, 0, Always)]

compress_strpool(level) ==
    /\ kind = "sortable" /\ svIndex # <<>> /\ DoOp
    /\ \A i \in DOMAIN svIndex : svIndex[i].length >= 3
    /\ \E p \in SortedPerms(svIndex, LessStr) :
       LET one == Zipped1(Reverse(Permute(svIndex, p)))
           v == [pool |-> one.pool, index |-> Reverse(one.index)]
           back == FoldLeft(Zip2First, ZipStart(v), v.index).index
           three == FoldLeft(Zip3Step, ZipStart(v), v.index)
       IN  \/ /\ level = 2
              /\ \E q \in SortedPerms(back, CompareBy_pos_lenDesc) :
                    LET r == Zipped2(v, q)
                    IN  VecIs(r.pool, r.index, Permute(Permute(svWant, p), q), "offset")
           \/ /\ level = 3
              /\ VecIs(SubSeq(three.pool, 1, three.at), three.index, Permute(svWant, p), "lex")

-----------------------------------------------------------------------------
(* FixedLenStrVec and FixedRevStrVec.                                      *)

FixedIs(strs, order) ==
    /\ svPool' = FlattenSeq(strs) /\ svWant' = [i \in DOMAIN strs |-> [id |-> 0, str |-> strs[i]]]
    /\ svOrder' = order /\ UNCHANGED <<svUse, svIndex>>
FixedStrs == [i \in 1..NumStrs |-> fixed_at(i - 1)]

\* push_back throws for a string of another length
FixedPush(s) ==
    /\ kind = "fixed" /\ NumStrs < svUse.max /\ s \in svUse.strs /\ Len(s) = fixlen /\ DoPush
    /\ FixedIs(FixedStrs \o <<s>>, "pushed") /\ UNCHANGED svFast
FixedRevPush(s) ==
    /\ kind = "fixedrev" /\ NumStrs < svUse.max /\ s \in svUse.strs /\ Len(s) = fixlen /\ DoPush
    /\ FixedIs(FixedStrs \o <<s>>, "pushed") /\ UNCHANGED svFast

\* the assert wants two strings
FixedPop ==
    /\ kind = "fixed" /\ Len(svPool) > fixlen /\ DoOp
    /\ FixedIs(Front(FixedStrs), svOrder) /\ UNCHANGED svFast
FixedRevPop ==
    /\ kind = "fixedrev" /\ Len(svPool) > fixlen /\ DoOp
    /\ FixedIs(Front(FixedStrs), svOrder) /\ UNCHANGED svFast

FixedReverseKeys ==
    /\ kind \in FixedKinds /\ svPool # <<>> /\ DoOp
    /\ FixedIs([i \in 1..NumStrs |-> Reverse(FixedStrs[i])], "pushed") /\ UNCHANGED svFast

\* qsort_r with memcmp, or with -memcmp
FixedSort ==
    /\ kind = "fixed" /\ DoOp /\ FixedIs(SortSeq(FixedStrs, str_less), "lex") /\ UNCHANGED svFast
FixedRevSort ==
    /\ kind = "fixedrev" /\ DoOp
    /\ FixedIs(SortSeq(FixedStrs, LAMBDA x, y : str_less(y, x)), "lex") /\ UNCHANGED svFast

FixedClear ==
    /\ kind \in FixedKinds /\ svPool # <<>> /\ DoOp /\ FixedIs(<<>>, "pushed") /\ UNCHANGED svFast

optimize_func ==
    /\ kind \in FixedKinds /\ DoOp /\ svFast' = (IF fixlen \in UintLens THEN fixlen ELSE 0)
    /\ UNCHANGED <<svUse, svPool, svIndex, svWant, svOrder>>

\* swap with an empty vector of strings of another length, and the strings pushed again in the
\* new length: the pointers to the search functions stay
FixedSwap ==
    /\ kind = "fixed" /\ svPool = <<>> /\ DoOp
    /\ svUse' \in {u \in VecUses : u.kind = "fixed" /\ u # svUse}
    /\ UNCHANGED <<svPool, svIndex, svFast, svWant, svOrder>>

\* The functions behind the pointers.  The fast ones read the pool as integers of svFast bytes.
UintAt(mid) == BigEndian(PoolBytes(svPool, svFast * mid, svFast))
Fixed_lower_bound_slow(lo, hi, key, kn) == BinSearch(lo, hi, LAMBDA m : memcmp_less(fixed_at(m), key, kn))
Fixed_upper_bound_slow(lo, hi, key, kn) == BinSearch(lo, hi, LAMBDA m : ~memcmp_less(key, fixed_at(m), kn))
Fixed_lower_bound(lo, hi, key) ==
    BinSearch(lo, hi, LAMBDA m : UintAt(m) < BigEndian(ZeroPad(key, svFast)))
Fixed_upper_bound(lo, hi, key) ==
    BinSearch(lo, hi, LAMBDA m : UintAt(m) <= BigEndian(SubSeq(key, 1, svFast)))

lower_bound_prefix(lo, hi, key) ==
    IF svFast > 0 THEN Fixed_lower_bound(lo, hi, key)
    ELSE Fixed_lower_bound_slow(lo, hi, key, IF Len(key) < fixlen THEN Len(key) ELSE fixlen)
upper_bound_fixed(lo, hi, key) ==
    IF svFast > 0 THEN Fixed_upper_bound(lo, hi, key) ELSE Fixed_upper_bound_slow(lo, hi, key, fixlen)
lower_bound_fixed(lo, hi, key) ==
    IF svFast > 0 THEN Fixed_lower_bound(lo, hi, SubSeq(key, 1, svFast))
    ELSE Fixed_lower_bound_slow(lo, hi, key, fixlen)
upper_bound_prefix(lo, hi, key) ==
    IF svFast = 0 \/ Len(key) < svFast
    THEN Fixed_upper_bound_slow(lo, hi, key, IF Len(key) < fixlen THEN Len(key) ELSE fixlen)
    ELSE Fixed_upper_bound(lo, hi, key)

\* a longer key is above the strings that begin it
fixed_lower_bound(lo, hi, key) ==
    IF Len(key) <= fixlen THEN lower_bound_prefix(lo, hi, key)
    ELSE BinSearch(lo, hi, LAMBDA m : ~memcmp_less(key, fixed_at(m), fixlen))
\* a shorter key is below the strings it begins
fixed_upper_bound(lo, hi, key) ==
    IF Len(key) >= fixlen THEN upper_bound_fixed(lo, hi, key)
    ELSE BinSearch(lo, hi, LAMBDA m : memcmp_less(fixed_at(m), key, Len(key)))

fixed_lower_bound_by_offset(at) == IF at % fixlen = 0 THEN at \div fixlen ELSE at \div fixlen + 1
fixed_upper_bound_by_offset(at) == at \div fixlen + 1
\* positions from the end
fixedrev_lower_bound_by_offset(at) ==
    LET idx == NumStrs - 1 - at \div fixlen IN IF at % fixlen = 0 THEN idx ELSE idx + 1
fixedrev_upper_bound_by_offset(at) == NumStrs - at \div fixlen

RevUintAt(mid) == BigEndian(PoolBytes(svPool, svFast * (Len(svPool) \div svFast - 1 - mid), svFast))
fixedrev_lower_bound(lo, hi, key) == BinSearch(lo, hi, LAMBDA m : str_less(fixedrev_at(m), key))
fixedrev_upper_bound(lo, hi, key) == BinSearch(lo, hi, LAMBDA m : ~str_less(key, fixedrev_at(m)))
fixedrev_lower_bound_fixed(lo, hi, key) ==
    IF svFast > 0 THEN BinSearch(lo, hi, LAMBDA m : RevUintAt(m) < BigEndian(SubSeq(key, 1, svFast)))
    ELSE BinSearch(lo, hi, LAMBDA m : memcmp_less(fixedrev_at(m), key, fixlen))
fixedrev_upper_bound_fixed(lo, hi, key) ==
    IF svFast > 0 THEN BinSearch(lo, hi, LAMBDA m : RevUintAt(m) <= BigEndian(SubSeq(key, 1, svFast)))
    ELSE BinSearch(lo, hi, LAMBDA m : ~memcmp_less(key, fixedrev_at(m), fixlen))

-----------------------------------------------------------------------------
(* Offsets.  The callers push in order, ascending or (rev) descending.     *)

InPushOrder(s) ==
    svWant # <<>> => IF kind \in RevKinds THEN ~str_less(BackStr, s) ELSE ~str_less(s, BackStr)
\* the end of the last string moves with the pool's
OffsetsBack(s) ==
    LET pool == SubSeq(svPool, 1, svIndex[Len(svIndex) - 1]) \o s
    IN  VecIs(pool, [svIndex EXCEPT ![Len(svIndex)] = Len(pool)], WantBack(s), "pushed")
OffsetsPush(s) ==
    VecIs(svPool \o s, Append(svIndex, Len(svPool) + Len(s)), Append(svWant, [id |-> 0, str |-> s]), "pushed")

\* throws when the pool would exceed uintmask()
SortedPush(s) ==
    /\ kind = "sorted" /\ NumStrs < svUse.max /\ s \in svUse.strs /\ InPushOrder(s) /\ DoPush
    /\ Len(svPool) + Len(s) <= svUse.arg /\ OffsetsPush(s)
RevOrdPush(s) ==
    /\ kind = "revord" /\ NumStrs < svUse.max /\ s \in svUse.strs /\ InPushOrder(s) /\ DoPush
    /\ Len(svPool) + Len(s) <= svUse.arg /\ OffsetsPush(s)
\* the delimiters of ...UintTpl go to the offsets, not to the pool
UintPush(s) ==
    /\ kind \in {"uint", "revuint"} /\ NumStrs < svUse.max /\ s \in svUse.strs /\ InPushOrder(s) /\ DoPush
    /\ VecIs(svPool \o s, Append(svIndex, Len(svPool) + Len(s)) \o [i \in 1..svUse.arg |-> 0],
             Append(svWant, [id |-> 0, str |-> s]), "pushed")

\* pop_back of SortedStrVec, of RevOrdStrVec and of ...UintTpl; the assert wants two strings
OffsetsPop ==
    /\ kind \in {"sorted", "revord", "uint", "revuint"} /\ Len(svIndex) > 2 /\ DoOp
    /\ VecIs(SubSeq(svPool, 1, svIndex[Len(svIndex) - 1]), Front(svIndex), Front(svWant), svOrder)

SortedBackAppend(s) ==
    /\ kind = "sorted" /\ Len(svIndex) >= 2 /\ Len(svPool) + Len(s) <= svUse.arg /\ DoOp
    /\ OffsetsBack(BackStr \o s)
RevOrdBackAppend(s) ==
    /\ kind = "revord" /\ Len(svIndex) >= 2 /\ Len(svPool) + Len(s) <= svUse.arg /\ DoOp
    /\ OffsetsBack(BackStr \o s)
UintBackGrow(s) ==
    /\ kind \in {"uint", "revuint"} /\ Len(svIndex) >= 2 /\ DoOp /\ OffsetsBack(BackStr \o s)

SortedBackShrink(n) ==
    /\ kind = "sorted" /\ Len(svIndex) >= 2 /\ Len(offset_at(Len(svIndex) - 2)) >= n /\ DoOp
    /\ OffsetsBack(SubSeq(BackStr, 1, Len(BackStr) - n))
RevOrdBackShrink(n) ==
    /\ kind = "revord" /\ Len(svIndex) >= 2 /\ Len(revord_nth(Len(svIndex) - 2)) >= n /\ DoOp
    /\ OffsetsBack(SubSeq(BackStr, 1, Len(BackStr) - n))

OffsetsReverseKeys ==
    /\ kind \in {"sorted", "revord", "uint", "revuint"} /\ Len(svIndex) >= 2 /\ DoOp
    /\ LET flip(pool, i) ==
               LET n == svIndex[i + 1] - svIndex[i] - (IF kind \in {"uint", "revuint"} THEN svUse.arg ELSE 0)
               IN  PutBytes(pool, svIndex[i], Reverse(PoolBytes(pool, svIndex[i], n)))
       IN  VecIs(FoldLeft(flip, svPool, [i \in 1..(Len(svIndex) - 1) |-> i]), svIndex, Reversed(svWant), "pushed")

offsets_lower_bound(lo, hi, key) == BinSearch(lo, hi, LAMBDA m : str_less(StrAt(m), key))
offsets_upper_bound(lo, hi, key) == BinSearch(lo, hi, LAMBDA m : ~str_less(key, StrAt(m)))
revord_lower_bound(lo, hi, key) == BinSearch(lo, hi, LAMBDA m : str_less(revord_at(m), key))
revord_upper_bound(lo, hi, key) == BinSearch(lo, hi, LAMBDA m : ~str_less(key, revord_at(m)))
\* positions in the array of offsets, also of the kinds that are read backwards
sorted_lower_bound_by_offset(at) == BinSearch(0, NumStrs, LAMBDA m : svIndex[m + 1] < at)
sorted_upper_bound_by_offset(at) == BinSearch(0, NumStrs, LAMBDA m : svIndex[m + 1] <= at)
revord_lower_bound_by_offset(at) == BinSearch(0, Len(svIndex) - 1, LAMBDA m : svIndex[m + 1] < at)
revord_upper_bound_by_offset(at) == BinSearch(0, Len(svIndex) - 1, LAMBDA m : svIndex[m + 1] <= at)
entry_lower_bound_by_offset(at) == BinSearch(0, Len(svIndex), LAMBDA m : svIndex[m + 1].offset < at)
entry_upper_bound_by_offset(at) == BinSearch(0, Len(svIndex), LAMBDA m : svIndex[m + 1].offset <= at)

\* the first string of lo..hi whose byte at pos is above ch
entry_upper_bound_at_pos(lo, hi, pos, ch) ==
    BinSearch(lo, hi, LAMBDA m : svPool[svIndex[m + 1].offset + pos + 1] <= ch)
thin_upper_bound_at_pos(lo, hi, pos, ch) ==
    BinSearch(lo, hi, LAMBDA m : svPool[svIndex[m + 1].offset + pos + 1] <= ch)
fixed_upper_bound_at_pos(lo, hi, pos, ch) == BinSearch(lo, hi, LAMBDA m : svPool[fixlen * m + pos + 1] <= ch)
fixedrev_upper_bound_at_pos(lo, hi, pos, ch) ==
    BinSearch(lo, hi, LAMBDA m : svPool[fixlen * (NumStrs - 1 - m) + pos + 1] <= ch)
sorted_upper_bound_at_pos(lo, hi, pos, ch) ==
    BinSearch(lo, hi, LAMBDA m : svPool[svIndex[m + 1] + pos + 1] <= ch)
uint_upper_bound_at_pos(lo, hi, pos, ch) ==
    BinSearch(lo, hi, LAMBDA m : svPool[svIndex[m + 1] + pos + 1] <= ch)
revord_upper_bound_at_pos(lo, hi, pos, ch) ==
    BinSearch(lo, hi, LAMBDA m : svPool[svIndex[Len(svIndex) - 1 - m] + pos + 1] <= ch)
revuint_upper_bound_at_pos(lo, hi, pos, ch) ==
    BinSearch(lo, hi, LAMBDA m : svPool[svIndex[Len(svIndex) - 1 - m] + pos + 1] <= ch)

entry_lower_bound(key) == BinSearch(0, NumStrs, LAMBDA m : str_less(entry_at(m), key))
entry_upper_bound(key) == BinSearch(0, NumStrs, LAMBDA m : ~str_less(key, entry_at(m)))
entry_find(key) ==
    LET lo == entry_lower_bound(key) IN IF lo < NumStrs /\ entry_at(lo) = key THEN lo ELSE NumStrs
thin_lower_bound(key) == BinSearch(0, Len(svIndex), LAMBDA m : str_less(entry_at(m), key))
thin_upper_bound(key) == BinSearch(0, Len(svIndex), LAMBDA m : ~str_less(key, entry_at(m)))
thin_find(key) ==
    LET lo == thin_lower_bound(key) IN IF lo < Len(svIndex) /\ entry_at(lo) = key THEN lo ELSE Len(svIndex)

entry_max_strlen == Max({0} \cup {svIndex[i].length : i \in DOMAIN svIndex})
\* of the differences of neighbours, m_delim_len less
offsets_max_strlen ==
    Max({0} \cup {svIndex[i] - svIndex[i - 1] : i \in 2..Len(svIndex)})
uint_max_strlen == offsets_max_strlen - svUse.arg

(* basic_fstrvec *)

FstrPush(s) == kind = "fstr" /\ NumStrs < svUse.max /\ s \in svUse.strs /\ DoPush /\ OffsetsPush(s)
FstrBackAppend(s) == kind = "fstr" /\ Len(svIndex) >= 2 /\ DoOp /\ OffsetsBack(BackStr \o s)
\* pop_back, resize(n), erase_all
FstrResize(n) ==
    /\ kind = "fstr" /\ n < NumStrs /\ DoOp
    /\ VecIs(SubSeq(svPool, 1, svIndex[n + 1]), SubSeq(svIndex, 1, n + 1), SubSeq(svWant, 1, n), svOrder)

\* the new offsets are built where the new order was: each is read before it is overwritten
reorder(p) ==
    LET put(acc, i) ==
            LET r == acc.offsets[i]
                s == PoolBytes(svPool, svIndex[r + 1], svIndex[r + 2] - svIndex[r + 1])
            IN  [pool |-> PutBytes(acc.pool, acc.at, s), offsets |-> [acc.offsets EXCEPT ![i] = acc.at],
                 at |-> acc.at + Len(s)]
        n == Len(p)
        end == FoldLeft(put, [pool |-> svPool, offsets |-> Append([i \in 1..n |-> p[i] - 1], 0), at |-> 0],
                        [i \in 1..n |-> i])
    IN  [pool |-> end.pool, offsets |-> [end.offsets EXCEPT ![n + 1] = end.at]]

FstrShuffle ==
    /\ kind = "fstr" /\ NumStrs >= 1 /\ DoOp
    /\ \E p \in {q \in [1..NumStrs -> 1..NumStrs] : IsInjective(q)} :
          VecIs(reorder(p).pool, reorder(p).offsets, Permute(svWant, p), "pushed")
FstrSort ==
    /\ kind = "fstr" /\ NumStrs >= 1 /\ DoOp
    /\ \E p \in SortedPerms([i \in 1..NumStrs |-> offset_at(i - 1)], str_less) :
          VecIs(reorder(p).pool, reorder(p).offsets, Permute(svWant, p), "lex")

(* ZoSortedStrVec: the offsets are read by blocks of ZoUnits values, the   *)
(* last one filled up with its last value.                                 *)

ZoPush(s) ==
    /\ kind = "zo" /\ svOrder = "pushed"
    /\ NumStrs < svUse.max /\ s \in svUse.strs /\ InPushOrder(s) /\ DoPush /\ OffsetsPush(s)

DownTo(x, unit) == (x \div unit) * unit
UpTo(x, unit) == DownTo(x + unit - 1, unit)
zo_get(i) == svIndex[IF i < Len(svIndex) THEN i + 1 ELSE Len(svIndex)]

\* the loop halves a range of more than two blocks of the largest size
zo_narrow(Left(_)) ==
    LET go[l \in 0..NumStrs, h \in 0..NumStrs] ==
            IF DownTo(l, ZoAlign) + 2 * ZoAlign >= UpTo(h, ZoAlign) THEN <<l, h>>
            ELSE IF Left((l + h) \div 2) THEN go[(l + h) \div 2 + 1, h] ELSE go[l, (l + h) \div 2]
    IN  go[0, NumStrs]
\* The blocks of a small range are read into an array.  The end of a string is the value after its
\* offset: behind the blocks that were read it is junk.
search_small_range(range, junk, Left(_)) ==
    LET end(m) == IF m + 1 < UpTo(range[2], ZoUnits) THEN zo_get(m + 1) ELSE junk
    IN  BinSearch(range[1], range[2],
                  LAMBDA m : Left(PoolBytes(svPool, zo_get(m), end(m) - zo_get(m))))
zo_lower_bound(key, junk) ==
    search_small_range(zo_narrow(LAMBDA m : str_less(offset_at(m), key)), junk, LAMBDA s : str_less(s, key))
zo_upper_bound(key, junk) ==
    search_small_range(zo_narrow(LAMBDA m : ~str_less(key, offset_at(m))), junk, LAMBDA s : ~str_less(key, s))

\* in the first block, else by the blocks' first values, else in the block these point to
zo_upper_bound_at_pos(lo, hi, pos, ch) ==
    LET Le(m) == svPool[zo_get(m) + pos + 1] <= ch
        own == DownTo(lo, ZoUnits)
        first == BinSearch(lo, IF own + ZoUnits < hi THEN own + ZoUnits ELSE hi, Le)
        hiBlk == BinSearch(lo \div ZoUnits + 1, UpTo(hi, ZoUnits) \div ZoUnits, LAMBDA b : Le(b * ZoUnits))
        blk == hiBlk - 1
        bound == IF hi < hiBlk * ZoUnits THEN hi ELSE hiBlk * ZoUnits
    IN  CASE (hi - 1) \div ZoUnits = lo \div ZoUnits -> first
          [] (hi - 1) \div ZoUnits # lo \div ZoUnits /\ first < own + ZoUnits -> first
          [] (hi - 1) \div ZoUnits # lo \div ZoUnits /\ first = own + ZoUnits /\ blk = lo \div ZoUnits ->
               hiBlk * ZoUnits
          [] OTHER -> BinSearch(blk * ZoUnits, bound, Le)

\* the blocks of the offsets of the strings' beginnings
zo_max_strlen ==
    Max({0} \cup {zo_get(i) - zo_get(i - 1) : i \in 1..(UpTo(NumStrs, ZoUnits) - 1)})
max_strlen == Max({0} \cup {Len(StrAt(i)) : i \in 0..(NumStrs - 1)})

\* Builder::finish hands the vector over.  The run finishes vectors whose searches and max_strlen read no
\* offset behind the blocks they load; ZoFinishAny finishes every vector.
ZoReadsEnds(key) ==
    LET l == zo_narrow(LAMBDA m : str_less(offset_at(m), key))
        u == zo_narrow(LAMBDA m : ~str_less(key, offset_at(m)))
    IN  l[2] % ZoUnits # 0 /\ u[2] % ZoUnits # 0
ZoFinishAny == kind = "zo" /\ svOrder = "pushed" /\ VecIs(svPool, svIndex, svWant, "finished") /\ UNCHANGED svOps
ZoFinish == kind = "zo" /\ NumStrs % ZoUnits # 0 /\ (\A key \in VecProbes : ZoReadsEnds(key)) /\ ZoFinishAny

-----------------------------------------------------------------------------
EntryOps ==
    \/ \E s \in svUse.strs : EntryPush(s) \/ EntryBackAppend(s)
    \/ \E n \in 0..2 : EntryBackShrink(n)
    \/ EntryPop \/ EntryReverseKeys \/ EntrySort \/ EntrySortBy("offset") \/ EntrySubkeysInPlace
    \/ make_ascending_offset \/ EntryEraseIf \/ EntryClear
SortThinStrVec == kind = "thin" /\ EntryOps
SortableStrVec ==
    /\ kind = "sortable"
    /\ \/ EntryOps \/ EntrySortBy("id") \/ EntrySubkeysCopied \/ make_ascending_seq_id
       \/ compress_strpool_level_1

VecNext ==
    \/ SortableStrVec \/ SortThinStrVec
    \/ \E s \in svUse.strs :
          \/ FixedPush(s) \/ FixedRevPush(s) \/ SortedPush(s) \/ RevOrdPush(s)
          \/ UintPush(s) \/ FstrPush(s) \/ ZoPush(s)
          \/ SortedBackAppend(s) \/ RevOrdBackAppend(s) \/ UintBackGrow(s) \/ FstrBackAppend(s)
    \/ \E n \in 0..2 : SortedBackShrink(n) \/ RevOrdBackShrink(n) \/ FstrResize(n)
    \/ FixedPop \/ FixedRevPop \/ FixedReverseKeys \/ FixedSort \/ FixedRevSort \/ FixedClear \/ optimize_func
    \/ OffsetsPop \/ OffsetsReverseKeys \/ FstrShuffle \/ FstrSort \/ ZoFinish

VecSpec == VecInit /\ [][VecNext]_vecVars

-----------------------------------------------------------------------------
(* The vector reads as what was pushed and done to it: a move inside the   *)
(* pool overwrites no byte another string still needs, and the entries     *)
(* keep their strings and ids through every sort, cut and compression.     *)
VecRight ==
    /\ NumStrs = Len(svWant)
    /\ \A i \in 0..(NumStrs - 1) :
          LET at == IF kind \in RevKinds THEN NumStrs - i ELSE i + 1
          IN  /\ StrAt(i) = svWant[at].str
              /\ kind = "sortable" => svIndex[i + 1].seq_id = svWant[at].id
    /\ svOrder \in {"offset", "id"} /\ kind \in EntryKinds =>
          \A i, j \in DOMAIN svIndex : i < j =>
              IF svOrder = "id" THEN svIndex[i].seq_id <= svIndex[j].seq_id
              ELSE svIndex[i].offset <= svIndex[j].offset

VecSorted == \A i \in 1..(NumStrs - 1) : ~str_less(StrAt(i), StrAt(i - 1))
\* the number of strings of lo..(hi - 1) below the key, or not above it
Below(lo, hi, key) == lo + Cardinality({i \in lo..(hi - 1) : str_less(StrAt(i), key)})
NotAbove(lo, hi, key) == lo + Cardinality({i \in lo..(hi - 1) : ~str_less(key, StrAt(i))})
PrefixOf(s, n) == SubSeq(s, 1, IF n < Len(s) THEN n ELSE Len(s))

Ranges == {<<lo, hi>> \in (0..NumStrs) \X (0..NumStrs) : lo <= hi}
\* strings that agree before pos and have a byte there
AtPos(r, pos, ch) ==
    /\ r[1] < r[2] /\ \A i \in r[1]..(r[2] - 1) :
          /\ pos < Len(StrAt(i)) /\ PrefixOf(StrAt(i), pos) = PrefixOf(StrAt(r[1]), pos)
    /\ StrAt(r[1])[pos + 1] = ch

ZoBoundsRight(key) ==
    \A junk \in 0..Len(svPool) :
        zo_lower_bound(key, junk) = Below(0, NumStrs, key) /\ zo_upper_bound(key, junk) = NotAbove(0, NumStrs, key)

at_pos(lo, hi, pos, ch) ==
    CASE kind = "sortable" -> entry_upper_bound_at_pos(lo, hi, pos, ch)
      [] kind = "thin" -> thin_upper_bound_at_pos(lo, hi, pos, ch)
      [] kind = "fixed" -> fixed_upper_bound_at_pos(lo, hi, pos, ch)
      [] kind = "fixedrev" -> fixedrev_upper_bound_at_pos(lo, hi, pos, ch)
      [] kind = "sorted" -> sorted_upper_bound_at_pos(lo, hi, pos, ch)
      [] kind = "uint" -> uint_upper_bound_at_pos(lo, hi, pos, ch)
      [] kind = "revord" -> revord_upper_bound_at_pos(lo, hi, pos, ch)
      [] kind = "revuint" -> revuint_upper_bound_at_pos(lo, hi, pos, ch)
      [] OTHER -> zo_upper_bound_at_pos(lo, hi, pos, ch)

\* searches of the whole vector
WholeRight(key) ==
    LET n == NumStrs  b == Below(0, n, key)  a == NotAbove(0, n, key)
        found == IF \E i \in 0..(n - 1) : StrAt(i) = key THEN b ELSE n
    IN  /\ kind = "sortable" => entry_lower_bound(key) = b /\ entry_upper_bound(key) = a /\ entry_find(key) = found
        /\ kind = "thin" => thin_lower_bound(key) = b /\ thin_upper_bound(key) = a /\ thin_find(key) = found
        /\ kind = "zo" => ZoBoundsRight(key)
\* searches of a part of it
PartRight(lo, hi, key) ==
    LET b == Below(lo, hi, key)  a == NotAbove(lo, hi, key)  shut == PrefixOf(key, fixlen)
    IN  /\ kind = "fixed" =>
              /\ fixed_lower_bound(lo, hi, key) = b /\ fixed_upper_bound(lo, hi, key) = a
              /\ lower_bound_prefix(lo, hi, key) = Below(lo, hi, shut)
              /\ upper_bound_prefix(lo, hi, key) =
                    lo + Cardinality({i \in lo..(hi - 1) : ~str_less(shut, PrefixOf(StrAt(i), Len(shut)))})
              /\ Len(key) = fixlen => lower_bound_fixed(lo, hi, key) = b /\ upper_bound_fixed(lo, hi, key) = a
        /\ kind = "fixedrev" =>
              /\ fixedrev_lower_bound(lo, hi, key) = b /\ fixedrev_upper_bound(lo, hi, key) = a
              /\ Len(key) = fixlen => /\ fixedrev_lower_bound_fixed(lo, hi, key) = b
                                      /\ fixedrev_upper_bound_fixed(lo, hi, key) = a
        /\ kind \in {"sorted", "uint", "revuint"} =>
              offsets_lower_bound(lo, hi, key) = b /\ offsets_upper_bound(lo, hi, key) = a
        /\ kind = "revord" => revord_lower_bound(lo, hi, key) = b /\ revord_upper_bound(lo, hi, key) = a
PosRight(r, pos, ch) ==
    AtPos(r, pos, ch) =>
        at_pos(r[1], r[2], pos, ch) = r[1] + Cardinality({i \in r[1]..(r[2] - 1) : StrAt(i)[pos + 1] <= ch})
\* the strings that begin before the byte, or not behind it
Begins(Within(_)) == Cardinality({i \in 0..(NumStrs - 1) : Within(nth_offset(i))})
ByOffsetRight(at) ==
    LET low == Begins(LAMBDA o : o < at)  up == Begins(LAMBDA o : o <= at)
    IN  /\ kind \in EntryKinds /\ svOrder = "offset" =>
              entry_lower_bound_by_offset(at) = low /\ entry_upper_bound_by_offset(at) = up
        /\ kind \in {"sorted", "uint"} =>
              sorted_lower_bound_by_offset(at) = low /\ sorted_upper_bound_by_offset(at) = up
        /\ kind \in {"revord", "revuint"} =>
              revord_lower_bound_by_offset(at) = low /\ revord_upper_bound_by_offset(at) = up
        /\ kind = "fixed" /\ at < Len(svPool) =>
              fixed_lower_bound_by_offset(at) = low /\ fixed_upper_bound_by_offset(at) = up
        /\ kind = "fixedrev" /\ at < Len(svPool) =>
              /\ fixedrev_upper_bound_by_offset(at) = NumStrs - Cardinality({i \in 0..(NumStrs - 1) : nth_offset(i) + fixlen <= at})
              /\ at % fixlen = 0 => nth_offset(fixedrev_lower_bound_by_offset(at)) = at

(* Every search of a sorted vector agrees with the definition of lower and *)
(* upper bound, for keys shorter and longer than the strings, for every    *)
(* part of the vector, and whichever function optimize_func has chosen.  A *)
(* ZoSortedStrVec is searched once its builder has finished.               *)
StrBoundsRight == kind # "zo" \/ svOrder = "finished" =>
    /\ VecSorted =>
          /\ \A key \in VecProbes : WholeRight(key)
          /\ \A r \in Ranges :
                /\ \A key \in VecProbes : PartRight(r[1], r[2], key)
                /\ kind # "fstr" => \A pos \in 0..1, ch \in {0, 1} : PosRight(r, pos, ch)
    /\ \A at \in 0..Len(svPool) : ByOffsetRight(at)
    /\ kind \in EntryKinds => entry_max_strlen = max_strlen
    /\ kind \in {"sorted", "revord"} => offsets_max_strlen = max_strlen
    /\ kind \in {"uint", "revuint"} /\ NumStrs > 0 => uint_max_strlen = max_strlen
    /\ kind = "zo" => zo_max_strlen = max_strlen

(* The line that RevOrdStrVec::operator[] has commented out: string idx is *)
(* the one pushed size() - idx - 1 strings after the first.                *)
NthIsNth ==
    kind = "revord" => \A idx \in 0..(NumStrs - 1) : revord_nth(idx) = offset_at(NumStrs - idx - 1)

(* The comment on an assert of compress_strpool_level_2: of two neighbours *)
(* that level 1 gave the same place, the second is not the longer one      *)
(* ("compress_level_1 ensures this").                                      *)
LevelOneEnsures ==
    kind \in EntryKinds /\ svOrder = "lex" =>
        \A i \in 2..Len(svIndex) :
            svIndex[i].offset = svIndex[i - 1].offset /\ svIndex[i].length > 0
                => svIndex[i].length <= svIndex[i - 1].length
=============================================================================
