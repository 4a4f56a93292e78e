------------------------- MODULE CsppReclaimProofs -------------------------
(***************************************************************************)
(* Proofs about CsppReclaim, for every set of tokens and nodes and every   *)
(* bound on verseq.                                                        *)
(***************************************************************************)
EXTENDS CsppReclaim, SequenceTheorems, TLAPS

\* Ages never run ahead of the verseqs that have been given out.
AgesBounded ==
    /\ dummy_min_age <= tail_verseq
    /\ \A t \in Tokens : min_age[t] <= tail_verseq

\* The inductive invariant of the epochs.
EpochInv == EpochTypeOK /\ Places /\ MinAgeSafe /\ AgesBounded

\* The initial state of the epochs satisfies their invariant.
LEMMA EpochInvInit == EpochInit => EpochInv
  BY DEF EpochInit, EpochInv, EpochTypeOK, Places, MinAgeSafe, AgesBounded

\* Every step of a token preserves the invariant of the epochs.
LEMMA EpochInvNext == EpochInv /\ EpochNext => EpochInv'
<1> SUFFICES ASSUME EpochInv, NEW t \in Tokens,
                    \/ Acquire(t) \/ Resume(t) \/ Leave(t) \/ Unlink(t) \/ Clear(t)
                    \/ TellTrie(t) \/ TellToken(t) \/ Remember(t) \/ Requeue(t) \/ MoveIdle(t)
             PROVE  EpochInv'
  BY DEF EpochNext
<1> USE DEF EpochInv, EpochTypeOK, Places, MinAgeSafe, AgesBounded
<1>1. CASE Acquire(t)
  BY <1>1 DEF Acquire, ToTail
<1>2. CASE Resume(t)
  BY <1>2 DEF Resume
<1>3. CASE Leave(t)
  BY <1>3 DEF Leave
<1>4. CASE Unlink(t)
  BY <1>4 DEF Unlink
<1>5. CASE Clear(t)
  BY <1>5 DEF Clear
<1>6. CASE Remember(t)
  BY <1>6 DEF Remember, Oldest
<1>7. CASE Requeue(t)
  BY <1>7 DEF Requeue, ToTail
<1>8. CASE TellTrie(t) \/ TellToken(t)
  BY <1>8 DEF TellTrie, TellToken, Oldest
<1>9. CASE MoveIdle(t)
  BY <1>9 DEF MoveIdle, ToTail, Oldest
<1> QED
  BY <1>1, <1>2, <1>3, <1>4, <1>5, <1>6, <1>7, <1>8, <1>9

\* A step that leaves the tokens alone preserves the invariant of the epochs.
LEMMA EpochInvStutter == EpochInv /\ UNCHANGED epochVars => EpochInv'
  BY DEF EpochInv, EpochTypeOK, Places, MinAgeSafe, AgesBounded, epochVars

\* The epochs alone are safe: no min_age is ahead of a linked token.
THEOREM EpochSafety == EpochSpec => []MinAgeSafe
<1>1. EpochInv /\ [EpochNext]_epochVars => EpochInv'
  BY EpochInvNext, EpochInvStutter
<1>2. EpochInv => MinAgeSafe
  BY DEF EpochInv
<1> QED
  BY EpochInvInit, <1>1, <1>2, PTL DEF EpochSpec

\* No min_age ever goes back.
THEOREM EpochMonotone == EpochSpec => AgesOnlyGrow
<1> DEFINE Grow == /\ dummy_min_age <= dummy_min_age'
                   /\ \A t \in Tokens : min_age[t] <= min_age'[t]
<1>1. EpochInv /\ EpochNext => Grow
  <2> SUFFICES ASSUME EpochInv, NEW t \in Tokens,
                      \/ Acquire(t) \/ Resume(t) \/ Leave(t) \/ Unlink(t) \/ Clear(t)
                      \/ TellTrie(t) \/ TellToken(t) \/ Remember(t) \/ Requeue(t) \/ MoveIdle(t)
               PROVE  Grow
    BY DEF EpochNext
  <2> USE DEF EpochInv, EpochTypeOK, Places, MinAgeSafe, AgesBounded
  <2>1. CASE Acquire(t) \/ Resume(t) \/ Leave(t) \/ Unlink(t) \/ Clear(t) \/ Requeue(t)
    BY <2>1 DEF Acquire, Resume, Leave, Unlink, Clear, Requeue
  <2>2. CASE TellTrie(t) \/ TellToken(t) \/ Remember(t)
    BY <2>2 DEF TellTrie, TellToken, Remember
  <2>3. CASE MoveIdle(t)
    BY <2>3 DEF MoveIdle
  <2> QED
    BY <2>1, <2>2, <2>3
<1>2. EpochInv /\ [EpochNext]_epochVars => EpochInv'
  BY EpochInvNext, EpochInvStutter
<1> QED
  BY EpochInvInit, <1>1, <1>2, PTL DEF EpochSpec, AgesOnlyGrow

----------------------------------------------------------------------------
(* The nodes *)

\* Only a thread in use holds anything.
ReachInUse == \A t \in Tokens : reach[t] # {} => inuse[t]

\* What a thread holds is in the trie or on a lazy free list.
ReachKept ==
    \A t \in Tokens : \A n \in reach[t] :
        n \in live \/ \E w \in Writers : \E i \in 1..Len(lazy[w]) : lazy[w][i].node = n

\* A node of the trie is on no lazy free list.
LiveNotRetired == \A w \in Writers : \A i \in 1..Len(lazy[w]) : lazy[w][i].node \notin live

\* Why a retired node that somebody holds is not freed: its writer has not learned a
\* min_age beyond the node's age, and cannot, since either the writer's own place is not
\* beyond it or the holder is ahead of the writer in the queue.
Protected ==
    \A t \in Tokens : \A w \in Writers : \A i \in 1..Len(lazy[w]) :
        lazy[w][i].node \in reach[t] =>
            /\ min_age[w] <= lazy[w][i].age
            /\ verseq[w] <= lazy[w][i].age \/ (t # w /\ verseq[t] < verseq[w])

NodeInv == ReclaimTypeOK /\ EpochInv /\ ReachInUse /\ ReachKept /\ LiveNotRetired /\ Protected

\* What an item of a lazy free list is.
LEMMA ItemType ==
  ASSUME ReclaimTypeOK, NEW w \in Writers, NEW i \in 1..Len(lazy[w])
  PROVE  /\ lazy[w] \in Seq([age : Nat, node : Nodes])
         /\ lazy[w][i].age \in Nat /\ lazy[w][i].node \in Nodes
<1>1. lazy[w] \in Seq([age : Nat, node : Nodes])
  BY DEF ReclaimTypeOK
<1>2. lazy[w][i] \in [age : Nat, node : Nodes]
  BY <1>1, ElementOfSeq
<1> QED
  BY <1>1, <1>2

\* The invariant in the form the property has.
LEMMA NodeInvSafe == NodeInv => NoUseAfterFree
<1> SUFFICES ASSUME NodeInv, NEW t \in Tokens, NEW n \in reach[t], n \in Free
             PROVE  FALSE
  BY DEF NoUseAfterFree
<1>1. n \notin live /\ \A w \in Writers : n \notin Retired(w)
  BY DEF Free
<1>2. PICK w \in Writers : \E i \in 1..Len(lazy[w]) : lazy[w][i].node = n
  BY <1>1 DEF NodeInv, ReachKept
<1>3. lazy[w] \in Seq([age : Nat, node : Nodes])
  BY DEF NodeInv, ReclaimTypeOK
<1>4. DOMAIN lazy[w] = 1..Len(lazy[w])
  BY <1>3
<1> QED
  BY <1>1, <1>2, <1>4 DEF Retired

\* The initial state satisfies the invariant.
LEMMA NodeInvInit == Init => NodeInv
<1> SUFFICES ASSUME Init PROVE NodeInv
  OBVIOUS
<1>1. EpochInv
  BY EpochInvInit DEF Init
<1>2. ReclaimTypeOK
  <2>1. <<>> \in Seq([age : Nat, node : Nodes])
    OBVIOUS
  <2> QED
    BY <1>1, <2>1 DEF Init, ReclaimTypeOK, EpochInv
<1>3. \A w \in Writers : Len(lazy[w]) = 0
  BY DEF Init
<1>4. ReachInUse /\ ReachKept /\ LiveNotRetired /\ Protected
  BY <1>3 DEF Init, ReachInUse, ReachKept, LiveNotRetired, Protected
<1> QED
  BY <1>1, <1>2, <1>4 DEF NodeInv

\* Steps of the tokens: the lists stay, and a thread's reach stays, is emptied or is
\* the trie as it is now.
LEMMA NodeInvTokenStep ==
  ASSUME NodeInv, NEW t \in Tokens,
         AcquireToken(t) \/ LeaveToken(t) \/ MoveToken(t) \/ InsertUpdate(t) \/ IdleUpdate(t)
  PROVE  NodeInv'
<1> USE ReclaimAssumption
<1>1. /\ UNCHANGED <<live, lazy>>
      /\ reach' \in {reach, [reach EXCEPT ![t] = live], [reach EXCEPT ![t] = {}]}
  BY DEF AcquireToken, LeaveToken, MoveToken, InsertUpdate, IdleUpdate, Restart, Forget, nodeVars
<1>2. EpochNext
  BY DEF AcquireToken, LeaveToken, MoveToken, InsertUpdate, IdleUpdate, EpochNext
<1>3. EpochInv'
  BY <1>2, EpochInvNext DEF NodeInv
<1>4. ReclaimTypeOK'
  BY <1>1, <1>3 DEF NodeInv, ReclaimTypeOK, EpochInv
<1>5. ReachInUse'
  BY DEF AcquireToken, LeaveToken, MoveToken, InsertUpdate, IdleUpdate, Restart, Forget,
         nodeVars, Acquire, Resume, Leave, Unlink, Clear, TellTrie, TellToken, Remember, Requeue, MoveIdle,
         NodeInv, ReachInUse, ReclaimTypeOK, EpochTypeOK
<1>6. ReachKept' /\ LiveNotRetired'
  BY <1>1 DEF NodeInv, ReachKept, LiveNotRetired, ReclaimTypeOK
<1>7. Protected'
  <2> SUFFICES ASSUME NEW u \in Tokens, NEW w \in Writers, NEW i \in 1..Len(lazy[w]),
                      lazy[w][i].node \in reach'[u]
               PROVE  /\ min_age'[w] <= lazy[w][i].age
                      /\ verseq'[w] <= lazy[w][i].age \/ (u # w /\ verseq'[u] < verseq'[w])
    BY <1>1 DEF Protected
  <2>1. PICK a \in Nat : a = lazy[w][i].age
    BY ItemType DEF NodeInv
  <2>2. lazy[w][i].node \in reach[u] /\ (u = t => reach' = reach)
    BY <1>1 DEF NodeInv, LiveNotRetired, ReclaimTypeOK
  <2>3. /\ min_age[w] <= a
        /\ verseq[w] <= a \/ (u # w /\ verseq[u] < verseq[w])
    BY <2>1, <2>2 DEF NodeInv, Protected
  <2>4. inuse[u] /\ linked[u]
    BY <2>2 DEF NodeInv, ReachInUse, EpochInv, Places
  <2>5. /\ verseq \in [Tokens -> Nat] /\ min_age \in [Tokens -> Nat] /\ tail_verseq \in Nat
        /\ w \in Tokens /\ verseq[u] <= tail_verseq
    BY DEF NodeInv, EpochInv, EpochTypeOK, Places
  <2> SUFFICES /\ min_age'[w] <= a
               /\ verseq'[w] <= a \/ (u # w /\ verseq'[u] < verseq'[w])
    BY <2>1
  <2>6. CASE (Acquire(t) \/ Resume(t)) /\ Restart(t)
    <3>1. u # t
      BY <2>4, <2>6 DEF Acquire, Resume
    <3>2. min_age' = min_age /\ (verseq' = verseq \/ verseq' = [verseq EXCEPT ![t] = tail_verseq + 1])
      BY <2>6 DEF Acquire, Resume, ToTail
    <3>3. CASE verseq' = verseq
      BY <3>2, <3>3, <2>3
    <3>4. CASE verseq' = [verseq EXCEPT ![t] = tail_verseq + 1]
      <4>1. verseq'[u] = verseq[u] /\ verseq'[w] = IF w = t THEN tail_verseq + 1 ELSE verseq[w]
        BY <3>1, <3>4, <2>5
      <4>2. verseq[u] < tail_verseq + 1
        BY <2>5
      <4> QED
        BY <3>1, <3>2, <4>1, <4>2, <2>3
    <3> QED
      BY <3>2, <3>3, <3>4
  <2>7. CASE Leave(t) \/ Unlink(t) \/ TellTrie(t)
    BY <2>3, <2>7 DEF Leave, Unlink, TellTrie
  <2>11. CASE Clear(t)
    <3>1. u # t /\ min_age' = min_age
      BY <2>4, <2>11 DEF Clear
    <3>2. verseq'[u] = verseq[u] /\ verseq'[w] = IF w = t THEN 0 ELSE verseq[w]
      BY <3>1, <2>5, <2>11 DEF Clear
    <3> QED
      BY <3>1, <3>2, <2>3
  <2>8. CASE TellToken(t) \/ Remember(t)
    <3>1. verseq[t] <= verseq[u]
      BY <2>4, <2>8 DEF TellToken, Remember, Oldest
    <3>2. min_age' = [min_age EXCEPT ![t] = verseq[t]] /\ verseq' = verseq
      BY <2>8 DEF TellToken, Remember
    <3> QED
      BY <3>1, <3>2, <2>3, <2>5
  <2>9. CASE Requeue(t) /\ (Restart(t) \/ Forget(t))
    <3>1. u # t
      BY <2>2, <2>9, <2>4 DEF Restart, Forget, NodeInv, LiveNotRetired, ReclaimTypeOK
    <3> QED
      BY <3>1, <2>3, <2>5, <2>9 DEF Requeue, ToTail
  <2>10. CASE MoveIdle(t)
    <3>1. u # t
      BY <2>4, <2>10 DEF MoveIdle
    <3>2. verseq[t] <= verseq[u]
      BY <2>4, <2>10 DEF MoveIdle, Oldest
    <3> QED
      BY <3>1, <3>2, <2>3, <2>5, <2>10 DEF MoveIdle, ToTail
  <2> QED
    BY <2>6, <2>7, <2>8, <2>9, <2>10, <2>11
       DEF AcquireToken, LeaveToken, MoveToken, InsertUpdate, IdleUpdate
<1> QED
  BY <1>3, <1>4, <1>5, <1>6, <1>7 DEF NodeInv

\* A node of the pool's free space is on no list and not in the trie.
LEMMA FreeIsUnused ==
  ASSUME ReclaimTypeOK, NEW new \in Free
  PROVE  /\ new \in Nodes /\ new \notin live
         /\ \A w \in Writers : \A i \in 1..Len(lazy[w]) : lazy[w][i].node # new
<1>1. ASSUME NEW w \in Writers, NEW i \in 1..Len(lazy[w]) PROVE lazy[w][i].node # new
  <2>1. DOMAIN lazy[w] = 1..Len(lazy[w])
    BY ItemType
  <2> QED
    BY <2>1 DEF Free, Retired
<1> QED
  BY <1>1 DEF Free

\* The items of a list after an append.
LEMMA AppendItem ==
  ASSUME NEW S, NEW seq \in Seq(S), NEW e \in S, NEW i \in 1..Len(Append(seq, e))
  PROVE  \/ i \in 1..Len(seq) /\ Append(seq, e)[i] = seq[i]
         \/ Append(seq, e)[i] = e
<1>1. Len(seq) \in Nat /\ Len(Append(seq, e)) = Len(seq) + 1
  BY AppendProperties
<1>2. i \in 1..Len(seq) \/ i = Len(seq) + 1
  BY <1>1
<1> QED
  BY <1>2, AppendProperties

\* update_curr_ptr: the retired node is protected by its writer's own place.
LEMMA NodeInvReplace ==
  ASSUME NodeInv, NEW w \in Writers, Replace(w)
  PROVE  NodeInv'
<1> USE ReclaimAssumption
<1>1. PICK n \in live, new \in Free :
        /\ live' = (live \ {n}) \cup {new}
        /\ lazy' = [lazy EXCEPT ![w] = Append(@, [age |-> verseq[w], node |-> n])]
        /\ reach' = [t \in Tokens |-> IF inuse[t] THEN reach[t] \cup {new} ELSE reach[t]]
  BY DEF Replace
<1>2. inuse[w] /\ UNCHANGED epochVars
  BY DEF Replace, Inserting
<1>3. EpochInv'
  BY <1>2, EpochInvStutter DEF NodeInv
<1>4. ReclaimTypeOK /\ EpochTypeOK /\ EpochTypeOK'
  BY <1>3 DEF NodeInv, EpochInv
<1>5. /\ new \in Nodes /\ new \notin live
      /\ \A x \in Writers : \A i \in 1..Len(lazy[x]) : lazy[x][i].node # new
  BY <1>4, FreeIsUnused
<1>6. verseq[w] \in Nat /\ min_age[w] <= verseq[w]
  <2>1. linked[w]
    BY <1>2 DEF NodeInv, EpochInv, Places
  <2> QED
    BY <1>4, <2>1 DEF NodeInv, EpochInv, MinAgeSafe, EpochTypeOK
<1> DEFINE item == [age |-> verseq[w], node |-> n]
<1>7. item \in [age : Nat, node : Nodes]
  BY <1>4, <1>6 DEF ReclaimTypeOK
<1>8. /\ lazy' \in [Writers -> Seq([age : Nat, node : Nodes])]
      /\ lazy'[w] = Append(lazy[w], item)
      /\ \A x \in Writers \ {w} : lazy'[x] = lazy[x]
  <2> DEFINE Item == [age : Nat, node : Nodes]
  <2>1. lazy \in [Writers -> Seq(Item)] /\ item \in Item
    BY <1>4, <1>7 DEF ReclaimTypeOK
  <2>2. lazy' = [lazy EXCEPT ![w] = Append(@, item)]
    BY <1>1
  <2> HIDE DEF Item, item
  <2>3. Append(lazy[w], item) \in Seq(Item)
    BY <2>1, AppendProperties
  <2>4. /\ lazy' \in [Writers -> Seq(Item)]
        /\ lazy'[w] = Append(lazy[w], item)
        /\ \A x \in Writers \ {w} : lazy'[x] = lazy[x]
    BY <2>1, <2>2, <2>3
  <2> QED
    BY <2>4 DEF Item
<1>9. ReclaimTypeOK'
  BY <1>1, <1>4, <1>5, <1>8 DEF ReclaimTypeOK
<1> HIDE DEF item
<1>10. ASSUME NEW x \in Writers, NEW i \in 1..Len(lazy'[x])
       PROVE  \/ i \in 1..Len(lazy[x]) /\ lazy'[x][i] = lazy[x][i]
              \/ x = w /\ lazy'[x][i] = item
  <2>1. lazy[w] \in Seq([age : Nat, node : Nodes])
    BY <1>4 DEF ReclaimTypeOK
  <2>2. CASE x = w
    <3> DEFINE S == [age : Nat, node : Nodes]
    <3>1. lazy[w] \in Seq(S) /\ item \in S /\ i \in 1..Len(Append(lazy[w], item))
      BY <1>7, <1>8, <2>1, <2>2
    <3> HIDE DEF S
    <3>2. \/ i \in 1..Len(lazy[w]) /\ Append(lazy[w], item)[i] = lazy[w][i]
          \/ Append(lazy[w], item)[i] = item
      BY <3>1, AppendItem
    <3> QED
      BY <1>8, <2>2, <3>2
  <2>3. CASE x # w
    BY <1>8, <2>3
  <2> QED
    BY <2>2, <2>3
<1>11. ASSUME NEW x \in Writers, NEW i \in 1..Len(lazy[x])
       PROVE  i \in 1..Len(lazy'[x]) /\ lazy'[x][i] = lazy[x][i]
  <2>1. lazy[w] \in Seq([age : Nat, node : Nodes])
    BY <1>4 DEF ReclaimTypeOK
  <2>2. CASE x = w
    BY <1>7, <1>8, <2>1, <2>2, AppendProperties
  <2> QED
    BY <1>8, <2>2
<1>12. \E i \in 1..Len(lazy'[w]) : lazy'[w][i] = item
  <2>1. lazy[w] \in Seq([age : Nat, node : Nodes])
    BY <1>4 DEF ReclaimTypeOK
  <2>2. Len(lazy[w]) + 1 \in 1..Len(lazy'[w]) /\ lazy'[w][Len(lazy[w]) + 1] = item
    BY <1>7, <1>8, <2>1, AppendProperties
  <2> QED
    BY <2>2
<1>13. item.node = n /\ item.age = verseq[w]
  BY DEF item
<1>14. ReachInUse'
  BY <1>1, <1>2, <1>4 DEF NodeInv, ReachInUse, epochVars, ReclaimTypeOK
<1>15. ReachKept'
  <2> SUFFICES ASSUME NEW t \in Tokens, NEW m \in reach'[t], m \notin live'
               PROVE  \E x \in Writers : \E i \in 1..Len(lazy'[x]) : lazy'[x][i].node = m
    BY DEF ReachKept
  <2>1. m \in reach[t] /\ (m \notin live \/ m = n)
    BY <1>1, <1>4 DEF ReclaimTypeOK
  <2>2. CASE m = n
    BY <2>2, <1>12, <1>13
  <2>3. CASE m \notin live
    <3>1. PICK x \in Writers : \E i \in 1..Len(lazy[x]) : lazy[x][i].node = m
      BY <2>1, <2>3 DEF NodeInv, ReachKept
    <3> QED
      BY <3>1, <1>11
  <2> QED
    BY <2>1, <2>2, <2>3
<1>16. LiveNotRetired'
  <2> SUFFICES ASSUME NEW x \in Writers, NEW i \in 1..Len(lazy'[x])
               PROVE  lazy'[x][i].node \notin live'
    BY DEF LiveNotRetired
  <2>1. CASE i \in 1..Len(lazy[x]) /\ lazy'[x][i] = lazy[x][i]
    BY <2>1, <1>1, <1>5 DEF NodeInv, LiveNotRetired
  <2>2. CASE lazy'[x][i] = item
    BY <2>2, <1>1, <1>5, <1>13
  <2> QED
    BY <1>10, <2>1, <2>2
<1>17. Protected'
  <2> SUFFICES ASSUME NEW t \in Tokens, NEW x \in Writers, NEW i \in 1..Len(lazy'[x]),
                      lazy'[x][i].node \in reach'[t]
               PROVE  /\ min_age[x] <= lazy'[x][i].age
                      /\ verseq[x] <= lazy'[x][i].age \/ (t # x /\ verseq[t] < verseq[x])
    BY <1>2 DEF Protected, epochVars
  <2>1. CASE i \in 1..Len(lazy[x]) /\ lazy'[x][i] = lazy[x][i]
    <3>1. lazy[x][i].node \in reach[t]
      BY <2>1, <1>1, <1>4, <1>5 DEF ReclaimTypeOK
    <3> QED
      BY <2>1, <3>1 DEF NodeInv, Protected
  <2>2. CASE x = w /\ lazy'[x][i] = item
    BY <2>2, <1>6, <1>13
  <2> QED
    BY <1>10, <2>1, <2>2
<1> QED
  BY <1>3, <1>9, <1>14, <1>15, <1>16, <1>17 DEF NodeInv

\* A node that joins the trie disturbs no list.
LEMMA NodeInvAdd ==
  ASSUME NodeInv, NEW w \in Writers, Add(w)
  PROVE  NodeInv'
<1>1. PICK new \in Free :
        /\ live' = live \cup {new}
        /\ reach' = [t \in Tokens |-> IF inuse[t] THEN reach[t] \cup {new} ELSE reach[t]]
  BY DEF Add
<1>2. UNCHANGED <<epochVars, lazy>>
  BY DEF Add
<1>3. EpochInv'
  BY <1>2, EpochInvStutter DEF NodeInv
<1>4. ReclaimTypeOK /\ EpochTypeOK'
  BY <1>3 DEF NodeInv, EpochInv
<1>5. /\ new \in Nodes /\ new \notin live
      /\ \A x \in Writers : \A i \in 1..Len(lazy[x]) : lazy[x][i].node # new
  BY <1>4, FreeIsUnused
<1>6. ReclaimTypeOK' /\ ReachInUse'
  BY <1>1, <1>2, <1>4, <1>5 DEF NodeInv, ReclaimTypeOK, ReachInUse, epochVars
<1>7. ReachKept'
  BY <1>1, <1>2, <1>4 DEF NodeInv, ReachKept, ReclaimTypeOK
<1>8. LiveNotRetired'
  BY <1>1, <1>2, <1>5 DEF NodeInv, LiveNotRetired
<1>9. Protected'
  <2> SUFFICES ASSUME NEW t \in Tokens, NEW x \in Writers, NEW i \in 1..Len(lazy[x]),
                      lazy[x][i].node \in reach'[t]
               PROVE  /\ min_age[x] <= lazy[x][i].age
                      /\ verseq[x] <= lazy[x][i].age \/ (t # x /\ verseq[t] < verseq[x])
    BY <1>2 DEF Protected, epochVars
  <2>1. lazy[x][i].node \in reach[t]
    BY <1>1, <1>4, <1>5 DEF ReclaimTypeOK
  <2> QED
    BY <2>1 DEF NodeInv, Protected
<1> QED
  BY <1>3, <1>6, <1>7, <1>8, <1>9 DEF NodeInv

\* The items of a list after its first one has gone.
LEMMA TailItems ==
  ASSUME NEW S, NEW seq \in Seq(S), seq # <<>>
  PROVE  /\ Tail(seq) \in Seq(S) /\ 1 \in 1..Len(seq) /\ Head(seq) = seq[1]
         /\ \A i \in 1..Len(Tail(seq)) : i + 1 \in 1..Len(seq) /\ Tail(seq)[i] = seq[i + 1]
         /\ \A j \in 1..Len(seq) : j # 1 => j - 1 \in 1..Len(Tail(seq)) /\ Tail(seq)[j - 1] = seq[j]
<1>1. Len(seq) \in Nat /\ Len(seq) # 0
  BY EmptySeq
<1>2. /\ Tail(seq) \in Seq(S) /\ Len(Tail(seq)) = Len(seq) - 1
      /\ \A i \in 1..Len(Tail(seq)) : Tail(seq)[i] = seq[i + 1]
  BY HeadTailProperties
<1>3. Head(seq) = seq[1]
  OBVIOUS
<1> QED
  BY <1>1, <1>2, <1>3

\* revoke_expired_nodes: with several writers, nobody holds the node that is freed.
LEMMA NodeInvRevoke ==
  ASSUME ConLevel = "MultiWriteMultiRead", NodeInv, NEW w \in Writers, Revoke(w)
  PROVE  NodeInv'
<1> USE ReclaimAssumption
<1>1. /\ lazy[w] # <<>> /\ Head(lazy[w]).age < min_age[w]
      /\ lazy' = [lazy EXCEPT ![w] = Tail(@)]
      /\ UNCHANGED <<epochVars, live, reach>>
  BY DEF Revoke, RevokeBound
<1>2. EpochInv'
  BY <1>1, EpochInvStutter DEF NodeInv
<1>3. ReclaimTypeOK /\ EpochTypeOK /\ EpochTypeOK'
  BY <1>2 DEF NodeInv, EpochInv
<1> DEFINE Item == [age : Nat, node : Nodes]
<1>4. lazy \in [Writers -> Seq(Item)]
  BY <1>3 DEF ReclaimTypeOK
<1> HIDE DEF Item
<1>5. /\ Tail(lazy[w]) \in Seq(Item) /\ 1 \in 1..Len(lazy[w]) /\ Head(lazy[w]) = lazy[w][1]
      /\ \A i \in 1..Len(Tail(lazy[w])) :
            i + 1 \in 1..Len(lazy[w]) /\ Tail(lazy[w])[i] = lazy[w][i + 1]
      /\ \A j \in 1..Len(lazy[w]) :
            j # 1 => j - 1 \in 1..Len(Tail(lazy[w])) /\ Tail(lazy[w])[j - 1] = lazy[w][j]
  <2>1. lazy[w] \in Seq(Item) /\ lazy[w] # <<>>
    BY <1>1, <1>4
  <2> QED
    BY <2>1, TailItems
<1>6. /\ lazy' \in [Writers -> Seq(Item)] /\ lazy'[w] = Tail(lazy[w])
      /\ \A x \in Writers \ {w} : lazy'[x] = lazy[x]
  BY <1>1, <1>4, <1>5
<1>7. ReclaimTypeOK'
  BY <1>1, <1>3, <1>6 DEF ReclaimTypeOK, Item
<1>8. \A x \in Writers : \A i \in 1..Len(lazy'[x]) :
         \E j \in 1..Len(lazy[x]) : lazy'[x][i] = lazy[x][j]
  <2> SUFFICES ASSUME NEW x \in Writers, NEW i \in 1..Len(lazy'[x])
               PROVE  \E j \in 1..Len(lazy[x]) : lazy'[x][i] = lazy[x][j]
    OBVIOUS
  <2>1. CASE x = w
    <3>1. i + 1 \in 1..Len(lazy[x]) /\ lazy'[x][i] = lazy[x][i + 1]
      BY <1>5, <1>6, <2>1
    <3> QED
      BY <3>1
  <2>2. CASE x # w
    BY <1>6, <2>2
  <2> QED
    BY <2>1, <2>2
<1>9. \A x \in Writers : \A j \in 1..Len(lazy[x]) :
         x # w \/ j # 1 => \E i \in 1..Len(lazy'[x]) : lazy'[x][i] = lazy[x][j]
  <2> SUFFICES ASSUME NEW x \in Writers, NEW j \in 1..Len(lazy[x]), x # w \/ j # 1
               PROVE  \E i \in 1..Len(lazy'[x]) : lazy'[x][i] = lazy[x][j]
    OBVIOUS
  <2>1. CASE x = w
    <3>1. j - 1 \in 1..Len(lazy'[x]) /\ lazy'[x][j - 1] = lazy[x][j]
      BY <1>5, <1>6, <2>1
    <3> QED
      BY <3>1
  <2>2. CASE x # w
    BY <1>6, <2>2
  <2> QED
    BY <2>1, <2>2
<1>10. \A t \in Tokens : lazy[w][1].node \notin reach[t]
  <2> SUFFICES ASSUME NEW t \in Tokens, lazy[w][1].node \in reach[t] PROVE FALSE
    OBVIOUS
  <2>1. PICK a \in Nat : a = lazy[w][1].age
    BY <1>3, <1>5, ItemType
  <2>2. min_age[w] <= a
    BY <1>5, <2>1 DEF NodeInv, Protected
  <2>3. min_age[w] \in Nat /\ a < min_age[w]
    BY <1>1, <1>3, <1>5, <2>1 DEF EpochTypeOK
  <2> QED
    BY <2>2, <2>3
<1>11. ReachInUse'
  BY <1>1 DEF NodeInv, ReachInUse, epochVars
<1>12. ReachKept'
  <2> SUFFICES ASSUME NEW t \in Tokens, NEW m \in reach[t], m \notin live
               PROVE  \E x \in Writers : \E i \in 1..Len(lazy'[x]) : lazy'[x][i].node = m
    BY <1>1 DEF ReachKept
  <2>1. PICK x \in Writers : \E j \in 1..Len(lazy[x]) : lazy[x][j].node = m
    BY DEF NodeInv, ReachKept
  <2>2. PICK j \in 1..Len(lazy[x]) : lazy[x][j].node = m
    BY <2>1
  <2>3. x # w \/ j # 1
    BY <1>10, <2>2
  <2> QED
    BY <1>9, <2>2, <2>3
<1>13. LiveNotRetired'
  BY <1>1, <1>8 DEF NodeInv, LiveNotRetired
<1>14. Protected'
  <2> SUFFICES ASSUME NEW t \in Tokens, NEW x \in Writers, NEW i \in 1..Len(lazy'[x]),
                      lazy'[x][i].node \in reach[t]
               PROVE  /\ min_age[x] <= lazy'[x][i].age
                      /\ verseq[x] <= lazy'[x][i].age \/ (t # x /\ verseq[t] < verseq[x])
    BY <1>1 DEF Protected, epochVars
  <2>1. PICK j \in 1..Len(lazy[x]) : lazy'[x][i] = lazy[x][j]
    BY <1>8
  <2> QED
    BY <2>1 DEF NodeInv, Protected
<1> QED
  BY <1>2, <1>7, <1>11, <1>12, <1>13, <1>14 DEF NodeInv

\* With several writers, memory is never given back to the pool while a thread may still
\* reach it, whatever the tokens, the nodes and the order of the steps.
THEOREM ReclaimSafety ==
  ASSUME ConLevel = "MultiWriteMultiRead"
  PROVE  Spec => []NoUseAfterFree
<1>1. NodeInv /\ Next => NodeInv'
  BY NodeInvTokenStep, NodeInvReplace, NodeInvAdd, NodeInvRevoke DEF Next
<1>2. NodeInv /\ UNCHANGED vars => NodeInv'
  <2> SUFFICES ASSUME NodeInv, UNCHANGED vars PROVE NodeInv'
    OBVIOUS
  <2>1. EpochInv' /\ UNCHANGED epochVars /\ UNCHANGED nodeVars
    BY EpochInvStutter DEF NodeInv, vars
  <2>2. ReclaimTypeOK'
    BY <2>1 DEF NodeInv, ReclaimTypeOK, EpochInv, nodeVars
  <2>3. ReachInUse' /\ ReachKept' /\ LiveNotRetired'
    BY <2>1 DEF NodeInv, ReachInUse, ReachKept, LiveNotRetired, epochVars, nodeVars
  <2>4. Protected'
    BY <2>1 DEF NodeInv, Protected, epochVars, nodeVars
  <2> QED
    BY <2>1, <2>2, <2>3, <2>4 DEF NodeInv
<1> QED
  BY NodeInvInit, NodeInvSafe, <1>1, <1>2, PTL DEF Spec

=============================================================================
