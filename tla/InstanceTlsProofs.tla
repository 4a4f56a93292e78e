------------------------- MODULE InstanceTlsProofs -------------------------
(***************************************************************************)
(* The members that instance_tls_owner hands to threads are safe, for      *)
(* every number of threads, owners and members and every fixed capacity.   *)
(***************************************************************************)
EXTENDS InstanceTls, FiniteSetTheorems, SequenceTheorems, TLAPS

PCs == {"idle", "reuse", "new", "dropped", "push", "kill"}
Phases == {"new", "alive", "dying", "reborn", "gone"}

TlsTypeOK ==
    /\ phase \in [Owners -> Phases]
    /\ id \in [Owners -> Nat] /\ idList \in Seq(Nat) /\ idNum \in Nat
    /\ matrix \in [TlsThreads -> {"none", "linked", "dying", "gone"}]
    /\ slot \in [TlsThreads -> [Ids -> Nat]]
    /\ vec \in [Owners -> Seq(Nat)] /\ firstFree \in [Owners -> Seq(Nat)]
    /\ freeCnt \in [Owners -> Nat] /\ killCnt \in [Owners -> Nat]
    /\ ownerOf \in Seq(Owners)
    /\ tstep \in [TlsThreads -> [pc : PCs, owner : Owners \cup {Idle.owner}, member : Nat]]

----------------------------------------------------------------------------
(* Ids *)

\* No more ids are made than owners, and an owner has one from instance_tls() to ~instance_tls().
IdsBounded ==
    /\ idNum <= Cardinality({o \in Owners : phase[o] # "new"})
    /\ \A o \in Owners : IF phase[o] \in {"alive", "dying"} THEN id[o] \in 1..idNum ELSE id[o] = NoId
    /\ \A k \in 1..Len(idList) : idList[k] \in 1..idNum

\* An id is one owner's, or is once in the list of free ids.
IdsDistinct ==
    /\ \A o, p \in Owners : id[o] = id[p] /\ id[o] # NoId => o = p
    /\ \A o \in Owners : \A k \in 1..Len(idList) : idList[k] # id[o]
    /\ \A k, l \in 1..Len(idList) : idList[k] = idList[l] => k = l

----------------------------------------------------------------------------
(* Places of a member *)

\* What a slot, a thread in ~TlsPtr or a free list holds is a member that was made.
InSlots ==
    \A t \in TlsThreads, i \in Ids : slot[t][i] # NoMember =>
        /\ matrix[t] \in {"linked", "dying"}
        /\ slot[t][i] \in DOMAIN ownerOf
        /\ matrix[t] = "linked" => id[ownerOf[slot[t][i]]] = i

InExit ==
    \A t \in TlsThreads :
        /\ tstep[t].pc \in {"idle", "reuse", "new"} => tstep[t].member = NoMember
        /\ tstep[t].pc \in {"reuse", "new"} =>
             /\ tstep[t].owner \in Owners /\ phase[tstep[t].owner] = "alive"
             /\ matrix[t] = "linked" /\ slot[t][id[tstep[t].owner]] = NoMember
        /\ tstep[t].pc \in {"dropped", "push", "kill"} =>
             /\ matrix[t] = "dying" /\ tstep[t].member \in DOMAIN ownerOf
             /\ tstep[t].owner = ownerOf[tstep[t].member]

InFree ==
    \A o \in Owners : \A k \in 1..Len(firstFree[o]) :
        firstFree[o][k] \in DOMAIN ownerOf /\ ownerOf[firstFree[o][k]] = o

\* No member is at two of these places.
Apart ==
    /\ \A t, u \in TlsThreads, i, j \in Ids :
         slot[t][i] = slot[u][j] /\ slot[t][i] # NoMember => t = u /\ i = j
    /\ \A t, u \in TlsThreads, i \in Ids : slot[t][i] # NoMember => slot[t][i] # tstep[u].member
    /\ \A t, u \in TlsThreads : tstep[t].member = tstep[u].member /\ tstep[t].member # NoMember => t = u
    /\ \A o \in Owners : \A k \in 1..Len(firstFree[o]) : \A t \in TlsThreads :
         tstep[t].member # firstFree[o][k] /\ \A i \in Ids : slot[t][i] # firstFree[o][k]
    /\ \A o \in Owners : \A k, l \in 1..Len(firstFree[o]) : firstFree[o][k] = firstFree[o][l] => k = l

----------------------------------------------------------------------------
(* Who is accounted for *)

\* The members of o that threads can reach.
Held(o) ==
    {x \in DOMAIN ownerOf : ownerOf[x] = o /\
        \E t \in TlsThreads : tstep[t].member = x \/ \E i \in Ids : slot[t][i] = x}

\* Every member is held, free or counted by ~TlsPtr: the wait of ~instance_tls_owner is for the held ones.
Accounted ==
    \A o \in Owners :
        /\ freeCnt[o] = Len(firstFree[o])
        /\ Cardinality(Held(o)) + freeCnt[o] + killCnt[o] = Len(vec[o])
        /\ phase[o] = "gone" => Held(o) = {}

\* A deleted member is of an owner that is gone, or went back at once for want of capacity.
Deleted ==
    /\ deleted \subseteq DOMAIN ownerOf
    /\ \A o \in Owners : \A k \in 1..Len(vec[o]) : vec[o][k] \in DOMAIN ownerOf /\ ownerOf[vec[o][k]] = o
    /\ \A o \in Owners : phase[o] # "gone" =>
         /\ Held(o) \cap deleted = {}
         /\ \A k \in 1..Len(firstFree[o]) : firstFree[o][k] \notin deleted

TlsInv == TlsTypeOK /\ IdsBounded /\ IdsDistinct /\ InSlots /\ InExit /\ InFree /\ Apart /\ Accounted /\ Deleted

----------------------------------------------------------------------------
(* Facts about the parts *)

\* Every id of an owner is a column of the matrices.
LEMMA IdInIds ==
  ASSUME TlsTypeOK, IdsBounded, NEW o \in Owners, phase[o] \in {"alive", "dying"}
  PROVE  id[o] \in Ids /\ id[o] # NoId
<1> DEFINE S == {p \in Owners : phase[p] # "new"}
<1>1. Cardinality(S) <= Cardinality(Owners) /\ Cardinality(S) \in Nat /\ Cardinality(Owners) \in Nat
  BY FS_Subset, FS_CardinalityType, TlsAssumption
<1>2. id[o] \in 1..idNum /\ idNum <= Cardinality(S) /\ idNum \in Nat
  BY DEF IdsBounded, TlsTypeOK
<1> QED
  BY <1>1, <1>2 DEF Ids, NoId

\* A member has an owner.
LEMMA MemberType ==
  ASSUME TlsTypeOK, NEW x \in DOMAIN ownerOf
  PROVE  /\ DOMAIN ownerOf = 1..Len(ownerOf) /\ Len(ownerOf) \in Nat
         /\ x \in Nat /\ x # NoMember /\ ownerOf[x] \in Owners
<1>1. ownerOf \in Seq(Owners)
  BY DEF TlsTypeOK
<1>2. DOMAIN ownerOf = 1..Len(ownerOf) /\ Len(ownerOf) \in Nat
  BY <1>1
<1> QED
  BY <1>1, <1>2, ElementOfSeq DEF NoMember

\* The members are finitely many.
LEMMA HeldFinite ==
  ASSUME TlsTypeOK, NEW o \in Owners
  PROVE  IsFiniteSet(Held(o)) /\ Cardinality(Held(o)) \in Nat
<1>1. DOMAIN ownerOf = 1..Len(ownerOf) /\ Len(ownerOf) \in Nat
  BY DEF TlsTypeOK
<1>2. IsFiniteSet(DOMAIN ownerOf)
  BY <1>1, FS_Interval
<1>3. Held(o) \in SUBSET DOMAIN ownerOf
  BY DEF Held
<1> QED
  BY <1>2, <1>3, FS_Subset, FS_CardinalityType

\* Members that no thread gives away or gets are held as before.
LEMMA HeldSame ==
  ASSUME UNCHANGED <<slot, ownerOf>>, \A t \in TlsThreads : tstep'[t].member = tstep[t].member
  PROVE  \A o : Held(o)' = Held(o)
  BY DEF Held

\* A set of at most one place has at most one element.
LEMMA AtMostOne ==
  ASSUME NEW S, \A a, b \in S : a = b
  PROVE  Cardinality(S) <= 1
<1>1. CASE S = {}
  BY <1>1, FS_EmptySet
<1>2. CASE S # {}
  <2>1. PICK a : S = {a}
    BY <1>2
  <2> QED
    BY <2>1, FS_Singleton
<1> QED
  BY <1>1, <1>2

\* The invariant says what a user of get_tls relies on.
LEMMA TlsInvSafe == TlsInv => TlsSafe
<1> SUFFICES ASSUME TlsInv PROVE TlsSafe
  OBVIOUS
<1> USE DEF TlsInv
<1>1. ASSUME NEW x \in Made PROVE Cardinality(Holders(x)) <= 1
  <2>1. x # NoMember
    BY MemberType DEF Made
  <2> DEFINE SlotOf == {t \in TlsThreads : \E i \in Ids : slot[t][i] = x}
             ExitOf == {t \in TlsThreads : tstep[t].member = x}
             FreeOf == {o \in Owners : \E k \in 1..Len(firstFree[o]) : firstFree[o][k] = x}
  <2>2. /\ \A t, u \in SlotOf : t = u
        /\ \A t, u \in ExitOf : t = u
        /\ \A o, p \in FreeOf : o = p
        /\ SlotOf = {} \/ ExitOf = {}
        /\ SlotOf = {} \/ FreeOf = {}
        /\ ExitOf = {} \/ FreeOf = {}
    BY <2>1 DEF Apart, InFree
  <2>3. Holders(x) = {<<"slot", t>> : t \in SlotOf} \cup {<<"exit", t>> : t \in ExitOf}
                     \cup {<<"free", o>> : o \in FreeOf}
    BY DEF Holders, Contains
  <2> HIDE DEF SlotOf, ExitOf, FreeOf
  <2>4. \A a, b \in Holders(x) : a = b
    BY <2>2, <2>3
  <2> QED
    BY <2>4, AtMostOne
<1>2. ASSUME NEW t \in TlsThreads, NEW o \in Owners,
             matrix[t] = "linked", id[o] # NoId, slot[t][id[o]] # NoMember
      PROVE  ownerOf[slot[t][id[o]]] = o
  <2>1. id[o] \in Ids
    BY <1>2, IdInIds DEF IdsBounded, TlsTypeOK
  <2>2. slot[t][id[o]] \in DOMAIN ownerOf /\ id[ownerOf[slot[t][id[o]]]] = id[o]
    BY <1>2, <2>1 DEF InSlots
  <2>3. ownerOf[slot[t][id[o]]] \in Owners
    BY <2>2, MemberType
  <2> QED
    BY <1>2, <2>2, <2>3 DEF IdsDistinct
<1>3. ASSUME NEW t \in TlsThreads, NEW i \in Ids PROVE slot[t][i] \notin deleted
  <2>1. CASE slot[t][i] = NoMember
    BY <2>1 DEF Deleted, TlsTypeOK, NoMember
  <2>2. CASE slot[t][i] # NoMember
    <3> DEFINE o == ownerOf[slot[t][i]]
    <3>1. o \in Owners /\ slot[t][i] \in Held(o)
      BY <2>2 DEF InSlots, TlsTypeOK, Held
    <3> HIDE DEF o
    <3> QED
      BY <3>1 DEF Accounted, Deleted
  <2> QED
    BY <2>1, <2>2
<1>4. ASSUME NEW t \in TlsThreads, tstep[t].member # NoMember
      PROVE  tstep[t].member \notin deleted /\ phase[tstep[t].owner] # "gone"
  <2>1. tstep[t].pc \in {"dropped", "push", "kill"}
    BY <1>4 DEF InExit, TlsTypeOK, PCs
  <2>2. tstep[t].owner \in Owners /\ tstep[t].member \in Held(tstep[t].owner)
    BY <2>1 DEF InExit, TlsTypeOK, Held
  <2> QED
    BY <2>2 DEF Accounted, Deleted
<1> QED
  BY <1>1, <1>2, <1>3, <1>4 DEF TlsSafe, OneHolder, NoUseAfterDelete

----------------------------------------------------------------------------
(* The steps *)

\* instance_tls(): the id is in use by nobody, and its column is empty.
LEMMA MakeOwnerInv ==
  ASSUME TlsInv, NEW o \in Owners, MakeOwner(o)
  PROVE  TlsInv'
<1> USE DEF TlsInv
<1>1. /\ phase[o] = "new" /\ phase' = [phase EXCEPT ![o] = "alive"]
      /\ UNCHANGED <<matrix, slot, vec, firstFree, freeCnt, killCnt, ownerOf, deleted, tstep>>
  BY DEF MakeOwner
<1>2. id[o] = NoId
  BY <1>1 DEF IdsBounded
<1> DEFINE Fresh(i) ==
             /\ id' = [id EXCEPT ![o] = i] /\ i \in 1..idNum'
             /\ idNum' \in {idNum, idNum + 1} /\ idList' \in Seq(Nat)
             /\ \A p \in Owners : id[p] # i
             /\ \A k \in 1..Len(idList') : idList'[k] \in 1..idNum /\ idList'[k] # i /\ \A p \in Owners : id[p] # idList'[k]
             /\ \A k, l \in 1..Len(idList') : idList'[k] = idList'[l] => k = l
<1>3. PICK i \in Nat : Fresh(i)
  <2>1. idList \in Seq(Nat) /\ idNum \in Nat
    BY DEF TlsTypeOK
  <2>2. CASE idList # <<>>
    <3>1. Len(idList) > 0 /\ Head(idList) = idList[1] /\ Tail(idList) \in Seq(Nat)
          /\ Len(Tail(idList)) = Len(idList) - 1
          /\ \A k \in 1..Len(Tail(idList)) : Tail(idList)[k] = idList[k + 1]
      BY <2>1, <2>2
    <3>2. id' = [id EXCEPT ![o] = idList[1]] /\ idList' = Tail(idList) /\ idNum' = idNum
      BY <2>2, <3>1 DEF MakeOwner
    <3>3. idList[1] \in Nat /\ idList[1] \in 1..idNum
      BY <2>1, <3>1 DEF IdsBounded
    <3>4. \A k \in 1..Len(idList') : k + 1 \in 1..Len(idList) /\ idList'[k] = idList[k + 1] /\ k + 1 # 1
      BY <2>1, <3>1, <3>2
    <3>5. \A k \in 1..Len(idList') : idList'[k] \in 1..idNum /\ idList'[k] # idList[1] /\ \A p \in Owners : id[p] # idList'[k]
      BY <2>1, <3>1, <3>4 DEF IdsBounded, IdsDistinct
    <3>6. \A k, l \in 1..Len(idList') : idList'[k] = idList'[l] => k = l
      BY <2>1, <3>1, <3>4 DEF IdsDistinct
    <3>7. Fresh(idList[1])
      BY <2>1, <3>1, <3>2, <3>3, <3>5, <3>6 DEF IdsDistinct
    <3> QED
      BY <3>3, <3>7
  <2>3. CASE idList = <<>>
    <3>1. id' = [id EXCEPT ![o] = idNum + 1] /\ idList' = idList /\ idNum' = idNum + 1
      BY <2>3 DEF MakeOwner
    <3>2. ASSUME NEW p \in Owners PROVE id[p] # idNum + 1
      <4>1. id[p] = 0 \/ id[p] \in 1..idNum
        BY DEF IdsBounded, NoId
      <4> QED
        BY <2>1, <4>1
    <3>3. Len(idList) = 0
      BY <2>3
    <3>4. Fresh(idNum + 1)
      BY <2>1, <3>1, <3>2, <3>3
    <3> HIDE DEF Fresh
    <3> QED
      BY <2>1, <3>4
  <2> QED
    BY <2>2, <2>3
<1>4. TlsTypeOK'
  BY <1>1, <1>3 DEF TlsTypeOK, Phases
<1>5. IdsBounded'
  <2> DEFINE S == {p \in Owners : phase[p] # "new"}
             Snew == {p \in Owners : phase'[p] # "new"}
  <2>1. IsFiniteSet(S) /\ Cardinality(S) \in Nat
    BY FS_Subset, FS_CardinalityType, TlsAssumption
  <2>2. Snew = S \cup {o} /\ o \notin S
    BY <1>1 DEF TlsTypeOK
  <2>3. Cardinality(S \cup {o}) = Cardinality(S) + 1
    BY <2>1, <2>2, FS_AddElement
  <2>4. Cardinality(Snew) = Cardinality(S) + 1
    BY <2>2, <2>3
  <2>5. idNum <= Cardinality(S) /\ idNum \in Nat
    BY DEF IdsBounded, TlsTypeOK
  <2>6. idNum' <= Cardinality(Snew)
    BY <1>3, <2>1, <2>4, <2>5
  <2>7. \A p \in Owners : IF phase'[p] \in {"alive", "dying"} THEN id'[p] \in 1..idNum' ELSE id'[p] = NoId
    BY <1>1, <1>3, <2>5, SMTT(30) DEF IdsBounded, TlsTypeOK
  <2>8. \A k \in 1..Len(idList') : idList'[k] \in 1..idNum'
    BY <1>3, <2>5
  <2> QED
    BY <2>6, <2>7, <2>8 DEF IdsBounded
<1>6. IdsDistinct'
  BY <1>1, <1>3 DEF IdsDistinct, TlsTypeOK
<1>7. InSlots'
  <2> SUFFICES ASSUME NEW t \in TlsThreads, NEW j \in Ids, slot[t][j] # NoMember
               PROVE  /\ matrix[t] \in {"linked", "dying"}
                      /\ slot[t][j] \in DOMAIN ownerOf
                      /\ matrix[t] = "linked" => id'[ownerOf[slot[t][j]]] = j
    BY <1>1 DEF InSlots
  <2>1. slot[t][j] \in DOMAIN ownerOf /\ ownerOf[slot[t][j]] \in Owners
    BY MemberType DEF InSlots
  <2>2. j # NoId
    BY DEF Ids, NoId
  <2> QED
    BY <1>2, <1>3, <2>1, <2>2 DEF InSlots, TlsTypeOK
<1>8. InExit'
  BY <1>1, <1>3 DEF InExit, TlsTypeOK
<1>9. InFree' /\ Apart'
  BY <1>1 DEF InFree, Apart
<1>10. \A p : Held(p)' = Held(p)
  BY <1>1, HeldSame
<1>11. Accounted'
  BY <1>1, <1>10 DEF Accounted, TlsTypeOK
<1>12. Deleted'
  BY <1>1, <1>10 DEF Deleted, TlsTypeOK
<1> QED
  BY <1>4, <1>5, <1>6, <1>7, <1>8, <1>9, <1>11, <1>12

\* The steps that change the phase of an owner, a matrix or a thread's place in the code, and
\* no member's place.
LEMMA SameIds ==
  ASSUME TlsInv, UNCHANGED <<id, idList, idNum>>, phase' \in [Owners -> Phases],
         \A p \in Owners : (phase'[p] = "new" <=> phase[p] = "new")
                           /\ (phase'[p] \in {"alive", "dying"} <=> phase[p] \in {"alive", "dying"})
  PROVE  IdsBounded' /\ IdsDistinct'
<1>1. {p \in Owners : phase'[p] # "new"} = {p \in Owners : phase[p] # "new"}
  OBVIOUS
<1> QED
  BY <1>1 DEF TlsInv, IdsBounded, IdsDistinct

\* ~instance_tls_owner() begins.
LEMMA BeginDestroyInv ==
  ASSUME TlsInv, NEW o \in Owners, BeginDestroy(o)
  PROVE  TlsInv'
<1> USE DEF TlsInv
<1>1. /\ phase[o] = "alive" /\ phase' = [phase EXCEPT ![o] = "dying"]
      /\ \A t \in TlsThreads : tstep[t].pc \in {"reuse", "new"} => tstep[t].owner # o
      /\ UNCHANGED <<id, idList, idNum, matrix, slot, vec, firstFree, freeCnt, killCnt, ownerOf, deleted, tstep>>
  BY DEF BeginDestroy
<1>2. TlsTypeOK'
  BY <1>1 DEF TlsTypeOK, Phases
<1>3. IdsBounded' /\ IdsDistinct'
  BY <1>1, <1>2, SameIds DEF TlsTypeOK
<1>4. InSlots' /\ InFree' /\ Apart'
  BY <1>1 DEF InSlots, InFree, Apart
<1>5. InExit'
  BY <1>1 DEF InExit, TlsTypeOK
<1>6. \A p : Held(p)' = Held(p)
  BY <1>1, HeldSame
<1>7. Accounted'
  BY <1>1, <1>6 DEF Accounted, TlsTypeOK
<1>8. Deleted'
  BY <1>1, <1>6 DEF Deleted, TlsTypeOK
<1> QED
  BY <1>2, <1>3, <1>4, <1>5, <1>7, <1>8

\* All members are accounted for: no thread holds one of those that are deleted.
LEMMA DeleteMembersInv ==
  ASSUME TlsInv, NEW o \in Owners, DeleteMembers(o)
  PROVE  TlsInv'
<1> USE DEF TlsInv
<1>1. /\ phase[o] = "reborn" /\ phase' = [phase EXCEPT ![o] = "gone"]
      /\ freeCnt[o] + killCnt[o] >= Len(vec[o])
      /\ deleted' = deleted \cup {vec[o][i] : i \in DOMAIN vec[o]}
      /\ UNCHANGED <<id, idList, idNum, matrix, slot, vec, firstFree, freeCnt, killCnt, ownerOf, tstep>>
  BY DEF DeleteMembers
<1>2. TlsTypeOK'
  BY <1>1 DEF TlsTypeOK, Phases
<1>3. IdsBounded' /\ IdsDistinct'
  BY <1>1, <1>2, SameIds DEF TlsTypeOK
<1>4. InSlots' /\ InFree' /\ Apart'
  BY <1>1 DEF InSlots, InFree, Apart
<1>5. InExit'
  BY <1>1 DEF InExit, TlsTypeOK
<1>6. \A p : Held(p)' = Held(p)
  BY <1>1, HeldSame
<1>7. Held(o) = {}
  <2>1. Cardinality(Held(o)) + freeCnt[o] + killCnt[o] = Len(vec[o])
    BY DEF Accounted
  <2>2. freeCnt[o] \in Nat /\ killCnt[o] \in Nat /\ Len(vec[o]) \in Nat
    BY DEF TlsTypeOK
  <2>3. Cardinality(Held(o)) = 0
    BY <1>1, <2>1, <2>2, HeldFinite
  <2> QED
    BY <2>3, HeldFinite, FS_EmptySet
<1>8. Accounted'
  BY <1>1, <1>6, <1>7 DEF Accounted, TlsTypeOK
<1>9. DOMAIN vec[o] = 1..Len(vec[o])
  BY DEF TlsTypeOK
<1>10. \A x \in deleted' : x \in DOMAIN ownerOf /\ (x \in deleted \/ ownerOf[x] = o)
  BY <1>1, <1>9 DEF Deleted
<1>11. ASSUME NEW p \in Owners, phase'[p] # "gone"
       PROVE  /\ Held(p)' \cap deleted' = {}
              /\ \A k \in 1..Len(firstFree[p]) : firstFree[p][k] \notin deleted'
  <2>1. p # o /\ phase[p] # "gone"
    BY <1>1, <1>11 DEF TlsTypeOK
  <2>2. \A x \in Held(p) : ownerOf[x] = p
    BY DEF Held
  <2>3. \A k \in 1..Len(firstFree[p]) : ownerOf[firstFree[p][k]] = p
    BY DEF InFree
  <2> QED
    BY <1>6, <1>10, <2>1, <2>2, <2>3 DEF Deleted
<1>12. Deleted'
  BY <1>1, <1>10, <1>11 DEF Deleted
<1> QED
  BY <1>2, <1>3, <1>4, <1>5, <1>8, <1>12

\* get_tls finds a null pointer.
LEMMA GetTlsInv ==
  ASSUME TlsInv, NEW t \in TlsThreads, NEW o \in Owners, GetTls(t, o)
  PROVE  TlsInv'
<1> USE DEF TlsInv
<1>1. PICK pc \in {"new", "reuse"} :
      /\ tstep[t].pc = "idle" /\ matrix[t] \in {"none", "linked"} /\ phase[o] = "alive"
      /\ slot[t][id[o]] = NoMember
      /\ matrix' = [matrix EXCEPT ![t] = "linked"]
      /\ tstep' = [tstep EXCEPT ![t] = [pc |-> pc, owner |-> o, member |-> NoMember]]
      /\ UNCHANGED <<phase, id, idList, idNum, slot, vec, firstFree, freeCnt, killCnt, ownerOf, deleted>>
  BY DEF GetTls, Goto
<1>2. TlsTypeOK'
  BY <1>1 DEF TlsTypeOK, PCs, NoMember
<1>3. IdsBounded' /\ IdsDistinct'
  BY <1>1 DEF IdsBounded, IdsDistinct
<1>4. \A u \in TlsThreads : tstep'[u].member = tstep[u].member
  BY <1>1 DEF InExit, TlsTypeOK
<1>5. InSlots'
  BY <1>1 DEF InSlots, TlsTypeOK
<1>6. InFree' /\ Apart'
  BY <1>1, <1>4 DEF InFree, Apart
<1>7. InExit'
  <2> SUFFICES ASSUME NEW u \in TlsThreads
               PROVE  /\ tstep'[u].pc \in {"idle", "reuse", "new"} => tstep'[u].member = NoMember
                      /\ tstep'[u].pc \in {"reuse", "new"} =>
                           /\ tstep'[u].owner \in Owners /\ phase[tstep'[u].owner] = "alive"
                           /\ matrix'[u] = "linked" /\ slot[u][id[tstep'[u].owner]] = NoMember
                      /\ tstep'[u].pc \in {"dropped", "push", "kill"} =>
                           /\ matrix'[u] = "dying" /\ tstep'[u].member \in DOMAIN ownerOf
                           /\ tstep'[u].owner = ownerOf[tstep'[u].member]
    BY <1>1 DEF InExit
  <2>1. CASE u = t
    BY <1>1, <2>1 DEF TlsTypeOK
  <2>2. CASE u # t
    BY <1>1, <2>2 DEF TlsTypeOK, InExit
  <2> QED
    BY <2>1, <2>2
<1>8. \A p : Held(p)' = Held(p)
  BY <1>1, <1>4, HeldSame
<1>9. Accounted' /\ Deleted'
  BY <1>1, <1>8 DEF Accounted, Deleted
<1> QED
  BY <1>2, <1>3, <1>5, <1>6, <1>7, <1>9

\* ~Matrix begins.
LEMMA ExitInv ==
  ASSUME TlsInv, NEW t \in TlsThreads, Exit(t)
  PROVE  TlsInv'
<1> USE DEF TlsInv
<1>1. /\ tstep[t].pc = "idle" /\ matrix[t] = "linked" /\ matrix' = [matrix EXCEPT ![t] = "dying"]
      /\ UNCHANGED <<phase, id, idList, idNum, slot, vec, firstFree, freeCnt, killCnt, ownerOf, deleted, tstep>>
  BY DEF Exit
<1>2. TlsTypeOK'
  BY <1>1 DEF TlsTypeOK
<1>3. IdsBounded' /\ IdsDistinct'
  BY <1>1 DEF IdsBounded, IdsDistinct
<1>4. InSlots' /\ InExit'
  BY <1>1 DEF InSlots, InExit, TlsTypeOK
<1>5. InFree' /\ Apart'
  BY <1>1 DEF InFree, Apart
<1>6. \A p : Held(p)' = Held(p)
  BY <1>1, HeldSame
<1>7. Accounted' /\ Deleted'
  BY <1>1, <1>6 DEF Accounted, Deleted
<1> QED
  BY <1>2, <1>3, <1>4, <1>5, <1>7

\* ~TlsPtr looks at m_is_dying.
LEMMA TestDyingInv ==
  ASSUME TlsInv, NEW t \in TlsThreads, TestDying(t)
  PROVE  TlsInv'
<1> USE DEF TlsInv
<1>1. PICK pc \in {"push", "kill"} :
      /\ tstep[t].pc = "dropped"
      /\ tstep' = [tstep EXCEPT ![t] = [pc |-> pc, owner |-> tstep[t].owner, member |-> tstep[t].member]]
      /\ UNCHANGED <<phase, id, idList, idNum, matrix, slot, vec, firstFree, freeCnt, killCnt, ownerOf, deleted>>
  BY DEF TestDying, Goto
<1>2. TlsTypeOK'
  BY <1>1 DEF TlsTypeOK, PCs
<1>3. IdsBounded' /\ IdsDistinct'
  BY <1>1 DEF IdsBounded, IdsDistinct
<1>4. \A u \in TlsThreads : tstep'[u].member = tstep[u].member
  BY <1>1 DEF TlsTypeOK
<1>5. InSlots' /\ InFree' /\ Apart'
  BY <1>1, <1>4 DEF InSlots, InFree, Apart
<1>6. InExit'
  BY <1>1, ZenonT(30) DEF InExit, TlsTypeOK
<1>7. \A p : Held(p)' = Held(p)
  BY <1>1, <1>4, HeldSame
<1>8. Accounted' /\ Deleted'
  BY <1>1, <1>7 DEF Accounted, Deleted
<1> QED
  BY <1>2, <1>3, <1>5, <1>6, <1>8

\* ~TlsPtr clears a slot, or there is none left.
LEMMA DropSlotInv ==
  ASSUME TlsInv, NEW t \in TlsThreads, DropSlot(t)
  PROVE  TlsInv'
<1> USE DEF TlsInv
<1>1. /\ tstep[t].pc = "idle" /\ matrix[t] = "dying" /\ tstep[t].member = NoMember
      /\ UNCHANGED <<phase, id, idList, idNum, vec, firstFree, freeCnt, killCnt, ownerOf, deleted>>
  BY DEF DropSlot, InExit
<1>2. IdsBounded' /\ IdsDistinct' /\ InFree'
  BY <1>1 DEF IdsBounded, IdsDistinct, InFree
<1>3. CASE \A i \in Ids : slot[t][i] = NoMember
  <2>1. matrix' = [matrix EXCEPT ![t] = "gone"] /\ UNCHANGED <<slot, tstep>>
    BY <1>3 DEF DropSlot
  <2>2. TlsTypeOK'
    BY <1>1, <2>1 DEF TlsTypeOK
  <2>3. InSlots' /\ Apart'
    BY <1>1, <1>3, <2>1 DEF InSlots, Apart, TlsTypeOK
  <2>6. InExit'
    BY <1>1, <2>1 DEF InExit, TlsTypeOK
  <2>4. \A p : Held(p)' = Held(p)
    BY <1>1, <2>1, HeldSame
  <2>5. Accounted' /\ Deleted'
    BY <1>1, <2>4 DEF Accounted, Deleted
  <2> QED
    BY <1>2, <2>2, <2>3, <2>5, <2>6
<1>4. CASE ~\A i \in Ids : slot[t][i] = NoMember
  <2>1. PICK i \in Ids :
          /\ slot[t][i] # NoMember
          /\ slot' = [slot EXCEPT ![t][i] = NoMember]
          /\ tstep' = [tstep EXCEPT ![t] = [pc |-> "dropped", owner |-> ownerOf[slot[t][i]], member |-> slot[t][i]]]
          /\ matrix' = matrix
    BY <1>4 DEF DropSlot, Goto
  <2> DEFINE x == slot[t][i]
  <2>2. x \in DOMAIN ownerOf /\ ownerOf[x] \in Owners /\ x \in Nat
    BY <2>1, MemberType DEF InSlots
  <2>3. /\ \A u \in TlsThreads, j \in Ids : slot'[u][j] = IF u = t /\ j = i THEN NoMember ELSE slot[u][j]
        /\ \A u \in TlsThreads : tstep'[u].member = IF u = t THEN x ELSE tstep[u].member
        /\ \A u \in TlsThreads : u # t => tstep'[u] = tstep[u]
        /\ tstep'[t] = [pc |-> "dropped", owner |-> ownerOf[x], member |-> x]
    BY <2>1 DEF TlsTypeOK
  <2>4. TlsTypeOK'
    BY <1>1, <2>1, <2>2 DEF TlsTypeOK, PCs, NoMember
  <2>5. InSlots'
    BY <1>1, <2>1, <2>3 DEF InSlots
  <2>6. InExit'
    <3> SUFFICES ASSUME NEW u \in TlsThreads
                 PROVE  /\ tstep'[u].pc \in {"idle", "reuse", "new"} => tstep'[u].member = NoMember
                        /\ tstep'[u].pc \in {"reuse", "new"} =>
                             /\ tstep'[u].owner \in Owners /\ phase[tstep'[u].owner] = "alive"
                             /\ matrix[u] = "linked" /\ slot'[u][id[tstep'[u].owner]] = NoMember
                        /\ tstep'[u].pc \in {"dropped", "push", "kill"} =>
                             /\ matrix[u] = "dying" /\ tstep'[u].member \in DOMAIN ownerOf
                             /\ tstep'[u].owner = ownerOf[tstep'[u].member]
      BY <1>1, <2>1 DEF InExit
    <3>1. CASE u = t
      BY <1>1, <2>2, <2>3, <3>1
    <3>2. CASE u # t
      <4>1. tstep'[u] = tstep[u] /\ slot'[u] = slot[u]
        BY <2>1, <2>3, <3>2 DEF TlsTypeOK
      <4> QED
        BY <4>1 DEF InExit
    <3> QED
      BY <3>1, <3>2
  <2>7. Apart'
    <3> HIDE DEF x
    <3>1. /\ \A u \in TlsThreads, j \in Ids : slot[u][j] = x => u = t /\ j = i
          /\ \A u \in TlsThreads : tstep[u].member # x
          /\ \A p \in Owners : \A k \in 1..Len(firstFree[p]) : firstFree[p][k] # x
      BY <2>1 DEF Apart, x
    <3>2. /\ \A u, v \in TlsThreads, j, k \in Ids :
               slot'[u][j] = slot'[v][k] /\ slot'[u][j] # NoMember => u = v /\ j = k
          /\ \A u, v \in TlsThreads, j \in Ids : slot'[u][j] # NoMember => slot'[u][j] # tstep'[v].member
          /\ \A u, v \in TlsThreads : tstep'[u].member = tstep'[v].member /\ tstep'[u].member # NoMember => u = v
      BY <2>3, <3>1 DEF Apart
    <3>3. \A p \in Owners : \A k \in 1..Len(firstFree[p]) : \A u \in TlsThreads :
            tstep'[u].member # firstFree[p][k] /\ \A j \in Ids : slot'[u][j] # firstFree[p][k]
      <4>1. \A p \in Owners : \A k \in 1..Len(firstFree[p]) : firstFree[p][k] # NoMember
        BY MemberType DEF InFree
      <4> QED
        BY <2>3, <3>1, <4>1 DEF Apart
    <3> QED
      BY <1>1, <3>2, <3>3 DEF Apart
  <2>8. \A p : Held(p)' = Held(p)
    <3>1. \A y \in DOMAIN ownerOf :
            (\E u \in TlsThreads : tstep'[u].member = y \/ \E j \in Ids : slot'[u][j] = y)
            <=> (\E u \in TlsThreads : tstep[u].member = y \/ \E j \in Ids : slot[u][j] = y)
      <4>1. \A y \in DOMAIN ownerOf : y # NoMember
        BY MemberType
      <4> QED
        BY <1>1, <2>3, <4>1
    <3> QED
      BY <1>1, <3>1 DEF Held
  <2>9. Accounted' /\ Deleted'
    BY <1>1, <2>8 DEF Accounted, Deleted
  <2> QED
    BY <1>2, <2>4, <2>5, <2>6, <2>7, <2>9
<1> QED
  BY <1>3, <1>4

\* A thread gets a member, or gives one away.
LEMMA HeldPlus ==
  ASSUME TlsTypeOK, NEW o \in Owners, NEW x, x \notin Held(o), NEW H, H = Held(o) \cup {x}
  PROVE  Cardinality(H) = Cardinality(Held(o)) + 1
  BY HeldFinite, FS_AddElement

\* Without one of its members, an owner has one less.
LEMMA HeldMinus ==
  ASSUME TlsTypeOK, NEW o \in Owners, NEW x, x \in Held(o), NEW H, H = Held(o) \ {x}
  PROVE  Cardinality(H) = Cardinality(Held(o)) - 1
  BY HeldFinite, FS_RemoveElement

\* push_head, or the count of a member whose owner is dying: the thread has nothing to do with
\* the member any more.
LEMMA GiveAway ==
  ASSUME TlsInv, NEW t \in TlsThreads, tstep[t].pc \in {"push", "kill"},
         tstep' = [tstep EXCEPT ![t] = Idle],
         UNCHANGED <<phase, id, idList, idNum, matrix, slot, vec, ownerOf, deleted>>
  PROVE  /\ tstep[t].owner \in Owners /\ tstep[t].member \in Held(tstep[t].owner)
         /\ tstep[t].member \in DOMAIN ownerOf /\ ownerOf[tstep[t].member] = tstep[t].owner
         /\ tstep' \in [TlsThreads -> [pc : PCs, owner : Owners \cup {Idle.owner}, member : Nat]]
         /\ IdsBounded' /\ IdsDistinct' /\ InSlots' /\ InExit'
         /\ \A p \in Owners : Held(p)' = IF p = tstep[t].owner THEN Held(p) \ {tstep[t].member} ELSE Held(p)
         /\ \A u \in TlsThreads : tstep'[u].member = IF u = t THEN NoMember ELSE tstep[u].member
<1> USE DEF TlsInv
<1> DEFINE o == tstep[t].owner
           x == tstep[t].member
<1>1. x \in DOMAIN ownerOf /\ o = ownerOf[x]
  BY DEF InExit
<1>2. o \in Owners /\ x # NoMember
  BY <1>1, MemberType
<1>3. x \in Held(o)
  BY <1>1 DEF Held
<1>4. Idle = [pc |-> "idle", owner |-> Idle.owner, member |-> NoMember]
  BY DEF Idle
<1>5. tstep' \in [TlsThreads -> [pc : PCs, owner : Owners \cup {Idle.owner}, member : Nat]]
  BY <1>4 DEF TlsTypeOK, PCs, NoMember
<1>6. /\ \A u \in TlsThreads : tstep'[u].member = IF u = t THEN NoMember ELSE tstep[u].member
      /\ \A u \in TlsThreads : u # t => tstep'[u] = tstep[u]
      /\ tstep'[t].pc = "idle"
  BY <1>4 DEF TlsTypeOK
<1>7. IdsBounded' /\ IdsDistinct' /\ InSlots'
  BY DEF IdsBounded, IdsDistinct, InSlots
<1>8. InExit'
  BY <1>6 DEF InExit
<1>9. \A p \in Owners : Held(p)' = IF p = o THEN Held(p) \ {x} ELSE Held(p)
  <2> HIDE DEF x, o
  <2>1. /\ \A u \in TlsThreads, j \in Ids : slot[u][j] # x
        /\ \A u \in TlsThreads : tstep[u].member = x <=> u = t
    BY <1>2 DEF Apart, x
  <2>2. \A y \in DOMAIN ownerOf : y # NoMember
    BY MemberType
  <2>3. \A y \in DOMAIN ownerOf :
          (\E u \in TlsThreads : tstep'[u].member = y \/ \E j \in Ids : slot[u][j] = y)
          <=> y # x /\ (\E u \in TlsThreads : tstep[u].member = y \/ \E j \in Ids : slot[u][j] = y)
    BY <1>6, <2>1, <2>2
  <2> QED
    BY <1>1, <2>3 DEF Held
<1> QED
  BY <1>1, <1>2, <1>3, <1>5, <1>6, <1>7, <1>8, <1>9

\* A thread that ends counts a member of a dying owner as killed.
LEMMA CountKillInv ==
  ASSUME TlsInv, NEW t \in TlsThreads, CountKill(t)
  PROVE  TlsInv'
<1> USE DEF TlsInv
<1> DEFINE o == tstep[t].owner
           x == tstep[t].member
<1>1. /\ tstep[t].pc = "kill" /\ tstep' = [tstep EXCEPT ![t] = Idle]
      /\ killCnt' = [killCnt EXCEPT ![o] = @ + 1]
      /\ UNCHANGED <<phase, id, idList, idNum, matrix, slot, vec, firstFree, freeCnt, ownerOf, deleted>>
  BY DEF CountKill
<1>2. /\ o \in Owners /\ x \in Held(o)
      /\ tstep' \in [TlsThreads -> [pc : PCs, owner : Owners \cup {Idle.owner}, member : Nat]]
      /\ IdsBounded' /\ IdsDistinct' /\ InSlots' /\ InExit'
      /\ \A p \in Owners : Held(p)' = IF p = o THEN Held(p) \ {x} ELSE Held(p)
      /\ \A u \in TlsThreads : tstep'[u].member = IF u = t THEN NoMember ELSE tstep[u].member
  BY <1>1, GiveAway
<1> HIDE DEF o, x
<1>3. TlsTypeOK'
  BY <1>1, <1>2 DEF TlsTypeOK
<1>4. InFree'
  BY <1>1 DEF InFree
<1>5. Apart'
  <2>1. \A p \in Owners : \A k \in 1..Len(firstFree[p]) : firstFree[p][k] # NoMember
    BY MemberType DEF InFree
  <2> QED
    BY <1>1, <1>2, <2>1 DEF Apart
<1>6. Accounted'
  <2> SUFFICES ASSUME NEW p \in Owners
               PROVE  /\ freeCnt[p] = Len(firstFree[p])
                      /\ Cardinality(Held(p)') + freeCnt[p] + killCnt'[p] = Len(vec[p])
                      /\ phase[p] = "gone" => Held(p)' = {}
    BY <1>1 DEF Accounted
  <2>1. CASE p = o
    <3>1. Cardinality(Held(p)') = Cardinality(Held(p)) - 1 /\ Cardinality(Held(p)) \in Nat
      BY <1>2, <2>1, HeldMinus, HeldFinite
    <3>2. killCnt'[p] = killCnt[p] + 1 /\ killCnt[p] \in Nat /\ freeCnt[p] \in Nat
      BY <1>1, <2>1 DEF TlsTypeOK
    <3>3. Held(p)' \subseteq Held(p)
      BY <1>2
    <3>4. /\ freeCnt[p] = Len(firstFree[p])
          /\ Cardinality(Held(p)) + freeCnt[p] + killCnt[p] = Len(vec[p])
          /\ phase[p] = "gone" => Held(p) = {}
      BY DEF Accounted
    <3>5. Cardinality(Held(p)') + freeCnt[p] + killCnt'[p] = Len(vec[p])
      <4> DEFINE c == Cardinality(Held(p))
                 d == Cardinality(Held(p)')
                 n == Len(vec[p])
      <4>1. c \in Nat /\ d = c - 1 /\ c + freeCnt[p] + killCnt[p] = n
        BY <3>1, <3>4
      <4> HIDE DEF c, d, n
      <4>2. d + freeCnt[p] + killCnt'[p] = n
        BY <3>2, <4>1
      <4> QED
        BY <4>2 DEF d, n
    <3> QED
      BY <3>3, <3>4, <3>5
  <2>2. CASE p # o
    BY <1>1, <1>2, <2>2 DEF Accounted, TlsTypeOK
  <2> QED
    BY <2>1, <2>2
<1>7. Deleted'
  <2>1. \A p \in Owners : Held(p)' \subseteq Held(p)
    BY <1>2
  <2> QED
    BY <1>1, <2>1 DEF Deleted
<1> QED
  BY <1>2, <1>3, <1>4, <1>5, <1>6, <1>7

\* A thread that ends puts a member on the free list of its owner.
LEMMA PushHeadInv ==
  ASSUME TlsInv, NEW t \in TlsThreads, PushHead(t)
  PROVE  TlsInv'
<1> USE DEF TlsInv
<1> DEFINE o == tstep[t].owner
           x == tstep[t].member
<1>1. /\ tstep[t].pc = "push" /\ tstep' = [tstep EXCEPT ![t] = Idle]
      /\ firstFree' = [firstFree EXCEPT ![o] = <<x>> \o @]
      /\ freeCnt' = [freeCnt EXCEPT ![o] = @ + 1]
      /\ UNCHANGED <<phase, id, idList, idNum, matrix, slot, vec, killCnt, ownerOf, deleted>>
  BY DEF PushHead
<1>2. /\ o \in Owners /\ x \in Held(o) /\ x \in DOMAIN ownerOf /\ ownerOf[x] = o
      /\ tstep' \in [TlsThreads -> [pc : PCs, owner : Owners \cup {Idle.owner}, member : Nat]]
      /\ IdsBounded' /\ IdsDistinct' /\ InSlots' /\ InExit'
      /\ \A p \in Owners : Held(p)' = IF p = o THEN Held(p) \ {x} ELSE Held(p)
      /\ \A u \in TlsThreads : tstep'[u].member = IF u = t THEN NoMember ELSE tstep[u].member
  BY <1>1, GiveAway
<1>3. /\ x # NoMember /\ x \in Nat /\ tstep[t].member = x
      /\ \A u \in TlsThreads : tstep[u].member = x => u = t
      /\ \A u \in TlsThreads, i \in Ids : slot[u][i] # x
      /\ \A p \in Owners : \A k \in 1..Len(firstFree[p]) : firstFree[p][k] # x
  BY <1>2, MemberType DEF Apart
<1> HIDE DEF o, x
<1>4. /\ \A p \in Owners : p # o => firstFree'[p] = firstFree[p] /\ freeCnt'[p] = freeCnt[p]
      /\ firstFree'[o] \in Seq(Nat) /\ Len(firstFree'[o]) = Len(firstFree[o]) + 1
      /\ freeCnt'[o] = freeCnt[o] + 1
      /\ \A k \in 1..Len(firstFree'[o]) :
           \/ k = 1 /\ firstFree'[o][k] = x
           \/ k - 1 \in 1..Len(firstFree[o]) /\ firstFree'[o][k] = firstFree[o][k - 1]
  <2>1. firstFree[o] \in Seq(Nat) /\ firstFree'[o] = <<x>> \o firstFree[o]
    BY <1>1, <1>2 DEF TlsTypeOK
  <2>2. firstFree'[o] \in Seq(Nat) /\ Len(firstFree'[o]) = Len(firstFree[o]) + 1
    BY <1>3, <2>1
  <2>3. \A k \in 1..Len(firstFree'[o]) :
           \/ k = 1 /\ firstFree'[o][k] = x
           \/ k - 1 \in 1..Len(firstFree[o]) /\ firstFree'[o][k] = firstFree[o][k - 1]
    BY <2>1, <2>2
  <2> QED
    BY <1>1, <1>2, <2>2, <2>3 DEF TlsTypeOK
<1>5. TlsTypeOK'
  <2>1. firstFree' \in [Owners -> Seq(Nat)]
    <3>1. \A p \in Owners : firstFree'[p] \in Seq(Nat)
      BY <1>4 DEF TlsTypeOK
    <3>2. firstFree' = [p \in Owners |-> firstFree'[p]]
      BY <1>1 DEF TlsTypeOK
    <3> QED
      BY <3>1, <3>2
  <2>2. freeCnt' \in [Owners -> Nat]
    <3>1. freeCnt \in [Owners -> Nat] /\ freeCnt' = [freeCnt EXCEPT ![o] = freeCnt[o] + 1]
      BY <1>1 DEF TlsTypeOK
    <3>2. freeCnt[o] + 1 \in Nat
      BY <1>2, <3>1
    <3> QED
      BY <3>1, <3>2
  <2> QED
    BY <1>1, <1>2, <2>1, <2>2 DEF TlsTypeOK
<1>6. InFree'
  <2> SUFFICES ASSUME NEW p \in Owners, NEW k \in 1..Len(firstFree'[p])
               PROVE  firstFree'[p][k] \in DOMAIN ownerOf /\ ownerOf[firstFree'[p][k]] = p
    BY <1>1 DEF InFree
  <2>1. (p = o /\ firstFree'[p][k] = x) \/ \E l \in 1..Len(firstFree[p]) : firstFree'[p][k] = firstFree[p][l]
    BY <1>4
  <2> QED
    BY <1>2, <2>1 DEF InFree
<1>7. Apart'
  <2>1. /\ \A u, v \in TlsThreads, i, j \in Ids :
             slot'[u][i] = slot'[v][j] /\ slot'[u][i] # NoMember => u = v /\ i = j
        /\ \A u, v \in TlsThreads, i \in Ids : slot'[u][i] # NoMember => slot'[u][i] # tstep'[v].member
        /\ \A u, v \in TlsThreads : tstep'[u].member = tstep'[v].member /\ tstep'[u].member # NoMember => u = v
    BY <1>1, <1>2 DEF Apart
  <2>2. ASSUME NEW p \in Owners, NEW k \in 1..Len(firstFree'[p]), NEW u \in TlsThreads
        PROVE  tstep'[u].member # firstFree'[p][k] /\ \A i \in Ids : slot'[u][i] # firstFree'[p][k]
    <3>1. firstFree'[p][k] # NoMember
      BY <1>6, <1>5, MemberType, <1>1 DEF InFree
    <3>2. firstFree'[p][k] = x \/ \E l \in 1..Len(firstFree[p]) : firstFree'[p][k] = firstFree[p][l]
      BY <1>4
    <3>3. tstep'[u].member # x
      BY <1>2, <1>3
    <3> QED
      BY <1>1, <1>2, <1>3, <3>1, <3>2, <3>3 DEF Apart
  <2>3. ASSUME NEW p \in Owners, NEW k \in 1..Len(firstFree'[p]), NEW l \in 1..Len(firstFree'[p]),
               firstFree'[p][k] = firstFree'[p][l]
        PROVE  k = l
    <3>1. CASE p = o
      <4>1. k \in 1..Len(firstFree'[o]) /\ l \in 1..Len(firstFree'[o]) /\ firstFree'[o][k] = firstFree'[o][l]
        BY <2>3, <3>1
      <4>2. \A i, j \in 1..Len(firstFree[o]) : firstFree[o][i] = firstFree[o][j] => i = j
        BY <1>2 DEF Apart
      <4>3. \A i \in 1..Len(firstFree[o]) : firstFree[o][i] # x
        BY <1>2, <1>3
      <4>4. k \in Int /\ l \in Int
        OBVIOUS
      <4>5. CASE k = 1 \/ l = 1
        <5>1. ASSUME NEW i \in 1..Len(firstFree'[o]) PROVE firstFree'[o][i] = x <=> i = 1
          <6>1. CASE i = 1 /\ firstFree'[o][i] = x
            BY <6>1
          <6>2. CASE i - 1 \in 1..Len(firstFree[o]) /\ firstFree'[o][i] = firstFree[o][i - 1]
            <7>1. firstFree[o][i - 1] # x
              BY <4>3, <6>2
            <7> QED
              BY <6>2, <7>1
          <6> QED
            BY <1>4, <6>1, <6>2
        <5> QED
          BY <4>1, <4>5, <5>1
      <4>6. CASE k # 1 /\ l # 1
        <5>1. /\ k - 1 \in 1..Len(firstFree[o]) /\ firstFree'[o][k] = firstFree[o][k - 1]
              /\ l - 1 \in 1..Len(firstFree[o]) /\ firstFree'[o][l] = firstFree[o][l - 1]
          BY <1>4, <4>1, <4>6
        <5>2. k - 1 = l - 1
          BY <4>1, <4>2, <5>1
        <5> QED
          BY <4>4, <5>2
      <4> QED
        BY <4>5, <4>6
    <3>2. CASE p # o
      BY <1>4, <2>3, <3>2 DEF Apart
    <3> QED
      BY <3>1, <3>2
  <2> QED
    BY <2>1, <2>2, <2>3 DEF Apart
<1>8. Accounted'
  <2> SUFFICES ASSUME NEW p \in Owners
               PROVE  /\ freeCnt'[p] = Len(firstFree'[p])
                      /\ Cardinality(Held(p)') + freeCnt'[p] + killCnt[p] = Len(vec[p])
                      /\ phase[p] = "gone" => Held(p)' = {}
    BY <1>1 DEF Accounted
  <2>1. CASE p = o
    <3>1. Cardinality(Held(p)') = Cardinality(Held(p)) - 1 /\ Cardinality(Held(p)) \in Nat
      BY <1>2, <2>1, HeldMinus, HeldFinite
    <3>2. killCnt[p] \in Nat /\ freeCnt[p] \in Nat
      BY <1>1, <2>1 DEF TlsTypeOK
    <3>3. Held(p)' \subseteq Held(p)
      BY <1>2
    <3>4. /\ freeCnt[p] = Len(firstFree[p])
          /\ Cardinality(Held(p)) + freeCnt[p] + killCnt[p] = Len(vec[p])
          /\ phase[p] = "gone" => Held(p) = {}
      BY DEF Accounted
    <3>5. Cardinality(Held(p)') + freeCnt'[p] + killCnt[p] = Len(vec[p])
      BY <1>4, <2>1, <3>1, <3>2, <3>4
    <3> QED
      BY <1>4, <2>1, <3>2, <3>3, <3>4, <3>5
  <2>2. CASE p # o
    BY <1>1, <1>2, <1>4, <2>2 DEF Accounted, TlsTypeOK
  <2> QED
    BY <2>1, <2>2
<1>9. Deleted'
  <2>1. \A p \in Owners : Held(p)' \subseteq Held(p)
    BY <1>2
  <2>2. ASSUME NEW p \in Owners, phase[p] # "gone", NEW k \in 1..Len(firstFree'[p])
        PROVE  firstFree'[p][k] \notin deleted
    <3>1. (p = o /\ firstFree'[p][k] = x) \/ \E l \in 1..Len(firstFree[p]) : firstFree'[p][k] = firstFree[p][l]
      BY <1>4
    <3> QED
      BY <1>2, <2>2, <3>1 DEF Deleted
  <2> QED
    BY <1>1, <2>1, <2>2 DEF Deleted
<1> QED
  BY <1>2, <1>5, <1>6, <1>7, <1>8, <1>9

\* fill_tls puts member x, which no thread holds, in the slot of t.
PutsInSlot(t, x) ==
    /\ tstep[t].pc \in {"reuse", "new"} /\ x \in Nat \ {0}
    /\ slot' = [slot EXCEPT ![t][id[tstep[t].owner]] = x] /\ tstep' = [tstep EXCEPT ![t] = Idle]
    /\ DOMAIN ownerOf' = DOMAIN ownerOf \cup {x} /\ \A y \in DOMAIN ownerOf : ownerOf'[y] = ownerOf[y]
    /\ ownerOf'[x] = tstep[t].owner
    /\ \A u \in TlsThreads : tstep[u].member # x /\ \A i \in Ids : slot[u][i] # x
    /\ UNCHANGED <<phase, id, idList, idNum, matrix>>

\* Thread t now has member x of owner o.
HasGot(t, o, x) ==
    /\ slot' \in [TlsThreads -> [Ids -> Nat]]
    /\ tstep' \in [TlsThreads -> [pc : PCs, owner : Owners \cup {Idle.owner}, member : Nat]]
    /\ IdsBounded' /\ IdsDistinct' /\ InSlots' /\ InExit'
    /\ x \notin Held(o)
    /\ \A p \in Owners : Held(p)' = IF p = o THEN Held(p) \cup {x} ELSE Held(p)
    /\ \A u \in TlsThreads : tstep'[u].member = tstep[u].member
    /\ \A u \in TlsThreads, j \in Ids : slot'[u][j] = x \/ slot'[u][j] = slot[u][j]
    /\ \A u, v \in TlsThreads, i, j \in Ids :
         slot'[u][i] = slot'[v][j] /\ slot'[u][i] # NoMember => u = v /\ i = j

\* What is left to say of a step that puts a member in a slot is the free lists and the counts.
LEMMA GetMember ==
  ASSUME TlsInv, NEW t \in TlsThreads, NEW x, PutsInSlot(t, x)
  PROVE  HasGot(t, tstep[t].owner, x)
<1> USE DEF PutsInSlot
<1> USE DEF TlsInv
<1> DEFINE o == tstep[t].owner
           c == id[o]
<1>1. /\ o \in Owners /\ phase[o] = "alive" /\ matrix[t] = "linked" /\ slot[t][c] = NoMember
      /\ tstep[t].member = NoMember
  BY DEF InExit
<1>2. c \in Ids
  BY <1>1, IdInIds
<1>3. Idle = [pc |-> "idle", owner |-> Idle.owner, member |-> NoMember]
  BY DEF Idle
<1> HIDE DEF o, c
<1>4. slot' = [slot EXCEPT ![t][c] = x]
  BY DEF o, c
<1>5. /\ slot' \in [TlsThreads -> [Ids -> Nat]]
      /\ \A u \in TlsThreads, j \in Ids : slot'[u][j] = IF u = t /\ j = c THEN x ELSE slot[u][j]
  <2>1. slot \in [TlsThreads -> [Ids -> Nat]] /\ x \in Nat
    BY DEF TlsTypeOK
  <2> HIDE DEF PutsInSlot, TlsInv
  <2>2. slot' \in [TlsThreads -> [Ids -> Nat]]
    BY <1>2, <1>4, <2>1
  <2> QED
    BY <1>2, <1>4, <2>1, <2>2
<1>6. /\ tstep' \in [TlsThreads -> [pc : PCs, owner : Owners \cup {Idle.owner}, member : Nat]]
      /\ \A u \in TlsThreads : u # t => tstep'[u] = tstep[u]
      /\ tstep'[t].pc = "idle" /\ tstep'[t].member = NoMember
      /\ \A u \in TlsThreads : tstep'[u].member = tstep[u].member
  BY <1>1, <1>3 DEF TlsTypeOK, PCs, NoMember
<1>7. IdsBounded' /\ IdsDistinct'
  BY DEF IdsBounded, IdsDistinct
<1>8. ownerOf'[x] = o
  BY DEF o
<1>9. InSlots'
  <2> SUFFICES ASSUME NEW u \in TlsThreads, NEW j \in Ids, slot'[u][j] # NoMember
               PROVE  /\ matrix[u] \in {"linked", "dying"}
                      /\ slot'[u][j] \in DOMAIN ownerOf'
                      /\ matrix[u] = "linked" => id[ownerOf'[slot'[u][j]]] = j
    BY DEF InSlots
  <2>1. CASE u = t /\ j = c
    BY <1>1, <1>5, <1>8, <2>1 DEF c
  <2>2. CASE ~(u = t /\ j = c)
    BY <1>5, <2>2 DEF InSlots
  <2> QED
    BY <2>1, <2>2
<1>10. InExit'
  <2> SUFFICES ASSUME NEW u \in TlsThreads
               PROVE  /\ tstep'[u].pc \in {"idle", "reuse", "new"} => tstep'[u].member = NoMember
                      /\ tstep'[u].pc \in {"reuse", "new"} =>
                           /\ tstep'[u].owner \in Owners /\ phase[tstep'[u].owner] = "alive"
                           /\ matrix[u] = "linked" /\ slot'[u][id[tstep'[u].owner]] = NoMember
                      /\ tstep'[u].pc \in {"dropped", "push", "kill"} =>
                           /\ matrix[u] = "dying" /\ tstep'[u].member \in DOMAIN ownerOf'
                           /\ tstep'[u].owner = ownerOf'[tstep'[u].member]
    BY DEF InExit
  <2>1. CASE u = t
    BY <1>6, <2>1
  <2>2. CASE u # t
    <3>1. tstep'[u] = tstep[u] /\ slot'[u] = slot[u]
      BY <1>4, <1>6, <2>2 DEF TlsTypeOK
    <3> QED
      BY <3>1 DEF InExit
  <2> QED
    BY <2>1, <2>2
<1>11. x \notin Held(o)
  BY DEF Held
<1>12. \A p \in Owners : Held(p)' = IF p = o THEN Held(p) \cup {x} ELSE Held(p)
  <2>1. \A y \in DOMAIN ownerOf' :
          (\E u \in TlsThreads : tstep'[u].member = y \/ \E j \in Ids : slot'[u][j] = y)
          <=> y = x \/ (\E u \in TlsThreads : tstep[u].member = y \/ \E j \in Ids : slot[u][j] = y)
    <3> SUFFICES ASSUME NEW y \in DOMAIN ownerOf'
                 PROVE  (\E u \in TlsThreads : tstep'[u].member = y \/ \E j \in Ids : slot'[u][j] = y)
                        <=> y = x \/ (\E u \in TlsThreads : tstep[u].member = y \/ \E j \in Ids : slot[u][j] = y)
      OBVIOUS
    <3>1. y # NoMember
      BY MemberType DEF NoMember
    <3>2. slot'[t][c] = x
      BY <1>2, <1>5
    <3>3. ASSUME NEW u \in TlsThreads, NEW j \in Ids, slot[u][j] = y PROVE slot'[u][j] = y
      BY <1>1, <1>5, <3>1, <3>3
    <3> QED
      BY <1>2, <1>5, <1>6, <3>2, <3>3
  <2>2. \A y \in DOMAIN ownerOf' : y = x \/ (y \in DOMAIN ownerOf /\ ownerOf'[y] = ownerOf[y])
    OBVIOUS
  <2>3. ASSUME NEW p \in Owners, NEW y PROVE y \in Held(p)' <=> y \in Held(p) \/ (p = o /\ y = x)
    BY <1>8, <2>1, <2>2 DEF Held
  <2> QED
    BY <2>3
<1>13. /\ \A u \in TlsThreads, j \in Ids : slot'[u][j] = x \/ slot'[u][j] = slot[u][j]
       /\ \A u, v \in TlsThreads, i, j \in Ids :
            slot'[u][i] = slot'[v][j] /\ slot'[u][i] # NoMember => u = v /\ i = j
  BY <1>5 DEF Apart
<1> QED
  BY <1>5, <1>6, <1>7, <1>9, <1>10, <1>11, <1>12, <1>13 DEF o, HasGot

\* fill_tls takes the first free member, or finds that another thread was faster.
LEMMA FillReuseInv ==
  ASSUME TlsInv, NEW t \in TlsThreads, FillReuse(t)
  PROVE  TlsInv'
<1> USE DEF TlsInv
<1> DEFINE o == tstep[t].owner
<1>1. /\ tstep[t].pc = "reuse"
      /\ UNCHANGED <<phase, id, idList, idNum, matrix, vec, killCnt, ownerOf, deleted>>
      /\ o \in Owners /\ phase[o] = "alive" /\ tstep[t].member = NoMember
  BY DEF FillReuse, InExit
<1>2. CASE firstFree[o] = <<>>
  <2>1. /\ tstep' = [tstep EXCEPT ![t] = [pc |-> "new", owner |-> o, member |-> NoMember]]
        /\ UNCHANGED <<slot, firstFree, freeCnt>>
    BY <1>2 DEF FillReuse, Goto
  <2>2. /\ \A u \in TlsThreads : tstep'[u].member = tstep[u].member
        /\ \A u \in TlsThreads : u # t => tstep'[u] = tstep[u]
        /\ tstep'[t].pc = "new" /\ tstep'[t].owner = tstep[t].owner
    BY <1>1, <2>1 DEF TlsTypeOK
  <2>3. TlsTypeOK'
    BY <1>1, <2>1 DEF TlsTypeOK, PCs, NoMember
  <2>4. InExit'
    BY <1>1, <2>1, <2>2 DEF InExit
  <2>5. IdsBounded' /\ IdsDistinct' /\ InSlots' /\ InFree' /\ Apart'
    BY <1>1, <2>1, <2>2 DEF IdsBounded, IdsDistinct, InSlots, InFree, Apart
  <2>6. \A p : Held(p)' = Held(p)
    BY <1>1, <2>1, <2>2, HeldSame
  <2>7. Accounted' /\ Deleted'
    BY <1>1, <2>1, <2>6 DEF Accounted, Deleted
  <2> QED
    BY <2>3, <2>4, <2>5, <2>7
<1>3. CASE firstFree[o] # <<>>
  <2> DEFINE x == firstFree[o][1]
  <2>1. /\ firstFree[o] \in Seq(Nat) /\ Len(firstFree[o]) > 0 /\ Head(firstFree[o]) = x
        /\ Tail(firstFree[o]) \in Seq(Nat) /\ Len(Tail(firstFree[o])) = Len(firstFree[o]) - 1
        /\ \A k \in 1..Len(Tail(firstFree[o])) : Tail(firstFree[o])[k] = firstFree[o][k + 1]
    BY <1>1, <1>3 DEF TlsTypeOK
  <2>2. /\ slot' = [slot EXCEPT ![t][id[o]] = x]
        /\ firstFree' = [firstFree EXCEPT ![o] = Tail(firstFree[o])]
        /\ freeCnt' = [freeCnt EXCEPT ![o] = freeCnt[o] - 1]
        /\ tstep' = [tstep EXCEPT ![t] = Idle]
    BY <1>3, <2>1 DEF FillReuse
  <2>3. 1 \in 1..Len(firstFree[o])
    BY <2>1
  <2>4. /\ x \in DOMAIN ownerOf /\ ownerOf[x] = o /\ x \in Nat \ {0}
        /\ \A u \in TlsThreads : tstep[u].member # x /\ \A i \in Ids : slot[u][i] # x
        /\ x \notin deleted
    <3>1. x \in DOMAIN ownerOf /\ ownerOf[x] = o
      BY <1>1, <2>3 DEF InFree
    <3>2. x \in Nat \ {0}
      BY <3>1, MemberType DEF NoMember
    <3>3. \A u \in TlsThreads : tstep[u].member # x /\ \A i \in Ids : slot[u][i] # x
      BY <1>1, <2>3 DEF Apart
    <3>4. x \notin deleted
      BY <1>1, <2>3 DEF Deleted
    <3> QED
      BY <3>1, <3>2, <3>3, <3>4
  <2>5. /\ slot' \in [TlsThreads -> [Ids -> Nat]]
        /\ tstep' \in [TlsThreads -> [pc : PCs, owner : Owners \cup {Idle.owner}, member : Nat]]
        /\ IdsBounded' /\ IdsDistinct' /\ InSlots' /\ InExit'
        /\ x \notin Held(o)
        /\ \A p \in Owners : Held(p)' = IF p = o THEN Held(p) \cup {x} ELSE Held(p)
        /\ \A u \in TlsThreads : tstep'[u].member = tstep[u].member
        /\ \A u \in TlsThreads, j \in Ids : slot'[u][j] = x \/ slot'[u][j] = slot[u][j]
        /\ \A u, v \in TlsThreads, i, j \in Ids :
             slot'[u][i] = slot'[v][j] /\ slot'[u][i] # NoMember => u = v /\ i = j
    <3> HIDE DEF x
    <3>1. PutsInSlot(t, x)
      BY <1>1, <2>2, <2>4 DEF PutsInSlot
    <3>2. HasGot(t, o, x)
      BY <3>1, GetMember
    <3> QED
      BY <3>2 DEF HasGot
  <2> HIDE DEF o, x
  <2>6. /\ \A p \in Owners : p # o => firstFree'[p] = firstFree[p] /\ freeCnt'[p] = freeCnt[p]
        /\ firstFree'[o] = Tail(firstFree[o]) /\ freeCnt'[o] = freeCnt[o] - 1
        /\ freeCnt[o] = Len(firstFree[o])
    BY <1>1, <2>2 DEF TlsTypeOK, Accounted
  <2>7. /\ \A k \in 1..Len(firstFree'[o]) : k + 1 \in 1..Len(firstFree[o]) /\ firstFree'[o][k] = firstFree[o][k + 1]
        /\ Len(firstFree'[o]) = Len(firstFree[o]) - 1 /\ Len(firstFree[o]) \in Nat
    BY <2>1, <2>6
  <2>8. \A p \in Owners : \A k \in 1..Len(firstFree'[p]) :
          (\E l \in 1..Len(firstFree[p]) : firstFree'[p][k] = firstFree[p][l]) /\ firstFree'[p][k] # x
    <3> SUFFICES ASSUME NEW p \in Owners, NEW k \in 1..Len(firstFree'[p])
                 PROVE  (\E l \in 1..Len(firstFree[p]) : firstFree'[p][k] = firstFree[p][l]) /\ firstFree'[p][k] # x
      OBVIOUS
    <3>1. CASE p = o
      <4>1. k + 1 \in 1..Len(firstFree[o]) /\ firstFree'[o][k] = firstFree[o][k + 1] /\ k + 1 # 1
        BY <2>7, <3>1
      <4>2. firstFree[o][k + 1] # firstFree[o][1]
        BY <1>1, <2>3, <4>1 DEF Apart
      <4> QED
        BY <3>1, <4>1, <4>2 DEF x
    <3>2. CASE p # o
      <4>1. firstFree'[p] = firstFree[p]
        BY <2>6, <3>2
      <4>2. ownerOf[firstFree[p][k]] = p
        BY <4>1 DEF InFree
      <4> QED
        BY <2>4, <3>2, <4>1, <4>2
    <3> QED
      BY <3>1, <3>2
  <2>9. TlsTypeOK'
    <3>1. \A p \in Owners : firstFree'[p] \in Seq(Nat) /\ freeCnt'[p] \in Nat
      <4>1. freeCnt'[o] \in Nat /\ firstFree'[o] \in Seq(Nat)
        BY <2>1, <2>6
      <4> QED
        BY <2>6, <4>1 DEF TlsTypeOK
    <3>2. firstFree' \in [Owners -> Seq(Nat)] /\ freeCnt' \in [Owners -> Nat]
      BY <2>2, <3>1 DEF TlsTypeOK
    <3> QED
      BY <1>1, <2>5, <3>2 DEF TlsTypeOK
  <2>10. InFree'
    BY <1>1, <2>8 DEF InFree
  <2>11. Apart'
    <3> DEFINE SameMember == \A u \in TlsThreads : tstep'[u].member = tstep[u].member
               OneSlot == \A u \in TlsThreads, j \in Ids : slot'[u][j] = x \/ slot'[u][j] = slot[u][j]
    <3>0. SameMember /\ OneSlot
      BY <2>5
    <3>1. \A u, v \in TlsThreads, i \in Ids : slot'[u][i] # NoMember => slot'[u][i] # tstep'[v].member
      BY <2>4, <3>0 DEF Apart
    <3>2. \A u, v \in TlsThreads : tstep'[u].member = tstep'[v].member /\ tstep'[u].member # NoMember => u = v
      BY <3>0 DEF Apart
    <3>3. \A p \in Owners : \A k \in 1..Len(firstFree'[p]) : \A u \in TlsThreads :
            tstep'[u].member # firstFree'[p][k] /\ \A i \in Ids : slot'[u][i] # firstFree'[p][k]
      <4> SUFFICES ASSUME NEW p \in Owners, NEW k \in 1..Len(firstFree'[p]), NEW u \in TlsThreads
                   PROVE  tstep'[u].member # firstFree'[p][k] /\ \A i \in Ids : slot'[u][i] # firstFree'[p][k]
        OBVIOUS
      <4>1. PICK l \in 1..Len(firstFree[p]) : firstFree'[p][k] = firstFree[p][l] /\ firstFree[p][l] # x
        BY <2>8
      <4>2. tstep[u].member # firstFree[p][l] /\ \A i \in Ids : slot[u][i] # firstFree[p][l]
        BY DEF Apart
      <4> QED
        BY <3>0, <4>1, <4>2
    <3>4. ASSUME NEW p \in Owners, NEW k \in 1..Len(firstFree'[p]), NEW l \in 1..Len(firstFree'[p]),
                 firstFree'[p][k] = firstFree'[p][l]
          PROVE  k = l
      <4>1. CASE p = o
        <5>1. /\ k + 1 \in 1..Len(firstFree[o]) /\ firstFree'[o][k] = firstFree[o][k + 1]
              /\ l + 1 \in 1..Len(firstFree[o]) /\ firstFree'[o][l] = firstFree[o][l + 1]
          BY <2>7, <4>1
        <5>2. k + 1 = l + 1
          BY <1>1, <3>4, <4>1, <5>1 DEF Apart
        <5> QED
          BY <5>2
      <4>2. CASE p # o
        BY <2>6, <3>4, <4>2 DEF Apart
      <4> QED
        BY <4>1, <4>2
    <3> QED
      BY <2>5, <3>1, <3>2, <3>3, <3>4 DEF Apart
  <2>12. Accounted'
    <3> SUFFICES ASSUME NEW p \in Owners
                 PROVE  /\ freeCnt'[p] = Len(firstFree'[p])
                        /\ Cardinality(Held(p)') + freeCnt'[p] + killCnt[p] = Len(vec[p])
                        /\ phase[p] = "gone" => Held(p)' = {}
      BY <1>1 DEF Accounted
    <3>1. CASE p = o
      <4>1. Cardinality(Held(p)') = Cardinality(Held(p)) + 1 /\ Cardinality(Held(p)) \in Nat
        BY <2>5, <3>1, HeldPlus, HeldFinite
      <4>2. killCnt[p] \in Nat /\ freeCnt[p] \in Nat
        BY DEF TlsTypeOK
      <4>3. Cardinality(Held(p)) + freeCnt[p] + killCnt[p] = Len(vec[p])
        BY DEF Accounted
      <4>4. Cardinality(Held(p)') + freeCnt'[p] + killCnt[p] = Len(vec[p])
        BY <2>6, <3>1, <4>1, <4>2, <4>3
      <4> QED
        BY <1>1, <2>6, <2>7, <3>1, <4>4
    <3>2. CASE p # o
      BY <2>5, <2>6, <3>2 DEF Accounted
    <3> QED
      BY <3>1, <3>2
  <2>13. Deleted'
    <3> SUFFICES ASSUME NEW p \in Owners, phase[p] # "gone"
                 PROVE  /\ Held(p)' \cap deleted = {}
                        /\ \A k \in 1..Len(firstFree'[p]) : firstFree'[p][k] \notin deleted
      BY <1>1 DEF Deleted
    <3>1. Held(p) \cap deleted = {} /\ \A k \in 1..Len(firstFree[p]) : firstFree[p][k] \notin deleted
      BY DEF Deleted
    <3>2. Held(p)' \subseteq Held(p) \cup {x}
      BY <2>5
    <3>3. Held(p)' \cap deleted = {}
      BY <2>4, <3>1, <3>2
    <3>4. \A k \in 1..Len(firstFree'[p]) : firstFree'[p][k] \notin deleted
      BY <2>8, <3>1
    <3> QED
      BY <3>3, <3>4
  <2> QED
    BY <2>5, <2>9, <2>10, <2>11, <2>12, <2>13
<1> QED
  BY <1>2, <1>3

\* fill_tls makes a member, which is deleted again if m_tls_vec is full.
LEMMA FillNewInv ==
  ASSUME TlsInv, NEW t \in TlsThreads, FillNew(t)
  PROVE  TlsInv'
<1> USE DEF TlsInv
<1> DEFINE o == tstep[t].owner
           x == Len(ownerOf) + 1
<1>1. /\ tstep[t].pc = "new" /\ tstep' = [tstep EXCEPT ![t] = Idle] /\ ownerOf' = Append(ownerOf, o)
      /\ UNCHANGED <<phase, id, idList, idNum, matrix, firstFree, freeCnt, killCnt>>
      /\ o \in Owners /\ phase[o] = "alive" /\ tstep[t].member = NoMember
  BY DEF FillNew, InExit
<1>2. /\ ownerOf' \in Seq(Owners) /\ ownerOf \in Seq(Owners) /\ Len(ownerOf) \in Nat /\ x \in Nat \ {0}
      /\ DOMAIN ownerOf = 1..Len(ownerOf) /\ DOMAIN ownerOf' = DOMAIN ownerOf \cup {x}
      /\ x \notin DOMAIN ownerOf
      /\ \A y \in DOMAIN ownerOf : ownerOf'[y] = ownerOf[y]
      /\ ownerOf'[x] = o
  <2>1. ownerOf \in Seq(Owners)
    BY DEF TlsTypeOK
  <2> QED
    BY <1>1, <2>1
<1>3. \A u \in TlsThreads : tstep[u].member # x /\ \A i \in Ids : slot[u][i] # x
  <2>1. \A u \in TlsThreads : tstep[u].member = NoMember \/ tstep[u].member \in DOMAIN ownerOf
    BY DEF InExit, TlsTypeOK, PCs
  <2>2. \A u \in TlsThreads, i \in Ids : slot[u][i] = NoMember \/ slot[u][i] \in DOMAIN ownerOf
    BY DEF InSlots
  <2> HIDE DEF x
  <2> QED
    BY <1>2, <2>1, <2>2 DEF NoMember
<1>4. /\ InFree'
      /\ \A p \in Owners : \A k \in 1..Len(firstFree[p]) : firstFree[p][k] # x
  BY <1>1, <1>2 DEF InFree
<1>5. CASE FixedCap # 0 /\ Len(vec[o]) >= FixedCap
  <2>1. deleted' = deleted \cup {x} /\ UNCHANGED <<vec, slot>>
    BY <1>5 DEF FillNew
  <2> HIDE DEF x
  <2>2. Idle = [pc |-> "idle", owner |-> Idle.owner, member |-> NoMember]
    BY DEF Idle
  <2>3. /\ tstep' \in [TlsThreads -> [pc : PCs, owner : Owners \cup {Idle.owner}, member : Nat]]
        /\ \A u \in TlsThreads : u # t => tstep'[u] = tstep[u]
        /\ tstep'[t].pc = "idle" /\ tstep'[t].member = NoMember
        /\ \A u \in TlsThreads : tstep'[u].member = tstep[u].member
    BY <1>1, <2>2 DEF TlsTypeOK, PCs, NoMember
  <2>4. TlsTypeOK'
    BY <1>1, <1>2, <2>1, <2>3 DEF TlsTypeOK
  <2>5. IdsBounded' /\ IdsDistinct'
    BY <1>1 DEF IdsBounded, IdsDistinct
  <2>6. InSlots'
    BY <1>1, <1>2, <2>1 DEF InSlots
  <2>7. InExit'
    BY <1>1, <1>2, <2>1, <2>3 DEF InExit
  <2>8. Apart'
    BY <1>1, <2>1, <2>3 DEF Apart
  <2>9. \A p \in Owners : Held(p)' = Held(p)
    <3>1. ASSUME NEW p \in Owners, NEW y PROVE y \in Held(p)' <=> y \in Held(p)
      BY <1>2, <1>3, <2>1, <2>3, SMTT(30) DEF Held
    <3> QED
      BY <3>1
  <2>10. Accounted'
    BY <1>1, <2>1, <2>9 DEF Accounted
  <2>11. Deleted'
    <3>1. deleted' \subseteq DOMAIN ownerOf'
      BY <1>2, <2>1 DEF Deleted
    <3>2. \A p \in Owners : \A k \in 1..Len(vec[p]) : vec[p][k] \in DOMAIN ownerOf' /\ ownerOf'[vec[p][k]] = p
      BY <1>2 DEF Deleted
    <3>3. \A p \in Owners : x \notin Held(p)
      BY <1>2 DEF Held
    <3>4. \A p \in Owners : phase[p] # "gone" =>
            /\ Held(p)' \cap deleted' = {}
            /\ \A k \in 1..Len(firstFree[p]) : firstFree[p][k] \notin deleted'
      BY <1>4, <2>1, <2>9, <3>3 DEF Deleted
    <3> QED
      BY <1>1, <2>1, <3>1, <3>2, <3>4 DEF Deleted
  <2> QED
    BY <1>4, <2>4, <2>5, <2>6, <2>7, <2>8, <2>10, <2>11
<1>6. CASE ~(FixedCap # 0 /\ Len(vec[o]) >= FixedCap)
  <2>1. /\ vec' = [vec EXCEPT ![o] = Append(vec[o], x)]
        /\ slot' = [slot EXCEPT ![t][id[o]] = x]
        /\ deleted' = deleted
    BY <1>6 DEF FillNew
  <2> HIDE DEF x
  <2>2. PutsInSlot(t, x)
    BY <1>1, <1>2, <1>3, <2>1 DEF PutsInSlot
  <2>3. HasGot(t, o, x)
    BY <2>2, GetMember
  <2> HIDE DEF o
  <2>4. /\ vec[o] \in Seq(Nat) /\ vec'[o] = Append(vec[o], x)
        /\ \A p \in Owners : p # o => vec'[p] = vec[p]
    BY <1>1, <2>1 DEF TlsTypeOK
  <2>5. /\ vec'[o] \in Seq(Nat) /\ Len(vec'[o]) = Len(vec[o]) + 1 /\ Len(vec[o]) \in Nat
        /\ \A k \in 1..Len(vec'[o]) : vec'[o][k] = x \/ (k \in 1..Len(vec[o]) /\ vec'[o][k] = vec[o][k])
    BY <1>2, <2>4
  <2>6. TlsTypeOK'
    <3>1. vec' = [p \in Owners |-> vec'[p]] /\ \A p \in Owners : vec'[p] \in Seq(Nat)
      BY <2>1, <2>4, <2>5 DEF TlsTypeOK
    <3>2. vec' \in [Owners -> Seq(Nat)]
      BY <3>1
    <3> QED
      BY <1>1, <1>2, <2>3, <3>2 DEF TlsTypeOK, HasGot
  <2>7. Apart'
    <3> DEFINE SameMember == \A u \in TlsThreads : tstep'[u].member = tstep[u].member
               OneSlot == \A u \in TlsThreads, j \in Ids : slot'[u][j] = x \/ slot'[u][j] = slot[u][j]
    <3>0. SameMember /\ OneSlot
      BY <2>3 DEF HasGot
    <3>1. \A u, v \in TlsThreads, i \in Ids : slot'[u][i] # NoMember => slot'[u][i] # tstep'[v].member
      BY <1>3, <3>0 DEF Apart
    <3>2. \A u, v \in TlsThreads : tstep'[u].member = tstep'[v].member /\ tstep'[u].member # NoMember => u = v
      BY <3>0 DEF Apart
    <3>3. \A p \in Owners : \A k \in 1..Len(firstFree[p]) : \A u \in TlsThreads :
            tstep'[u].member # firstFree[p][k] /\ \A i \in Ids : slot'[u][i] # firstFree[p][k]
      BY <1>4, <3>0 DEF Apart
    <3>4. \A u, v \in TlsThreads, i, j \in Ids :
            slot'[u][i] = slot'[v][j] /\ slot'[u][i] # NoMember => u = v /\ i = j
      BY <2>3 DEF HasGot
    <3> QED
      BY <1>1, <3>1, <3>2, <3>3, <3>4 DEF Apart
  <2>8. x \notin Held(o) /\ \A p \in Owners : Held(p)' = IF p = o THEN Held(p) \cup {x} ELSE Held(p)
    BY <2>3 DEF HasGot
  <2>9. Accounted'
    <3> SUFFICES ASSUME NEW p \in Owners
                 PROVE  /\ freeCnt[p] = Len(firstFree[p])
                        /\ Cardinality(Held(p)') + freeCnt[p] + killCnt[p] = Len(vec'[p])
                        /\ phase[p] = "gone" => Held(p)' = {}
      BY <1>1 DEF Accounted
    <3>1. CASE p = o
      <4>1. Cardinality(Held(p)') = Cardinality(Held(p)) + 1 /\ Cardinality(Held(p)) \in Nat
        BY <2>8, <3>1, HeldPlus, HeldFinite
      <4>2. killCnt[p] \in Nat /\ freeCnt[p] \in Nat
        BY DEF TlsTypeOK
      <4>3. Cardinality(Held(p)) + freeCnt[p] + killCnt[p] = Len(vec[p]) /\ freeCnt[p] = Len(firstFree[p])
        BY DEF Accounted
      <4>4. Cardinality(Held(p)') + freeCnt[p] + killCnt[p] = Len(vec'[p])
        <5> DEFINE d == Cardinality(Held(p)')
                   e == Cardinality(Held(p))
                   m == Len(vec'[p])
                   n == Len(vec[p])
        <5>1. e \in Nat /\ d = e + 1 /\ m = n + 1 /\ e + freeCnt[p] + killCnt[p] = n
          BY <2>5, <3>1, <4>1, <4>3
        <5> HIDE DEF d, e, m, n
        <5>2. d + freeCnt[p] + killCnt[p] = m
          BY <4>2, <5>1
        <5> QED
          BY <5>2 DEF d, m
      <4> QED
        BY <1>1, <3>1, <4>3, <4>4
    <3>2. CASE p # o
      BY <2>4, <2>8, <3>2 DEF Accounted
    <3> QED
      BY <3>1, <3>2
  <2>10. Deleted'
    <3>1. ASSUME NEW p \in Owners, NEW k \in 1..Len(vec'[p])
          PROVE  vec'[p][k] \in DOMAIN ownerOf' /\ ownerOf'[vec'[p][k]] = p
      <4>1. (p = o /\ vec'[p][k] = x) \/ (k \in 1..Len(vec[p]) /\ vec'[p][k] = vec[p][k])
        BY <2>4, <2>5
      <4> QED
        BY <1>2, <4>1 DEF Deleted
    <3>2. x \notin deleted
      BY <1>2 DEF Deleted
    <3>3. \A p \in Owners : Held(p)' \subseteq Held(p) \cup {x}
      BY <2>8
    <3>4. \A p \in Owners : phase[p] # "gone" =>
            /\ Held(p)' \cap deleted = {}
            /\ \A k \in 1..Len(firstFree[p]) : firstFree[p][k] \notin deleted
      BY <3>2, <3>3 DEF Deleted
    <3>5. deleted \subseteq DOMAIN ownerOf'
      BY <1>2 DEF Deleted
    <3> QED
      BY <1>1, <2>1, <3>1, <3>4, <3>5 DEF Deleted
  <2> QED
    BY <1>4, <2>3, <2>6, <2>7, <2>9, <2>10 DEF HasGot
<1> QED
  BY <1>5, <1>6

\* ~instance_tls(): the slots of the owner in all linked matrices are cleared and counted.
LEMMA RebornInv ==
  ASSUME TlsInv, NEW o \in Owners, Reborn(o)
  PROVE  TlsInv'
<1> USE DEF TlsInv
<1> DEFINE c == id[o]
           held == {t \in TlsThreads : matrix[t] = "linked" /\ slot[t][c] # NoMember}
           lost == {slot[t][c] : t \in held}
<1>1. /\ phase[o] = "dying" /\ phase' = [phase EXCEPT ![o] = "reborn"]
      /\ slot' = [t \in TlsThreads |-> IF t \in held THEN [slot[t] EXCEPT ![c] = NoMember] ELSE slot[t]]
      /\ killCnt' = [killCnt EXCEPT ![o] = killCnt[o] + Cardinality(held)]
      /\ idList' = <<c>> \o idList /\ id' = [id EXCEPT ![o] = NoId]
      /\ UNCHANGED <<idNum, matrix, vec, firstFree, freeCnt, ownerOf, deleted, tstep>>
  BY DEF Reborn
<1>2. c \in Ids /\ c # NoId /\ c \in Nat /\ c \in 1..idNum
  BY <1>1, IdInIds DEF IdsBounded, TlsTypeOK
<1>3. \A t \in TlsThreads, j \in Ids :
        slot'[t][j] = IF matrix[t] = "linked" /\ j = c THEN NoMember ELSE slot[t][j]
  BY <1>1, <1>2 DEF TlsTypeOK
<1>4. IsFiniteSet(held) /\ Cardinality(held) \in Nat
  BY TlsAssumption, FS_Subset, FS_CardinalityType
<1>5. \A t \in held : slot[t][c] \in DOMAIN ownerOf /\ ownerOf[slot[t][c]] = o
  <2> SUFFICES ASSUME NEW t \in held PROVE slot[t][c] \in DOMAIN ownerOf /\ ownerOf[slot[t][c]] = o
    OBVIOUS
  <2>1. slot[t][c] \in DOMAIN ownerOf /\ id[ownerOf[slot[t][c]]] = c
    BY <1>2 DEF InSlots
  <2> QED
    BY <1>2, <2>1, MemberType DEF IdsDistinct
<1>6. Cardinality(lost) = Cardinality(held) /\ IsFiniteSet(lost)
  <2> DEFINE f == [t \in held |-> slot[t][c]]
  <2>1. f \in Bijection(held, lost)
    <3>1. f \in [held -> lost] /\ \A y \in lost : \E t \in held : f[t] = y
      OBVIOUS
    <3>2. \A t, u \in held : f[t] = f[u] => t = u
      BY <1>2 DEF Apart
    <3> QED
      BY <3>1, <3>2 DEF Bijection, Injection, Surjection, IsInjective
  <2> QED
    BY <1>4, <2>1, FS_Bijection DEF ExistsBijection
<1>7. /\ lost \subseteq Held(o) /\ \A p \in Owners : Held(p)' = IF p = o THEN Held(p) \ lost ELSE Held(p)
  <2>1. lost \subseteq Held(o)
    BY <1>2, <1>5 DEF Held
  <2>2. ASSUME NEW y \in DOMAIN ownerOf
        PROVE  (\E u \in TlsThreads : tstep[u].member = y \/ \E j \in Ids : slot'[u][j] = y)
               <=> y \notin lost /\ (\E u \in TlsThreads : tstep[u].member = y \/ \E j \in Ids : slot[u][j] = y)
    <3>1. y # NoMember
      BY MemberType
    <3>2. CASE y \in lost
      <4>1. PICK t \in held : y = slot[t][c]
        BY <3>2
      <4>2. \A u \in TlsThreads : tstep[u].member # y
        BY <1>2, <3>1, <4>1 DEF Apart
      <4>3. \A u \in TlsThreads, j \in Ids : slot[u][j] = y => u = t /\ j = c
        BY <1>2, <3>1, <4>1 DEF Apart
      <4>4. \A u \in TlsThreads, j \in Ids : slot'[u][j] # y
        BY <1>3, <3>1, <4>3
      <4> QED
        BY <3>2, <4>2, <4>4
    <3>3. CASE y \notin lost
      <4>1. \A u \in TlsThreads, j \in Ids : slot'[u][j] = y <=> slot[u][j] = y
        BY <1>3, <3>1, <3>3
      <4> QED
        BY <3>3, <4>1
    <3> QED
      BY <3>2, <3>3
  <2> HIDE DEF lost
  <2>3. ASSUME NEW p \in Owners, NEW y PROVE y \in Held(p)' <=> y \in Held(p) /\ y \notin lost
    BY <1>1, <2>2 DEF Held
  <2>4. \A p \in Owners : p # o => Held(p) \cap lost = {}
    BY <2>1 DEF Held
  <2> QED
    BY <2>1, <2>3, <2>4
<1> HIDE DEF lost, held, c
<1>8. Cardinality(Held(o)') = Cardinality(Held(o)) - Cardinality(held)
  <2>1. Held(o)' = Held(o) \ lost /\ Held(o) \cap lost = lost
    BY <1>7
  <2>2. Cardinality(Held(o) \ lost) = Cardinality(Held(o)) - Cardinality(Held(o) \cap lost)
    BY HeldFinite, FS_Difference
  <2>3. Cardinality(Held(o)') = Cardinality(Held(o) \ lost) /\ Cardinality(Held(o) \cap lost) = Cardinality(lost)
    BY <2>1
  <2> QED
    BY <1>6, <2>2, <2>3
<1>9. /\ idList \in Seq(Nat) /\ idList' \in Seq(Nat) /\ Len(idList') = Len(idList) + 1
      /\ \A k \in 1..Len(idList') : \/ k = 1 /\ idList'[k] = c
                                    \/ k - 1 \in 1..Len(idList) /\ idList'[k] = idList[k - 1]
  <2>1. idList \in Seq(Nat)
    BY DEF TlsTypeOK
  <2>2. idList' \in Seq(Nat) /\ Len(idList') = Len(idList) + 1
    BY <1>1, <1>2, <2>1
  <2> QED
    BY <1>1, <1>2, <2>1, <2>2
<1>10. TlsTypeOK'
  <2>1. slot' \in [TlsThreads -> [Ids -> Nat]]
    BY <1>1, <1>2 DEF TlsTypeOK, NoMember
  <2>2. killCnt' \in [Owners -> Nat]
    BY <1>1, <1>4 DEF TlsTypeOK
  <2> QED
    BY <1>1, <1>9, <2>1, <2>2 DEF TlsTypeOK, Phases, NoId
<1>11. IdsBounded'
  <2>1. {p \in Owners : phase'[p] # "new"} = {p \in Owners : phase[p] # "new"}
    BY <1>1 DEF TlsTypeOK
  <2>2. \A p \in Owners : IF phase'[p] \in {"alive", "dying"} THEN id'[p] \in 1..idNum' ELSE id'[p] = NoId
    BY <1>1 DEF IdsBounded, TlsTypeOK
  <2>3. \A k \in 1..Len(idList') : idList'[k] \in 1..idNum
    BY <1>2, <1>9 DEF IdsBounded
  <2> QED
    BY <1>1, <2>1, <2>2, <2>3 DEF IdsBounded
<1>12. IdsDistinct'
  <2>1. \A p, q \in Owners : id'[p] = id'[q] /\ id'[p] # NoId => p = q
    BY <1>1 DEF IdsDistinct, TlsTypeOK
  <2>2. /\ \A k \in 1..Len(idList) : idList[k] # c /\ idList[k] # NoId
        /\ \A p \in Owners : p # o => id[p] # c
    <3>1. \A k \in 1..Len(idList) : idList[k] \in 1..idNum /\ idList[k] # id[o]
      BY DEF IdsDistinct, IdsBounded
    <3> QED
      BY <1>2, <3>1 DEF IdsDistinct, c, NoId
  <2>3. ASSUME NEW p \in Owners, NEW k \in 1..Len(idList') PROVE idList'[k] # id'[p]
    <3>1. idList'[k] = c \/ \E l \in 1..Len(idList) : idList'[k] = idList[l]
      BY <1>9
    <3>2. id'[p] = IF p = o THEN NoId ELSE id[p]
      BY <1>1 DEF TlsTypeOK
    <3> QED
      BY <1>2, <2>2, <3>1, <3>2 DEF IdsDistinct
  <2>4. ASSUME NEW k \in 1..Len(idList'), NEW l \in 1..Len(idList'), idList'[k] = idList'[l] PROVE k = l
    <3>1. k \in Int /\ l \in Int
      OBVIOUS
    <3>2. ASSUME NEW i \in 1..Len(idList') PROVE idList'[i] = c <=> i = 1
      <4>1. CASE i = 1 /\ idList'[i] = c
        BY <4>1
      <4>2. CASE i - 1 \in 1..Len(idList) /\ idList'[i] = idList[i - 1]
        BY <2>2, <4>2
      <4> QED
        BY <1>9, <4>1, <4>2
    <3>3. CASE k = 1 \/ l = 1
      BY <2>4, <3>2, <3>3
    <3>4. CASE k # 1 /\ l # 1
      <4>1. /\ k - 1 \in 1..Len(idList) /\ idList'[k] = idList[k - 1]
            /\ l - 1 \in 1..Len(idList) /\ idList'[l] = idList[l - 1]
        BY <1>9, <3>4
      <4>2. k - 1 = l - 1
        BY <2>4, <4>1 DEF IdsDistinct
      <4> QED
        BY <3>1, <4>2
    <3> QED
      BY <3>3, <3>4
  <2> QED
    BY <2>1, <2>3, <2>4 DEF IdsDistinct
<1>13. InSlots'
  <2> SUFFICES ASSUME NEW t \in TlsThreads, NEW j \in Ids, slot'[t][j] # NoMember
               PROVE  /\ matrix[t] \in {"linked", "dying"}
                      /\ slot'[t][j] \in DOMAIN ownerOf
                      /\ matrix[t] = "linked" => id'[ownerOf[slot'[t][j]]] = j
    BY <1>1 DEF InSlots
  <2>1. slot'[t][j] = slot[t][j] /\ (matrix[t] = "linked" => j # c)
    BY <1>3
  <2>2. slot[t][j] \in DOMAIN ownerOf /\ ownerOf[slot[t][j]] \in Owners
    BY <2>1, MemberType DEF InSlots
  <2>3. matrix[t] = "linked" => ownerOf[slot[t][j]] # o
    BY <2>1 DEF InSlots, c
  <2> QED
    BY <1>1, <2>1, <2>2, <2>3 DEF InSlots, TlsTypeOK
<1>14. InExit'
  <2> SUFFICES ASSUME NEW t \in TlsThreads, tstep[t].pc \in {"reuse", "new"}
               PROVE  /\ phase'[tstep[t].owner] = "alive"
                      /\ slot'[t][id'[tstep[t].owner]] = NoMember
    BY <1>1 DEF InExit
  <2> DEFINE p == tstep[t].owner
  <2>1. p \in Owners /\ phase[p] = "alive" /\ p # o /\ slot[t][id[p]] = NoMember
    BY <1>1 DEF InExit
  <2>2. id[p] \in Ids
    BY <2>1, IdInIds
  <2> HIDE DEF p
  <2>3. phase'[p] = "alive" /\ id'[p] = id[p]
    BY <1>1, <2>1 DEF TlsTypeOK
  <2>4. slot'[t][id[p]] = NoMember
    BY <1>3, <2>1, <2>2
  <2> QED
    BY <2>3, <2>4 DEF p
<1>15. InFree'
  BY <1>1 DEF InFree
<1>16. Apart'
  <2>1. \A p \in Owners : \A k \in 1..Len(firstFree[p]) : firstFree[p][k] # NoMember
    BY MemberType DEF InFree
  <2>2. \A t \in TlsThreads, j \in Ids : slot'[t][j] = NoMember \/ slot'[t][j] = slot[t][j]
    BY <1>3
  <2> QED
    BY <1>1, <2>1, <2>2 DEF Apart
<1>17. Accounted'
  <2> SUFFICES ASSUME NEW p \in Owners
               PROVE  /\ freeCnt[p] = Len(firstFree[p])
                      /\ Cardinality(Held(p)') + freeCnt[p] + killCnt'[p] = Len(vec[p])
                      /\ phase'[p] = "gone" => Held(p)' = {}
    BY <1>1 DEF Accounted
  <2>1. CASE p = o
    <3> DEFINE d == Cardinality(Held(o)')
               e == Cardinality(Held(o))
               h == Cardinality(held)
               n == Len(vec[o])
    <3>1. d = e - h /\ e \in Nat /\ h \in Nat /\ e + freeCnt[o] + killCnt[o] = n
      BY <1>4, <1>8, HeldFinite DEF Accounted
    <3>2. killCnt'[o] = killCnt[o] + h /\ killCnt[o] \in Nat /\ freeCnt[o] \in Nat
      BY <1>1 DEF TlsTypeOK
    <3> HIDE DEF d, e, h, n
    <3>3. d + freeCnt[o] + killCnt'[o] = n
      BY <3>1, <3>2
    <3>4. Cardinality(Held(p)') + freeCnt[p] + killCnt'[p] = Len(vec[p])
      BY <2>1, <3>3 DEF d, n
    <3>5. phase'[p] # "gone" /\ freeCnt[p] = Len(firstFree[p])
      BY <1>1, <2>1 DEF TlsTypeOK, Accounted
    <3> QED
      BY <3>4, <3>5
  <2>2. CASE p # o
    BY <1>1, <1>7, <2>2 DEF Accounted, TlsTypeOK
  <2> QED
    BY <2>1, <2>2
<1>18. Deleted'
  <2>1. \A p \in Owners : Held(p)' \subseteq Held(p)
    BY <1>7
  <2>2. \A p \in Owners : phase'[p] # "gone" <=> phase[p] # "gone"
    BY <1>1 DEF TlsTypeOK
  <2> QED
    BY <1>1, <2>1, <2>2 DEF Deleted
<1> QED
  BY <1>10, <1>11, <1>12, <1>13, <1>14, <1>15, <1>16, <1>17, <1>18

----------------------------------------------------------------------------
\* The invariant holds before any owner exists.
LEMMA TlsInvInit == TlsInit => TlsInv
<1> SUFFICES ASSUME TlsInit PROVE TlsInv
  OBVIOUS
<1> USE DEF TlsInit
<1>1. Idle = [pc |-> "idle", owner |-> Idle.owner, member |-> NoMember]
  BY DEF Idle
<1>2. TlsTypeOK
  BY <1>1 DEF TlsTypeOK, Phases, PCs, NoMember, NoId
<1>3. IdsBounded /\ IdsDistinct
  <2>1. {o \in Owners : phase[o] # "new"} = {}
    OBVIOUS
  <2>2. Cardinality({o \in Owners : phase[o] # "new"}) = 0
    BY <2>1, FS_EmptySet
  <2> QED
    BY <2>2 DEF IdsBounded, IdsDistinct, NoId
<1>4. InSlots /\ InExit /\ InFree /\ Apart
  BY <1>1 DEF InSlots, InExit, InFree, Apart, NoMember
<1>5. \A o \in Owners : Held(o) = {}
  BY DEF Held
<1>6. Accounted
  <2>1. \A o \in Owners : Cardinality(Held(o)) = 0
    BY <1>5, FS_EmptySet
  <2> QED
    BY <1>5, <2>1 DEF Accounted
<1>7. Deleted
  BY <1>5 DEF Deleted
<1> QED
  BY <1>2, <1>3, <1>4, <1>6, <1>7 DEF TlsInv

\* Every step keeps the invariant.
LEMMA TlsInvNext == TlsInv /\ [TlsNext]_tlsVars => TlsInv'
<1> SUFFICES ASSUME TlsInv, [TlsNext]_tlsVars PROVE TlsInv'
  OBVIOUS
<1>1. ASSUME NEW o \in Owners, MakeOwner(o) \/ BeginDestroy(o) \/ Reborn(o) \/ DeleteMembers(o)
      PROVE  TlsInv'
  BY <1>1, MakeOwnerInv, BeginDestroyInv, RebornInv, DeleteMembersInv
<1>2. ASSUME NEW t \in TlsThreads, (\E o \in Owners : GetTls(t, o)) \/ FillReuse(t) \/ FillNew(t)
      PROVE  TlsInv'
  BY <1>2, GetTlsInv, FillReuseInv, FillNewInv
<1>3. ASSUME NEW t \in TlsThreads, Exit(t) \/ ExitStep(t)
      PROVE  TlsInv'
  BY <1>3, ExitInv, DropSlotInv, TestDyingInv, PushHeadInv, CountKillInv DEF ExitStep
<1>4. ASSUME UNCHANGED tlsVars PROVE TlsInv'
  <2>1. UNCHANGED <<phase, id, idList, idNum, matrix, slot, vec, firstFree, freeCnt, killCnt, ownerOf, deleted, tstep>>
    BY <1>4 DEF tlsVars
  <2>2. \A o : Held(o)' = Held(o)
    BY <2>1, HeldSame
  <2>3. TlsTypeOK' /\ IdsBounded' /\ IdsDistinct' /\ InSlots' /\ InExit' /\ InFree' /\ Apart'
    BY <2>1 DEF TlsInv, TlsTypeOK, IdsBounded, IdsDistinct, InSlots, InExit, InFree, Apart
  <2> QED
    BY <2>1, <2>2, <2>3 DEF TlsInv, Accounted, Deleted
<1> QED
  BY <1>1, <1>2, <1>3, <1>4 DEF TlsNext

\* Threads that end, threads that take over their members and owners that are destroyed meet
\* without harm: a member is at one place, is the one its slot says, and is deleted only when no
\* thread can reach it or is about to call its owner.
THEOREM MembersAreSafe == TlsSpec => []TlsSafe
  BY TlsInvInit, TlsInvNext, TlsInvSafe, PTL DEF TlsSpec
=============================================================================
