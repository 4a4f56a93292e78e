---------------------------- MODULE InstanceTls ----------------------------
(***************************************************************************)
(* Objects per thread and instance: instance_tls (thread/instance_tls.hpp) *)
(* gives every instance an id and every thread a matrix of slots, one per  *)
(* id; instance_tls_owner (thread/instance_tls_owner.hpp) keeps a pointer  *)
(* to a TlsMember in the slot, owns all its members, and hands the member  *)
(* of a thread that has ended to another thread.                           *)
(*                                                                         *)
(* A thread that ends and an owner that is destroyed meet in the slots:    *)
(* whoever clears the pointer accounts for the member.  The sections under *)
(* s_mutex and m_tls_mtx are single steps.  The rows of a matrix are left  *)
(* out: a row that is not there yet has only null slots.                   *)
(*                                                                         *)
(* External: no thread calls get_tls of an owner that is being destroyed.  *)
(***************************************************************************)
EXTENDS Naturals, Sequences, FiniteSets, SequencesExt

CONSTANTS
    TlsThreads,
    Owners,      \* owners made one after the other or at a time
    FixedCap,    \* capacity of m_tls_vec for owners with init_fixed_cap, 0: not fixed
    MaxMembers   \* bound: members ever made

ASSUME TlsAssumption ==
    /\ FixedCap \in Nat /\ MaxMembers \in Nat
    /\ IsFiniteSet(TlsThreads) /\ IsFiniteSet(Owners)

Members == 1..MaxMembers
NoMember == 0
NoId == 0

VARIABLES
    phase,      \* phase[o]: "new", "alive", "dying" (m_is_dying), "reborn" (~instance_tls done), "gone"
    id,         \* id[o]: m_id, ids are 1, 2, ...
    idList,     \* the free ids from s_id_head on
    idNum,      \* s_id_list.size()
    matrix,     \* matrix[t]: "none", "linked" in s_matrix_head's list, "dying" (in ~Matrix), "gone"
    slot,       \* slot[t]: TlsPtr::ptr by id
    vec,        \* vec[o]: m_tls_vec
    firstFree,  \* firstFree[o]: the list from m_first_free on
    freeCnt, killCnt,   \* m_free_cnt, m_kill_cnt
    ownerOf,    \* ownerOf[x]: tls_owner() of member x
    deleted,    \* members that were deleted
    tstep       \* tstep[t]: what the thread is in the middle of

tlsVars == <<phase, id, idList, idNum, matrix, slot, vec, firstFree, freeCnt, killCnt, ownerOf, deleted, tstep>>

Idle == [pc |-> "idle", owner |-> CHOOSE o \in Owners : TRUE, member |-> NoMember]
Ids == 1..Cardinality(Owners)
Made == DOMAIN ownerOf

TlsInit ==
    /\ phase = [o \in Owners |-> "new"]
    /\ id = [o \in Owners |-> NoId] /\ idList = <<>> /\ idNum = 0
    /\ matrix = [t \in TlsThreads |-> "none"]
    /\ slot = [t \in TlsThreads |-> [i \in Ids |-> NoMember]]
    /\ vec = [o \in Owners |-> <<>>] /\ firstFree = [o \in Owners |-> <<>>]
    /\ freeCnt = [o \in Owners |-> 0] /\ killCnt = [o \in Owners |-> 0]
    /\ ownerOf = <<>> /\ deleted = {}
    /\ tstep = [t \in TlsThreads |-> Idle]

Goto(t, pc, o, x) == tstep' = [tstep EXCEPT ![t] = [pc |-> pc, owner |-> o, member |-> x]]

----------------------------------------------------------------------------
(* instance_tls and the life of an owner *)

\* instance_tls(): a free id, or a new one.
MakeOwner(o) ==
    /\ phase[o] = "new"
    /\ phase' = [phase EXCEPT ![o] = "alive"]
    /\ IF idList # <<>>
       THEN id' = [id EXCEPT ![o] = Head(idList)] /\ idList' = Tail(idList) /\ UNCHANGED idNum
       ELSE id' = [id EXCEPT ![o] = idNum + 1] /\ idNum' = idNum + 1 /\ UNCHANGED idList
    /\ UNCHANGED <<matrix, slot, vec, firstFree, freeCnt, killCnt, ownerOf, deleted, tstep>>

\* ~instance_tls_owner() begins: m_is_dying.  No thread is in get_tls of the owner.
BeginDestroy(o) ==
    /\ phase[o] = "alive"
    /\ \A t \in TlsThreads : tstep[t].pc \in {"reuse", "new"} => tstep[t].owner # o
    /\ phase' = [phase EXCEPT ![o] = "dying"]
    /\ UNCHANGED <<id, idList, idNum, matrix, slot, vec, firstFree, freeCnt, killCnt, ownerOf, deleted, tstep>>

\* ~instance_tls(): under s_mutex the slot of every linked matrix is destroyed and made anew
\* (~TlsPtr counts the member in m_kill_cnt, the owner is dying), and the id is free.
Reborn(o) ==
    /\ phase[o] = "dying"
    /\ phase' = [phase EXCEPT ![o] = "reborn"]
    /\ LET held == {t \in TlsThreads : matrix[t] = "linked" /\ slot[t][id[o]] # NoMember} IN
       /\ slot' = [t \in TlsThreads |-> IF t \in held THEN [slot[t] EXCEPT ![id[o]] = NoMember] ELSE slot[t]]
       /\ killCnt' = [killCnt EXCEPT ![o] = @ + Cardinality(held)]
    /\ idList' = <<id[o]>> \o idList /\ id' = [id EXCEPT ![o] = NoId]
    /\ UNCHANGED <<idNum, matrix, vec, firstFree, freeCnt, ownerOf, deleted, tstep>>

\* Mutant of DeleteMembers: the owner does not wait for the threads that are ending.
DeleteMembers_NoWait(o) ==
    /\ phase[o] = "reborn"
    /\ phase' = [phase EXCEPT ![o] = "gone"]
    /\ deleted' = deleted \cup {vec[o][i] : i \in DOMAIN vec[o]}
    /\ UNCHANGED <<id, idList, idNum, matrix, slot, vec, firstFree, freeCnt, killCnt, ownerOf, tstep>>

\* The wait loop is over: every member is accounted for, and all of them are deleted.
DeleteMembers(o) ==
    /\ phase[o] = "reborn"
    /\ freeCnt[o] + killCnt[o] >= Len(vec[o])
    /\ phase' = [phase EXCEPT ![o] = "gone"]
    /\ deleted' = deleted \cup {vec[o][i] : i \in DOMAIN vec[o]}
    /\ UNCHANGED <<id, idList, idNum, matrix, slot, vec, firstFree, freeCnt, killCnt, ownerOf, tstep>>

----------------------------------------------------------------------------
(* A thread calls get_tls *)

\* get_tls: m_tls_ptr.get() makes the matrix if there is none (get_slow); a null pointer leads to
\* fill_tls, which looks at m_first_free without the lock.
GetTls(t, o) ==
    /\ tstep[t].pc = "idle" /\ matrix[t] \in {"none", "linked"} /\ phase[o] = "alive"
    /\ slot[t][id[o]] = NoMember
    /\ matrix' = [matrix EXCEPT ![t] = "linked"]
    /\ Goto(t, IF firstFree[o] = <<>> THEN "new" ELSE "reuse", o, NoMember)
    /\ UNCHANGED <<phase, id, idList, idNum, slot, vec, firstFree, freeCnt, killCnt, ownerOf, deleted>>

\* fill_tls under m_tls_mtx: the member of a thread that has ended, if one is still there.
FillReuse(t) ==
    /\ tstep[t].pc = "reuse"
    /\ LET o == tstep[t].owner IN
       IF firstFree[o] = <<>>
       THEN Goto(t, "new", o, NoMember) /\ UNCHANGED <<slot, firstFree, freeCnt>>
       ELSE /\ slot' = [slot EXCEPT ![t][id[o]] = Head(firstFree[o])]
            /\ firstFree' = [firstFree EXCEPT ![o] = Tail(@)]
            /\ freeCnt' = [freeCnt EXCEPT ![o] = @ - 1]
            /\ tstep' = [tstep EXCEPT ![t] = Idle]
    /\ UNCHANGED <<phase, id, idList, idNum, matrix, vec, killCnt, ownerOf, deleted>>

\* fill_tls: a new member goes to m_tls_vec, unless that has a fixed capacity and is full: then
\* it is deleted again and get_tls returns NULL.
FillNew(t) ==
    /\ tstep[t].pc = "new"
    /\ Len(ownerOf) < MaxMembers
    /\ LET o == tstep[t].owner
           x == Len(ownerOf) + 1
       IN  /\ ownerOf' = Append(ownerOf, o)
           /\ IF FixedCap # 0 /\ Len(vec[o]) >= FixedCap
              THEN deleted' = deleted \cup {x} /\ UNCHANGED <<vec, slot>>
              ELSE /\ vec' = [vec EXCEPT ![o] = Append(@, x)]
                   /\ slot' = [slot EXCEPT ![t][id[o]] = x]
                   /\ UNCHANGED deleted
    /\ tstep' = [tstep EXCEPT ![t] = Idle]
    /\ UNCHANGED <<phase, id, idList, idNum, matrix, firstFree, freeCnt, killCnt>>

----------------------------------------------------------------------------
(* A thread ends *)

\* ~Matrix: the matrix leaves the list under s_mutex; no owner sees its slots any more.
Exit(t) ==
    /\ tstep[t].pc = "idle" /\ matrix[t] = "linked"
    /\ matrix' = [matrix EXCEPT ![t] = "dying"]
    /\ UNCHANGED <<phase, id, idList, idNum, slot, vec, firstFree, freeCnt, killCnt, ownerOf, deleted, tstep>>

\* ~TlsPtr of the next slot: the pointer is cleared by a compare_exchange.
DropSlot(t) ==
    /\ matrix[t] = "dying" /\ tstep[t].pc = "idle"
    /\ IF \A i \in Ids : slot[t][i] = NoMember
       THEN matrix' = [matrix EXCEPT ![t] = "gone"] /\ UNCHANGED <<slot, tstep>>
       ELSE \E i \in Ids :
              /\ slot[t][i] # NoMember
              /\ slot' = [slot EXCEPT ![t][i] = NoMember]
              /\ Goto(t, "dropped", ownerOf[slot[t][i]], slot[t][i])
              /\ UNCHANGED matrix
    /\ UNCHANGED <<phase, id, idList, idNum, vec, firstFree, freeCnt, killCnt, ownerOf, deleted>>

\* The test of m_is_dying: the thread ends, or the owner does.
TestDying(t) ==
    /\ tstep[t].pc = "dropped"
    /\ Goto(t, IF phase[tstep[t].owner] = "alive" THEN "push" ELSE "kill", tstep[t].owner, tstep[t].member)
    /\ UNCHANGED <<phase, id, idList, idNum, matrix, slot, vec, firstFree, freeCnt, killCnt, ownerOf, deleted>>

\* push_head: the member is there for another thread.
PushHead(t) ==
    /\ tstep[t].pc = "push"
    /\ LET o == tstep[t].owner IN
       /\ firstFree' = [firstFree EXCEPT ![o] = <<tstep[t].member>> \o @]
       /\ freeCnt' = [freeCnt EXCEPT ![o] = @ + 1]
    /\ tstep' = [tstep EXCEPT ![t] = Idle]
    /\ UNCHANGED <<phase, id, idList, idNum, matrix, slot, vec, killCnt, ownerOf, deleted>>

\* Mutant of CountKill: the thread that ends leaves the count to the owner, which has looked already.
CountKill_Lost(t) ==
    /\ tstep[t].pc = "kill"
    /\ tstep' = [tstep EXCEPT ![t] = Idle]
    /\ UNCHANGED <<phase, id, idList, idNum, matrix, slot, vec, firstFree, freeCnt, killCnt, ownerOf, deleted>>

\* The owner is dying: it waits for this count.
CountKill(t) ==
    /\ tstep[t].pc = "kill"
    /\ killCnt' = [killCnt EXCEPT ![tstep[t].owner] = @ + 1]
    /\ tstep' = [tstep EXCEPT ![t] = Idle]
    /\ UNCHANGED <<phase, id, idList, idNum, matrix, slot, vec, firstFree, freeCnt, ownerOf, deleted>>

ExitStep(t) == DropSlot(t) \/ TestDying(t) \/ PushHead(t) \/ CountKill(t)

TlsNext ==
    \/ \E o \in Owners : MakeOwner(o) \/ BeginDestroy(o) \/ Reborn(o) \/ DeleteMembers(o)
    \/ \E t \in TlsThreads : (\E o \in Owners : GetTls(t, o)) \/ FillReuse(t) \/ FillNew(t)
    \/ \E t \in TlsThreads : Exit(t) \/ ExitStep(t)

TlsSpec == TlsInit /\ [][TlsNext]_tlsVars

\* A thread that has begun to end goes on; the thread that destroys an owner does too.
TlsFairness ==
    /\ \A t \in TlsThreads : WF_tlsVars(ExitStep(t))
    /\ \A o \in Owners : WF_tlsVars(Reborn(o)) /\ WF_tlsVars(DeleteMembers(o))

----------------------------------------------------------------------------
\* Who has member x: threads by their slots or in ~TlsPtr, its owner by the free list.
Holders(x) ==
    {<<"slot", t>> : t \in {t \in TlsThreads : \E i \in Ids : slot[t][i] = x}}
    \cup {<<"exit", t>> : t \in {t \in TlsThreads : tstep[t].member = x}}
    \cup {<<"free", o>> : o \in {o \in Owners : Contains(firstFree[o], x)}}

\* No two threads ever share a member, and a thread that has not ended finds in its slot for an
\* owner a member of that owner, also when the id was another owner's before.
OneHolder ==
    /\ \A x \in Made : Cardinality(Holders(x)) <= 1
    /\ \A t \in TlsThreads, o \in Owners :
         matrix[t] = "linked" /\ id[o] # NoId /\ slot[t][id[o]] # NoMember => ownerOf[slot[t][id[o]]] = o

\* A member that a thread can reach is not deleted, nor is the owner it is about to call back.
NoUseAfterDelete ==
    \A t \in TlsThreads :
      /\ \A i \in Ids : slot[t][i] \notin deleted
      /\ tstep[t].member # NoMember => tstep[t].member \notin deleted /\ phase[tstep[t].owner] # "gone"

\* A member of a thread and an owner is held at one place, and is not deleted while a thread can reach it.
TlsSafe == OneHolder /\ NoUseAfterDelete

\* The destructor of an owner comes back: the members of threads that are just ending are
\* counted in the end, by one side or by the other.
DestroyReturns == \A o \in Owners : phase[o] = "dying" ~> phase[o] = "gone"
=============================================================================
