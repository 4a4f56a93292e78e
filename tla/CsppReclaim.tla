---------------------------- MODULE CsppReclaim ----------------------------
(***************************************************************************)
(* When the memory of a replaced trie node is reused (fsa/cspptrie.cpp).   *)
(*                                                                         *)
(* A writer never changes the shape of a node in place: it makes a copy,   *)
(* swings the parent's child pointer to it (update_curr_ptr) and puts the  *)
(* old node on its lazy free list with its own verseq as age.  Later       *)
(* inserts of that writer free the nodes at the front of the list whose    *)
(* age is below a min_age (revoke_expired_nodes).  Readers take no lock:   *)
(* a thread may reach every node that was in the trie at some time since   *)
(* its token was acquired, and must never find one of them freed.          *)
(*                                                                         *)
(* The tokens move as CsppEpoch allows; every action here is one of its    *)
(* actions together with what it means for the nodes, or leaves the tokens *)
(* alone.                                                                  *)
(***************************************************************************)
EXTENDS CsppEpoch, Sequences, TLC

CONSTANTS
    Nodes,      \* places in the memory pool
    ConLevel,   \* m_writing_concurrent_level
    Writers     \* the tokens that are WriterTokens

Levels == {"SingleThreadShared", "OneWriteMultiRead", "MultiWriteMultiRead"}

ASSUME ReclaimAssumption == Writers \subseteq Tokens /\ ConLevel \in Levels

VARIABLES
    live,       \* the nodes that belong to the trie
    lazy,       \* lazy[w]: LazyFreeList, the nodes w has retired with their age
    reach       \* reach[t]: the nodes the thread of t may hold a pointer to

nodeVars == <<live, lazy, reach>>
vars == <<epochVars, nodeVars>>

Retired(w) == {lazy[w][i].node : i \in DOMAIN lazy[w]}

\* The pool's free space.
Free == Nodes \ (live \cup UNION {Retired(w) : w \in Writers})

Init ==
    /\ EpochInit
    /\ live \in {{n} : n \in Nodes}
    /\ lazy = [w \in Writers |-> <<>>]
    /\ reach = [t \in Tokens |-> {}]

\* The thread of t starts from the root, with nothing of what it saw before.
Restart(t) == reach' = [reach EXCEPT ![t] = live]
Forget(t)  == reach' = [reach EXCEPT ![t] = {}]

AcquireToken(t) == (Acquire(t) \/ Resume(t)) /\ Restart(t) /\ UNCHANGED <<live, lazy>>

LeaveToken(t) == Leave(t) /\ Forget(t) /\ UNCHANGED <<live, lazy>>

\* mt_update at the start of insert_multi_writer.
InsertUpdate(t) ==
    /\ ConLevel = "MultiWriteMultiRead" /\ t \in Writers
    /\ Requeue(t) /\ Restart(t)
    /\ UNCHANGED <<live, lazy>>

\* mt_update in idle(): the thread will use the trie again only after an acquire.
IdleUpdate(t) == Requeue(t) /\ Forget(t) /\ UNCHANGED <<live, lazy>>

\* Steps of the queue that the thread of t does not notice.
MoveToken(t) ==
    /\ Unlink(t) \/ Clear(t) \/ TellTrie(t) \/ TellToken(t) \/ Remember(t) \/ MoveIdle(t)
    /\ UNCHANGED nodeVars

\* w is between acquire and release or idle, and has the root at least.
Inserting(w) == inuse[w] /\ reach[w] # {}

\* update_curr_ptr: a new node takes the place of n, which is retired.
Replace(w) ==
    /\ Inserting(w)
    /\ \E n \in live, new \in Free :
          /\ live' = (live \ {n}) \cup {new}
          /\ lazy' = [lazy EXCEPT ![w] = Append(@, [age |-> verseq[w], node |-> n])]
          /\ reach' = [t \in Tokens |-> IF inuse[t] THEN reach[t] \cup {new} ELSE reach[t]]
    /\ UNCHANGED epochVars

\* add_state_move and the suffix nodes of a fork: a new node joins the trie.
Add(w) ==
    /\ Inserting(w)
    /\ \E new \in Free :
          /\ live' = live \cup {new}
          /\ reach' = [t \in Tokens |-> IF inuse[t] THEN reach[t] \cup {new} ELSE reach[t]]
    /\ UNCHANGED <<epochVars, lazy>>

\* The bound below which revoke_expired_nodes frees: what the writer's own token has
\* learned, or, with one writer, the trie's value.
RevokeBound(w) == IF ConLevel = "MultiWriteMultiRead" THEN min_age[w] ELSE dummy_min_age

\* Mutant of Revoke: a node whose age is the bound is freed too.
Revoke_AtBound(w) ==
    /\ Inserting(w)
    /\ lazy[w] # <<>> /\ Head(lazy[w]).age <= RevokeBound(w)
    /\ lazy' = [lazy EXCEPT ![w] = Tail(@)]
    /\ UNCHANGED <<epochVars, live, reach>>

\* One round of the loop of revoke_expired_nodes.
Revoke(w) ==
    /\ Inserting(w)
    /\ lazy[w] # <<>> /\ Head(lazy[w]).age < RevokeBound(w)
    /\ lazy' = [lazy EXCEPT ![w] = Tail(@)]
    /\ UNCHANGED <<epochVars, live, reach>>

Next ==
    \/ \E t \in Tokens : AcquireToken(t) \/ LeaveToken(t) \/ MoveToken(t)
                           \/ InsertUpdate(t) \/ IdleUpdate(t)
    \/ \E w \in Writers : Replace(w) \/ Add(w) \/ Revoke(w)

Spec == Init /\ [][Next]_vars

\* Nodes are interchangeable.
Symmetry == Permutations(Nodes)

----------------------------------------------------------------------------
\* The tokens, lists and pointers have the types their declarations give them.
ReclaimTypeOK ==
    /\ EpochTypeOK
    /\ live \subseteq Nodes
    /\ lazy \in [Writers -> Seq([age : Nat, node : Nodes])]
    /\ reach \in [Tokens -> SUBSET Nodes]

\* No thread is left with a pointer to memory that has been given back to the pool:
\* whatever a thread may still reach is in the trie or on some lazy free list.
NoUseAfterFree ==
    \A t \in Tokens : reach[t] \cap Free = {}

\* A lazy free list is ordered by age: revoke_expired_nodes stops at the first node that
\* is too young, and there is none to be freed behind it.
LazyListSorted ==
    \A w \in Writers : \A i, j \in 1..Len(lazy[w]) :
        i <= j => lazy[w][i].age <= lazy[w][j].age
=============================================================================
