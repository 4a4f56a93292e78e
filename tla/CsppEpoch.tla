----------------------------- MODULE CsppEpoch -----------------------------
(***************************************************************************)
(* What the token queue of fsa/cspptrie.cpp promises to the memory         *)
(* reclamation of the trie, without the queue: no links, no lock, no       *)
(* flags.  A token is linked or not and, when linked, in use or not; its   *)
(* verseq is its place.  The promise is in the guards: a token learns a    *)
(* min_age only from its own verseq, and only when nobody linked has an    *)
(* older one.  CsppToken is shown to implement this module.                *)
(***************************************************************************)
EXTENDS Naturals

CONSTANTS
    Tokens,
    Verseqs        \* the verseqs that may be given out: Nat, or a bound

ASSUME VerseqsAssumption == Verseqs \subseteq Nat

VARIABLES
    linked,        \* linked[t]: t is a member of the queue
    inuse,         \* inuse[t]: its thread may hold pointers into the trie
    verseq,        \* m_link.verseq
    min_age,       \* m_min_age: memory retired by t before this may be reused
    dummy_min_age, \* m_dummy.m_min_age, the same for all
    tail_verseq    \* m_tail.verseq

epochVars == <<linked, inuse, verseq, min_age, dummy_min_age, tail_verseq>>

EpochInit ==
    /\ linked = [t \in Tokens |-> FALSE]
    /\ inuse = [t \in Tokens |-> FALSE]
    /\ verseq = [t \in Tokens |-> 0]
    /\ min_age = [t \in Tokens |-> 0]
    /\ dummy_min_age = 0
    /\ tail_verseq = 0

\* No linked token has an older place than t.
Oldest(t) == \A u \in Tokens : linked[u] => verseq[t] <= verseq[u]

\* t takes the place behind all others.
ToTail(t) ==
    /\ tail_verseq + 1 \in Verseqs
    /\ verseq' = [verseq EXCEPT ![t] = tail_verseq + 1]
    /\ tail_verseq' = tail_verseq + 1

\* acquire of a token that is not in the queue.
Acquire(t) ==
    /\ ~linked[t] /\ ~inuse[t]
    /\ linked' = [linked EXCEPT ![t] = TRUE]
    /\ inuse' = [inuse EXCEPT ![t] = TRUE]
    /\ ToTail(t)
    /\ UNCHANGED <<min_age, dummy_min_age>>

\* acquire of a token that is idle or waits to be unlinked: it keeps its place.
Resume(t) ==
    /\ linked[t] /\ ~inuse[t]
    /\ inuse' = [inuse EXCEPT ![t] = TRUE]
    /\ UNCHANGED <<linked, verseq, min_age, dummy_min_age, tail_verseq>>

\* release, idle: the thread gives up what it holds.
Leave(t) ==
    /\ inuse[t]
    /\ inuse' = [inuse EXCEPT ![t] = FALSE]
    /\ UNCHANGED <<linked, verseq, min_age, dummy_min_age, tail_verseq>>

\* A token that is not in use leaves the queue.
Unlink(t) ==
    /\ linked[t] /\ ~inuse[t]
    /\ linked' = [linked EXCEPT ![t] = FALSE]
    /\ UNCHANGED <<inuse, verseq, min_age, dummy_min_age, tail_verseq>>

\* reclaim_head clears the verseq of a token it has unlinked.
Clear(t) ==
    /\ ~linked[t] /\ ~inuse[t]
    /\ verseq' = [verseq EXCEPT ![t] = 0]
    /\ UNCHANGED <<linked, inuse, min_age, dummy_min_age, tail_verseq>>

\* Mutant of TellTrie: any linked token may be made the head.
TellTrie_AnyToken(t) ==
    /\ linked[t]
    /\ dummy_min_age' = verseq[t]
    /\ UNCHANGED <<linked, inuse, verseq, min_age, tail_verseq>>

\* t becomes the head of the queue: the trie's bound is its verseq ...
TellTrie(t) ==
    /\ linked[t] /\ Oldest(t)
    /\ dummy_min_age' = verseq[t]
    /\ UNCHANGED <<linked, inuse, verseq, min_age, tail_verseq>>

\* ... and, in a store of its own, so is that of t.
TellToken(t) ==
    /\ linked[t] /\ Oldest(t)
    /\ min_age' = [min_age EXCEPT ![t] = verseq[t]]
    /\ UNCHANGED <<linked, inuse, verseq, dummy_min_age, tail_verseq>>

\* Mutant of Remember: a verseq that was cleared meanwhile is remembered too.
Remember_Cleared(t) ==
    /\ ~linked[t] /\ ~inuse[t] /\ Oldest(t)
    /\ min_age' = [min_age EXCEPT ![t] = verseq[t]]
    /\ UNCHANGED <<linked, inuse, verseq, dummy_min_age, tail_verseq>>

\* The released head remembers how far it had come, for when it is acquired again.
Remember(t) ==
    /\ ~linked[t] /\ ~inuse[t] /\ Oldest(t)
    /\ min_age[t] <= verseq[t] /\ verseq[t] <= dummy_min_age
    /\ min_age' = [min_age EXCEPT ![t] = verseq[t]]
    /\ UNCHANGED <<linked, inuse, verseq, dummy_min_age, tail_verseq>>

\* mt_update of the head, which has a successor or is alone.
Requeue(t) ==
    /\ linked[t] /\ inuse[t] /\ Oldest(t)
    /\ ToTail(t)
    /\ UNCHANGED <<linked, inuse, min_age, dummy_min_age>>

\* reclaim_head moves an idle token from the head to the tail.
MoveIdle(t) ==
    /\ linked[t] /\ ~inuse[t] /\ Oldest(t)
    /\ ToTail(t)
    /\ min_age' = [min_age EXCEPT ![t] = verseq[t]]
    /\ UNCHANGED <<linked, inuse, dummy_min_age>>

EpochNext ==
    \E t \in Tokens :
        \/ Acquire(t) \/ Resume(t) \/ Leave(t) \/ Unlink(t) \/ Clear(t)
        \/ TellTrie(t) \/ TellToken(t) \/ Remember(t) \/ Requeue(t) \/ MoveIdle(t)

EpochSpec == EpochInit /\ [][EpochNext]_epochVars

----------------------------------------------------------------------------
EpochTypeOK ==
    /\ linked \in [Tokens -> BOOLEAN] /\ inuse \in [Tokens -> BOOLEAN]
    /\ verseq \in [Tokens -> Nat] /\ min_age \in [Tokens -> Nat]
    /\ dummy_min_age \in Nat /\ tail_verseq \in Nat

\* A linked token's place is known: verseqs of linked tokens are distinct and none is
\* newer than the tail; a token in use is linked.
Places ==
    /\ \A t \in Tokens : inuse[t] => linked[t]
    /\ \A t \in Tokens : verseq[t] <= tail_verseq
    /\ \A t, u \in Tokens : linked[t] /\ linked[u] /\ t # u => verseq[t] # verseq[u]

\* Nothing is declared reclaimable that a linked token may still see: neither the trie's
\* m_dummy.m_min_age nor the m_min_age cached in any token is newer than its verseq.
MinAgeSafe ==
    \A t \in Tokens :
        /\ linked[t] => dummy_min_age <= verseq[t]
        /\ \A w \in Tokens : linked[t] => min_age[w] <= verseq[t]

\* What has been declared reclaimable stays so: m_min_age of the trie and of every token
\* only grow.
AgesOnlyGrow ==
    [][/\ dummy_min_age <= dummy_min_age'
       /\ \A t \in Tokens : min_age[t] <= min_age'[t]]_epochVars
=============================================================================
