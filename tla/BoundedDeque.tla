---------------------------- MODULE BoundedDeque ----------------------------
(***************************************************************************)
(* What concurrent_queue promises its callers, and what Pipeline assumes   *)
(* of the queues between its stages: one bounded sequence, every put and   *)
(* take is one step of it, at one of its ends.                             *)
(***************************************************************************)
EXTENDS Naturals, Sequences

CONSTANTS Callers, NoValue

VARIABLES
    capacity,   \* how many items it may hold, chosen once
    items,      \* the sequence
    count,      \* count[c]: calls begun by c, the last of them names the item it puts
    got         \* got[c]: what the last take of c has returned

dequeVars == <<capacity, items, count, got>>

DequeInit ==
    /\ capacity \in Nat /\ items = <<>>
    /\ count = [c \in Callers |-> 0] /\ got = [c \in Callers |-> NoValue]

DequeCall(c) == count' = [count EXCEPT ![c] = @ + 1] /\ UNCHANGED <<capacity, items, got>>

\* The item of c's call is put at one end.
DequePut(c) ==
    /\ Len(items) < capacity
    /\ LET v == <<c, count[c]>> IN items' = Append(items, v) \/ items' = <<v>> \o items
    /\ UNCHANGED <<capacity, count, got>>

DequeTake(c) ==
    /\ items # <<>>
    /\ \/ got' = [got EXCEPT ![c] = items[1]] /\ items' = Tail(items)
       \/ got' = [got EXCEPT ![c] = items[Len(items)]] /\ items' = SubSeq(items, 1, Len(items) - 1)
    /\ UNCHANGED <<capacity, count>>

DequeNext == \E c \in Callers : DequeCall(c) \/ DequePut(c) \/ DequeTake(c)

DequeSpec == DequeInit /\ [][DequeNext]_dequeVars
=============================================================================
