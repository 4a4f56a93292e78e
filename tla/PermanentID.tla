----------------------------- MODULE PermanentID -----------------------------
(* What a table of permanent ids promises (zbs/lru_page_cache.cpp): ids are given out *)
(* one after the other and never again, and an id names its object until it is        *)
(* dropped.  MultiLruReadonlyCache relies on it: its shards must give out equal ids.  *)
EXTENDS Naturals

CONSTANTS
    Objects,
    MaxId      \* bound: ids given out

VARIABLES
    table,     \* the ids in use, with their objects
    next       \* the id that comes next

Init == table = [i \in {} |-> 0] /\ next = 0

Push(x) ==
    /\ next < MaxId
    /\ table' = [id \in DOMAIN table \cup {next} |-> IF id = next THEN x ELSE table[id]]
    /\ next' = next + 1

Drop(id) ==
    /\ id \in DOMAIN table
    /\ table' = [i \in DOMAIN table \ {id} |-> table[i]]
    /\ UNCHANGED next

Next == (\E x \in Objects : Push(x)) \/ (\E id \in DOMAIN table : Drop(id))

Spec == Init /\ [][Next]_<<table, next>>
=============================================================================
