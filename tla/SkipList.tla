------------------------------ MODULE SkipList ------------------------------
(***************************************************************************)
(* The free list of huge blocks that all memory pools keep, pointer by     *)
(* pointer: a skip list ordered by size whose links are stored in the free *)
(* blocks.  A node has no link above its own level: reading one there      *)
(* would read what the block's last user left.                             *)
(*                                                                         *)
(* height is huge_list.size, next[n][k] the link of node n on level k,     *)
(* size[n] the length of block n; a node is named by its offset.           *)
(***************************************************************************)
EXTENDS Integers, FiniteSets, FiniteSetsExt

CONSTANT LevelMax   \* skip_list_level_max

ASSUME LevelAssumption == LevelMax \in Nat \ {0}

ListTail == -1   \* list_tail
ListHead == -2   \* huge_list itself

NewList ==
    [height |-> 0, next |-> [n \in {ListHead} |-> [k \in 0..(LevelMax - 1) |-> ListTail]], size |-> <<>>]

Nodes(sl) == DOMAIN sl.size

\* random_level.
Levels == 0..(LevelMax - 1)

\* update[]: on each level, from the top, the last node that is smaller than len; a level goes on
\* where the one above stopped.
Update(sl, len) ==
    LET walk(k, from) ==
            LET go[n \in DOMAIN sl.next] ==
                    IF sl.next[n][k] # ListTail /\ sl.size[sl.next[n][k]] < len THEN go[sl.next[n][k]] ELSE n
            IN  go[from]
        upd[k \in 0..(sl.height - 1)] == walk(k, IF k = sl.height - 1 THEN ListHead ELSE upd[k + 1])
    IN  upd

\* The block that fits len best, or ListTail.
FindFit(sl, len) == IF sl.height = 0 THEN ListTail ELSE sl.next[Update(sl, len)[0]][0]

\* update[] of the other search: on each level the node before the last one.
UpdateLast(sl) ==
    LET walk(k, from) ==
            LET go[n \in DOMAIN sl.next] ==
                    IF sl.next[sl.next[n][k]][k] = ListTail THEN n ELSE go[sl.next[n][k]]
            IN  go[from]
        upd[k \in 0..(sl.height - 1)] == walk(k, IF k = sl.height - 1 THEN ListHead ELSE upd[k + 1])
    IN  upd

\* The largest block, or ListTail.
FindLargest(sl) == IF sl.height = 0 THEN ListTail ELSE sl.next[UpdateLast(sl)[0]][0]

\* A block becomes a node with links on the levels 0..lev; a level above the height is added, one
\* at a time.
Insert(sl, pos, len, lev) ==
    LET upd == Update(sl, len)
        top == IF lev >= sl.height THEN sl.height ELSE lev
        before(k) == IF k = sl.height THEN ListHead ELSE upd[k]
    IN  [height |-> IF top = sl.height THEN sl.height + 1 ELSE sl.height,
         size |-> [n \in Nodes(sl) \cup {pos} |-> IF n = pos THEN len ELSE sl.size[n]],
         next |-> [n \in DOMAIN sl.next \cup {pos} |->
                      IF n = pos THEN [k \in 0..top |-> sl.next[before(k)][k]]
                      ELSE [k \in DOMAIN sl.next[n] |->
                               IF k <= top /\ before(k) = n THEN pos ELSE sl.next[n][k]]]]

\* Unlinks node n2 wherever upd's node leads to it; empty levels at the top go.
RemoveBlock(sl, n2, upd) ==
    LET unlinked(n) ==
            [k \in DOMAIN sl.next[n] |->
                IF k < sl.height /\ upd[k] = n /\ sl.next[n][k] = n2 THEN sl.next[n2][k] ELSE sl.next[n][k]]
        head == unlinked(ListHead)
    IN  [height |-> Max({0} \cup {h \in 1..sl.height : head[h - 1] # ListTail}),
         size |-> [n \in Nodes(sl) \ {n2} |-> sl.size[n]],
         next |-> [n \in DOMAIN sl.next \ {n2} |-> unlinked(n)]]

----------------------------------------------------------------------------
\* What is reached on level k.
Reached(sl, k) ==
    LET go[n \in DOMAIN sl.next] ==
            IF sl.next[n][k] = ListTail THEN {} ELSE {sl.next[n][k]} \cup go[sl.next[n][k]]
    IN  go[ListHead]

\* Each level leads, in the order of size, through the nodes that have that level: nothing is cut
\* off, level 0 has every block, and only levels below the height are in use.
Sound(sl) ==
    /\ \A k \in Levels : Reached(sl, k) = {n \in Nodes(sl) : k \in DOMAIN sl.next[n]}
    /\ \A n \in Nodes(sl) : 0 \in DOMAIN sl.next[n]
    /\ \A n \in Nodes(sl), k \in Levels :
         k \in DOMAIN sl.next[n] /\ sl.next[n][k] # ListTail => sl.size[n] <= sl.size[sl.next[n][k]]
    /\ \A k \in Levels : k < sl.height <=> Reached(sl, k) # {}
=============================================================================
