---------------------------- MODULE MCContainers ----------------------------
(* The pools, the hash maps, the id table, the set operations and sorts, and the iterator of a
   Patricia trie beside its writer for model checking: a behaviour is about one of them. *)
EXTENDS ThreadCachePool, MemPool, GoldHash, StrMap, CircularPermanentID, SetOps, CsppIter

VARIABLE part   \* which of the containers a behaviour is about

\* Hashes that collide in the small tables and part in the larger ones.
MCHash == [k \in HashKeys |-> CASE k = 1 -> 0 [] k = 2 -> 5 [] k = 3 -> 11 [] OTHER -> 16]
MCStrHash == [k \in StrKeys |-> CASE k = 1 -> 0 [] k = 2 -> 5 [] k = 3 -> 11 [] OTHER -> 16]
MCKeySize == [k \in StrKeys |-> CASE k = 1 -> 2 [] k = 2 -> 1 [] k = 3 -> 4 [] OTHER -> 1]

\* Types of map with more room than is used, and one whose links and offsets run out.
MCTypes == {<<"inline", 99, 99>>, <<"out", 99, 99>>, <<"out", 3, 6>>}

\* Numbers of ways, with the length of each, and strings of every length up to the longest.
MCWays == {<<1, 2>>, <<2, 3>>, <<3, 2>>, <<4, 1>>, <<5, 1>>}
MCStrings == UNION {[1..n -> 0..1] : n \in 0..3}

\* Words that are a path of several nodes, that end inside one, and that branch at the fast root.
MCNew == {<<>>, <<1, 0, 1>>, <<2>>, <<2, 0>>}
MCLoad == << <<1>>, <<1, 1>>, <<1, 2>>, <<2, 1, 1, 0>> >>
MCSeek == {<<1, 1, 2>>, <<2, 1, 2>>, <<2, 2>>}
MCPrefix == {<<1, 0, 1>>, <<2, 1, 2>>}
MCPrefixLeaf == MCPrefix \cup {<<1, 1, 2>>}

\* one initial state for the maps a behaviour is not about
StrIdle == map = NewMap(CHOOSE type \in MapTypes : TRUE) /\ StrInit

TrieIdle == level = (CHOOSE l \in ConLevels : TRUE) /\ IterInit

SetOpsIdle == job = [kind |-> "none"] /\ tree = <<>> /\ pos = <<>> /\ run = NoRun /\ out = NoOut

MCInit ==
    /\ part \in {"threads", "one", "hash", "strings", "ids", "sets", "trie"}
    /\ PoolInit /\ MemPoolInit /\ HashInit /\ Init
    /\ IF part = "strings" THEN StrInit ELSE StrIdle
    /\ IF part = "sets" THEN SetOpsInit ELSE SetOpsIdle
    /\ IF part = "trie" THEN IterInit ELSE TrieIdle

MCNext ==
    \/ part = "threads" /\ PoolNext /\ UNCHANGED <<part, seqVars, hashVars, strVars, vars, setVars, iterVars>>
    \/ part = "one" /\ MemPoolNext /\ UNCHANGED <<part, poolVars, hashVars, strVars, vars, setVars, iterVars>>
    \/ part = "hash" /\ HashNext /\ UNCHANGED <<part, poolVars, seqVars, strVars, vars, setVars, iterVars>>
    \/ part = "strings" /\ StrNext /\ UNCHANGED <<part, poolVars, seqVars, hashVars, vars, setVars, iterVars>>
    \/ part = "ids" /\ Next /\ UNCHANGED <<part, poolVars, seqVars, hashVars, strVars, setVars, iterVars>>
    \/ part = "sets" /\ MergeStep /\ UNCHANGED <<part, poolVars, seqVars, hashVars, strVars, vars, iterVars>>
    \/ part = "trie" /\ IterNext /\ UNCHANGED <<part, poolVars, seqVars, hashVars, strVars, vars, setVars>>

mcVars == <<part, poolVars, seqVars, hashVars, strVars, vars, setVars, iterVars>>
MCSpec == MCInit /\ [][MCNext]_mcVars

\* The trie alone.
MCTrieSpec ==
    /\ part = "trie" /\ PoolInit /\ MemPoolInit /\ HashInit /\ Init /\ StrIdle /\ SetOpsIdle /\ IterInit
    /\ [][IterNext /\ UNCHANGED <<part, poolVars, seqVars, hashVars, strVars, vars, setVars>>]_mcVars

ThreadSymmetry == Permutations(PoolThreads)
=============================================================================
