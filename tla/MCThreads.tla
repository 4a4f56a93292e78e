----------------------------- MODULE MCThreads -----------------------------
(* What threads share: instances per thread and owner, a bounded queue, and the page cache.  A
   behaviour is about one of them. *)
EXTENDS InstanceTls, ConcurrentQueue

CONSTANTS Threads, PageNum, FilePages, Spans, Fails, MaxOpen   \* those of the page cache

VARIABLES
    part,                    \* which of the three a behaviour is about
    cache, opened, thread    \* the page cache

lruVars == <<cache, opened, thread>>
Lru == INSTANCE LruPageCache

C(op, t) == [op |-> op, timed |-> t]
MCCalls == {C("push_back", FALSE), C("pop_front", FALSE), C("push_front", TRUE), C("pop_back", FALSE)}

QueueIdle == kind = (CHOOSE k \in QueueKinds : TRUE) /\ ring = NewQueue(kind, CHOOSE n \in QueueSizes : TRUE) /\ QueueInit

MCInit ==
    /\ part \in {"tls", "queue", "pages"}
    /\ TlsInit /\ Lru!Init
    /\ IF part = "queue" THEN QueueInit ELSE QueueIdle

MCNext ==
    \/ part = "tls" /\ TlsNext /\ UNCHANGED <<part, queueVars, lruVars>>
    \/ part = "queue" /\ QueueNext /\ UNCHANGED <<part, tlsVars, lruVars>>
    \/ part = "pages" /\ Lru!Next /\ UNCHANGED <<part, tlsVars, queueVars>>

\* The part that is not in play has no step: its fairness asks for nothing.
MCSpec ==
    /\ MCInit /\ [][MCNext]_<<part, tlsVars, queueVars, lruVars>>
    /\ \A t \in TlsThreads : WF_tlsVars(part = "tls" /\ ExitStep(t))
    /\ \A o \in Owners : WF_tlsVars(part = "tls" /\ Reborn(o)) /\ WF_tlsVars(part = "tls" /\ DeleteMembers(o))
    /\ \A c \in Callers : WF_queueVars(part = "queue" /\ QueueStep(c))
    /\ \A t \in Threads : WF_lruVars(part = "pages" /\ Lru!Reading(t))

\* pread returns: no two threads wait for each other's pages for ever (see LruPageCache).
PreadReturns == Lru!PreadReturns
=============================================================================
