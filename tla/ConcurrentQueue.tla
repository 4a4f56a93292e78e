-------------------------- MODULE ConcurrentQueue --------------------------
(***************************************************************************)
(* concurrent_queue over circular_queue (util/concurrent_queue.hpp) and    *)
(* the three queues that thread/pipeline.cpp makes of it: BlockQueue for   *)
(* threads, MixedQueue for threads that run fibers, and FiberQueue, a bare *)
(* ring for the fibers of one thread.                                      *)
(*                                                                         *)
(* A section under m_mtx is one step.  A thread that waits on a condition  *)
(* variable is in waiting until it is notified, times out or wakes for no  *)
(* reason, and tests its condition again when it has the lock back.  A     *)
(* fiber yields in a loop: a turn that finds nothing to do is no step.     *)
(***************************************************************************)
EXTENDS Naturals, Sequences, FiniteSets

CONSTANTS
    Callers,     \* threads or fibers
    QueueKinds,  \* subset of {"block", "mixed", "fiber"}
    QueueSizes,  \* the sizes given to NewQueue
    Calls,       \* the calls they make: records [op, timed]
    MaxCalls     \* bound: calls of one caller

Ops == {"push_back", "push_front", "pop_front", "pop_back"}
ASSUME QueueAssumption ==
    /\ QueueKinds \subseteq {"block", "mixed", "fiber"}
    /\ QueueSizes \subseteq Nat \ {0}
    /\ Calls \subseteq [op : Ops, timed : BOOLEAN]
    /\ IsFiniteSet(Callers)

VARIABLES
    kind,      \* the class of the queue
    ring,      \* m_queue
    call,      \* call[c]: the call c is in, or NoCall
    waiting,   \* the callers that wait on m_pushCond or m_popCond
    count,     \* count[c]: calls begun by c
    got        \* got[c]: what the last pop of c has returned

queueVars == <<kind, ring, call, waiting, count, got>>

R == INSTANCE RingQueue

NoCall == [op |-> "none", timed |-> FALSE]
NoValue == <<>>
IsPush(c) == call[c].op \in {"push_back", "push_front"}
IsPop(c)  == call[c].op \in {"pop_front", "pop_back"}
InCall(c) == call[c] # NoCall

\* is_not_full, is_not_empty: what the call waits for.
Ready(c) == IF IsPush(c) THEN ~R!full(ring) ELSE ~R!empty(ring)

\* NewQueue.  The ring of a BlockQueue or MixedQueue is one longer than the queue: circular_queue
\* wastes a place.  FiberQueue gives its size to the ring as it is.
NewQueue(k, n) == R!NewRing(IF k = "fiber" THEN n ELSE n + 1, NoValue)

QueueInit ==
    /\ kind \in QueueKinds
    /\ \E n \in QueueSizes : ring = NewQueue(kind, n)
    /\ call = [c \in Callers |-> NoCall]
    /\ waiting = {}
    /\ count = [c \in Callers |-> 0]
    /\ got = [c \in Callers |-> NoValue]

\* A caller enters push_back, pop_front, ...: it is about to take the lock.
Enter(c) ==
    /\ ~InCall(c) /\ count[c] < MaxCalls
    /\ \E k \in Calls : call' = [call EXCEPT ![c] = k]
    /\ count' = [count EXCEPT ![c] = @ + 1]
    /\ UNCHANGED <<kind, ring, waiting, got>>

Return(c) == call' = [call EXCEPT ![c] = NoCall]

\* notify_one: one of the callers that wait for it, if there are any.
Notify(S) ==
    IF S \cap waiting = {} THEN UNCHANGED waiting
    ELSE \E w \in S \cap waiting : waiting' = waiting \ {w}

Pushers == {c \in Callers : IsPush(c)}
Poppers == {c \in Callers : IsPop(c)}

\* Mutant of Push: the consumer is told only of the first element.
Push_FirstOnly(c) ==
    /\ IsPush(c) /\ c \notin waiting /\ Ready(c)
    /\ LET v == <<c, count[c]>> IN
       ring' = IF call[c].op = "push_back" THEN R!push_back(ring, v) ELSE R!push_front(ring, v)
    /\ IF kind = "fiber" \/ ~R!empty(ring) THEN UNCHANGED waiting ELSE Notify(Poppers)
    /\ Return(c)
    /\ UNCHANGED <<kind, count, got>>

\* push_back, push_front: c has the lock and finds room.
Push(c) ==
    /\ IsPush(c) /\ c \notin waiting /\ Ready(c)
    /\ LET v == <<c, count[c]>> IN
       ring' = IF call[c].op = "push_back" THEN R!push_back(ring, v) ELSE R!push_front(ring, v)
    /\ IF kind = "fiber" THEN UNCHANGED waiting ELSE Notify(Poppers)
    /\ Return(c)
    /\ UNCHANGED <<kind, count, got>>

\* pop_front, pop_back: c has the lock and finds an element.
Pop(c) ==
    /\ IsPop(c) /\ c \notin waiting /\ Ready(c)
    /\ IF call[c].op = "pop_front"
       THEN got' = [got EXCEPT ![c] = R!front(ring)] /\ ring' = R!pop_front(ring)
       ELSE got' = [got EXCEPT ![c] = R!back(ring)] /\ ring' = R!pop_back(ring)
    /\ IF kind = "fiber" THEN UNCHANGED waiting ELSE Notify(Pushers)
    /\ Return(c)
    /\ UNCHANGED <<kind, count>>

\* m_pushCond.wait, m_popCond.wait: the lock is given back.
Wait(c) ==
    /\ kind # "fiber"
    /\ InCall(c) /\ c \notin waiting /\ ~Ready(c)
    /\ waiting' = waiting \cup {c}
    /\ UNCHANGED <<kind, ring, call, count, got>>

\* A condition variable may let a waiter go without a notify.
Spurious(c) == c \in waiting /\ waiting' = waiting \ {c} /\ UNCHANGED <<kind, ring, call, count, got>>

\* wait_for is over: the condition is tested once more, and the call fails if it does not hold.
\* FiberQueue gives up after timeout * 8 turns.
Timeout(c) ==
    /\ InCall(c) /\ call[c].timed /\ ~Ready(c)
    /\ waiting' = waiting \ {c}
    /\ Return(c)
    /\ UNCHANGED <<kind, ring, count, got>>

\* The wait_for that is over while the condition holds: c goes on as if notified.
LateTimeout(c) ==
    /\ c \in waiting /\ call[c].timed /\ Ready(c)
    /\ waiting' = waiting \ {c}
    /\ UNCHANGED <<kind, ring, call, count, got>>

QueueStep(c) == Push(c) \/ Pop(c) \/ Wait(c)

QueueNext ==
    \/ \E c \in Callers : Enter(c) \/ QueueStep(c)
    \/ \E c \in Callers : Spurious(c) \/ Timeout(c) \/ LateTimeout(c)

QueueSpec == QueueInit /\ [][QueueNext]_queueVars

\* A caller that is not waiting gets the lock some time.
QueueFairness == \A c \in Callers : WF_queueVars(QueueStep(c))

----------------------------------------------------------------------------
\* concurrent_queue over a ring is a bounded deque: waits, wake-ups and the wrap-around of the
\* ring do not show, and what a pop returns is what is at that end of the queue.
Deque == INSTANCE BoundedDeque WITH items <- R!Items(ring), capacity <- ring.nlen - 1

ImplementsDeque == Deque!DequeSpec

\* No wake-up is lost: push and pop notify one waiter each, and while an element (a free place)
\* and a waiter for it are there, some caller that was woken, or has not waited yet, is on its
\* way to take it.
NoLostWakeup ==
    /\ ~R!empty(ring) /\ Poppers \cap waiting # {} => Poppers \ waiting # {}
    /\ ~R!full(ring) /\ Pushers \cap waiting # {} => Pushers \ waiting # {}

\* A call that can be served is served: no caller waits for ever beside an element (a free
\* place) it could have.
WaiterIsServed ==
    \A c \in Callers : (InCall(c) /\ Ready(c)) ~> (~InCall(c) \/ ~Ready(c))
=============================================================================
