----------------------------- MODULE CsppToken -----------------------------
(***************************************************************************)
(* The token queue of the concurrent Patricia trie (fsa/cspptrie.cpp).     *)
(*                                                                         *)
(* A thread reads or writes the trie while its token is AcquireDone.  All  *)
(* tokens in use are linked in one queue, ordered by m_link.verseq; the    *)
(* verseq of the token at the head (m_dummy.m_link.next) bounds the age of *)
(* the memory any thread may still be reading.  m_head_lock protects the   *)
(* links, but releasing never waits for it: a token that cannot be         *)
(* unlinked at once is left in a Wait state for someone else to remove.    *)
(*                                                                         *)
(* One action per access to state that another thread can see.  Memory is  *)
(* sequentially consistent and cas_weak fails only on a difference.  A     *)
(* token belongs to one thread, which is named after it.                   *)
(***************************************************************************)
EXTENDS Naturals, FiniteSets, TLC

CONSTANTS
    Tokens,       \* the tokens, one per thread
    NULL,         \* the null pointer, and &m_dummy as the value of m_token_tail
    MAX_DEL_PTRS, \* how many tokens a walk deletes after it has unlocked
    MaxSeq        \* bound: no operation or update starts once the tail has this verseq

ASSUME TokensAssumption == IsFiniteSet(Tokens) /\ NULL \notin Tokens
ASSUME BoundsAssumption == MAX_DEL_PTRS \in Nat /\ MaxSeq \in Nat

VARIABLES
    \* per token: m_flags.state, m_flags.is_head, m_link.next, m_link.verseq, m_min_age
    state, is_head, next, verseq, min_age,
    \* per trie: m_dummy.m_link.next, m_dummy.m_min_age, m_tail, m_token_qlen
    dummy_next, dummy_min_age, tail, tail_verseq, qlen,
    \* m_head_lock (the thread that set it), m_head_is_dead, m_head_is_idle
    head_lock, head_is_dead, head_is_idle,
    \* per thread: where it is and its local variables
    pc, loc,
    \* history, read by no step: a walk has started from a link that was no longer m_link.next
    stale

tokenVars  == <<state, is_head, next, verseq, min_age>>
queueVars  == <<dummy_next, dummy_min_age, tail, tail_verseq, qlen>>
headVars   == <<head_lock, head_is_dead, head_is_idle>>
vars       == <<tokenVars, queueVars, headVars, pc, loc, stale>>

\* The locals of a thread: where mt_release and mt_update return to (caller) and where
\* dequeue does (resume), m_flags.is_head as idle() has read it (flag), the result
\* of dequeue (ok), m_link.next as read (link), the token a walk has reached (curr) and
\* the tokens to delete after it (delptrs).  NoLocals is their value outside an operation.
NoLocals == [caller |-> "out", resume |-> "out", flag |-> FALSE, ok |-> FALSE,
             link |-> NULL, curr |-> NULL, delptrs |-> {}]

Link == Tokens \cup {NULL}

Locals == [caller : {"out", "idle", "dispose"},
           resume : {"out", "rel_finish", "rel_idle_finish", "upd_finish"},
           flag : BOOLEAN, ok : BOOLEAN, link : Link, curr : Link, delptrs : SUBSET Tokens]

TokenState == {"ReleaseDone", "AcquireDone", "AcquireIdle", "AcquireLock",
               "ReleaseWait", "DisposeWait", "DisposeDone"}

Init ==
    /\ state = [t \in Tokens |-> "ReleaseDone"]
    /\ is_head = [t \in Tokens |-> FALSE]
    /\ next = [t \in Tokens |-> NULL]
    /\ verseq = [t \in Tokens |-> 0]
    /\ min_age = [t \in Tokens |-> 0]
    /\ dummy_next = NULL /\ dummy_min_age = 0
    /\ tail = NULL /\ tail_verseq = 0 /\ qlen = 0
    /\ head_lock = NULL /\ head_is_dead = FALSE
    /\ head_is_idle \in BOOLEAN      \* init() leaves it unset
    /\ pc = [t \in Tokens |-> "out"]
    /\ loc = [t \in Tokens |-> NoLocals]
    /\ stale = FALSE

\* How the locals change: the walk is at c (having passed d, or about to clear d), starts
\* at c, has an answer; m_link.next is read; mt_update and mt_release are called by idle() and dispose(), and
\* return.
AtToken(l, c)     == [l EXCEPT !.curr = c]
Passing(l, c, d)  == [l EXCEPT !.curr = c, !.delptrs = @ \cup {d}]
Clearing(l, c, d) == [l EXCEPT !.curr = c, !.link = d]
Walking(l, c, r)  == [l EXCEPT !.curr = c, !.resume = r]
Answer(l, b)      == [l EXCEPT !.ok = b]
ReadLink(l, c)    == [l EXCEPT !.link = c]
CalledByIdle(c)   == [NoLocals EXCEPT !.caller = "idle", !.flag = TRUE, !.link = c]
CalledByDispose   == [NoLocals EXCEPT !.caller = "dispose"]
Returned(l)       == [NoLocals EXCEPT !.caller = l.caller, !.flag = l.flag]

\* Thread t goes on at label, with the locals l.
Go(t, label, l) == pc' = [pc EXCEPT ![t] = label] /\ loc' = [loc EXCEPT ![t] = l]

Goto(t, label) == Go(t, label, loc[t])

\* mt_release or mt_update ends; only idle() and dispose() have more to do.
Return(t) == Go(t, loc[t].caller, Returned(loc[t]))

\* After the unlock come the tokens to delete, if any.
DeleteOrReturn(t) == IF loc[t].delptrs = {} THEN Return(t) ELSE Goto(t, "del_tokens")

\* Room for another operation below the bound on verseq.
Room == tail_verseq < MaxSeq

SetFlags(t, s, h) ==
    /\ state' = [state EXCEPT ![t] = s]
    /\ is_head' = [is_head EXCEPT ![t] = h]

HasFlags(t, s, h) == state[t] = s /\ is_head[t] = h

Lock(t) == head_lock = NULL /\ head_lock' = t
Unlock  == head_lock' = NULL

\* TokenBase::enqueue: c becomes the last token of the queue.
enqueue(c) ==
    /\ verseq' = [verseq EXCEPT ![c] = tail_verseq + 1]
    /\ IF tail = NULL
       THEN /\ dummy_next' = c
            /\ next' = [next EXCEPT ![c] = NULL]
       ELSE /\ next' = [next EXCEPT ![c] = NULL, ![tail] = c]
            /\ UNCHANGED dummy_next
    /\ tail' = c
    /\ tail_verseq' = tail_verseq + 1

\* Thread t, holding the lock, starts a walk at c and resumes at label.
dequeue(t, c, label) == Go(t, "deq", Walking(loc[t], c, label))

----------------------------------------------------------------------------
(* mt_acquire *)

\* AcquireIdle -> AcquireDone; while another thread has it AcquireLock, spin.
AcquireIdleToken(t) ==
    /\ pc[t] = "out" /\ state[t] = "AcquireIdle" /\ Room
    /\ state' = [state EXCEPT ![t] = "AcquireDone"]
    /\ Goto(t, "acq_head")
    /\ UNCHANGED <<is_head, next, verseq, min_age, queueVars, headVars>>

\* ReleaseWait -> AcquireDone: the token is still linked and keeps its place.
AcquireWaitToken(t) ==
    /\ pc[t] = "out" /\ state[t] = "ReleaseWait" /\ Room
    /\ SetFlags(t, "AcquireDone", FALSE)
    /\ Goto(t, "acq_head")
    /\ UNCHANGED <<next, verseq, min_age, queueVars, headVars>>

AcquireNewToken(t) ==
    /\ pc[t] = "out" /\ state[t] = "ReleaseDone" /\ Room
    /\ SetFlags(t, "AcquireDone", FALSE)
    /\ Goto(t, "acq_lock")
    /\ UNCHANGED <<next, verseq, min_age, queueVars, headVars>>

AcquireLockQueue(t) ==
    /\ pc[t] = "acq_lock" /\ Lock(t)
    /\ Goto(t, "acq_enqueue")
    /\ UNCHANGED <<tokenVars, queueVars, head_is_dead, head_is_idle>>

AcquireEnqueue(t) ==
    /\ pc[t] = "acq_enqueue"
    /\ enqueue(t) /\ qlen' = qlen + 1
    /\ Goto(t, "acq_unlock")
    /\ UNCHANGED <<state, is_head, min_age, dummy_min_age, headVars>>

AcquireUnlockQueue(t) ==
    /\ pc[t] = "acq_unlock" /\ Unlock
    /\ Goto(t, "acq_head")
    /\ UNCHANGED <<tokenVars, queueVars, head_is_dead, head_is_idle>>

\* The last part of mt_acquire: am I the head, or is the head dead?
AcquireTryHead(t) ==
    /\ pc[t] = "acq_head"
    /\ Goto(t, IF dummy_next = t THEN "acq_try_lock"
               ELSE IF head_is_dead THEN "reclaim" ELSE "out")
    /\ UNCHANGED <<tokenVars, queueVars, headVars>>

AcquireTryLock(t) ==
    /\ pc[t] = "acq_try_lock"
    /\ \/ Lock(t) /\ Goto(t, "acq_set_head")
       \/ head_lock # NULL /\ Goto(t, "out") /\ UNCHANGED head_lock
    /\ UNCHANGED <<tokenVars, queueVars, head_is_dead, head_is_idle>>

\* Mutant of AcquireSetHead: no second look at the head.
AcquireSetHead_NoRecheck(t) ==
    /\ pc[t] = "acq_set_head" /\ Unlock
    /\ is_head' = [is_head EXCEPT ![t] = TRUE]
    /\ Goto(t, "out")
    /\ UNCHANGED <<state, next, verseq, min_age, queueVars, head_is_dead, head_is_idle>>

\* dummy_next may have moved between the first look and the lock.
AcquireSetHead(t) ==
    /\ pc[t] = "acq_set_head" /\ Unlock
    /\ is_head' = [is_head EXCEPT ![t] = (dummy_next = t) \/ @]
    /\ Goto(t, "out")
    /\ UNCHANGED <<state, next, verseq, min_age, queueVars, head_is_dead, head_is_idle>>

----------------------------------------------------------------------------
(* mt_release *)

\* A caller of mt_release reads the flags and the link of its own token.  A head
\* that is AcquireDone keeps its flags and, once it has one, its successor, so
\* that the link and the try of the lock are one step.
ReleaseReadFlags(t) ==
    /\ pc[t] = "rel"
    /\ \/ \* not the head: the CAS to ReleaseWait, retried until it succeeds
          /\ state[t] \in {"AcquireDone", "AcquireIdle"} /\ ~is_head[t]
          /\ SetFlags(t, "ReleaseWait", FALSE)
          /\ Return(t)
          /\ UNCHANGED head_lock
       \/ /\ HasFlags(t, "AcquireDone", TRUE)
          /\ next[t] = NULL \/ head_lock # NULL
          /\ Goto(t, "rel_leave_dead")
          /\ UNCHANGED <<state, is_head, head_lock>>
       \/ /\ HasFlags(t, "AcquireDone", TRUE)
          /\ next[t] # NULL /\ Lock(t)
          /\ dequeue(t, next[t], "rel_finish")
          /\ UNCHANGED <<state, is_head>>
       \/ /\ HasFlags(t, "AcquireIdle", TRUE)
          /\ Goto(t, "rel_link")
          /\ UNCHANGED <<state, is_head, head_lock>>
    /\ UNCHANGED <<next, verseq, min_age, queueVars, head_is_dead, head_is_idle>>

\* The head is alone or the lock is taken: leave a dead token at the head.
ReleaseLeaveDead(t) ==
    /\ pc[t] = "rel_leave_dead"
    /\ SetFlags(t, "ReleaseWait", FALSE)
    /\ Goto(t, "rel_set_dead")
    /\ UNCHANGED <<next, verseq, min_age, queueVars, headVars>>

ReleaseSetDead(t) ==
    /\ pc[t] = "rel_set_dead"
    /\ head_is_dead' = TRUE
    /\ Return(t)
    /\ UNCHANGED <<tokenVars, queueVars, head_lock, head_is_idle>>

\* The idle head: it may be moved to the tail before its link is read and after.
ReleaseReadLink(t) ==
    /\ pc[t] = "rel_link"
    /\ Go(t, "rel_idle", ReadLink(loc[t], next[t]))
    /\ UNCHANGED <<tokenVars, queueVars, headVars>>

\* The link that was read decides, the lock is tried later.
ReleaseIdleHead(t) ==
    /\ pc[t] = "rel_idle"
    /\ \/ /\ loc[t].link = NULL \/ head_lock # NULL
          /\ Goto(t, "rel_idle_leave_dead")
          /\ UNCHANGED head_lock
       \/ loc[t].link # NULL /\ Lock(t) /\ Goto(t, "rel_idle_locked")
    /\ UNCHANGED <<tokenVars, queueVars, head_is_dead, head_is_idle>>

ReleaseIdleLeaveDead(t) ==
    /\ pc[t] = "rel_idle_leave_dead"
    /\ IF HasFlags(t, "AcquireIdle", TRUE)
       THEN SetFlags(t, "ReleaseWait", FALSE) /\ Goto(t, "rel_idle_set_dead")
       ELSE Goto(t, "rel") /\ UNCHANGED <<state, is_head>>
    /\ UNCHANGED <<next, verseq, min_age, queueVars, headVars>>

ReleaseIdleSetDead(t) ==
    /\ pc[t] = "rel_idle_set_dead"
    /\ head_is_dead' = TRUE /\ head_is_idle' = FALSE
    /\ Return(t)
    /\ UNCHANGED <<tokenVars, queueVars, head_lock>>

\* The CAS compares the flags only.  Since the link was read, reclaim_head may have moved
\* the token to the tail and a dequeue made it the head again: the flags are the same and
\* the walk starts from a link that is stale.
ReleaseIdleLocked(t) ==
    /\ pc[t] = "rel_idle_locked"
    /\ IF HasFlags(t, "AcquireIdle", TRUE)
       THEN /\ SetFlags(t, "ReleaseDone", FALSE)
            /\ dequeue(t, loc[t].link, "rel_idle_finish")
            /\ stale' = (stale \/ loc[t].link # next[t])
            /\ UNCHANGED head_lock
       ELSE Unlock /\ Goto(t, "rel") /\ UNCHANGED <<state, is_head, stale>>
    /\ UNCHANGED <<next, verseq, min_age, queueVars, head_is_dead, head_is_idle>>

\* After a dequeue that found a head in use (ok) or only a waiting tail.
ReleaseFinish(t) ==
    /\ pc[t] \in {"rel_finish", "rel_idle_finish"}
    /\ IF loc[t].ok
       THEN /\ min_age' = [min_age EXCEPT ![t] = verseq[t]]
            /\ UNCHANGED head_is_dead
       ELSE head_is_dead' = TRUE /\ UNCHANGED min_age
    /\ IF pc[t] = "rel_finish"
       THEN SetFlags(t, "ReleaseDone", FALSE) /\ qlen' = qlen - 1
       ELSE UNCHANGED <<state, is_head, qlen>>
    /\ Unlock
    /\ DeleteOrReturn(t)
    /\ UNCHANGED <<next, verseq, dummy_next, dummy_min_age, tail, tail_verseq,
                   head_is_idle>>

----------------------------------------------------------------------------
(* dequeue: walk from curr to the first token that may be the head *)

\* A live token becomes the head: first it is told so, then the trie is.
DequeueLive(t) == LET c == loc[t].curr IN
    /\ pc[t] = "deq" /\ HasFlags(c, "AcquireDone", FALSE)
    /\ SetFlags(c, "AcquireDone", TRUE)
    /\ Goto(t, "live_age")
    /\ UNCHANGED <<next, verseq, min_age, queueVars, headVars>>

\* An idle token too, but it is kept from waking up meanwhile.
DequeueIdle(t) == LET c == loc[t].curr IN
    /\ pc[t] = "deq" /\ HasFlags(c, "AcquireIdle", FALSE)
    /\ SetFlags(c, "AcquireLock", FALSE)
    /\ Goto(t, "idle_next")
    /\ UNCHANGED <<next, verseq, min_age, queueVars, headVars>>

\* Mutant of DequeueReleased: the tail is unlinked like any other token.
DequeueReleased_Tail(t) == LET c == loc[t].curr IN
    /\ pc[t] = "deq" /\ HasFlags(c, "ReleaseWait", FALSE)
    /\ SetFlags(c, "ReleaseDone", FALSE)
    /\ Go(t, pc[t], AtToken(loc[t], next[c]))
    /\ qlen' = qlen - 1
    /\ UNCHANGED <<next, verseq, min_age, dummy_next, dummy_min_age, tail, tail_verseq,
                   headVars>>

\* A token that is not in use, and is not the tail, leaves the queue.
DequeueReleased(t) == LET c == loc[t].curr IN
    /\ pc[t] = "deq" /\ HasFlags(c, "ReleaseWait", FALSE) /\ next[c] # NULL
    /\ SetFlags(c, "ReleaseDone", FALSE)
    /\ Go(t, pc[t], AtToken(loc[t], next[c]))
    /\ qlen' = qlen - 1
    /\ UNCHANGED <<next, verseq, min_age, dummy_next, dummy_min_age, tail, tail_verseq,
                   headVars>>

\* The tokens a walk has passed and will delete when it has unlocked; beyond
\* MAX_DEL_PTRS it deletes at once.
DropDisposed(t, c) ==
    IF Cardinality(loc[t].delptrs) < MAX_DEL_PTRS
    THEN /\ Go(t, pc[t], Passing(loc[t], next[c], c))
         /\ UNCHANGED state
    ELSE /\ Go(t, pc[t], AtToken(loc[t], next[c]))
         /\ state' = [state EXCEPT ![c] = "DisposeDone"]

DequeueDisposed(t) == LET c == loc[t].curr IN
    /\ pc[t] = "deq" /\ HasFlags(c, "DisposeWait", FALSE) /\ next[c] # NULL
    /\ DropDisposed(t, c)
    /\ qlen' = qlen - 1
    /\ UNCHANGED <<is_head, next, verseq, min_age, dummy_next, dummy_min_age,
                   tail, tail_verseq, headVars>>

\* Done_HeadIsWait: the tail stays linked although it is not in use.
DequeueWaitingTail(t) == LET c == loc[t].curr IN
    /\ pc[t] = "deq" /\ next[c] = NULL
    /\ HasFlags(c, "ReleaseWait", FALSE) \/ HasFlags(c, "DisposeWait", FALSE)
    /\ Goto(t, "wait_next")
    /\ UNCHANGED <<tokenVars, queueVars, headVars>>

----------------------------------------------------------------------------
(* Where a walk ends, curr becomes the head by separate stores, which threads without   *)
(* the lock can see half done: a live token tells m_dummy.m_min_age first, the others   *)
(* m_dummy.m_link.next.  mt_update of a head that is alone makes two of the stores.     *)

After == [live_age |-> "live_next", live_next |-> "live_tell",
          idle_next |-> "idle_age", idle_age |-> "idle_flag", idle_flag |-> "idle_tell",
          idle_tell |-> "idle_open",
          wait_next |-> "wait_age", wait_age |-> "wait_tell",
          rec_next |-> "rec_age", rec_age |-> "rec_dead", rec_dead |-> "rec_tell",
          rec_tell |-> "rec_unlock", bump_age |-> "bump_tell"]

\* m_dummy.m_link.next = curr
StoreNext(t) ==
    /\ pc[t] \in {"live_next", "idle_next", "wait_next", "rec_next"}
    /\ dummy_next' = loc[t].curr
    /\ Goto(t, After[pc[t]])
    /\ UNCHANGED <<tokenVars, dummy_min_age, tail, tail_verseq, qlen, headVars>>

\* Mutant of StoreAge: the bound is that of the tail, not of the new head.
StoreAge_Tail(t) ==
    /\ pc[t] \in {"live_age", "idle_age", "wait_age", "rec_age", "bump_age"}
    /\ dummy_min_age' = tail_verseq
    /\ Goto(t, After[pc[t]])
    /\ UNCHANGED <<tokenVars, dummy_next, tail, tail_verseq, qlen, headVars>>

\* m_dummy.m_min_age = curr's verseq: it bounds what may be reclaimed.
StoreAge(t) ==
    /\ pc[t] \in {"live_age", "idle_age", "wait_age", "rec_age", "bump_age"}
    /\ dummy_min_age' = verseq[loc[t].curr]
    /\ Goto(t, After[pc[t]])
    /\ UNCHANGED <<tokenVars, dummy_next, tail, tail_verseq, qlen, headVars>>

\* m_head_is_idle and, at the end of reclaim_head, m_head_is_dead.
StoreHeadFlags(t) ==
    /\ \/ pc[t] = "idle_flag" /\ head_is_idle' = TRUE /\ UNCHANGED head_is_dead
       \/ pc[t] = "rec_dead" /\ head_is_dead' = FALSE /\ head_is_idle' = FALSE
    /\ Goto(t, After[pc[t]])
    /\ UNCHANGED <<tokenVars, queueVars, head_lock>>

\* curr learns its m_min_age; after a live or a waiting token dequeue returns.
StoreMinAge(t) ==
    /\ \/ pc[t] \in {"live_tell", "wait_tell"}
          /\ Go(t, loc[t].resume, Answer(loc[t], pc[t] = "live_tell"))
          /\ UNCHANGED head_lock
       \/ pc[t] \in {"idle_tell", "rec_tell"}
          /\ Goto(t, After[pc[t]])
          /\ UNCHANGED head_lock
       \/ pc[t] = "bump_tell" /\ Unlock /\ Return(t)
    /\ min_age' = [min_age EXCEPT ![loc[t].curr] = verseq[loc[t].curr]]
    /\ UNCHANGED <<state, is_head, next, verseq, queueVars, head_is_dead, head_is_idle>>

\* The idle head may wake up again.
DequeueIdleDone(t) ==
    /\ pc[t] = "idle_open"
    /\ SetFlags(loc[t].curr, "AcquireIdle", TRUE)
    /\ Go(t, loc[t].resume, Answer(loc[t], TRUE))
    /\ UNCHANGED <<next, verseq, min_age, queueVars, headVars>>

\* del_tokens, after the lock is free again.
del_tokens(t) ==
    /\ pc[t] = "del_tokens"
    /\ state' = [c \in Tokens |-> IF c \in loc[t].delptrs THEN "DisposeDone" ELSE state[c]]
    /\ Return(t)
    /\ UNCHANGED <<is_head, next, verseq, min_age, queueVars, headVars>>

----------------------------------------------------------------------------
(* mt_update: the head gives its place to its successor *)

\* The caller has found is_head set and read m_link.next.
UpdateTryLock(t) ==
    /\ pc[t] = "upd"
    /\ \/ /\ Lock(t) /\ Room
          /\ Goto(t, IF loc[t].link # NULL THEN "upd_requeue" ELSE "upd_bump")
       \/ /\ head_lock # NULL \/ ~Room
          /\ Return(t) /\ UNCHANGED head_lock
    /\ UNCHANGED <<tokenVars, queueVars, head_is_dead, head_is_idle>>

UpdateRequeue(t) ==
    /\ pc[t] = "upd_requeue"
    /\ is_head' = [is_head EXCEPT ![t] = FALSE]
    /\ enqueue(t)
    /\ dequeue(t, next[t], "upd_finish")
    /\ UNCHANGED <<state, min_age, dummy_min_age, qlen, headVars>>

UpdateFinish(t) ==
    /\ pc[t] = "upd_finish" /\ loc[t].ok
    /\ Unlock
    /\ DeleteOrReturn(t)
    /\ UNCHANGED <<tokenVars, queueVars, head_is_dead, head_is_idle>>

\* Alone in the queue, it takes a new verseq in place, unless someone came.
UpdateBump(t) ==
    /\ pc[t] = "upd_bump"
    /\ IF next[t] = NULL
       THEN /\ verseq' = [verseq EXCEPT ![t] = @ + 1]
            /\ tail_verseq' = verseq[t] + 1
            /\ Go(t, "bump_age", AtToken(loc[t], t))
            /\ UNCHANGED head_lock
       ELSE Unlock /\ Return(t) /\ UNCHANGED <<verseq, tail_verseq>>
    /\ UNCHANGED <<state, is_head, next, min_age, dummy_next, dummy_min_age, tail, qlen,
                   head_is_dead, head_is_idle>>

----------------------------------------------------------------------------
(* reclaim_head: another token removes what is dead or idle at the head *)

ReclaimTryLock(t) ==
    /\ pc[t] = "reclaim"
    /\ \/ Lock(t) /\ Goto(t, "rec_check")
       \/ head_lock # NULL /\ Goto(t, "out") /\ UNCHANGED head_lock
    /\ UNCHANGED <<tokenVars, queueVars, head_is_dead, head_is_idle>>

ReclaimCheck(t) ==
    /\ pc[t] = "rec_check"
    /\ IF head_is_dead \/ head_is_idle
       THEN /\ Go(t, "rec", AtToken(loc[t], dummy_next))
            /\ UNCHANGED head_lock
       ELSE Unlock /\ Goto(t, "out")
    /\ UNCHANGED <<tokenVars, queueVars, head_is_dead, head_is_idle>>

\* The CAS makes the token its owner's again, who may acquire or dispose it before ...
ReclaimReleased(t) == LET c == loc[t].curr IN
    /\ pc[t] = "rec" /\ state[c] = "ReleaseWait" /\ next[c] # NULL
    /\ SetFlags(c, "ReleaseDone", FALSE)
    /\ Go(t, "rec_clear", Clearing(loc[t], next[c], c))
    /\ UNCHANGED <<next, verseq, min_age, queueVars, headVars>>

\* ... its link is cleared.
ReclaimClear(t) == LET c == loc[t].link IN
    /\ pc[t] = "rec_clear"
    /\ next' = [next EXCEPT ![c] = NULL]
    /\ verseq' = [verseq EXCEPT ![c] = 0]
    /\ Go(t, "rec", ReadLink(loc[t], NULL))
    /\ qlen' = qlen - 1
    /\ UNCHANGED <<state, is_head, min_age, dummy_next, dummy_min_age, tail, tail_verseq,
                   headVars>>

ReclaimDisposed(t) == LET c == loc[t].curr IN
    /\ pc[t] = "rec" /\ state[c] = "DisposeWait" /\ next[c] # NULL
    /\ DropDisposed(t, c)
    /\ qlen' = qlen - 1
    /\ UNCHANGED <<is_head, next, verseq, min_age, dummy_next, dummy_min_age,
                   tail, tail_verseq, headVars>>

\* Mutant of ReclaimIdle: a token in use is moved as well.
ReclaimIdle_InUse(t) == LET c == loc[t].curr IN
    /\ pc[t] = "rec" /\ state[c] \in {"AcquireIdle", "AcquireDone"} /\ next[c] # NULL
    /\ IF state[c] = "AcquireIdle" THEN SetFlags(c, "AcquireLock", FALSE)
                                    ELSE UNCHANGED <<state, is_head>>
    /\ Goto(t, "rec_idle")
    /\ UNCHANGED <<next, verseq, min_age, queueVars, headVars>>

\* An idle token does not stay at the head: it goes to the tail.
ReclaimIdle(t) == LET c == loc[t].curr IN
    /\ pc[t] = "rec" /\ state[c] = "AcquireIdle" /\ next[c] # NULL
    /\ SetFlags(c, "AcquireLock", FALSE)
    /\ Goto(t, "rec_idle")
    /\ UNCHANGED <<next, verseq, min_age, queueVars, headVars>>

ReclaimIdleDone(t) == LET c == loc[t].curr IN
    /\ pc[t] = "rec_idle"
    /\ min_age' = [min_age EXCEPT ![c] = verseq[c]]
    /\ enqueue(c)
    /\ SetFlags(c, "AcquireIdle", FALSE)
    /\ Go(t, "rec", AtToken(loc[t], next[c]))
    /\ UNCHANGED <<dummy_min_age, qlen, headVars>>

ReclaimLive(t) == LET c == loc[t].curr IN
    /\ pc[t] = "rec" /\ state[c] = "AcquireDone"
    /\ SetFlags(c, "AcquireDone", TRUE)
    /\ Goto(t, "rec_next")
    /\ UNCHANGED <<next, verseq, min_age, queueVars, headVars>>

ReclaimUnlock(t) ==
    /\ pc[t] = "rec_unlock" /\ Unlock
    /\ DeleteOrReturn(t)
    /\ UNCHANGED <<tokenVars, queueVars, head_is_dead, head_is_idle>>

----------------------------------------------------------------------------
(* What a thread does with its token *)

\* release(), by a thread whose token is acquired or idle.
Release(t) ==
    /\ pc[t] = "out" /\ state[t] \in {"AcquireDone", "AcquireIdle", "AcquireLock"}
    /\ Goto(t, "rel")
    /\ UNCHANGED <<tokenVars, queueVars, headVars>>

\* The part of insert_multi_writer that concerns the queue.  That the writer has
\* enough to free (lzf->m_mem_size) is left open.
InsertUpdate(t) ==
    /\ pc[t] = "out" /\ HasFlags(t, "AcquireDone", TRUE) /\ Room
    /\ Go(t, "upd", ReadLink(loc[t], next[t]))
    /\ UNCHANGED <<tokenVars, queueVars, headVars>>

InsertReclaim(t) ==
    /\ pc[t] = "out" /\ HasFlags(t, "AcquireDone", FALSE) /\ Room
    /\ head_is_dead \/ head_is_idle
    /\ Goto(t, "reclaim")
    /\ UNCHANGED <<tokenVars, queueVars, headVars>>

\* idle() reads the flags; the head first tries mt_update.
Idle(t) ==
    /\ \/ pc[t] = "out" /\ state[t] = "AcquireDone" /\ Room
       \/ pc[t] = "idle" /\ is_head[t] # loc[t].flag
    /\ IF is_head[t]
       THEN Go(t, "upd", CalledByIdle(next[t]))
       ELSE Go(t, "idle", NoLocals)
    /\ UNCHANGED <<tokenVars, queueVars, headVars>>

\* The CAS of idle(); when the flags have changed it starts over.
IdleCas(t) ==
    /\ pc[t] = "idle" /\ is_head[t] = loc[t].flag
    /\ SetFlags(t, "AcquireIdle", FALSE)
    /\ Go(t, "out", NoLocals)
    /\ UNCHANGED <<next, verseq, min_age, queueVars, headVars>>

\* dispose(): the owner gives the token up.
Dispose(t) ==
    /\ pc[t] \in {"out", "dispose"}
    /\ \/ /\ state[t] = "ReleaseDone" /\ tail # t
          /\ SetFlags(t, "DisposeDone", FALSE)
          /\ Go(t, "gone", NoLocals)
       \/ /\ state[t] = "ReleaseWait" \/ HasFlags(t, "AcquireIdle", FALSE)
          /\ SetFlags(t, "DisposeWait", FALSE)
          /\ Go(t, "gone", NoLocals)
       \/ /\ HasFlags(t, "AcquireIdle", TRUE)
          /\ Go(t, "rel", CalledByDispose)
          /\ UNCHANGED <<state, is_head>>
    /\ UNCHANGED <<next, verseq, min_age, queueVars, headVars>>

acquire(t) ==
    \/ AcquireIdleToken(t) \/ AcquireWaitToken(t) \/ AcquireNewToken(t)
    \/ AcquireLockQueue(t) \/ AcquireEnqueue(t) \/ AcquireUnlockQueue(t)
    \/ AcquireTryHead(t) \/ AcquireTryLock(t) \/ AcquireSetHead(t)

release(t) ==
    \/ Release(t) \/ ReleaseReadFlags(t) \/ ReleaseLeaveDead(t) \/ ReleaseSetDead(t)
    \/ ReleaseReadLink(t) \/ ReleaseIdleHead(t) \/ ReleaseIdleLeaveDead(t)
    \/ ReleaseIdleSetDead(t) \/ ReleaseFinish(t)

walk(t) ==
    \/ DequeueLive(t) \/ DequeueIdle(t) \/ DequeueReleased(t) \/ DequeueDisposed(t)
    \/ DequeueWaitingTail(t) \/ DequeueIdleDone(t) \/ del_tokens(t)

set_head(t) ==
    \/ StoreNext(t) \/ StoreAge(t) \/ StoreHeadFlags(t) \/ StoreMinAge(t)

update(t) ==
    \/ InsertUpdate(t) \/ UpdateTryLock(t) \/ UpdateRequeue(t) \/ UpdateFinish(t)
    \/ UpdateBump(t)

reclaim_head(t) ==
    \/ InsertReclaim(t) \/ ReclaimTryLock(t) \/ ReclaimCheck(t)
    \/ ReclaimReleased(t) \/ ReclaimClear(t) \/ ReclaimDisposed(t)
    \/ ReclaimIdle(t) \/ ReclaimIdleDone(t) \/ ReclaimLive(t) \/ ReclaimUnlock(t)

Step(t) ==
    \/ ReleaseIdleLocked(t)
    \/ /\ \/ acquire(t) \/ release(t) \/ walk(t) \/ set_head(t) \/ update(t)
          \/ reclaim_head(t) \/ Idle(t) \/ IdleCas(t) \/ Dispose(t)
       /\ UNCHANGED stale

\* A TERARK_DIE or TERARK_VERIFY ends the process, as does a walk past the last token.
DiesInWalk(t) == LET c == loc[t].curr IN
    /\ pc[t] \in {"deq", "rec"}
    /\ \/ c = NULL
       \/ state[c] \in {"ReleaseDone", "DisposeDone", "AcquireLock"}
       \/ pc[t] = "deq" /\ is_head[c]
       \/ pc[t] = "rec" /\ next[c] = NULL /\ state[c] # "AcquireDone"

DiesInOperation(t) ==
    \/ pc[t] = "upd_finish" /\ ~loc[t].ok
    \/ pc[t] = "upd_bump" /\ next[t] = NULL /\ ~(tail = t /\ tail_verseq = verseq[t])
    \/ pc[t] = "rel" /\ state[t] \notin {"AcquireDone", "AcquireIdle", "AcquireLock"}
    \/ pc[t] = "idle" /\ state[t] # "AcquireDone"
    \/ pc[t] = "del_tokens" /\ \E c \in loc[t].delptrs : state[c] # "DisposeWait"
    \/ pc[t] = "dispose" /\ state[t] = "ReleaseDone" /\ tail = t

Died == \E t \in Tokens : DiesInWalk(t) \/ DiesInOperation(t)

\* Threads may stop between two operations, never inside one.
Stopped ==
    /\ Died \/ \A t \in Tokens : pc[t] \in {"out", "gone"}
    /\ UNCHANGED vars

Next == (~Died /\ \E t \in Tokens : Step(t)) \/ Stopped

Spec == Init /\ [][Next]_vars

\* Inside an operation a thread keeps running; it need not start another.
Continue(t) == pc[t] \notin {"out", "gone"} /\ Step(t)

FairSpec == Spec /\ \A t \in Tokens : WF_vars(Continue(t))

\* Tokens are interchangeable.
Symmetry == Permutations(Tokens)

----------------------------------------------------------------------------
(* Properties *)

PcLabel == {"out", "gone", "dispose", "idle",
            "acq_lock", "acq_enqueue", "acq_unlock", "acq_head", "acq_try_lock", "acq_set_head",
            "rel", "rel_leave_dead", "rel_set_dead", "rel_idle", "rel_idle_leave_dead",
            "rel_idle_set_dead", "rel_link", "rel_idle_locked", "rel_finish",
            "rel_idle_finish", "deq", "del_tokens", "live_age", "live_next", "live_tell",
            "idle_next", "idle_age", "idle_flag", "idle_tell", "idle_open",
            "wait_next", "wait_age", "wait_tell",
            "upd", "upd_requeue", "upd_bump", "bump_age", "bump_tell", "upd_finish",
            "reclaim", "rec_check", "rec", "rec_clear", "rec_idle", "rec_next", "rec_age",
            "rec_dead", "rec_tell", "rec_unlock"}

\* Every variable has the type its C++ declaration gives it.
TypeOK ==
    /\ state \in [Tokens -> TokenState] /\ is_head \in [Tokens -> BOOLEAN]
    /\ next \in [Tokens -> Link] /\ verseq \in [Tokens -> Nat] /\ min_age \in [Tokens -> Nat]
    /\ dummy_next \in Link /\ dummy_min_age \in Nat
    /\ tail \in Link /\ tail_verseq \in Nat /\ qlen \in Nat
    /\ head_lock \in Link /\ head_is_dead \in BOOLEAN /\ head_is_idle \in BOOLEAN
    /\ pc \in [Tokens -> PcLabel]
    /\ loc \in [Tokens -> Locals]
    /\ stale \in BOOLEAN

\* The tokens that are members of the queue: not the one that is being enqueued, nor
\* those a walk has passed, nor the released head from which a walk started.
Linked(t) ==
    /\ state[t] \notin {"ReleaseDone", "DisposeDone"}
    /\ pc[t] \notin {"acq_lock", "acq_enqueue"}
    /\ loc[t].resume # "rel_finish"
    /\ \A u \in Tokens : t \notin loc[u].delptrs

\* The tokens whose thread may hold pointers into the trie.
InUse(t) == Linked(t) /\ state[t] = "AcquireDone"
                /\ pc[t] \notin {"rel", "rel_leave_dead"}

\* What the functions of the queue assert: whoever holds the lock at the start of a walk
\* is the first token, it is no more when the walk ends, a released token is not the
\* tail, and the successor of a token that is updated is newer than it.
AssertsOf(t) ==
    /\ pc[t] \in {"out", "dispose"} /\ state[t] = "ReleaseDone" => tail # t
    /\ pc[t] = "rel" /\ HasFlags(t, "AcquireDone", TRUE) /\ head_lock = NULL
          => dummy_next = t
    /\ pc[t] = "rel_idle_locked" /\ HasFlags(t, "AcquireIdle", TRUE) => dummy_next = t
    /\ pc[t] \in {"rel_finish", "rel_idle_finish"} =>
          /\ dummy_next # t
          /\ ~loc[t].ok => tail # t /\ next[t] \notin {NULL, t}
    /\ pc[t] = "upd_requeue" =>
          /\ dummy_next = t
          /\ next[t] # NULL /\ verseq[t] < verseq[next[t]]
    /\ pc[t] = "rec" /\ state[loc[t].curr] \in {"ReleaseWait", "DisposeWait"}
          => ~is_head[loc[t].curr]
    /\ InUse(t) => min_age[t] <= verseq[t] /\ dummy_min_age <= verseq[t]

\* No TERARK_DIE, TERARK_VERIFY or assert of the queue's functions fails, unless a walk
\* has started from a stale link: a walk meets only tokens that are linked, not yet
\* told they are the head, and never runs past the tail; mt_update finds at least
\* itself alive; and what AssertsOf lists.
NoDie == ~stale => ~Died /\ \A t \in Tokens : AssertsOf(t)

\* Whenever the lock is free the queue is whole: it starts at m_dummy, runs through
\* exactly the linked tokens by strictly increasing verseq, and ends at m_tail.
QueueWhole ==
    LET members == {t \in Tokens : Linked(t)}
        Later(v) == {u \in members : verseq[u] > v}
        First(u, S) == u \in S /\ \A x \in S : verseq[u] <= verseq[x]
    IN  head_lock = NULL =>
          /\ members = {} => dummy_next = NULL /\ tail = NULL
          /\ members # {} => First(dummy_next, members)
          /\ \A t \in members :
                /\ IF Later(verseq[t]) = {}
                   THEN next[t] = NULL /\ tail = t /\ tail_verseq = verseq[t]
                   ELSE First(next[t], Later(verseq[t]))
                /\ \A u \in members : verseq[t] = verseq[u] => t = u

\* Whenever the lock is free, only the first token of the queue has is_head set, and it
\* is the one that releases by walking.
HeadIsFirst ==
    head_lock = NULL =>
        \A t \in Tokens : is_head[t] /\ state[t] \in {"AcquireDone", "AcquireIdle"}
                             => dummy_next = t

\* m_token_qlen never counts fewer tokens than the queue has: after set_readonly a zero
\* means that nobody has to be dequeued any more.
QlenCovers == head_lock = NULL => qlen >= Cardinality({t \in Tokens : Linked(t)})

\* The books of the queue, whenever no thread is inside them and unless a walk has
\* started from a stale link.
QueueRight == ~stale => QueueWhole /\ HeadIsFirst /\ QlenCovers

\* The token of a thread that uses the trie does not move in this step.
PlaceKept(t) == pc[t] = "out" /\ pc'[t] = "out" /\ InUse(t) => verseq'[t] = verseq[t]

\* While a thread uses the trie nobody else moves its token: its verseq stands for the
\* memory it may read.
PlaceIsKept == [][\A t \in Tokens : PlaceKept(t)]_vars

\* The queue implements the abstract epochs.
Epoch == INSTANCE CsppEpoch WITH
    linked <- [t \in Tokens |-> Linked(t)],
    inuse  <- [t \in Tokens |-> InUse(t)],
    Verseqs <- Nat

\* Nothing is declared reclaimable that a token of the queue may still see: see
\* MinAgeSafe of CsppEpoch; insert_multi_writer and lookup assert it.
EpochSafe == Epoch!MinAgeSafe

\* Until a walk starts from a stale link, every step of the queue is a step of CsppEpoch
\* or changes nothing it speaks of: in particular a token learns a min_age only from its
\* own verseq and only while it is the oldest, whatever walk tells it.
ImplementsEpoch == Epoch!EpochInit /\ [][~stale' => Epoch!EpochNext]_(Epoch!epochVars)

\* What insert_multi_writer and lookup assert of the token they are called with, whatever
\* walk has run before: m_dummy.m_min_age is not ahead of its verseq, so that nothing it may
\* reach is given back to the pool.
MinAgeIsHeld == \A t \in Tokens : pc[t] = "out" /\ InUse(t) => dummy_min_age <= verseq[t]

\* Who holds m_head_lock gives it back, in every branch of every function that takes it,
\* unless a walk has started from a stale link: it may end in a TERARK_DIE.
LockIsReleased == \A t \in Tokens : head_lock = t ~> head_lock # t \/ stale

\* When no operation is under way, a head that has been released or disposed while
\* another token is in use is flagged, so that the next acquire or insert removes it.
DeadHeadIsFlagged ==
    /\ \A t \in Tokens : pc[t] \in {"out", "gone"}
    /\ \E t \in Tokens : InUse(t)
    => (state[dummy_next] \in {"ReleaseWait", "DisposeWait"} => head_is_dead)

=============================================================================
