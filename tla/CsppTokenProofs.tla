-------------------------- MODULE CsppTokenProofs --------------------------
(***************************************************************************)
(* Proofs about CsppToken, for every finite set of tokens, every MaxSeq    *)
(* and every MAX_DEL_PTRS.                                                 *)
(*                                                                         *)
(* The queue is changed by three kinds of steps, and the proof that the    *)
(* invariant TokenInv is kept has one part for each:                       *)
(*   - a thread that does not walk and changes only its own token's flags  *)
(*     (PlainStep): the queue stays as it is, and so do its members;       *)
(*   - the thread at m_head_lock (HolderStep), alone at the labels where   *)
(*     the lock is held: what the invariant says of the queue is what this *)
(*     thread sees (QueueFor), and it walks, appends, moves or removes;    *)
(*   - del_tokens, which runs without the lock, on tokens that only its    *)
(*     thread knows of.                                                    *)
(* All of it holds until a walk starts from a stale link, which the        *)
(* history variable stale records: the invariant of the specification is   *)
(* stale \/ TokenInv.  TLC shows what can happen after that.               *)
(***************************************************************************)
EXTENDS CsppToken, FiniteSetTheorems, TLAPS

\* Where the thread goes on when a walk ends, and where it walks: dequeue and reclaim_head.
Done == {"rel_finish", "rel_idle_finish", "upd_finish"}
LivePcs == {"live_age", "live_next", "live_tell"}
IdlePcs == {"idle_next", "idle_age", "idle_flag", "idle_tell", "idle_open"}
WaitPcs == {"wait_next", "wait_age", "wait_tell"}
DeqPcs == {"deq"} \cup LivePcs \cup IdlePcs \cup WaitPcs
RecPcs == {"rec", "rec_clear", "rec_idle", "rec_next", "rec_age", "rec_dead", "rec_tell"}
WalkPcs == DeqPcs \cup RecPcs
BumpPcs == {"bump_age", "bump_tell"}
\* Where a walk has stored m_dummy.m_link.next, and m_dummy.m_min_age.
NextSet == {"live_tell", "idle_age", "idle_flag", "idle_tell", "idle_open", "wait_age",
            "wait_tell", "rec_age", "rec_dead", "rec_tell"}
AgeSet == {"live_next", "live_tell", "idle_flag", "idle_tell", "idle_open", "wait_tell",
           "rec_dead", "rec_tell"}
\* Where a walk keeps its token AcquireLock.
KeepPcs == IdlePcs \cup {"rec_idle"}
\* Where the thread holds m_head_lock.
LockPcs == WalkPcs \cup Done \cup BumpPcs \cup
    {"acq_enqueue", "acq_unlock", "acq_set_head", "rel_idle_locked", "upd_requeue", "upd_bump",
     "rec_check", "rec_unlock"}

\* A thread in the middle of a walk.
Walker(t) == pc[t] \in WalkPcs

\* m_head_lock says who is at the labels between taking and giving it back.
LockInv == \A t \in Tokens : pc[t] \in LockPcs <=> head_lock = t

\* What a thread knows of its own token.
Local(t) ==
    /\ is_head[t] => state[t] \in {"AcquireDone", "AcquireIdle"}
    /\ pc[t] \in {"out", "dispose"} => state[t] \notin {"DisposeWait", "DisposeDone"}
    /\ pc[t] = "gone" => state[t] \in {"DisposeWait", "DisposeDone"}
    /\ pc[t] \in {"dispose", "rel_set_dead", "rel_idle_set_dead"} => state[t] \in {"ReleaseWait", "ReleaseDone"}
    /\ pc[t] = "rel" => state[t] \in {"AcquireDone", "AcquireIdle", "AcquireLock"}
    /\ pc[t] \in {"rel_link", "rel_idle", "rel_idle_leave_dead", "rel_idle_locked"} => state[t] \in {"AcquireIdle", "AcquireLock"}
    /\ pc[t] \in {"idle", "acq_lock", "acq_enqueue", "acq_unlock", "acq_head", "acq_try_lock", "acq_set_head",
                  "rel_leave_dead", "upd", "upd_requeue", "upd_bump", "reclaim", "rec_check", "rec_unlock"}
                 \cup RecPcs \cup BumpPcs => state[t] = "AcquireDone"
    /\ pc[t] \in {"rel_leave_dead", "upd", "upd_requeue", "upd_bump"} \cup BumpPcs => is_head[t]
    /\ pc[t] \in BumpPcs => loc[t].curr = t
    /\ pc[t] = "upd_requeue" => loc[t].link # NULL
    /\ pc[t] = "rel_idle_locked" => loc[t].link # NULL
    /\ pc[t] \in Done => loc[t].resume = pc[t]
    /\ pc[t] \in DeqPcs => loc[t].resume \in Done
    /\ pc[t] \notin DeqPcs \cup Done \cup {"del_tokens"} => loc[t].resume = "out"
    /\ pc[t] \in DeqPcs \cup {"rel_finish"} /\ loc[t].resume = "rel_finish" => state[t] = "AcquireDone" /\ is_head[t]
    /\ pc[t] = "del_tokens" /\ loc[t].resume = "rel_finish" => state[t] = "ReleaseDone"
    /\ loc[t].resume = "rel_idle_finish" => state[t] = "ReleaseDone"
    /\ loc[t].resume = "upd_finish" => state[t] = "AcquireDone"
    /\ pc[t] = "del_tokens" /\ loc[t].resume = "out" => state[t] = "AcquireDone"
    /\ pc[t] = "upd_finish" => loc[t].ok
    /\ loc[t].delptrs # {} => pc[t] \in WalkPcs \cup Done \cup {"rec_unlock", "del_tokens"}
    /\ loc[t].caller = "idle" => state[t] = "AcquireDone"
    /\ loc[t].caller = "dispose" => pc[t] \in DeqPcs \cup
           {"dispose", "rel", "rel_leave_dead", "rel_set_dead", "rel_link", "rel_idle", "rel_idle_leave_dead",
            "rel_idle_set_dead", "rel_idle_locked", "rel_finish", "rel_idle_finish", "del_tokens"}
    /\ loc[t].caller = "dispose" /\ pc[t] \in DeqPcs \cup {"del_tokens"} => loc[t].resume \in {"rel_finish", "rel_idle_finish"}
    /\ loc[t].caller = "idle" /\ pc[t] \in DeqPcs => loc[t].resume = "upd_finish"
    /\ loc[t].caller = "idle" => pc[t] \in DeqPcs \cup BumpPcs \cup {"idle", "upd", "upd_requeue", "upd_bump", "upd_finish", "del_tokens"}

\* A token that waits for del_tokens was given up by its thread, and one thread has it.
DelInv ==
    \A u \in Tokens : \A c \in loc[u].delptrs :
        /\ state[c] = "DisposeWait" /\ pc[c] = "gone"
        /\ \A v \in Tokens : v # u => c \notin loc[v].delptrs

\* The tokens of the queue.
Members == {t \in Tokens : Linked(t)}

\* Members M with the places vs are chained by nx up to tl, whose place is tv.
Chained(M, vs, nx, tl, tv) ==
    /\ M = {} => tl = NULL
    /\ M # {} => tl \in M /\ vs[tl] = tv /\ nx[tl] = NULL
    /\ \A t \in M : vs[t] <= tv
    /\ \A t, u \in M : vs[t] = vs[u] => t = u
    /\ \A t \in M : t # tl => /\ nx[t] \in M /\ vs[t] < vs[nx[t]]
                              /\ \A u \in M : vs[t] < vs[u] => vs[nx[t]] <= vs[u]

\* c is the oldest of the members.
IsFirst(c, M, vs) == c \in M /\ \A u \in M : vs[c] <= vs[u]

\* The queue is a chain from its oldest token to m_tail, in the order of the verseqs.
ChainInv == Chained(Members, verseq, next, tail, tail_verseq)

\* Where the queue starts: at the token a walk has reached, else at m_dummy.m_next.
FirstInv ==
    /\ \A t \in Tokens : Walker(t) => IsFirst(loc[t].curr, Members, verseq)
    /\ (\A t \in Tokens : ~Walker(t)) => \/ Members = {} /\ dummy_next = NULL
                                         \/ IsFirst(dummy_next, Members, verseq)

\* Only the first token has is_head set: where a walk is, or at m_dummy.m_next.
HeadInv ==
    \A x \in Tokens : is_head[x] =>
        /\ \A t \in Tokens : pc[t] \in RecPcs => x = loc[t].curr
        /\ \A t \in Tokens : pc[t] \in DeqPcs =>
                \/ x = t /\ loc[t].resume = "rel_finish"
                \/ x = loc[t].curr /\ pc[t] \in LivePcs
        /\ (\A t \in Tokens : ~Walker(t)) => x = dummy_next \/ pc[x] = "rel_finish"

\* AcquireLock marks the idle token a walk has reached and no other; what else a walk knows.
WalkInv ==
    /\ \A t \in Tokens : pc[t] \in KeepPcs => state[loc[t].curr] = "AcquireLock"
    /\ \A c \in Tokens : state[c] = "AcquireLock" =>
            \E t \in Tokens : pc[t] \in KeepPcs /\ loc[t].curr = c
    /\ \A t \in Tokens : pc[t] = "rec_idle" => loc[t].curr # tail
    /\ \A t \in Tokens : pc[t] \in WaitPcs => loc[t].resume # "upd_finish"
    /\ \A t \in Tokens : pc[t] \in {"upd", "upd_requeue"} /\ loc[t].link # NULL => next[t] # NULL
    /\ \A t \in Tokens : pc[t] = "rec_clear" => loc[t].link \in Tokens \ Members

\* What a walk has told m_dummy so far.
StageInv ==
    /\ \A t \in Tokens : pc[t] \in NextSet => dummy_next = loc[t].curr
    /\ \A t \in Tokens : pc[t] \in AgeSet => dummy_min_age = verseq[loc[t].curr]

\* No min_age is ahead of a member, nor will be when the walk that is going on ends.
AgeInv ==
    /\ dummy_min_age <= tail_verseq /\ \A w \in Tokens : min_age[w] <= tail_verseq
    /\ \A u \in Members : dummy_min_age <= verseq[u] /\ \A w \in Tokens : min_age[w] <= verseq[u]
    /\ \A t \in Tokens : pc[t] \in DeqPcs \cup Done /\ loc[t].resume # "upd_finish" =>
            /\ next[t] \notin {NULL, t} /\ min_age[t] <= verseq[t]
            /\ \A u \in Members : verseq[t] <= verseq[u]
    /\ \A t \in Tokens : pc[t] \in Done \ {"upd_finish"} /\ loc[t].ok => verseq[t] <= dummy_min_age

\* m_qlen counts all members; a released head is counted until mt_release is done.
QlenInv ==
    /\ qlen >= Cardinality(Members)
    /\ \A t \in Tokens : pc[t] \in DeqPcs \cup {"rel_finish"} /\ loc[t].resume = "rel_finish" => qlen > Cardinality(Members)
    /\ \A t \in Tokens : pc[t] = "rec_clear" => qlen > Cardinality(Members)

\* TypeOK of CsppToken but for the history variable.
Typed ==
    /\ state \in [Tokens -> TokenState] /\ is_head \in [Tokens -> BOOLEAN]
    /\ next \in [Tokens -> Link] /\ verseq \in [Tokens -> Nat] /\ min_age \in [Tokens -> Nat]
    /\ dummy_next \in Link /\ dummy_min_age \in Nat
    /\ tail \in Link /\ tail_verseq \in Nat /\ qlen \in Nat
    /\ head_lock \in Link /\ head_is_dead \in BOOLEAN /\ head_is_idle \in BOOLEAN
    /\ pc \in [Tokens -> PcLabel]
    /\ loc \in [Tokens -> Locals]

\* The inductive invariant, until a walk starts from a stale link.
TokenInv ==
    /\ Typed /\ LockInv /\ (\A t \in Tokens : Local(t)) /\ DelInv
    /\ ChainInv /\ FirstInv /\ HeadInv /\ WalkInv /\ StageInv /\ AgeInv /\ QlenInv

\* Its part about types in two: where the threads are, and the rest.
PcTyped == pc \in [Tokens -> PcLabel] /\ loc \in [Tokens -> Locals]
DataTyped ==
    /\ state \in [Tokens -> TokenState] /\ is_head \in [Tokens -> BOOLEAN]
    /\ next \in [Tokens -> Link] /\ verseq \in [Tokens -> Nat] /\ min_age \in [Tokens -> Nat]
    /\ dummy_next \in Link /\ dummy_min_age \in Nat
    /\ tail \in Link /\ tail_verseq \in Nat /\ qlen \in Nat
    /\ head_lock \in Link /\ head_is_dead \in BOOLEAN /\ head_is_idle \in BOOLEAN

\* Typed is its two parts.
LEMMA TypeParts == Typed <=> PcTyped /\ DataTyped
  BY DEF Typed, PcTyped, DataTyped

-----------------------------------------------------------------------------
(* What the ways of going on do to pc and to the locals.                    *)

\* The fields of a record of locals.
LEMMA LocalsFields ==
    ASSUME NEW l \in Locals
    PROVE  /\ l.caller \in {"out", "idle", "dispose"}
           /\ l.resume \in {"out", "rel_finish", "rel_idle_finish", "upd_finish"}
           /\ l.ok \in BOOLEAN /\ l.link \in Link /\ l.curr \in Link
           /\ l.delptrs \in SUBSET Tokens
  BY DEF Locals

\* The fields of the initial locals.
LEMMA NoLocalsFields ==
    /\ NoLocals \in Locals /\ NoLocals.caller = "out" /\ NoLocals.resume = "out"
    /\ NoLocals.link = NULL /\ NoLocals.delptrs = {}
  BY DEF NoLocals, Locals, Link

\* A walk that goes to another token changes curr.
LEMMA AtTokenFields ==
    ASSUME NEW l \in Locals, NEW c \in Link
    PROVE  /\ AtToken(l, c) \in Locals /\ AtToken(l, c).caller = l.caller /\ AtToken(l, c).resume = l.resume
           /\ AtToken(l, c).ok = l.ok /\ AtToken(l, c).link = l.link /\ AtToken(l, c).curr = c
           /\ AtToken(l, c).delptrs = l.delptrs
  BY DEF Locals, AtToken

\* A walk that passes a disposed token changes curr and delptrs.
LEMMA PassingFields ==
    ASSUME NEW l \in Locals, NEW c \in Link, NEW d \in Tokens
    PROVE  /\ Passing(l, c, d) \in Locals /\ Passing(l, c, d).caller = l.caller /\ Passing(l, c, d).resume = l.resume
           /\ Passing(l, c, d).ok = l.ok /\ Passing(l, c, d).link = l.link /\ Passing(l, c, d).curr = c
           /\ Passing(l, c, d).delptrs = l.delptrs \cup {d}
  BY DEF Locals, Passing

\* A walk that is about to clear a token has passed it.
LEMMA ClearingFields ==
    ASSUME NEW l \in Locals, NEW c \in Link, NEW d \in Tokens
    PROVE  /\ Clearing(l, c, d) \in Locals /\ Clearing(l, c, d).caller = l.caller /\ Clearing(l, c, d).resume = l.resume
           /\ Clearing(l, c, d).ok = l.ok /\ Clearing(l, c, d).link = d /\ Clearing(l, c, d).curr = c
           /\ Clearing(l, c, d).delptrs = l.delptrs
  BY DEF Locals, Clearing, Link

\* A walk that starts sets curr and resume.
LEMMA WalkingFields ==
    ASSUME NEW l \in Locals, NEW c \in Link, NEW r \in Done
    PROVE  /\ Walking(l, c, r) \in Locals /\ Walking(l, c, r).caller = l.caller /\ Walking(l, c, r).resume = r
           /\ Walking(l, c, r).ok = l.ok /\ Walking(l, c, r).link = l.link /\ Walking(l, c, r).curr = c
           /\ Walking(l, c, r).delptrs = l.delptrs
  BY DEF Locals, Walking, Done

\* A walk that ends sets ok.
LEMMA AnswerFields ==
    ASSUME NEW l \in Locals, NEW b \in BOOLEAN
    PROVE  /\ Answer(l, b) \in Locals /\ Answer(l, b).caller = l.caller /\ Answer(l, b).resume = l.resume
           /\ Answer(l, b).ok = b /\ Answer(l, b).link = l.link /\ Answer(l, b).curr = l.curr
           /\ Answer(l, b).delptrs = l.delptrs
  BY DEF Locals, Answer

\* Reading a link changes link.
LEMMA ReadLinkFields ==
    ASSUME NEW l \in Locals, NEW c \in Link
    PROVE  /\ ReadLink(l, c) \in Locals /\ ReadLink(l, c).caller = l.caller /\ ReadLink(l, c).resume = l.resume
           /\ ReadLink(l, c).ok = l.ok /\ ReadLink(l, c).link = c /\ ReadLink(l, c).curr = l.curr
           /\ ReadLink(l, c).delptrs = l.delptrs
  BY DEF Locals, ReadLink

\* The locals of a call from idle() and from dispose().
LEMMA CallFields ==
    ASSUME NEW c \in Link
    PROVE  /\ CalledByIdle(c) \in Locals /\ CalledByIdle(c).caller = "idle" /\ CalledByIdle(c).resume = "out"
           /\ CalledByIdle(c).link = c /\ CalledByIdle(c).delptrs = {}
           /\ CalledByDispose \in Locals /\ CalledByDispose.caller = "dispose" /\ CalledByDispose.resume = "out"
           /\ CalledByDispose.delptrs = {}
  BY DEF NoLocals, Locals, Link, CalledByIdle, CalledByDispose

\* The locals of a call that has returned.
LEMMA ReturnedFields ==
    ASSUME NEW l \in Locals
    PROVE  /\ Returned(l) \in Locals /\ Returned(l).caller = l.caller /\ Returned(l).resume = "out"
           /\ Returned(l).link = NULL /\ Returned(l).delptrs = {}
  BY DEF NoLocals, Locals, Link, Returned

\* t goes on at label with the locals l, nobody else does.
Moves(t, label, l) ==
    /\ pc'[t] = label /\ loc'[t] = l
    /\ \A u \in Tokens \ {t} : pc'[u] = pc[u] /\ loc'[u] = loc[u]

\* Go moves one thread.
LEMMA GoMoves ==
    ASSUME PcTyped, NEW t \in Tokens, NEW label \in PcLabel, NEW l \in Locals, Go(t, label, l)
    PROVE  Moves(t, label, l) /\ PcTyped'
  BY DEF Go, PcTyped, Moves

\* So does Goto, with the locals it has.
LEMMA GotoMoves ==
    ASSUME PcTyped, NEW t \in Tokens, NEW label \in PcLabel, Goto(t, label)
    PROVE  Moves(t, label, loc[t]) /\ PcTyped'
  BY DEF Goto, Go, PcTyped, Moves

\* So does Return, to the caller.
LEMMA ReturnMoves ==
    ASSUME PcTyped, NEW t \in Tokens, Return(t)
    PROVE  Moves(t, loc[t].caller, Returned(loc[t])) /\ PcTyped'
<1>1. loc[t] \in Locals
  BY DEF PcTyped
<1>2. loc[t].caller \in PcLabel
  BY <1>1, LocalsFields DEF PcLabel
<1>3. QED
  BY <1>1, <1>2, ReturnedFields, GoMoves DEF Return

-----------------------------------------------------------------------------
(* What a step of t does to the others.                                     *)

\* What a step of another thread may do to the flags of u.
Rely(u) ==
    \/ state'[u] = state[u] /\ is_head'[u] = is_head[u]
    \/ state[u] = "ReleaseWait" /\ state'[u] = "ReleaseDone" /\ ~is_head'[u]
    \/ state[u] = "AcquireIdle" /\ state'[u] = "AcquireLock" /\ ~is_head'[u]
    \/ state[u] = "AcquireLock" /\ state'[u] = "AcquireIdle"
    \/ state[u] = "AcquireDone" /\ state'[u] = "AcquireDone" /\ is_head'[u]
    \/ state[u] = "DisposeWait" /\ state'[u] = "DisposeDone" /\ is_head'[u] = is_head[u]

\* A step of t leaves the other threads where they are.
Others(t) == \A u \in Tokens \ {t} : pc'[u] = pc[u] /\ loc'[u] = loc[u] /\ Rely(u)

\* The lock is taken when it is free and given back by the thread that has it.
LockRule(t) ==
    \/ head_lock' = head_lock /\ (pc'[t] \in LockPcs <=> pc[t] \in LockPcs)
    \/ head_lock = NULL /\ head_lock' = t /\ pc'[t] \in LockPcs
    \/ pc[t] \in LockPcs /\ head_lock' = NULL /\ pc'[t] \notin LockPcs

\* A walk is at a member.
LEMMA CurrLinked ==
    ASSUME TokenInv, NEW t \in Tokens, Walker(t)
    PROVE  loc[t].curr \in Tokens /\ Linked(loc[t].curr)
  BY DEF TokenInv, FirstInv, IsFirst, Members

\* m_qlen can be decremented while there is a member.
LEMMA QlenPositive ==
    ASSUME TokenInv, NEW c \in Tokens, Linked(c)
    PROVE  qlen - 1 \in Nat
<1>1. c \in Members /\ Members \subseteq Tokens
  BY DEF Members
<1>2. IsFiniteSet(Members)
  BY <1>1, TokensAssumption, FS_Subset
<1>3. Cardinality(Members) \in Nat /\ Cardinality(Members) # 0
  BY <1>1, <1>2, FS_CardinalityType, FS_EmptySet
<1>4. QED
  BY <1>3 DEF TokenInv, QlenInv, Typed

-----------------------------------------------------------------------------
(* Steps of a thread that is not walking, and that change only the flags of  *)
(* its own token.                                                            *)

\* The part of Linked(t) that is about t's thread and flags.
OwnLinked(t) ==
    /\ state[t] \notin {"ReleaseDone", "DisposeDone"}
    /\ pc[t] \notin {"acq_lock", "acq_enqueue"}
    /\ loc[t].resume # "rel_finish"

\* Only the flags, the label and the locals of t change.
PlainFrame(t) ==
    /\ \A u \in Tokens \ {t} : /\ pc'[u] = pc[u] /\ loc'[u] = loc[u]
                               /\ state'[u] = state[u] /\ is_head'[u] = is_head[u]
    /\ UNCHANGED <<next, verseq, min_age, dummy_next, dummy_min_age, tail, tail_verseq, qlen>>

\* t stays in the queue or out of it, and starts no walk.
PlainOwn(t) ==
    /\ pc[t] \notin WalkPcs \cup {"rel_finish", "gone"} /\ pc'[t] \notin WalkPcs \cup Done
    /\ loc'[t].delptrs = loc[t].delptrs
    /\ OwnLinked(t)' <=> OwnLinked(t)
    /\ state'[t] = "AcquireLock" <=> state[t] = "AcquireLock"
    /\ is_head'[t] => is_head[t] \/ (dummy_next = t /\ pc[t] = "acq_set_head")
    /\ pc'[t] \in {"upd", "upd_requeue"} /\ loc'[t].link # NULL => next[t] # NULL

\* A step of a thread that is not walking, on its own token.
PlainStep(t) ==
    PcTyped' /\ DataTyped' /\ Local(t)' /\ LockRule(t) /\ PlainFrame(t) /\ PlainOwn(t)

\* Two threads do not hold the lock.
LEMMA HolderUnique ==
    ASSUME TokenInv, NEW t \in Tokens, NEW u \in Tokens, pc[t] \in LockPcs, pc[u] \in LockPcs
    PROVE  t = u
  BY DEF TokenInv, LockInv

\* LockRule keeps LockInv.
LEMMA LockKept ==
    ASSUME TokenInv, NEW t \in Tokens, LockRule(t), \A u \in Tokens \ {t} : pc'[u] = pc[u]
    PROVE  LockInv'
  BY TokensAssumption DEF TokenInv, LockInv, LockRule

\* Such a step keeps the invariant.
LEMMA PlainPreserves ==
    ASSUME TokenInv, NEW t \in Tokens, PlainStep(t)
    PROVE  TokenInv'
<1>1. Typed' /\ LockInv'
  BY TypeParts, LockKept DEF PlainStep, PlainFrame, PlainOwn, Typed, PcTyped, DataTyped
<1>2. \A u \in Tokens : Local(u)'
  <2>1. ASSUME NEW u \in Tokens \ {t} PROVE Local(u)'
    BY <2>1 DEF TokenInv, PlainStep, PlainFrame, PlainOwn, Local
  <2>2. QED
    BY <2>1 DEF PlainStep, PlainFrame, PlainOwn
<1>3. \A u \in Tokens : t \notin loc[u].delptrs
  BY DEF TokenInv, DelInv, PlainStep, PlainFrame, PlainOwn
<1>4. \A u \in Tokens : loc'[u].delptrs = loc[u].delptrs
  BY DEF PlainStep, PlainFrame, PlainOwn
<1>5. DelInv'
  BY <1>3, <1>4, LocalsFields DEF TokenInv, DelInv, PlainStep, PlainFrame, PlainOwn, Typed
<1>6. \A u \in Tokens : Linked(u)' <=> Linked(u)
  BY <1>3, <1>4 DEF Linked, OwnLinked, PlainStep, PlainFrame, PlainOwn
<1>7. Members' = Members
  BY <1>6 DEF Members
<1>8. ChainInv'
  BY <1>7 DEF ChainInv, TokenInv, PlainStep, PlainFrame, PlainOwn
<1>9. \A u \in Tokens : pc'[u] \in WalkPcs => pc'[u] = pc[u] /\ loc'[u] = loc[u] /\ u # t
  BY DEF PlainStep, PlainFrame, PlainOwn
<1>10. \A u \in Tokens : pc[u] \in WalkPcs => pc'[u] = pc[u] /\ loc'[u] = loc[u] /\ u # t
  BY DEF PlainStep, PlainFrame, PlainOwn
<1>11. FirstInv'
  BY <1>7, <1>9, <1>10 DEF FirstInv, TokenInv, PlainStep, PlainFrame, PlainOwn, Walker
<1>12. HeadInv'
  <2> SUFFICES ASSUME NEW x \in Tokens, is_head'[x]
               PROVE  /\ \A u \in Tokens : pc'[u] \in RecPcs => x = loc'[u].curr
                      /\ \A u \in Tokens : pc'[u] \in DeqPcs =>
                             \/ x = u /\ loc'[u].resume = "rel_finish"
                             \/ x = loc'[u].curr /\ pc'[u] \in LivePcs
                      /\ (\A u \in Tokens : ~Walker(u)') => x = dummy_next' \/ pc'[x] = "rel_finish"
    BY DEF HeadInv
  <2>1. CASE is_head[x]
    BY <2>1, <1>9, <1>10 DEF HeadInv, TokenInv, PlainStep, PlainFrame, PlainOwn, Walker, WalkPcs
  <2>2. CASE ~is_head[x]
    <3>1. x = t /\ dummy_next = t /\ pc[t] = "acq_set_head"
      BY <2>2 DEF PlainStep, PlainFrame, PlainOwn
    <3>2. \A u \in Tokens : pc[u] \notin WalkPcs
      BY <3>1, HolderUnique DEF LockPcs, BumpPcs, WalkPcs, DeqPcs, LivePcs, IdlePcs, WaitPcs, KeepPcs, RecPcs, Done
    <3>3. QED
      BY <3>1, <3>2, <1>9 DEF PlainStep, PlainFrame, PlainOwn, WalkPcs
  <2>3. QED
    BY <2>1, <2>2
<1>13. WalkInv'
  <2>1. \A u \in Tokens : pc'[u] \in KeepPcs => state'[loc'[u].curr] = "AcquireLock"
    <3> SUFFICES ASSUME NEW u \in Tokens, pc'[u] \in KeepPcs
                 PROVE  state'[loc'[u].curr] = "AcquireLock"
      OBVIOUS
    <3>1. pc[u] = pc'[u] /\ loc'[u] = loc[u]
      BY <1>9 DEF WalkPcs, DeqPcs, LivePcs, IdlePcs, WaitPcs, KeepPcs, RecPcs
    <3>2. loc[u].curr \in Tokens /\ state[loc[u].curr] = "AcquireLock"
      BY <3>1, CurrLinked DEF TokenInv, WalkInv, Walker, WalkPcs, DeqPcs, LivePcs, IdlePcs, WaitPcs, KeepPcs, RecPcs
    <3>3. QED
      BY <3>1, <3>2 DEF PlainStep, PlainFrame, PlainOwn
  <2>2. \A c \in Tokens : state'[c] = "AcquireLock" =>
            \E u \in Tokens : pc'[u] \in KeepPcs /\ loc'[u].curr = c
    <3> SUFFICES ASSUME NEW c \in Tokens, state'[c] = "AcquireLock"
                 PROVE  \E u \in Tokens : pc'[u] \in KeepPcs /\ loc'[u].curr = c
      OBVIOUS
    <3>1. state[c] = "AcquireLock"
      BY DEF PlainStep, PlainFrame, PlainOwn
    <3>2. PICK u \in Tokens : pc[u] \in KeepPcs /\ loc[u].curr = c
      BY <3>1 DEF TokenInv, WalkInv
    <3>3. QED
      BY <3>2, <1>10 DEF WalkPcs, DeqPcs, LivePcs, IdlePcs, WaitPcs, KeepPcs, RecPcs
  <2>3. \A u \in Tokens : pc'[u] = "rec_idle" => loc'[u].curr # tail'
    BY <1>9 DEF TokenInv, WalkInv, PlainStep, PlainFrame, PlainOwn, WalkPcs, RecPcs
  <2>4. \A u \in Tokens : pc'[u] \in WaitPcs => loc'[u].resume # "upd_finish"
    BY <1>9 DEF TokenInv, WalkInv, PlainStep, PlainFrame, PlainOwn, WalkPcs, DeqPcs, LivePcs, IdlePcs, WaitPcs, KeepPcs
  <2>5. \A u \in Tokens : pc'[u] \in {"upd", "upd_requeue"} /\ loc'[u].link # NULL => next'[u] # NULL
    BY DEF TokenInv, WalkInv, PlainStep, PlainFrame, PlainOwn
  <2>6. \A u \in Tokens : pc'[u] = "rec_clear" => loc'[u].link \in Tokens \ Members'
    BY <1>7, <1>9 DEF TokenInv, WalkInv, WalkPcs, RecPcs
  <2>7. QED
    BY <2>1, <2>2, <2>3, <2>4, <2>5, <2>6 DEF WalkInv
<1>14. StageInv'
  BY <1>9 DEF TokenInv, StageInv, PlainStep, PlainFrame, PlainOwn, WalkPcs, DeqPcs, LivePcs, IdlePcs, WaitPcs, RecPcs, NextSet, AgeSet
<1>15. AgeInv'
  BY <1>7 DEF TokenInv, AgeInv, PlainStep, PlainFrame, PlainOwn, WalkPcs
<1>16. QlenInv'
  BY <1>7 DEF TokenInv, QlenInv, PlainStep, PlainFrame, PlainOwn, WalkPcs, RecPcs, Done
<1>17. QED
  BY <1>1, <1>2, <1>5, <1>8, <1>11, <1>12, <1>13, <1>14, <1>15, <1>16 DEF TokenInv

\* The actions that are such steps: those of acquire, release, update, reclaim, idle and
\* dispose that do not touch the queue.
LEMMA PlainActions ==
    ASSUME TokenInv, NEW t \in Tokens
    PROVE  /\ AcquireIdleToken(t) => PlainStep(t)
           /\ AcquireWaitToken(t) => PlainStep(t)
           /\ AcquireNewToken(t) => PlainStep(t)
           /\ AcquireLockQueue(t) => PlainStep(t)
           /\ AcquireUnlockQueue(t) => PlainStep(t)
           /\ AcquireTryHead(t) => PlainStep(t)
           /\ AcquireTryLock(t) => PlainStep(t)
           /\ AcquireSetHead(t) => PlainStep(t)
           /\ Release(t) => PlainStep(t)
           /\ ReleaseReadFlags(t) /\ ~(HasFlags(t, "AcquireDone", TRUE) /\ next[t] # NULL /\ head_lock = NULL) => PlainStep(t)
           /\ ReleaseLeaveDead(t) => PlainStep(t)
           /\ ReleaseSetDead(t) => PlainStep(t)
           /\ ReleaseReadLink(t) => PlainStep(t)
           /\ ReleaseIdleHead(t) => PlainStep(t)
           /\ ReleaseIdleLeaveDead(t) => PlainStep(t)
           /\ ReleaseIdleSetDead(t) => PlainStep(t)
           /\ ReleaseIdleLocked(t) /\ ~HasFlags(t, "AcquireIdle", TRUE) => PlainStep(t)
           /\ InsertUpdate(t) => PlainStep(t)
           /\ UpdateTryLock(t) => PlainStep(t)
           /\ UpdateFinish(t) => PlainStep(t)
           /\ UpdateBump(t) /\ next[t] # NULL => PlainStep(t)
           /\ InsertReclaim(t) => PlainStep(t)
           /\ ReclaimTryLock(t) => PlainStep(t)
           /\ ReclaimCheck(t) /\ ~(head_is_dead \/ head_is_idle) => PlainStep(t)
           /\ ReclaimUnlock(t) => PlainStep(t)
           /\ Idle(t) => PlainStep(t)
           /\ IdleCas(t) => PlainStep(t)
           /\ Dispose(t) => PlainStep(t)
<1> USE DEF SetFlags, HasFlags, Lock, Unlock, tokenVars, queueVars, headVars, Done, DeqPcs, LivePcs, IdlePcs, WaitPcs, KeepPcs, RecPcs, WalkPcs, BumpPcs
<1>a. /\ PcTyped /\ DataTyped /\ Local(t) /\ loc[t] \in Locals /\ next[t] \in Link
      /\ loc[t].caller \in {"out", "idle", "dispose"} /\ t # NULL
      /\ (pc[t] = "upd" /\ loc[t].link # NULL => next[t] # NULL)
  BY TypeParts, LocalsFields, TokensAssumption DEF TokenInv, PcTyped, DataTyped, WalkInv
<1>1. ASSUME AcquireIdleToken(t) PROVE PlainStep(t)
  <2>1. Moves(t, "acq_head", loc[t]) /\ PcTyped'
    BY <1>1, <1>a, GotoMoves DEF AcquireIdleToken, PcLabel
  <2>2. pc[t] = "out" /\ state[t] = "AcquireIdle"
    BY <1>1, <1>a DEF AcquireIdleToken, Local
  <2>3. state'[t] = "AcquireDone" /\ (is_head'[t] <=> is_head[t]) /\ head_lock' = head_lock /\ DataTyped' /\ PlainFrame(t)
    BY <1>1, <1>a, <2>1 DEF AcquireIdleToken, DataTyped, TokenState, Link, PlainFrame, Moves
  <2>4. Local(t)'
    BY <1>a, <2>1, <2>2, <2>3 DEF Moves, Local
  <2>5. LockRule(t) /\ PlainOwn(t)
    BY <1>a, <2>1, <2>2, <2>3 DEF Moves, Local, LockRule, LockPcs, BumpPcs, OwnLinked, PlainOwn
  <2>6. QED
    BY <2>1, <2>3, <2>4, <2>5 DEF PlainStep
<1>2. ASSUME AcquireWaitToken(t) PROVE PlainStep(t)
  <2>1. Moves(t, "acq_head", loc[t]) /\ PcTyped'
    BY <1>2, <1>a, GotoMoves DEF AcquireWaitToken, PcLabel
  <2>2. pc[t] = "out" /\ state[t] = "ReleaseWait"
    BY <1>2, <1>a DEF AcquireWaitToken, Local
  <2>3. state'[t] = "AcquireDone" /\ ~is_head'[t] /\ head_lock' = head_lock /\ DataTyped' /\ PlainFrame(t)
    BY <1>2, <1>a, <2>1 DEF AcquireWaitToken, DataTyped, TokenState, Link, PlainFrame, Moves
  <2>4. Local(t)'
    BY <1>a, <2>1, <2>2, <2>3 DEF Moves, Local
  <2>5. LockRule(t) /\ PlainOwn(t)
    BY <1>a, <2>1, <2>2, <2>3 DEF Moves, Local, LockRule, LockPcs, BumpPcs, OwnLinked, PlainOwn
  <2>6. QED
    BY <2>1, <2>3, <2>4, <2>5 DEF PlainStep
<1>3. ASSUME AcquireNewToken(t) PROVE PlainStep(t)
  <2>1. Moves(t, "acq_lock", loc[t]) /\ PcTyped'
    BY <1>3, <1>a, GotoMoves DEF AcquireNewToken, PcLabel
  <2>2. pc[t] = "out" /\ state[t] = "ReleaseDone"
    BY <1>3, <1>a DEF AcquireNewToken, Local
  <2>3. state'[t] = "AcquireDone" /\ ~is_head'[t] /\ head_lock' = head_lock /\ DataTyped' /\ PlainFrame(t)
    BY <1>3, <1>a, <2>1 DEF AcquireNewToken, DataTyped, TokenState, Link, PlainFrame, Moves
  <2>4. Local(t)'
    BY <1>a, <2>1, <2>2, <2>3 DEF Moves, Local
  <2>5. LockRule(t) /\ PlainOwn(t)
    BY <1>a, <2>1, <2>2, <2>3 DEF Moves, Local, LockRule, LockPcs, BumpPcs, OwnLinked, PlainOwn
  <2>6. QED
    BY <2>1, <2>3, <2>4, <2>5 DEF PlainStep
<1>4. ASSUME AcquireLockQueue(t) PROVE PlainStep(t)
  <2>1. Moves(t, "acq_enqueue", loc[t]) /\ PcTyped'
    BY <1>4, <1>a, GotoMoves DEF AcquireLockQueue, PcLabel
  <2>2. pc[t] = "acq_lock"
    BY <1>4, <1>a DEF AcquireLockQueue, Local
  <2>3. state'[t] = state[t] /\ (is_head'[t] <=> is_head[t]) /\ head_lock = NULL /\ head_lock' = t /\ DataTyped' /\ PlainFrame(t)
    BY <1>4, <1>a, <2>1 DEF AcquireLockQueue, DataTyped, TokenState, Link, PlainFrame, Moves
  <2>4. Local(t)'
    BY <1>a, <2>1, <2>2, <2>3 DEF Moves, Local
  <2>5. LockRule(t) /\ PlainOwn(t)
    BY <1>a, <2>1, <2>2, <2>3 DEF Moves, Local, LockRule, LockPcs, BumpPcs, OwnLinked, PlainOwn
  <2>6. QED
    BY <2>1, <2>3, <2>4, <2>5 DEF PlainStep
<1>5. ASSUME AcquireUnlockQueue(t) PROVE PlainStep(t)
  <2>1. Moves(t, "acq_head", loc[t]) /\ PcTyped'
    BY <1>5, <1>a, GotoMoves DEF AcquireUnlockQueue, PcLabel
  <2>2. pc[t] = "acq_unlock"
    BY <1>5, <1>a DEF AcquireUnlockQueue, Local
  <2>3. state'[t] = state[t] /\ (is_head'[t] <=> is_head[t]) /\ head_lock' = NULL /\ DataTyped' /\ PlainFrame(t)
    BY <1>5, <1>a, <2>1 DEF AcquireUnlockQueue, DataTyped, TokenState, Link, PlainFrame, Moves
  <2>4. Local(t)'
    BY <1>a, <2>1, <2>2, <2>3 DEF Moves, Local
  <2>5. LockRule(t) /\ PlainOwn(t)
    BY <1>a, <2>1, <2>2, <2>3 DEF Moves, Local, LockRule, LockPcs, BumpPcs, OwnLinked, PlainOwn
  <2>6. QED
    BY <2>1, <2>3, <2>4, <2>5 DEF PlainStep
<1>6. ASSUME AcquireTryHead(t), dummy_next = t PROVE PlainStep(t)
  <2>1. Moves(t, "acq_try_lock", loc[t]) /\ PcTyped'
    BY <1>6, <1>a, GotoMoves DEF AcquireTryHead, PcLabel
  <2>2. pc[t] = "acq_head"
    BY <1>6, <1>a DEF AcquireTryHead, Local
  <2>3. state'[t] = state[t] /\ (is_head'[t] <=> is_head[t]) /\ head_lock' = head_lock /\ DataTyped' /\ PlainFrame(t)
    BY <1>6, <1>a, <2>1 DEF AcquireTryHead, DataTyped, TokenState, Link, PlainFrame, Moves
  <2>4. Local(t)'
    BY <1>6, <1>a, <2>1, <2>2, <2>3 DEF Moves, Local
  <2>5. LockRule(t) /\ PlainOwn(t)
    BY <1>6, <1>a, <2>1, <2>2, <2>3 DEF Moves, Local, LockRule, LockPcs, BumpPcs, OwnLinked, PlainOwn
  <2>6. QED
    BY <2>1, <2>3, <2>4, <2>5 DEF PlainStep
<1>7. ASSUME AcquireTryHead(t), dummy_next # t /\ head_is_dead PROVE PlainStep(t)
  <2>1. Moves(t, "reclaim", loc[t]) /\ PcTyped'
    BY <1>7, <1>a, GotoMoves DEF AcquireTryHead, PcLabel
  <2>2. pc[t] = "acq_head"
    BY <1>7, <1>a DEF AcquireTryHead, Local
  <2>3. state'[t] = state[t] /\ (is_head'[t] <=> is_head[t]) /\ head_lock' = head_lock /\ DataTyped' /\ PlainFrame(t)
    BY <1>7, <1>a, <2>1 DEF AcquireTryHead, DataTyped, TokenState, Link, PlainFrame, Moves
  <2>4. Local(t)'
    BY <1>7, <1>a, <2>1, <2>2, <2>3 DEF Moves, Local
  <2>5. LockRule(t) /\ PlainOwn(t)
    BY <1>7, <1>a, <2>1, <2>2, <2>3 DEF Moves, Local, LockRule, LockPcs, BumpPcs, OwnLinked, PlainOwn
  <2>6. QED
    BY <2>1, <2>3, <2>4, <2>5 DEF PlainStep
<1>8. ASSUME AcquireTryHead(t), dummy_next # t /\ ~head_is_dead PROVE PlainStep(t)
  <2>1. Moves(t, "out", loc[t]) /\ PcTyped'
    BY <1>8, <1>a, GotoMoves DEF AcquireTryHead, PcLabel
  <2>2. pc[t] = "acq_head"
    BY <1>8, <1>a DEF AcquireTryHead, Local
  <2>3. state'[t] = state[t] /\ (is_head'[t] <=> is_head[t]) /\ head_lock' = head_lock /\ DataTyped' /\ PlainFrame(t)
    BY <1>8, <1>a, <2>1 DEF AcquireTryHead, DataTyped, TokenState, Link, PlainFrame, Moves
  <2>4. Local(t)'
    BY <1>8, <1>a, <2>1, <2>2, <2>3 DEF Moves, Local
  <2>5. LockRule(t) /\ PlainOwn(t)
    BY <1>8, <1>a, <2>1, <2>2, <2>3 DEF Moves, Local, LockRule, LockPcs, BumpPcs, OwnLinked, PlainOwn
  <2>6. QED
    BY <2>1, <2>3, <2>4, <2>5 DEF PlainStep
<1>9. AcquireTryHead(t) => PlainStep(t)
  BY <1>6, <1>7, <1>8 DEF AcquireTryHead, DataTyped
<1>10. ASSUME AcquireTryLock(t), head_lock = NULL PROVE PlainStep(t)
  <2>1. Moves(t, "acq_set_head", loc[t]) /\ PcTyped'
    BY <1>10, <1>a, GotoMoves DEF AcquireTryLock, PcLabel
  <2>2. pc[t] = "acq_try_lock"
    BY <1>10, <1>a DEF AcquireTryLock, Local
  <2>3. state'[t] = state[t] /\ (is_head'[t] <=> is_head[t]) /\ head_lock = NULL /\ head_lock' = t /\ DataTyped' /\ PlainFrame(t)
    BY <1>10, <1>a, <2>1 DEF AcquireTryLock, DataTyped, TokenState, Link, PlainFrame, Moves
  <2>4. Local(t)'
    BY <1>10, <1>a, <2>1, <2>2, <2>3 DEF Moves, Local
  <2>5. LockRule(t) /\ PlainOwn(t)
    BY <1>10, <1>a, <2>1, <2>2, <2>3 DEF Moves, Local, LockRule, LockPcs, BumpPcs, OwnLinked, PlainOwn
  <2>6. QED
    BY <2>1, <2>3, <2>4, <2>5 DEF PlainStep
<1>11. ASSUME AcquireTryLock(t), head_lock # NULL PROVE PlainStep(t)
  <2>1. Moves(t, "out", loc[t]) /\ PcTyped'
    BY <1>11, <1>a, GotoMoves DEF AcquireTryLock, PcLabel
  <2>2. pc[t] = "acq_try_lock"
    BY <1>11, <1>a DEF AcquireTryLock, Local
  <2>3. state'[t] = state[t] /\ (is_head'[t] <=> is_head[t]) /\ head_lock' = head_lock /\ DataTyped' /\ PlainFrame(t)
    BY <1>11, <1>a, <2>1 DEF AcquireTryLock, DataTyped, TokenState, Link, PlainFrame, Moves
  <2>4. Local(t)'
    BY <1>11, <1>a, <2>1, <2>2, <2>3 DEF Moves, Local
  <2>5. LockRule(t) /\ PlainOwn(t)
    BY <1>11, <1>a, <2>1, <2>2, <2>3 DEF Moves, Local, LockRule, LockPcs, BumpPcs, OwnLinked, PlainOwn
  <2>6. QED
    BY <2>1, <2>3, <2>4, <2>5 DEF PlainStep
<1>12. AcquireTryLock(t) => PlainStep(t)
  BY <1>10, <1>11 DEF AcquireTryLock, DataTyped
<1>13. ASSUME AcquireSetHead(t) PROVE PlainStep(t)
  <2>1. Moves(t, "out", loc[t]) /\ PcTyped'
    BY <1>13, <1>a, GotoMoves DEF AcquireSetHead, PcLabel
  <2>2. pc[t] = "acq_set_head"
    BY <1>13, <1>a DEF AcquireSetHead, Local
  <2>3. state'[t] = state[t] /\ (is_head'[t] => is_head[t] \/ dummy_next = t) /\ head_lock' = NULL /\ DataTyped' /\ PlainFrame(t)
    BY <1>13, <1>a, <2>1 DEF AcquireSetHead, DataTyped, TokenState, Link, PlainFrame, Moves
  <2>4. Local(t)'
    BY <1>a, <2>1, <2>2, <2>3 DEF Moves, Local
  <2>5. LockRule(t) /\ PlainOwn(t)
    BY <1>a, <2>1, <2>2, <2>3 DEF Moves, Local, LockRule, LockPcs, BumpPcs, OwnLinked, PlainOwn
  <2>6. QED
    BY <2>1, <2>3, <2>4, <2>5 DEF PlainStep
<1>14. ASSUME Release(t) PROVE PlainStep(t)
  <2>1. Moves(t, "rel", loc[t]) /\ PcTyped'
    BY <1>14, <1>a, GotoMoves DEF Release, PcLabel
  <2>2. pc[t] = "out" /\ state[t] \in {"AcquireDone", "AcquireIdle", "AcquireLock"}
    BY <1>14, <1>a DEF Release, Local
  <2>3. state'[t] = state[t] /\ (is_head'[t] <=> is_head[t]) /\ head_lock' = head_lock /\ DataTyped' /\ PlainFrame(t)
    BY <1>14, <1>a, <2>1 DEF Release, DataTyped, TokenState, Link, PlainFrame, Moves
  <2>4. Local(t)'
    BY <1>a, <2>1, <2>2, <2>3 DEF Moves, Local
  <2>5. LockRule(t) /\ PlainOwn(t)
    BY <1>a, <2>1, <2>2, <2>3 DEF Moves, Local, LockRule, LockPcs, BumpPcs, OwnLinked, PlainOwn
  <2>6. QED
    BY <2>1, <2>3, <2>4, <2>5 DEF PlainStep
<1>15. ASSUME ReleaseReadFlags(t), ~is_head[t] PROVE PlainStep(t)
  <2>1. Moves(t, loc[t].caller, Returned(loc[t])) /\ PcTyped'
    BY <1>15, <1>a, ReturnMoves, ReturnedFields DEF ReleaseReadFlags, PcLabel
  <2>2. pc[t] = "rel" /\ state[t] \in {"AcquireDone", "AcquireIdle"}
    BY <1>15, <1>a DEF ReleaseReadFlags, Local
  <2>3. state'[t] = "ReleaseWait" /\ ~is_head'[t] /\ head_lock' = head_lock /\ DataTyped' /\ PlainFrame(t)
    BY <1>15, <1>a, <2>1 DEF ReleaseReadFlags, DataTyped, TokenState, Link, PlainFrame, Moves
  <2>4. Local(t)'
    BY <1>15, <1>a, <2>1, <2>2, <2>3, ReturnedFields DEF Moves, Local
  <2>5. LockRule(t) /\ PlainOwn(t)
    BY <1>15, <1>a, <2>1, <2>2, <2>3, ReturnedFields DEF Moves, Local, LockRule, LockPcs, BumpPcs, OwnLinked, PlainOwn
  <2>6. QED
    BY <2>1, <2>3, <2>4, <2>5 DEF PlainStep
<1>16. ASSUME ReleaseReadFlags(t), HasFlags(t, "AcquireDone", TRUE), next[t] = NULL \/ head_lock # NULL PROVE PlainStep(t)
  <2>1. Moves(t, "rel_leave_dead", loc[t]) /\ PcTyped'
    BY <1>16, <1>a, GotoMoves DEF ReleaseReadFlags, PcLabel
  <2>2. pc[t] = "rel" /\ HasFlags(t, "AcquireDone", TRUE)
    BY <1>16, <1>a DEF ReleaseReadFlags, Local
  <2>3. state'[t] = state[t] /\ (is_head'[t] <=> is_head[t]) /\ head_lock' = head_lock /\ DataTyped' /\ PlainFrame(t)
    BY <1>16, <1>a, <2>1 DEF ReleaseReadFlags, DataTyped, TokenState, Link, PlainFrame, Moves
  <2>4. Local(t)'
    BY <1>16, <1>a, <2>1, <2>2, <2>3 DEF Moves, Local
  <2>5. LockRule(t) /\ PlainOwn(t)
    BY <1>16, <1>a, <2>1, <2>2, <2>3 DEF Moves, Local, LockRule, LockPcs, BumpPcs, OwnLinked, PlainOwn
  <2>6. QED
    BY <2>1, <2>3, <2>4, <2>5 DEF PlainStep
<1>17. ASSUME ReleaseReadFlags(t), HasFlags(t, "AcquireIdle", TRUE) PROVE PlainStep(t)
  <2>1. Moves(t, "rel_link", loc[t]) /\ PcTyped'
    BY <1>17, <1>a, GotoMoves DEF ReleaseReadFlags, PcLabel
  <2>2. pc[t] = "rel" /\ HasFlags(t, "AcquireIdle", TRUE)
    BY <1>17, <1>a DEF ReleaseReadFlags, Local
  <2>3. state'[t] = state[t] /\ (is_head'[t] <=> is_head[t]) /\ head_lock' = head_lock /\ DataTyped' /\ PlainFrame(t)
    BY <1>17, <1>a, <2>1 DEF ReleaseReadFlags, DataTyped, TokenState, Link, PlainFrame, Moves
  <2>4. Local(t)'
    BY <1>17, <1>a, <2>1, <2>2, <2>3 DEF Moves, Local
  <2>5. LockRule(t) /\ PlainOwn(t)
    BY <1>17, <1>a, <2>1, <2>2, <2>3 DEF Moves, Local, LockRule, LockPcs, BumpPcs, OwnLinked, PlainOwn
  <2>6. QED
    BY <2>1, <2>3, <2>4, <2>5 DEF PlainStep
<1>18. ReleaseReadFlags(t) /\ ~(HasFlags(t, "AcquireDone", TRUE) /\ next[t] # NULL /\ head_lock = NULL) => PlainStep(t)
  BY <1>15, <1>16, <1>17, <1>a DEF ReleaseReadFlags, DataTyped
<1>55. ASSUME ReleaseReadLink(t) PROVE PlainStep(t)
  <2>1. Moves(t, "rel_idle", ReadLink(loc[t], next[t])) /\ PcTyped'
    BY <1>55, <1>a, GoMoves, ReadLinkFields DEF ReleaseReadLink, PcLabel
  <2>2. pc[t] = "rel_link"
    BY <1>55, <1>a DEF ReleaseReadLink, Local
  <2>3. state'[t] = state[t] /\ (is_head'[t] <=> is_head[t]) /\ head_lock' = head_lock /\ DataTyped' /\ PlainFrame(t)
    BY <1>55, <1>a, <2>1 DEF ReleaseReadLink, DataTyped, TokenState, Link, PlainFrame, Moves
  <2>4. Local(t)'
    BY <1>55, <1>a, <2>1, <2>2, <2>3, ReadLinkFields DEF Moves, Local
  <2>5. LockRule(t) /\ PlainOwn(t)
    BY <1>55, <1>a, <2>1, <2>2, <2>3, ReadLinkFields DEF Moves, Local, LockRule, LockPcs, BumpPcs, OwnLinked, PlainOwn
  <2>6. QED
    BY <2>1, <2>3, <2>4, <2>5 DEF PlainStep
<1>19. ASSUME ReleaseLeaveDead(t) PROVE PlainStep(t)
  <2>1. Moves(t, "rel_set_dead", loc[t]) /\ PcTyped'
    BY <1>19, <1>a, GotoMoves DEF ReleaseLeaveDead, PcLabel
  <2>2. pc[t] = "rel_leave_dead"
    BY <1>19, <1>a DEF ReleaseLeaveDead, Local
  <2>3. state'[t] = "ReleaseWait" /\ ~is_head'[t] /\ head_lock' = head_lock /\ DataTyped' /\ PlainFrame(t)
    BY <1>19, <1>a, <2>1 DEF ReleaseLeaveDead, DataTyped, TokenState, Link, PlainFrame, Moves
  <2>4. Local(t)'
    BY <1>a, <2>1, <2>2, <2>3 DEF Moves, Local
  <2>5. LockRule(t) /\ PlainOwn(t)
    BY <1>a, <2>1, <2>2, <2>3 DEF Moves, Local, LockRule, LockPcs, BumpPcs, OwnLinked, PlainOwn
  <2>6. QED
    BY <2>1, <2>3, <2>4, <2>5 DEF PlainStep
<1>20. ASSUME ReleaseSetDead(t) PROVE PlainStep(t)
  <2>1. Moves(t, loc[t].caller, Returned(loc[t])) /\ PcTyped'
    BY <1>20, <1>a, ReturnMoves, ReturnedFields DEF ReleaseSetDead, PcLabel
  <2>2. pc[t] = "rel_set_dead"
    BY <1>20, <1>a DEF ReleaseSetDead, Local
  <2>3. state'[t] = state[t] /\ (is_head'[t] <=> is_head[t]) /\ head_lock' = head_lock /\ DataTyped' /\ PlainFrame(t)
    BY <1>20, <1>a, <2>1 DEF ReleaseSetDead, DataTyped, TokenState, Link, PlainFrame, Moves
  <2>4. Local(t)'
    BY <1>a, <2>1, <2>2, <2>3, ReturnedFields DEF Moves, Local
  <2>5. LockRule(t) /\ PlainOwn(t)
    BY <1>a, <2>1, <2>2, <2>3, ReturnedFields DEF Moves, Local, LockRule, LockPcs, BumpPcs, OwnLinked, PlainOwn
  <2>6. QED
    BY <2>1, <2>3, <2>4, <2>5 DEF PlainStep
<1>21. ASSUME ReleaseIdleHead(t), head_lock' = head_lock PROVE PlainStep(t)
  <2>1. Moves(t, "rel_idle_leave_dead", loc[t]) /\ PcTyped'
    BY <1>21, <1>a, GotoMoves DEF ReleaseIdleHead, PcLabel
  <2>2. pc[t] = "rel_idle"
    BY <1>21, <1>a DEF ReleaseIdleHead, Local
  <2>3. state'[t] = state[t] /\ (is_head'[t] <=> is_head[t]) /\ head_lock' = head_lock /\ DataTyped' /\ PlainFrame(t)
    BY <1>21, <1>a, <2>1 DEF ReleaseIdleHead, DataTyped, TokenState, Link, PlainFrame, Moves
  <2>4. Local(t)'
    BY <1>21, <1>a, <2>1, <2>2, <2>3 DEF Moves, Local
  <2>5. LockRule(t) /\ PlainOwn(t)
    BY <1>21, <1>a, <2>1, <2>2, <2>3 DEF Moves, Local, LockRule, LockPcs, BumpPcs, OwnLinked, PlainOwn
  <2>6. QED
    BY <2>1, <2>3, <2>4, <2>5 DEF PlainStep
<1>22. ASSUME ReleaseIdleHead(t), head_lock' # head_lock PROVE PlainStep(t)
  <2>1. Moves(t, "rel_idle_locked", loc[t]) /\ PcTyped'
    BY <1>22, <1>a, GotoMoves DEF ReleaseIdleHead, PcLabel
  <2>2. pc[t] = "rel_idle" /\ loc[t].link # NULL
    BY <1>22, <1>a DEF ReleaseIdleHead, Local
  <2>3. state'[t] = state[t] /\ (is_head'[t] <=> is_head[t]) /\ head_lock = NULL /\ head_lock' = t /\ DataTyped' /\ PlainFrame(t)
    BY <1>22, <1>a, <2>1 DEF ReleaseIdleHead, DataTyped, TokenState, Link, PlainFrame, Moves
  <2>4. Local(t)'
    BY <1>22, <1>a, <2>1, <2>2, <2>3 DEF Moves, Local
  <2>5. LockRule(t) /\ PlainOwn(t)
    BY <1>22, <1>a, <2>1, <2>2, <2>3 DEF Moves, Local, LockRule, LockPcs, BumpPcs, OwnLinked, PlainOwn
  <2>6. QED
    BY <2>1, <2>3, <2>4, <2>5 DEF PlainStep
<1>23. ReleaseIdleHead(t) => PlainStep(t)
  BY <1>21, <1>22 DEF ReleaseIdleHead, DataTyped
<1>24. ASSUME ReleaseIdleLeaveDead(t), HasFlags(t, "AcquireIdle", TRUE) PROVE PlainStep(t)
  <2>1. Moves(t, "rel_idle_set_dead", loc[t]) /\ PcTyped'
    BY <1>24, <1>a, GotoMoves DEF ReleaseIdleLeaveDead, PcLabel
  <2>2. pc[t] = "rel_idle_leave_dead" /\ state[t] = "AcquireIdle"
    BY <1>24, <1>a DEF ReleaseIdleLeaveDead, Local
  <2>3. state'[t] = "ReleaseWait" /\ ~is_head'[t] /\ head_lock' = head_lock /\ DataTyped' /\ PlainFrame(t)
    BY <1>24, <1>a, <2>1 DEF ReleaseIdleLeaveDead, DataTyped, TokenState, Link, PlainFrame, Moves
  <2>4. Local(t)'
    BY <1>24, <1>a, <2>1, <2>2, <2>3 DEF Moves, Local
  <2>5. LockRule(t) /\ PlainOwn(t)
    BY <1>24, <1>a, <2>1, <2>2, <2>3 DEF Moves, Local, LockRule, LockPcs, BumpPcs, OwnLinked, PlainOwn
  <2>6. QED
    BY <2>1, <2>3, <2>4, <2>5 DEF PlainStep
<1>25. ASSUME ReleaseIdleLeaveDead(t), ~HasFlags(t, "AcquireIdle", TRUE) PROVE PlainStep(t)
  <2>1. Moves(t, "rel", loc[t]) /\ PcTyped'
    BY <1>25, <1>a, GotoMoves DEF ReleaseIdleLeaveDead, PcLabel
  <2>2. pc[t] = "rel_idle_leave_dead"
    BY <1>25, <1>a DEF ReleaseIdleLeaveDead, Local
  <2>3. state'[t] = state[t] /\ (is_head'[t] <=> is_head[t]) /\ head_lock' = head_lock /\ DataTyped' /\ PlainFrame(t)
    BY <1>25, <1>a, <2>1 DEF ReleaseIdleLeaveDead, DataTyped, TokenState, Link, PlainFrame, Moves
  <2>4. Local(t)'
    BY <1>25, <1>a, <2>1, <2>2, <2>3 DEF Moves, Local
  <2>5. LockRule(t) /\ PlainOwn(t)
    BY <1>25, <1>a, <2>1, <2>2, <2>3 DEF Moves, Local, LockRule, LockPcs, BumpPcs, OwnLinked, PlainOwn
  <2>6. QED
    BY <2>1, <2>3, <2>4, <2>5 DEF PlainStep
<1>26. ReleaseIdleLeaveDead(t) => PlainStep(t)
  BY <1>24, <1>25 DEF ReleaseIdleLeaveDead, DataTyped
<1>27. ASSUME ReleaseIdleSetDead(t) PROVE PlainStep(t)
  <2>1. Moves(t, loc[t].caller, Returned(loc[t])) /\ PcTyped'
    BY <1>27, <1>a, ReturnMoves, ReturnedFields DEF ReleaseIdleSetDead, PcLabel
  <2>2. pc[t] = "rel_idle_set_dead"
    BY <1>27, <1>a DEF ReleaseIdleSetDead, Local
  <2>3. state'[t] = state[t] /\ (is_head'[t] <=> is_head[t]) /\ head_lock' = head_lock /\ DataTyped' /\ PlainFrame(t)
    BY <1>27, <1>a, <2>1 DEF ReleaseIdleSetDead, DataTyped, TokenState, Link, PlainFrame, Moves
  <2>4. Local(t)'
    BY <1>a, <2>1, <2>2, <2>3, ReturnedFields DEF Moves, Local
  <2>5. LockRule(t) /\ PlainOwn(t)
    BY <1>a, <2>1, <2>2, <2>3, ReturnedFields DEF Moves, Local, LockRule, LockPcs, BumpPcs, OwnLinked, PlainOwn
  <2>6. QED
    BY <2>1, <2>3, <2>4, <2>5 DEF PlainStep
<1>28. ASSUME ReleaseIdleLocked(t), ~HasFlags(t, "AcquireIdle", TRUE) PROVE PlainStep(t)
  <2>1. Moves(t, "rel", loc[t]) /\ PcTyped'
    BY <1>28, <1>a, GotoMoves DEF ReleaseIdleLocked, PcLabel
  <2>2. pc[t] = "rel_idle_locked"
    BY <1>28, <1>a DEF ReleaseIdleLocked, Local
  <2>3. state'[t] = state[t] /\ (is_head'[t] <=> is_head[t]) /\ head_lock' = NULL /\ DataTyped' /\ PlainFrame(t)
    BY <1>28, <1>a, <2>1 DEF ReleaseIdleLocked, DataTyped, TokenState, Link, PlainFrame, Moves
  <2>4. Local(t)'
    BY <1>28, <1>a, <2>1, <2>2, <2>3 DEF Moves, Local
  <2>5. LockRule(t) /\ PlainOwn(t)
    BY <1>28, <1>a, <2>1, <2>2, <2>3 DEF Moves, Local, LockRule, LockPcs, BumpPcs, OwnLinked, PlainOwn
  <2>6. QED
    BY <2>1, <2>3, <2>4, <2>5 DEF PlainStep
<1>29. ASSUME InsertUpdate(t) PROVE PlainStep(t)
  <2>1. Moves(t, "upd", ReadLink(loc[t], next[t])) /\ PcTyped'
    BY <1>29, <1>a, GoMoves, ReadLinkFields DEF InsertUpdate, PcLabel
  <2>2. pc[t] = "out" /\ HasFlags(t, "AcquireDone", TRUE)
    BY <1>29, <1>a DEF InsertUpdate, Local
  <2>3. state'[t] = state[t] /\ (is_head'[t] <=> is_head[t]) /\ head_lock' = head_lock /\ DataTyped' /\ PlainFrame(t)
    BY <1>29, <1>a, <2>1 DEF InsertUpdate, DataTyped, TokenState, Link, PlainFrame, Moves
  <2>4. Local(t)'
    BY <1>a, <2>1, <2>2, <2>3, ReadLinkFields DEF Moves, Local
  <2>5. LockRule(t) /\ PlainOwn(t)
    BY <1>a, <2>1, <2>2, <2>3, ReadLinkFields DEF Moves, Local, LockRule, LockPcs, BumpPcs, OwnLinked, PlainOwn
  <2>6. QED
    BY <2>1, <2>3, <2>4, <2>5 DEF PlainStep
<1>30. ASSUME UpdateTryLock(t), head_lock' # head_lock /\ loc[t].link # NULL PROVE PlainStep(t)
  <2>1. Moves(t, "upd_requeue", loc[t]) /\ PcTyped'
    BY <1>30, <1>a, GotoMoves DEF UpdateTryLock, PcLabel
  <2>2. pc[t] = "upd"
    BY <1>30, <1>a DEF UpdateTryLock, Local
  <2>3. state'[t] = state[t] /\ (is_head'[t] <=> is_head[t]) /\ head_lock = NULL /\ head_lock' = t /\ DataTyped' /\ PlainFrame(t)
    BY <1>30, <1>a, <2>1 DEF UpdateTryLock, DataTyped, TokenState, Link, PlainFrame, Moves
  <2>4. Local(t)'
    BY <1>30, <1>a, <2>1, <2>2, <2>3 DEF Moves, Local
  <2>5. LockRule(t) /\ PlainOwn(t)
    BY <1>30, <1>a, <2>1, <2>2, <2>3 DEF Moves, Local, LockRule, LockPcs, BumpPcs, OwnLinked, PlainOwn
  <2>6. QED
    BY <2>1, <2>3, <2>4, <2>5 DEF PlainStep
<1>31. ASSUME UpdateTryLock(t), head_lock' # head_lock /\ loc[t].link = NULL PROVE PlainStep(t)
  <2>1. Moves(t, "upd_bump", loc[t]) /\ PcTyped'
    BY <1>31, <1>a, GotoMoves DEF UpdateTryLock, PcLabel
  <2>2. pc[t] = "upd"
    BY <1>31, <1>a DEF UpdateTryLock, Local
  <2>3. state'[t] = state[t] /\ (is_head'[t] <=> is_head[t]) /\ head_lock = NULL /\ head_lock' = t /\ DataTyped' /\ PlainFrame(t)
    BY <1>31, <1>a, <2>1 DEF UpdateTryLock, DataTyped, TokenState, Link, PlainFrame, Moves
  <2>4. Local(t)'
    BY <1>31, <1>a, <2>1, <2>2, <2>3 DEF Moves, Local
  <2>5. LockRule(t) /\ PlainOwn(t)
    BY <1>31, <1>a, <2>1, <2>2, <2>3 DEF Moves, Local, LockRule, LockPcs, BumpPcs, OwnLinked, PlainOwn
  <2>6. QED
    BY <2>1, <2>3, <2>4, <2>5 DEF PlainStep
<1>32. ASSUME UpdateTryLock(t), head_lock' = head_lock PROVE PlainStep(t)
  <2>1. Moves(t, loc[t].caller, Returned(loc[t])) /\ PcTyped'
    BY <1>32, <1>a, ReturnMoves, ReturnedFields DEF UpdateTryLock, PcLabel
  <2>2. pc[t] = "upd"
    BY <1>32, <1>a DEF UpdateTryLock, Local
  <2>3. state'[t] = state[t] /\ (is_head'[t] <=> is_head[t]) /\ head_lock' = head_lock /\ DataTyped' /\ PlainFrame(t)
    BY <1>32, <1>a, <2>1 DEF UpdateTryLock, DataTyped, TokenState, Link, PlainFrame, Moves
  <2>4. Local(t)'
    BY <1>32, <1>a, <2>1, <2>2, <2>3, ReturnedFields DEF Moves, Local
  <2>5. LockRule(t) /\ PlainOwn(t)
    BY <1>32, <1>a, <2>1, <2>2, <2>3, ReturnedFields DEF Moves, Local, LockRule, LockPcs, BumpPcs, OwnLinked, PlainOwn
  <2>6. QED
    BY <2>1, <2>3, <2>4, <2>5 DEF PlainStep
<1>33. UpdateTryLock(t) => PlainStep(t)
  BY <1>30, <1>31, <1>32 DEF UpdateTryLock, DataTyped
<1>34. ASSUME UpdateFinish(t), loc[t].delptrs = {} PROVE PlainStep(t)
  <2>1. Moves(t, loc[t].caller, Returned(loc[t])) /\ PcTyped'
    BY <1>34, <1>a, ReturnMoves, ReturnedFields DEF UpdateFinish, DeleteOrReturn, PcLabel
  <2>2. pc[t] = "upd_finish"
    BY <1>34, <1>a DEF UpdateFinish, Local
  <2>3. state'[t] = state[t] /\ (is_head'[t] <=> is_head[t]) /\ head_lock' = NULL /\ DataTyped' /\ PlainFrame(t)
    BY <1>34, <1>a, <2>1 DEF UpdateFinish, DataTyped, TokenState, Link, PlainFrame, Moves
  <2>4. Local(t)'
    BY <1>34, <1>a, <2>1, <2>2, <2>3, ReturnedFields DEF Moves, Local
  <2>5. LockRule(t) /\ PlainOwn(t)
    BY <1>34, <1>a, <2>1, <2>2, <2>3, ReturnedFields DEF Moves, Local, LockRule, LockPcs, BumpPcs, OwnLinked, PlainOwn
  <2>6. QED
    BY <2>1, <2>3, <2>4, <2>5 DEF PlainStep
<1>35. ASSUME UpdateFinish(t), loc[t].delptrs # {} PROVE PlainStep(t)
  <2>1. Moves(t, "del_tokens", loc[t]) /\ PcTyped'
    BY <1>35, <1>a, GotoMoves DEF UpdateFinish, DeleteOrReturn, PcLabel
  <2>2. pc[t] = "upd_finish"
    BY <1>35, <1>a DEF UpdateFinish, Local
  <2>3. state'[t] = state[t] /\ (is_head'[t] <=> is_head[t]) /\ head_lock' = NULL /\ DataTyped' /\ PlainFrame(t)
    BY <1>35, <1>a, <2>1 DEF UpdateFinish, DataTyped, TokenState, Link, PlainFrame, Moves
  <2>4. Local(t)'
    BY <1>35, <1>a, <2>1, <2>2, <2>3 DEF Moves, Local
  <2>5. LockRule(t) /\ PlainOwn(t)
    BY <1>35, <1>a, <2>1, <2>2, <2>3 DEF Moves, Local, LockRule, LockPcs, BumpPcs, OwnLinked, PlainOwn
  <2>6. QED
    BY <2>1, <2>3, <2>4, <2>5 DEF PlainStep
<1>36. UpdateFinish(t) => PlainStep(t)
  BY <1>34, <1>35 DEF UpdateFinish, DataTyped
<1>37. ASSUME UpdateBump(t), next[t] # NULL PROVE PlainStep(t)
  <2>1. Moves(t, loc[t].caller, Returned(loc[t])) /\ PcTyped'
    BY <1>37, <1>a, ReturnMoves, ReturnedFields DEF UpdateBump, PcLabel
  <2>2. pc[t] = "upd_bump"
    BY <1>37, <1>a DEF UpdateBump, Local
  <2>3. state'[t] = state[t] /\ (is_head'[t] <=> is_head[t]) /\ head_lock' = NULL /\ DataTyped' /\ PlainFrame(t)
    BY <1>37, <1>a, <2>1 DEF UpdateBump, DataTyped, TokenState, Link, PlainFrame, Moves
  <2>4. Local(t)'
    BY <1>37, <1>a, <2>1, <2>2, <2>3, ReturnedFields DEF Moves, Local
  <2>5. LockRule(t) /\ PlainOwn(t)
    BY <1>37, <1>a, <2>1, <2>2, <2>3, ReturnedFields DEF Moves, Local, LockRule, LockPcs, BumpPcs, OwnLinked, PlainOwn
  <2>6. QED
    BY <2>1, <2>3, <2>4, <2>5 DEF PlainStep
<1>38. ASSUME InsertReclaim(t) PROVE PlainStep(t)
  <2>1. Moves(t, "reclaim", loc[t]) /\ PcTyped'
    BY <1>38, <1>a, GotoMoves DEF InsertReclaim, PcLabel
  <2>2. pc[t] = "out" /\ state[t] = "AcquireDone"
    BY <1>38, <1>a DEF InsertReclaim, Local
  <2>3. state'[t] = state[t] /\ (is_head'[t] <=> is_head[t]) /\ head_lock' = head_lock /\ DataTyped' /\ PlainFrame(t)
    BY <1>38, <1>a, <2>1 DEF InsertReclaim, DataTyped, TokenState, Link, PlainFrame, Moves
  <2>4. Local(t)'
    BY <1>a, <2>1, <2>2, <2>3 DEF Moves, Local
  <2>5. LockRule(t) /\ PlainOwn(t)
    BY <1>a, <2>1, <2>2, <2>3 DEF Moves, Local, LockRule, LockPcs, BumpPcs, OwnLinked, PlainOwn
  <2>6. QED
    BY <2>1, <2>3, <2>4, <2>5 DEF PlainStep
<1>39. ASSUME ReclaimTryLock(t), head_lock = NULL PROVE PlainStep(t)
  <2>1. Moves(t, "rec_check", loc[t]) /\ PcTyped'
    BY <1>39, <1>a, GotoMoves DEF ReclaimTryLock, PcLabel
  <2>2. pc[t] = "reclaim"
    BY <1>39, <1>a DEF ReclaimTryLock, Local
  <2>3. state'[t] = state[t] /\ (is_head'[t] <=> is_head[t]) /\ head_lock = NULL /\ head_lock' = t /\ DataTyped' /\ PlainFrame(t)
    BY <1>39, <1>a, <2>1 DEF ReclaimTryLock, DataTyped, TokenState, Link, PlainFrame, Moves
  <2>4. Local(t)'
    BY <1>39, <1>a, <2>1, <2>2, <2>3 DEF Moves, Local
  <2>5. LockRule(t) /\ PlainOwn(t)
    BY <1>39, <1>a, <2>1, <2>2, <2>3 DEF Moves, Local, LockRule, LockPcs, BumpPcs, OwnLinked, PlainOwn
  <2>6. QED
    BY <2>1, <2>3, <2>4, <2>5 DEF PlainStep
<1>40. ASSUME ReclaimTryLock(t), head_lock # NULL PROVE PlainStep(t)
  <2>1. Moves(t, "out", loc[t]) /\ PcTyped'
    BY <1>40, <1>a, GotoMoves DEF ReclaimTryLock, PcLabel
  <2>2. pc[t] = "reclaim"
    BY <1>40, <1>a DEF ReclaimTryLock, Local
  <2>3. state'[t] = state[t] /\ (is_head'[t] <=> is_head[t]) /\ head_lock' = head_lock /\ DataTyped' /\ PlainFrame(t)
    BY <1>40, <1>a, <2>1 DEF ReclaimTryLock, DataTyped, TokenState, Link, PlainFrame, Moves
  <2>4. Local(t)'
    BY <1>40, <1>a, <2>1, <2>2, <2>3 DEF Moves, Local
  <2>5. LockRule(t) /\ PlainOwn(t)
    BY <1>40, <1>a, <2>1, <2>2, <2>3 DEF Moves, Local, LockRule, LockPcs, BumpPcs, OwnLinked, PlainOwn
  <2>6. QED
    BY <2>1, <2>3, <2>4, <2>5 DEF PlainStep
<1>41. ReclaimTryLock(t) => PlainStep(t)
  BY <1>39, <1>40 DEF ReclaimTryLock, DataTyped
<1>42. ASSUME ReclaimCheck(t), ~(head_is_dead \/ head_is_idle) PROVE PlainStep(t)
  <2>1. Moves(t, "out", loc[t]) /\ PcTyped'
    BY <1>42, <1>a, GotoMoves DEF ReclaimCheck, PcLabel
  <2>2. pc[t] = "rec_check"
    BY <1>42, <1>a DEF ReclaimCheck, Local
  <2>3. state'[t] = state[t] /\ (is_head'[t] <=> is_head[t]) /\ head_lock' = NULL /\ DataTyped' /\ PlainFrame(t)
    BY <1>42, <1>a, <2>1 DEF ReclaimCheck, DataTyped, TokenState, Link, PlainFrame, Moves
  <2>4. Local(t)'
    BY <1>42, <1>a, <2>1, <2>2, <2>3 DEF Moves, Local
  <2>5. LockRule(t) /\ PlainOwn(t)
    BY <1>42, <1>a, <2>1, <2>2, <2>3 DEF Moves, Local, LockRule, LockPcs, BumpPcs, OwnLinked, PlainOwn
  <2>6. QED
    BY <2>1, <2>3, <2>4, <2>5 DEF PlainStep
<1>43. ASSUME ReclaimUnlock(t), loc[t].delptrs = {} PROVE PlainStep(t)
  <2>1. Moves(t, loc[t].caller, Returned(loc[t])) /\ PcTyped'
    BY <1>43, <1>a, ReturnMoves, ReturnedFields DEF ReclaimUnlock, DeleteOrReturn, PcLabel
  <2>2. pc[t] = "rec_unlock"
    BY <1>43, <1>a DEF ReclaimUnlock, Local
  <2>3. state'[t] = state[t] /\ (is_head'[t] <=> is_head[t]) /\ head_lock' = NULL /\ DataTyped' /\ PlainFrame(t)
    BY <1>43, <1>a, <2>1 DEF ReclaimUnlock, DataTyped, TokenState, Link, PlainFrame, Moves
  <2>4. Local(t)'
    BY <1>43, <1>a, <2>1, <2>2, <2>3, ReturnedFields DEF Moves, Local
  <2>5. LockRule(t) /\ PlainOwn(t)
    BY <1>43, <1>a, <2>1, <2>2, <2>3, ReturnedFields DEF Moves, Local, LockRule, LockPcs, BumpPcs, OwnLinked, PlainOwn
  <2>6. QED
    BY <2>1, <2>3, <2>4, <2>5 DEF PlainStep
<1>44. ASSUME ReclaimUnlock(t), loc[t].delptrs # {} PROVE PlainStep(t)
  <2>1. Moves(t, "del_tokens", loc[t]) /\ PcTyped'
    BY <1>44, <1>a, GotoMoves DEF ReclaimUnlock, DeleteOrReturn, PcLabel
  <2>2. pc[t] = "rec_unlock"
    BY <1>44, <1>a DEF ReclaimUnlock, Local
  <2>3. state'[t] = state[t] /\ (is_head'[t] <=> is_head[t]) /\ head_lock' = NULL /\ DataTyped' /\ PlainFrame(t)
    BY <1>44, <1>a, <2>1 DEF ReclaimUnlock, DataTyped, TokenState, Link, PlainFrame, Moves
  <2>4. Local(t)'
    BY <1>44, <1>a, <2>1, <2>2, <2>3 DEF Moves, Local
  <2>5. LockRule(t) /\ PlainOwn(t)
    BY <1>44, <1>a, <2>1, <2>2, <2>3 DEF Moves, Local, LockRule, LockPcs, BumpPcs, OwnLinked, PlainOwn
  <2>6. QED
    BY <2>1, <2>3, <2>4, <2>5 DEF PlainStep
<1>45. ReclaimUnlock(t) => PlainStep(t)
  BY <1>43, <1>44 DEF ReclaimUnlock, DataTyped
<1>46. ASSUME Idle(t), is_head[t] PROVE PlainStep(t)
  <2>1. Moves(t, "upd", CalledByIdle(next[t])) /\ PcTyped'
    BY <1>46, <1>a, GoMoves, CallFields DEF Idle, PcLabel
  <2>2. pc[t] \in {"out", "idle"} /\ state[t] = "AcquireDone"
    BY <1>46, <1>a DEF Idle, Local
  <2>3. state'[t] = state[t] /\ (is_head'[t] <=> is_head[t]) /\ head_lock' = head_lock /\ DataTyped' /\ PlainFrame(t)
    BY <1>46, <1>a, <2>1 DEF Idle, DataTyped, TokenState, Link, PlainFrame, Moves
  <2>4. Local(t)'
    BY <1>46, <1>a, <2>1, <2>2, <2>3, CallFields DEF Moves, Local
  <2>5. LockRule(t) /\ PlainOwn(t)
    BY <1>46, <1>a, <2>1, <2>2, <2>3, CallFields DEF Moves, Local, LockRule, LockPcs, BumpPcs, OwnLinked, PlainOwn
  <2>6. QED
    BY <2>1, <2>3, <2>4, <2>5 DEF PlainStep
<1>47. ASSUME Idle(t), ~is_head[t] PROVE PlainStep(t)
  <2>1. Moves(t, "idle", NoLocals) /\ PcTyped'
    BY <1>47, <1>a, GoMoves, NoLocalsFields DEF Idle, PcLabel
  <2>2. pc[t] \in {"out", "idle"} /\ state[t] = "AcquireDone"
    BY <1>47, <1>a DEF Idle, Local
  <2>3. state'[t] = state[t] /\ (is_head'[t] <=> is_head[t]) /\ head_lock' = head_lock /\ DataTyped' /\ PlainFrame(t)
    BY <1>47, <1>a, <2>1 DEF Idle, DataTyped, TokenState, Link, PlainFrame, Moves
  <2>4. Local(t)'
    BY <1>47, <1>a, <2>1, <2>2, <2>3, NoLocalsFields DEF Moves, Local
  <2>5. LockRule(t) /\ PlainOwn(t)
    BY <1>47, <1>a, <2>1, <2>2, <2>3, NoLocalsFields DEF Moves, Local, LockRule, LockPcs, BumpPcs, OwnLinked, PlainOwn
  <2>6. QED
    BY <2>1, <2>3, <2>4, <2>5 DEF PlainStep
<1>48. Idle(t) => PlainStep(t)
  BY <1>46, <1>47 DEF Idle, DataTyped
<1>49. ASSUME IdleCas(t) PROVE PlainStep(t)
  <2>1. Moves(t, "out", NoLocals) /\ PcTyped'
    BY <1>49, <1>a, GoMoves, NoLocalsFields DEF IdleCas, PcLabel
  <2>2. pc[t] = "idle"
    BY <1>49, <1>a DEF IdleCas, Local
  <2>3. state'[t] = "AcquireIdle" /\ ~is_head'[t] /\ head_lock' = head_lock /\ DataTyped' /\ PlainFrame(t)
    BY <1>49, <1>a, <2>1 DEF IdleCas, DataTyped, TokenState, Link, PlainFrame, Moves
  <2>4. Local(t)'
    BY <1>a, <2>1, <2>2, <2>3, NoLocalsFields DEF Moves, Local
  <2>5. LockRule(t) /\ PlainOwn(t)
    BY <1>a, <2>1, <2>2, <2>3, NoLocalsFields DEF Moves, Local, LockRule, LockPcs, BumpPcs, OwnLinked, PlainOwn
  <2>6. QED
    BY <2>1, <2>3, <2>4, <2>5 DEF PlainStep
<1>50. ASSUME Dispose(t), state[t] = "ReleaseDone" PROVE PlainStep(t)
  <2>1. Moves(t, "gone", NoLocals) /\ PcTyped'
    BY <1>50, <1>a, GoMoves, NoLocalsFields DEF Dispose, PcLabel
  <2>2. pc[t] \in {"out", "dispose"}
    BY <1>50, <1>a DEF Dispose, Local
  <2>3. state'[t] = "DisposeDone" /\ ~is_head'[t] /\ head_lock' = head_lock /\ DataTyped' /\ PlainFrame(t)
    BY <1>50, <1>a, <2>1 DEF Dispose, DataTyped, TokenState, Link, PlainFrame, Moves
  <2>4. Local(t)'
    BY <1>50, <1>a, <2>1, <2>2, <2>3, NoLocalsFields DEF Moves, Local
  <2>5. LockRule(t) /\ PlainOwn(t)
    BY <1>50, <1>a, <2>1, <2>2, <2>3, NoLocalsFields DEF Moves, Local, LockRule, LockPcs, BumpPcs, OwnLinked, PlainOwn
  <2>6. QED
    BY <2>1, <2>3, <2>4, <2>5 DEF PlainStep
<1>51. ASSUME Dispose(t), state[t] = "ReleaseWait" \/ HasFlags(t, "AcquireIdle", FALSE) PROVE PlainStep(t)
  <2>1. Moves(t, "gone", NoLocals) /\ PcTyped'
    BY <1>51, <1>a, GoMoves, NoLocalsFields DEF Dispose, PcLabel
  <2>2. pc[t] \in {"out", "dispose"}
    BY <1>51, <1>a DEF Dispose, Local
  <2>3. state'[t] = "DisposeWait" /\ ~is_head'[t] /\ head_lock' = head_lock /\ DataTyped' /\ PlainFrame(t)
    BY <1>51, <1>a, <2>1 DEF Dispose, DataTyped, TokenState, Link, PlainFrame, Moves
  <2>4. Local(t)'
    BY <1>51, <1>a, <2>1, <2>2, <2>3, NoLocalsFields DEF Moves, Local
  <2>5. LockRule(t) /\ PlainOwn(t)
    BY <1>51, <1>a, <2>1, <2>2, <2>3, NoLocalsFields DEF Moves, Local, LockRule, LockPcs, BumpPcs, OwnLinked, PlainOwn
  <2>6. QED
    BY <2>1, <2>3, <2>4, <2>5 DEF PlainStep
<1>52. ASSUME Dispose(t), HasFlags(t, "AcquireIdle", TRUE) PROVE PlainStep(t)
  <2>1. Moves(t, "rel", CalledByDispose) /\ PcTyped'
    BY <1>52, <1>a, GoMoves, CallFields DEF Dispose, PcLabel
  <2>2. pc[t] \in {"out", "dispose"}
    BY <1>52, <1>a DEF Dispose, Local
  <2>3. state'[t] = state[t] /\ (is_head'[t] <=> is_head[t]) /\ head_lock' = head_lock /\ DataTyped' /\ PlainFrame(t)
    BY <1>52, <1>a, <2>1 DEF Dispose, DataTyped, TokenState, Link, PlainFrame, Moves
  <2>4. Local(t)'
    BY <1>52, <1>a, <2>1, <2>2, <2>3, CallFields DEF Moves, Local
  <2>5. LockRule(t) /\ PlainOwn(t)
    BY <1>52, <1>a, <2>1, <2>2, <2>3, CallFields DEF Moves, Local, LockRule, LockPcs, BumpPcs, OwnLinked, PlainOwn
  <2>6. QED
    BY <2>1, <2>3, <2>4, <2>5 DEF PlainStep
<1>53. Dispose(t) => PlainStep(t)
  BY <1>50, <1>51, <1>52 DEF Dispose, DataTyped
<1>54. QED
  BY <1>1, <1>2, <1>3, <1>4, <1>5, <1>9, <1>12, <1>13, <1>14, <1>18, <1>19, <1>20, <1>23, <1>26, <1>27,
     <1>28, <1>29, <1>33, <1>36, <1>37, <1>38, <1>41, <1>42, <1>45, <1>48, <1>49, <1>53, <1>55

-----------------------------------------------------------------------------
(* The chain of the members: appending, moving and removing a token.        *)

\* There are finitely many members.
LEMMA MembersFinite == Members \subseteq Tokens /\ IsFiniteSet(Members) /\ Cardinality(Members) \in Nat
  BY TokensAssumption, FS_Subset, FS_CardinalityType DEF Members

\* The first member's successor is the first of the others.
LEMMA NextOfFirst ==
    ASSUME NEW M \in SUBSET Tokens, NEW vs \in [Tokens -> Nat], NEW nx, NEW tl, NEW tv \in Nat,
           Chained(M, vs, nx, tl, tv), NEW c, IsFirst(c, M, vs), c # tl
    PROVE  nx[c] \in M \ {c} /\ IsFirst(nx[c], M \ {c}, vs) /\ tl \in M \ {c}
<1>1. nx[c] \in M /\ vs[c] < vs[nx[c]] /\ \A u \in M : vs[c] < vs[u] => vs[nx[c]] <= vs[u]
  BY DEF Chained, IsFirst
<1>2. \A u \in M \ {c} : vs[c] < vs[u]
  BY DEF Chained, IsFirst
<1>3. vs[c] \in Nat /\ vs[nx[c]] \in Nat
  BY <1>1 DEF IsFirst
<1>4. QED
  BY <1>1, <1>2, <1>3 DEF Chained, IsFirst

\* The first member can leave.
LEMMA ChainRemove ==
    ASSUME NEW M \in SUBSET Tokens, NEW vs \in [Tokens -> Nat], NEW nx, NEW tl, NEW tv \in Nat,
           Chained(M, vs, nx, tl, tv), NEW c, IsFirst(c, M, vs), c # tl,
           NEW ws, NEW ny, \A u \in M \ {c} : ws[u] = vs[u] /\ ny[u] = nx[u]
    PROVE  /\ Chained(M \ {c}, ws, ny, tl, tv)
           /\ IsFirst(nx[c], M \ {c}, ws) /\ nx[c] \in M /\ nx[c] # c
<1>1. nx[c] \in M \ {c} /\ IsFirst(nx[c], M \ {c}, vs) /\ tl \in M \ {c}
  BY NextOfFirst
<1>2. \A t \in M \ {c} : t # tl => nx[t] \in M \ {c}
  BY DEF Chained, IsFirst
<1>3. IsFirst(nx[c], M \ {c}, ws)
  BY <1>1 DEF IsFirst
<1>4. Chained(M \ {c}, ws, ny, tl, tv)
  BY <1>1, <1>2 DEF Chained
<1>5. QED
  BY <1>1, <1>3, <1>4

\* enqueue: c comes last.
Appended(vs, nx, tl, tv, c, ws, ny) ==
    /\ ws[c] = tv + 1 /\ \A u \in Tokens \ {c} : ws[u] = vs[u]
    /\ ny[c] = NULL /\ (tl # NULL => ny[tl] = c) /\ \A u \in Tokens \ {c, tl} : ny[u] = nx[u]

\* A token can be appended.
LEMMA ChainAppend ==
    ASSUME NEW M \in SUBSET Tokens, NEW vs \in [Tokens -> Nat], NEW nx, NEW tl, NEW tv \in Nat,
           Chained(M, vs, nx, tl, tv), NEW c \in Tokens, c \notin M,
           NEW ws, NEW ny, Appended(vs, nx, tl, tv, c, ws, ny)
    PROVE  Chained(M \cup {c}, ws, ny, c, tv + 1)
<1>1. \A u \in M : u # c /\ ws[u] = vs[u] /\ vs[u] <= tv /\ vs[u] \in Nat
  BY DEF Chained, Appended
<1>2. ws[c] = tv + 1 /\ ny[c] = NULL
  BY DEF Appended
<1>3. \A t \in M : t # tl => ny[t] = nx[t]
  BY DEF Appended
<1>4. M # {} => tl \in M /\ ny[tl] = c
  BY TokensAssumption DEF Chained, Appended
<1>5. \A t, u \in M \cup {c} : ws[t] = ws[u] => t = u
  BY <1>1, <1>2 DEF Chained
<1>6. ASSUME NEW t \in M
      PROVE  /\ ny[t] \in M \cup {c} /\ ws[t] < ws[ny[t]]
             /\ \A u \in M \cup {c} : ws[t] < ws[u] => ws[ny[t]] <= ws[u]
  <2>1. CASE t = tl
    <3>1. ny[t] = c /\ vs[t] = tv
      BY <2>1, <1>4 DEF Chained
    <3>2. QED
      BY <3>1, <1>1, <1>2
  <2>2. CASE t # tl
    <3>1. /\ ny[t] = nx[t] /\ nx[t] \in M /\ vs[t] < vs[nx[t]]
          /\ \A u \in M : vs[t] < vs[u] => vs[nx[t]] <= vs[u]
      BY <2>2, <1>3 DEF Chained
    <3>2. QED
      BY <3>1, <1>1, <1>2
  <2>3. QED
    BY <2>1, <2>2
<1>7. QED
  BY <1>1, <1>2, <1>5, <1>6 DEF Chained

\* enqueue of the first of several: it is removed and appended.
LEMMA ChainRequeue ==
    ASSUME NEW M \in SUBSET Tokens, NEW vs \in [Tokens -> Nat], NEW nx, NEW tl, NEW tv \in Nat,
           Chained(M, vs, nx, tl, tv), NEW c, IsFirst(c, M, vs), c # tl,
           NEW ws, NEW ny, Appended(vs, nx, tl, tv, c, ws, ny)
    PROVE  Chained(M, ws, ny, c, tv + 1) /\ IsFirst(nx[c], M, ws) /\ nx[c] # c
<1>1. /\ Chained(M \ {c}, vs, nx, tl, tv)
      /\ IsFirst(nx[c], M \ {c}, vs) /\ nx[c] \in M /\ nx[c] # c
  BY ChainRemove
<1>2. c \in M /\ c \in Tokens
  BY DEF IsFirst
<1>3. Chained((M \ {c}) \cup {c}, ws, ny, c, tv + 1)
  BY <1>1, <1>2, ChainAppend
<1>4. (M \ {c}) \cup {c} = M
  BY <1>2
<1>5. \A u \in M : ws[nx[c]] <= ws[u]
  <2> SUFFICES ASSUME NEW u \in M PROVE ws[nx[c]] <= ws[u]
    OBVIOUS
  <2>1. ws[nx[c]] = vs[nx[c]] /\ vs[nx[c]] <= tv /\ vs[nx[c]] \in Nat
    BY <1>1 DEF Appended, Chained
  <2>2. CASE u = c
    BY <2>1, <2>2 DEF Appended
  <2>3. CASE u # c
    BY <2>1, <2>3, <1>1 DEF Appended, IsFirst
  <2>4. QED
    BY <2>2, <2>3
<1>6. QED
  BY <1>1, <1>3, <1>4, <1>5 DEF IsFirst

\* A first token that is the last one is the only one.
LEMMA FirstIsLast ==
    ASSUME NEW M \in SUBSET Tokens, NEW vs \in [Tokens -> Nat], NEW nx, NEW tl, NEW tv \in Nat,
           Chained(M, vs, nx, tl, tv), NEW c, IsFirst(c, M, vs), nx[c] = NULL
    PROVE  c = tl /\ vs[c] = tv /\ M = {c}
<1>1. c \in M /\ c = tl /\ vs[c] = tv
  BY TokensAssumption DEF Chained, IsFirst
<1>2. ASSUME NEW u \in M PROVE u = c
  BY <1>1, <1>2 DEF Chained, IsFirst
<1>3. QED
  BY <1>1, <1>2

-----------------------------------------------------------------------------
(* Steps of the thread that holds the lock, or takes it: no other thread is  *)
(* at a label where the lock is held, so that the invariant need only be     *)
(* looked at from this thread.                                               *)

\* No other thread is at a label where the lock is held.
Alone(t) == \A u \in Tokens \ {t} : pc[u] \notin LockPcs

\* FirstInv, as t sees it.
FirstFor(t) ==
    IF pc[t] \in WalkPcs THEN IsFirst(loc[t].curr, Members, verseq)
    ELSE (Members = {} /\ dummy_next = NULL) \/ IsFirst(dummy_next, Members, verseq)

\* The token that may have is_head set.
HeadFor(t) ==
    \A x \in Tokens : is_head[x] =>
        \/ pc[t] \in RecPcs /\ x = loc[t].curr
        \/ pc[t] \in DeqPcs /\ x = t /\ loc[t].resume = "rel_finish"
        \/ pc[t] \in LivePcs /\ x = loc[t].curr
        \/ pc[t] \notin WalkPcs /\ x = dummy_next
        \/ pc[t] = "rel_finish" /\ x = t

\* WalkInv, as t sees it.
WalkFor(t) ==
    /\ pc[t] \in KeepPcs => state[loc[t].curr] = "AcquireLock"
    /\ \A c \in Tokens : state[c] = "AcquireLock" =>
            pc[t] \in KeepPcs /\ loc[t].curr = c
    /\ pc[t] = "rec_idle" => loc[t].curr # tail
    /\ pc[t] \in WaitPcs => loc[t].resume # "upd_finish"
    /\ pc[t] = "rec_clear" => loc[t].link \in Tokens \ Members

\* StageInv, as t sees it.
StageFor(t) ==
    /\ pc[t] \in NextSet => dummy_next = loc[t].curr
    /\ pc[t] \in AgeSet => dummy_min_age = verseq[loc[t].curr]

\* The links that mt_update has read are not NULL later.
LinksAll ==
    \A u \in Tokens : pc[u] \in {"upd", "upd_requeue"} /\ loc[u].link # NULL => next[u] # NULL

\* The part of AgeInv that is about the queue.
AgeAll ==
    /\ dummy_min_age <= tail_verseq /\ \A w \in Tokens : min_age[w] <= tail_verseq
    /\ \A u \in Members : dummy_min_age <= verseq[u] /\ \A w \in Tokens : min_age[w] <= verseq[u]

\* The part of AgeInv that is about t.
AgeFor(t) ==
    /\ pc[t] \in DeqPcs \cup Done /\ loc[t].resume # "upd_finish" =>
            /\ next[t] \notin {NULL, t} /\ min_age[t] <= verseq[t]
            /\ \A u \in Members : verseq[t] <= verseq[u]
    /\ pc[t] \in Done \ {"upd_finish"} /\ loc[t].ok => verseq[t] <= dummy_min_age

\* QlenInv, as t sees it.
QlenFor(t) ==
    /\ qlen >= Cardinality(Members)
    /\ pc[t] \in DeqPcs \cup {"rel_finish"} /\ loc[t].resume = "rel_finish" => qlen > Cardinality(Members)
    /\ pc[t] = "rec_clear" => qlen > Cardinality(Members)

\* The queue as the thread t at the lock sees it.
QueueFor(t) ==
    FirstFor(t) /\ HeadFor(t) /\ WalkFor(t) /\ StageFor(t) /\ LinksAll /\ AgeAll /\ AgeFor(t) /\ QlenFor(t)

\* What the invariant tells a thread that is alone at the lock.
LEMMA HolderSees ==
    ASSUME TokenInv, NEW t \in Tokens, Alone(t)
    PROVE  QueueFor(t)
<1> USE DEF LockPcs, BumpPcs, WalkPcs, DeqPcs, LivePcs, IdlePcs, WaitPcs, KeepPcs, RecPcs, Done, Alone
<1>1. FirstFor(t)
  BY DEF TokenInv, FirstInv, FirstFor, Walker
<1>2. HeadFor(t)
  <2> SUFFICES ASSUME NEW x \in Tokens, is_head[x]
               PROVE  \/ pc[t] \in RecPcs /\ x = loc[t].curr
                      \/ pc[t] \in DeqPcs /\ x = t /\ loc[t].resume = "rel_finish"
                      \/ pc[t] \in LivePcs /\ x = loc[t].curr
                      \/ pc[t] \notin WalkPcs /\ x = dummy_next
                      \/ pc[t] = "rel_finish" /\ x = t
    BY DEF HeadFor
  <2>1. /\ (pc[t] \in RecPcs => x = loc[t].curr)
        /\ (pc[t] \in DeqPcs => \/ x = t /\ loc[t].resume = "rel_finish"
                                \/ x = loc[t].curr /\ pc[t] \in LivePcs)
        /\ ((\A u \in Tokens : ~Walker(u)) => x = dummy_next \/ pc[x] = "rel_finish")
    BY DEF TokenInv, HeadInv
  <2>2. pc[x] = "rel_finish" => x = t
    OBVIOUS
  <2>3. pc[t] \notin WalkPcs => \A u \in Tokens : ~Walker(u)
    BY DEF Walker
  <2>4. QED
    BY <2>1, <2>2, <2>3
<1>3. WalkFor(t)
  BY DEF TokenInv, WalkInv, WalkFor
<1>4. StageFor(t) /\ LinksAll
  BY DEF TokenInv, WalkInv, StageInv, StageFor, LinksAll
<1>5. AgeAll /\ AgeFor(t)
  BY DEF TokenInv, AgeInv, AgeAll, AgeFor
<1>6. QlenFor(t)
  BY DEF TokenInv, QlenInv, QlenFor
<1>7. QED
  BY <1>1, <1>2, <1>3, <1>4, <1>5, <1>6 DEF QueueFor

\* A step of the thread at the lock, after which it still sees the queue right.
HolderStep(t) ==
    /\ PcTyped' /\ DataTyped' /\ Local(t)' /\ LockRule(t) /\ Others(t)
    /\ DelInv' /\ ChainInv' /\ QueueFor(t)'

\* What another thread does to a token leaves its thread's knowledge true.
LEMMA RelyKeeps ==
    ASSUME NEW u, Local(u), pc[u] \notin LockPcs, pc[u] \in PcLabel, state[u] \in TokenState,
           pc'[u] = pc[u], loc'[u] = loc[u], Rely(u)
    PROVE  Local(u)'
<1> USE DEF LockPcs, BumpPcs, WalkPcs, DeqPcs, LivePcs, IdlePcs, WaitPcs, KeepPcs, RecPcs, Done, PcLabel, TokenState
<1>1. CASE state'[u] = state[u] /\ is_head'[u] = is_head[u]
  BY <1>1 DEF Local
<1>2. CASE state[u] = "ReleaseWait" /\ state'[u] = "ReleaseDone" /\ ~is_head'[u]
  BY <1>2 DEF Local
<1>3. CASE state[u] = "AcquireIdle" /\ state'[u] = "AcquireLock" /\ ~is_head'[u]
  BY <1>3 DEF Local
<1>4. CASE state[u] = "AcquireLock" /\ state'[u] = "AcquireIdle"
  BY <1>4 DEF Local
<1>5. CASE state[u] = "AcquireDone" /\ state'[u] = "AcquireDone" /\ is_head'[u]
  BY <1>5 DEF Local
<1>6. CASE state[u] = "DisposeWait" /\ state'[u] = "DisposeDone" /\ is_head'[u] = is_head[u]
  BY <1>6 DEF Local
<1>7. QED
  BY <1>1, <1>2, <1>3, <1>4, <1>5, <1>6 DEF Rely

\* Such a step keeps the invariant.
LEMMA HolderPreserves ==
    ASSUME TokenInv, NEW t \in Tokens, Alone(t), HolderStep(t)
    PROVE  TokenInv'
<1>0. /\ \A u \in Tokens \ {t} : pc'[u] = pc[u] /\ loc'[u] = loc[u] /\ Rely(u) /\ pc'[u] \notin LockPcs
      /\ PcTyped' /\ DataTyped' /\ Local(t)' /\ LockRule(t) /\ DelInv' /\ ChainInv' /\ QueueFor(t)'
  BY DEF HolderStep, Others, Alone
<1>1. Typed' /\ LockInv'
  BY <1>0, LockKept DEF Typed, PcTyped, DataTyped
<1>2. \A u \in Tokens : Local(u)'
  <2>1. ASSUME NEW u \in Tokens \ {t} PROVE Local(u)'
    <3>1. Local(u) /\ pc[u] \in PcLabel /\ state[u] \in TokenState /\ pc[u] \notin LockPcs
      BY DEF TokenInv, Typed, Alone
    <3>2. QED
      BY <3>1, <1>0, RelyKeeps
  <2>2. QED
    BY <2>1, <1>0
<1> USE DEF LockPcs, BumpPcs, WalkPcs, DeqPcs, LivePcs, IdlePcs, WaitPcs, KeepPcs, RecPcs, Done
<1>3. FirstInv'
  BY <1>0 DEF FirstInv, QueueFor, FirstFor, Walker
<1>4. HeadInv'
  BY <1>0 DEF HeadInv, QueueFor, HeadFor, Walker
<1>5. WalkInv'
  BY <1>0 DEF WalkInv, QueueFor, WalkFor, LinksAll
<1>6. StageInv'
  BY <1>0 DEF StageInv, QueueFor, StageFor, NextSet, AgeSet
<1>7. AgeInv'
  BY <1>0 DEF AgeInv, QueueFor, AgeFor, AgeAll
<1>8. QlenInv'
  BY <1>0 DEF QlenInv, QueueFor, QlenFor
<1>9. QED
  BY <1>0, <1>1, <1>2, <1>3, <1>4, <1>5, <1>6, <1>7, <1>8 DEF TokenInv

-----------------------------------------------------------------------------
(* Membership, and the tokens that wait for del_tokens, in a step of t that   *)
(* touches the flags of t and of c.                                          *)

\* A step of t that may change the flags of t and c.
HolderFrame(t, c) ==
    \A u \in Tokens \ {t} : /\ pc'[u] = pc[u] /\ loc'[u] = loc[u]
                            /\ u # c => state'[u] = state[u] /\ (is_head'[u] <=> is_head[u])

\* The members stay when neither token enters or leaves.
LEMMA SameMembers ==
    ASSUME NEW t \in Tokens, NEW c \in Tokens, HolderFrame(t, c), loc'[t].delptrs = loc[t].delptrs,
           OwnLinked(t)' <=> OwnLinked(t), OwnLinked(c)' <=> OwnLinked(c)
    PROVE  Members' = Members
<1>1. \A u \in Tokens : OwnLinked(u)' <=> OwnLinked(u)
  BY DEF HolderFrame, OwnLinked
<1>2. \A u \in Tokens : loc'[u].delptrs = loc[u].delptrs
  BY DEF HolderFrame
<1>3. \A u \in Tokens : Linked(u)' <=> Linked(u)
  BY <1>1, <1>2 DEF Linked, OwnLinked
<1>4. QED
  BY <1>3 DEF Members

\* c leaves.
LEMMA LosesMember ==
    ASSUME NEW t \in Tokens, NEW c \in Tokens, HolderFrame(t, c), loc'[t].delptrs = loc[t].delptrs,
           c # t => (OwnLinked(t)' <=> OwnLinked(t)), Linked(c), ~OwnLinked(c)'
    PROVE  Members' = Members \ {c}
<1>1. \A u \in Tokens \ {c} : OwnLinked(u)' <=> OwnLinked(u)
  BY DEF HolderFrame, OwnLinked
<1>2. \A u \in Tokens : loc'[u].delptrs = loc[u].delptrs
  BY DEF HolderFrame
<1>3. \A u \in Tokens \ {c} : Linked(u)' <=> Linked(u)
  BY <1>1, <1>2 DEF Linked, OwnLinked
<1>4. ~Linked(c)'
  BY DEF Linked, OwnLinked
<1>5. QED
  BY <1>3, <1>4 DEF Members

\* c leaves to be deleted by t.
LEMMA PassesMember ==
    ASSUME NEW t \in Tokens, NEW c \in Tokens, HolderFrame(t, c), loc'[t].delptrs = loc[t].delptrs \cup {c},
           c # t, OwnLinked(t)' <=> OwnLinked(t), Linked(c)
    PROVE  Members' = Members \ {c}
<1>1. \A u \in Tokens \ {c} : OwnLinked(u)' <=> OwnLinked(u)
  BY DEF HolderFrame, OwnLinked
<1>2. \A u \in Tokens \ {c} : (\A v \in Tokens : u \notin loc'[v].delptrs) <=> (\A v \in Tokens : u \notin loc[v].delptrs)
  BY DEF HolderFrame
<1>3. \A u \in Tokens \ {c} : Linked(u)' <=> Linked(u)
  BY <1>1, <1>2 DEF Linked, OwnLinked
<1>4. ~Linked(c)'
  BY DEF Linked
<1>5. QED
  BY <1>3, <1>4 DEF Members

\* A step that marks no token for deletion keeps DelInv.
LEMMA DelKept ==
    ASSUME TokenInv, NEW t \in Tokens, NEW c \in Tokens, HolderFrame(t, c), pc[t] # "gone",
           loc'[t].delptrs = loc[t].delptrs, c = t \/ Linked(c)
    PROVE  DelInv'
<1>1. \A u \in Tokens : t \notin loc[u].delptrs /\ c \notin loc[u].delptrs
  BY DEF TokenInv, DelInv, Linked
<1>2. \A u \in Tokens : loc'[u].delptrs = loc[u].delptrs /\ loc[u].delptrs \in SUBSET Tokens
  BY LocalsFields DEF HolderFrame, TokenInv, Typed
<1>3. \A d \in Tokens \ {t, c} : state'[d] = state[d] /\ pc'[d] = pc[d]
  BY DEF HolderFrame
<1>4. DelInv
  BY DEF TokenInv
<1>5. QED
  BY <1>1, <1>2, <1>3, <1>4 DEF DelInv

\* So does one that marks a token whose thread is gone.
LEMMA DelAdded ==
    ASSUME TokenInv, NEW t \in Tokens, NEW c \in Tokens, HolderFrame(t, c), pc[t] # "gone", Linked(c), c # t,
           loc'[t].delptrs = loc[t].delptrs \cup {c}, state'[c] = "DisposeWait", pc[c] = "gone"
    PROVE  DelInv'
<1>1. \A u \in Tokens : t \notin loc[u].delptrs /\ c \notin loc[u].delptrs
  BY DEF TokenInv, DelInv, Linked
<1>2. /\ \A u \in Tokens \ {t} : loc'[u].delptrs = loc[u].delptrs
      /\ \A u \in Tokens : loc[u].delptrs \in SUBSET Tokens
  BY LocalsFields DEF HolderFrame, TokenInv, Typed
<1>3. (\A d \in Tokens \ {t, c} : state'[d] = state[d] /\ pc'[d] = pc[d]) /\ pc'[c] = pc[c]
  BY DEF HolderFrame
<1>4. DelInv
  BY DEF TokenInv
<1>5. QED
  BY <1>1, <1>2, <1>3, <1>4 DEF DelInv

\* Only the thread that gave its token up leaves it to be deleted.
LEMMA DisposedIsGone ==
    ASSUME NEW c, Local(c), pc[c] \in PcLabel, loc[c] \in Locals, state[c] \in {"DisposeWait", "DisposeDone"}
    PROVE  pc[c] = "gone" /\ ~is_head[c]
<1>1. loc[c].resume \in {"out", "rel_finish", "rel_idle_finish", "upd_finish"}
  BY LocalsFields
<1>2. QED
  BY <1>1 DEF Local, PcLabel, RecPcs, DeqPcs, LivePcs, IdlePcs, WaitPcs, KeepPcs, BumpPcs, Done, WalkPcs

\* What the holder knows of the token its walk has reached.
LEMMA WalkerSees ==
    ASSUME TokenInv, NEW t \in Tokens, pc[t] \in WalkPcs
    PROVE  /\ Alone(t) /\ QueueFor(t) /\ PcTyped /\ DataTyped /\ Local(t) /\ loc[t] \in Locals
           /\ loc[t].curr \in Tokens /\ Linked(loc[t].curr) /\ IsFirst(loc[t].curr, Members, verseq)
           /\ Local(loc[t].curr) /\ next[loc[t].curr] \in Link /\ t # NULL
           /\ (next[loc[t].curr] # NULL => loc[t].curr # tail /\ next[loc[t].curr] \in Tokens)
           /\ \A u \in Tokens : t \notin loc[u].delptrs
<1>1. Alone(t)
  BY HolderUnique DEF Alone, LockPcs, BumpPcs
<1>2. QueueFor(t)
  BY <1>1, HolderSees
<1>3. PcTyped /\ DataTyped /\ Local(t) /\ loc[t] \in Locals /\ t # NULL
  BY TypeParts, TokensAssumption DEF TokenInv, PcTyped
<1>4. IsFirst(loc[t].curr, Members, verseq)
  BY <1>2 DEF QueueFor, FirstFor
<1>5. loc[t].curr \in Tokens /\ Linked(loc[t].curr)
  BY <1>4 DEF IsFirst, Members
<1>6. next[loc[t].curr] \in Link
  BY <1>5, <1>3 DEF DataTyped
<1>7. next[loc[t].curr] # NULL => loc[t].curr # tail
  BY <1>4 DEF TokenInv, ChainInv, Chained, IsFirst
<1>8. \A u \in Tokens : t \notin loc[u].delptrs
  BY DEF TokenInv, DelInv, WalkPcs, DeqPcs, LivePcs, IdlePcs, WaitPcs, KeepPcs, RecPcs
<1>9. QED
  BY <1>1, <1>2, <1>3, <1>4, <1>5, <1>6, <1>7, <1>8 DEF TokenInv, Link

-----------------------------------------------------------------------------
(* A walk looks at its token and marks it, without moving on.               *)

\* The flags of c may change.
TouchesOnly(c) == \A u \in Tokens \ {c} : state'[u] = state[u] /\ (is_head'[u] <=> is_head[u])

\* What a walk that has reached c may store: nothing, or one of the three.
Stores(c) ==
    /\ dummy_next' \in {dummy_next, c} /\ dummy_min_age' \in {dummy_min_age, verseq[c]}
    /\ min_age'[c] \in {min_age[c], verseq[c]}
    /\ \A u \in Tokens \ {c} : min_age'[u] = min_age[u]
    /\ UNCHANGED <<next, verseq, tail, tail_verseq, qlen>>

\* What a mark may be, given where the walk goes on.
Marks(t, c) ==
    /\ state'[c] \notin {"ReleaseDone", "DisposeDone"}
    /\ is_head'[c] => pc'[t] \in LivePcs \cup RecPcs
    /\ state'[c] = "AcquireLock" <=> pc'[t] \in KeepPcs
    /\ pc'[t] = "rec_idle" => c # tail
    /\ pc'[t] \in WaitPcs => loc[t].resume # "upd_finish"
    /\ pc'[t] \in NextSet => dummy_next' = c
    /\ pc'[t] \in AgeSet => dummy_min_age' = verseq[c]

\* The stores keep the ages of the members.
LEMMA AgeAllStores ==
    ASSUME DataTyped, ChainInv, AgeAll, NEW c \in Tokens, IsFirst(c, Members, verseq), Members' = Members, Stores(c)
    PROVE  AgeAll'
<1>1. c \in Members /\ Members \subseteq Tokens /\ \A u \in Members : verseq[c] <= verseq[u]
  BY DEF IsFirst, Members
<1>2. verseq[c] <= tail_verseq
  BY <1>1 DEF ChainInv, Chained
<1>3. \A w \in Tokens : min_age'[w] = min_age[w] \/ min_age'[w] = verseq[c]
  BY DEF Stores
<1>4. dummy_min_age' = dummy_min_age \/ dummy_min_age' = verseq[c]
  BY DEF Stores
<1>5. dummy_min_age' <= tail_verseq' /\ \A w \in Tokens : min_age'[w] <= tail_verseq'
  BY <1>2, <1>3, <1>4 DEF AgeAll, Stores
<1>6. \A u \in Members : dummy_min_age' <= verseq'[u] /\ \A w \in Tokens : min_age'[w] <= verseq'[u]
  BY <1>1, <1>3, <1>4 DEF AgeAll, Stores
<1>7. QED
  BY <1>5, <1>6 DEF AgeAll

\* Marking a token, or one of the stores, keeps the queue right.
LEMMA MarkQueue ==
    ASSUME TokenInv, NEW t \in Tokens, NEW c, c = loc[t].curr, pc[t] \in WalkPcs \ {"rec_clear"}, Moves(t, pc'[t], loc[t]),
           pc'[t] \in WalkPcs \ {"rec_clear"}, pc'[t] \in DeqPcs <=> pc[t] \in DeqPcs, TouchesOnly(c), Stores(c), Marks(t, c)
    PROVE  HolderFrame(t, c) /\ Members' = Members /\ DelInv' /\ ChainInv' /\ QueueFor(t)'
<1> USE DEF WalkPcs, DeqPcs, LivePcs, IdlePcs, WaitPcs, KeepPcs, RecPcs, Done
<1>1. /\ Alone(t) /\ FirstFor(t) /\ HeadFor(t) /\ WalkFor(t) /\ LinksAll /\ AgeAll /\ AgeFor(t) /\ QlenFor(t)
      /\ c \in Tokens /\ Linked(c) /\ IsFirst(c, Members, verseq) /\ Local(t) /\ DataTyped
  BY WalkerSees DEF QueueFor
<1>2. /\ HolderFrame(t, c) /\ loc'[t] = loc[t] /\ pc[t] # "gone"
      /\ \A u \in Tokens \ {t} : pc'[u] = pc[u] /\ loc'[u] = loc[u]
  BY DEF Moves, TouchesOnly, HolderFrame
<1>3. /\ OwnLinked(c)' <=> OwnLinked(c)
      /\ OwnLinked(t)' <=> OwnLinked(t)
  <2>1. OwnLinked(c)
    BY <1>1 DEF Linked, OwnLinked
  <2>2. OwnLinked(c)'
    BY <1>1, <1>2, <2>1 DEF OwnLinked, Marks
  <2>3. c # t => (OwnLinked(t)' <=> OwnLinked(t))
    BY <1>2 DEF OwnLinked, TouchesOnly
  <2>4. QED
    BY <2>1, <2>2, <2>3
<1>4. Members' = Members
  BY <1>1, <1>2, <1>3, SameMembers
<1>5. DelInv'
  BY <1>1, <1>2, DelKept
<1>6. ChainInv' /\ AgeAll'
  BY <1>1, <1>4, AgeAllStores DEF TokenInv, ChainInv, Stores
<1>7. FirstFor(t)'
  BY <1>1, <1>2, <1>4 DEF FirstFor, Stores
<1>8. HeadFor(t)'
  <2> SUFFICES ASSUME NEW x \in Tokens, is_head'[x]
               PROVE  \/ pc'[t] \in RecPcs /\ x = loc'[t].curr
                      \/ pc'[t] \in DeqPcs /\ x = t /\ loc'[t].resume = "rel_finish"
                      \/ pc'[t] \in LivePcs /\ x = loc'[t].curr
    BY DEF HeadFor
  <2>1. CASE x = c
    BY <2>1, <1>2 DEF Marks
  <2>2. CASE x # c
    BY <2>2, <1>1, <1>2 DEF HeadFor, TouchesOnly
  <2>3. QED
    BY <2>1, <2>2
<1>9. WalkFor(t)'
  BY <1>1, <1>2 DEF WalkFor, TouchesOnly, Marks, Stores
<1>10. StageFor(t)' /\ LinksAll'
  BY <1>1, <1>2 DEF StageFor, LinksAll, Marks, Stores
<1>11. AgeFor(t)'
  <2>1. min_age'[t] = min_age[t] \/ min_age'[t] = verseq[t]
    BY DEF Stores
  <2>2. QED
    BY <2>1, <1>1, <1>2, <1>4 DEF AgeFor, Stores, DataTyped
<1>12. QlenFor(t)'
  BY <1>1, <1>2, <1>4 DEF QlenFor, Stores
<1>13. QED
  BY <1>2, <1>4, <1>5, <1>6, <1>7, <1>8, <1>9, <1>10, <1>11, <1>12 DEF QueueFor

-----------------------------------------------------------------------------
(* A walk ends: its token has become the head.                               *)

\* Ending a walk keeps the queue right.
LEMMA SetHeadQueue ==
    ASSUME TokenInv, NEW t \in Tokens, NEW c, c = loc[t].curr, pc[t] \in WalkPcs, Moves(t, pc'[t], loc'[t]),
           \/ pc[t] \in DeqPcs /\ pc'[t] = loc[t].resume
           \/ pc[t] \in RecPcs /\ pc'[t] = "rec_unlock",
           loc'[t].delptrs = loc[t].delptrs, loc'[t].resume = loc[t].resume,
           TouchesOnly(c), Stores(c), dummy_next' = c, dummy_min_age' = verseq[c],
           state'[c] \notin {"ReleaseDone", "DisposeDone", "AcquireLock"},
           is_head'[c] => is_head[c] \/ pc[t] \in IdlePcs
    PROVE  HolderFrame(t, c) /\ Members' = Members /\ DelInv' /\ ChainInv' /\ QueueFor(t)'
<1> USE DEF WalkPcs, DeqPcs, LivePcs, IdlePcs, WaitPcs, KeepPcs, RecPcs, Done
<1>1. /\ Alone(t) /\ FirstFor(t) /\ HeadFor(t) /\ WalkFor(t) /\ LinksAll /\ AgeAll /\ AgeFor(t) /\ QlenFor(t)
      /\ c \in Tokens /\ Linked(c) /\ IsFirst(c, Members, verseq) /\ Local(t) /\ DataTyped
  BY WalkerSees DEF QueueFor
<1>2. /\ HolderFrame(t, c) /\ pc[t] # "gone" /\ pc'[t] \in Done \cup {"rec_unlock"}
      /\ \A u \in Tokens \ {t} : pc'[u] = pc[u] /\ loc'[u] = loc[u]
  BY <1>1 DEF Moves, TouchesOnly, HolderFrame, Local
<1>3. /\ OwnLinked(c)' <=> OwnLinked(c)
      /\ OwnLinked(t)' <=> OwnLinked(t)
  <2>1. OwnLinked(c)
    BY <1>1 DEF Linked, OwnLinked
  <2>2. OwnLinked(c)'
    BY <1>1, <1>2, <2>1 DEF OwnLinked
  <2>3. c # t => (OwnLinked(t)' <=> OwnLinked(t))
    BY <1>2 DEF OwnLinked, TouchesOnly
  <2>4. QED
    BY <2>1, <2>2, <2>3
<1>4. Members' = Members
  BY <1>1, <1>2, <1>3, SameMembers
<1>5. DelInv'
  BY <1>1, <1>2, DelKept
<1>6. ChainInv' /\ AgeAll'
  BY <1>1, <1>4, AgeAllStores DEF TokenInv, ChainInv, Stores
<1>7. FirstFor(t)'
  BY <1>1, <1>2, <1>4 DEF FirstFor, Stores
<1>8. HeadFor(t)'
  <2> SUFFICES ASSUME NEW x \in Tokens, is_head'[x]
               PROVE  \/ pc'[t] \notin WalkPcs /\ x = dummy_next'
                      \/ pc'[t] = "rel_finish" /\ x = t
    BY DEF HeadFor
  <2>1. CASE x = c
    BY <2>1, <1>2
  <2>2. CASE x # c
    BY <2>2, <1>1, <1>2 DEF HeadFor, TouchesOnly
  <2>3. QED
    BY <2>1, <2>2
<1>9. WalkFor(t)'
  BY <1>1, <1>2 DEF WalkFor, TouchesOnly
<1>10. StageFor(t)' /\ LinksAll'
  BY <1>1, <1>2 DEF StageFor, LinksAll, Stores, NextSet, AgeSet
<1>12. AgeFor(t)'
  <2>1. pc'[t] \in Done => pc[t] \in DeqPcs
    BY <1>2
  <2>2. c \in Members /\ verseq[t] \in Nat
    BY <1>1 DEF IsFirst, DataTyped
  <2>3. loc[t].resume # "upd_finish" /\ pc[t] \in DeqPcs =>
            /\ next[t] \notin {NULL, t} /\ min_age[t] <= verseq[t]
            /\ verseq[t] <= verseq[c] /\ \A u \in Members : verseq[t] <= verseq[u]
    BY <2>2, <1>1 DEF AgeFor
  <2>4. min_age'[t] = min_age[t] \/ min_age'[t] = verseq[t]
    BY DEF Stores
  <2>5. /\ loc[t].resume # "upd_finish" /\ pc[t] \in DeqPcs => min_age'[t] <= verseq[t]
        /\ dummy_min_age' = verseq[c] /\ verseq' = verseq /\ next' = next
    BY <2>2, <2>3, <2>4 DEF Stores
  <2>6. QED
    BY <2>1, <2>3, <2>5, <1>2, <1>4 DEF AgeFor
<1>13. QlenFor(t)'
  BY <1>1, <1>2, <1>4 DEF QlenFor, Stores
<1>14. QED
  BY <1>2, <1>4, <1>5, <1>6, <1>7, <1>8, <1>9, <1>10, <1>12, <1>13 DEF QueueFor

-----------------------------------------------------------------------------
(* A walk passes its token, which leaves the queue, or starts behind the     *)
(* token of its own thread.                                                  *)

\* The links and the ages are the same, and so is m_qlen.
LinksKept == UNCHANGED <<next, verseq, min_age, dummy_next, dummy_min_age, tail, tail_verseq>>
QueueSame == LinksKept /\ qlen' = qlen

\* One member less.
LEMMA CardinalityLess ==
    ASSUME NEW c \in Members
    PROVE  Cardinality(Members \ {c}) = Cardinality(Members) - 1
  BY MembersFinite, FS_RemoveElement

\* A member that leaves keeps the ages right.
LEMMA AgeAllRemove ==
    ASSUME AgeAll, NEW c, Members' = Members \ {c}, LinksKept
    PROVE  AgeAll'
  BY DEF AgeAll, LinksKept

\* Passing a released or a disposed token keeps the queue right.
LEMMA PassQueue ==
    ASSUME TokenInv, NEW t \in Tokens, NEW c, c = loc[t].curr, pc[t] \in {"deq", "rec"}, Moves(t, pc'[t], loc'[t]),
           loc'[t].curr = next[c], loc'[t].resume = loc[t].resume,
           \/ pc'[t] = pc[t] /\ qlen' = qlen - 1
           \/ pc[t] = "rec" /\ pc'[t] = "rec_clear" /\ loc'[t].link = c /\ qlen' = qlen,
           \/ loc'[t].delptrs = loc[t].delptrs /\ state'[c] \in {"ReleaseDone", "DisposeDone"}
           \/ loc'[t].delptrs = loc[t].delptrs \cup {c} /\ state[c] = "DisposeWait" /\ state'[c] = "DisposeWait",
           state[c] \in {"ReleaseWait", "DisposeWait"}, next[c] # NULL,
           TouchesOnly(c), ~is_head'[c], LinksKept
    PROVE  c # t /\ HolderFrame(t, c) /\ Members' = Members \ {c} /\ DelInv' /\ ChainInv' /\ QueueFor(t)'
<1> USE DEF WalkPcs, DeqPcs, LivePcs, IdlePcs, WaitPcs, KeepPcs, RecPcs, Done
<1>1. /\ Alone(t) /\ FirstFor(t) /\ HeadFor(t) /\ WalkFor(t) /\ LinksAll /\ AgeAll /\ AgeFor(t) /\ QlenFor(t)
      /\ c \in Tokens /\ Linked(c) /\ IsFirst(c, Members, verseq) /\ Local(t) /\ DataTyped
      /\ c # tail /\ Local(c)
  BY WalkerSees DEF QueueFor
<1>2. c # t
  BY <1>1 DEF Local
<1>3. /\ HolderFrame(t, c) /\ pc[t] # "gone" /\ pc'[t] \in {"deq", "rec", "rec_clear"}
      /\ pc'[t] = "deq" <=> pc[t] = "deq"
      /\ \A u \in Tokens \ {t} : pc'[u] = pc[u] /\ loc'[u] = loc[u]
  BY <1>1 DEF Moves, TouchesOnly, HolderFrame
<1>4. OwnLinked(t)' <=> OwnLinked(t)
  BY <1>2, <1>3 DEF OwnLinked, TouchesOnly
<1>5. Members' = Members \ {c} /\ DelInv'
  <2>1. CASE loc'[t].delptrs = loc[t].delptrs /\ state'[c] \in {"ReleaseDone", "DisposeDone"}
    <3>1. ~OwnLinked(c)'
      BY <2>1 DEF OwnLinked
    <3>2. QED
      BY <1>1, <1>2, <1>3, <1>4, <2>1, <3>1, LosesMember, DelKept
  <2>2. CASE loc'[t].delptrs = loc[t].delptrs \cup {c} /\ state[c] = "DisposeWait" /\ state'[c] = "DisposeWait"
    <3>1. pc[c] = "gone"
      BY <1>1, <2>2, DisposedIsGone DEF TokenInv, Typed
    <3>2. QED
      BY <1>1, <1>2, <1>3, <1>4, <2>2, <3>1, PassesMember, DelAdded
  <2>3. QED
    BY <2>1, <2>2
<1>6. ChainInv' /\ FirstFor(t)'
  <2>1. Members \in SUBSET Tokens /\ verseq \in [Tokens -> Nat] /\ tail_verseq \in Nat
    BY <1>1 DEF Members, DataTyped
  <2>2. Chained(Members, verseq, next, tail, tail_verseq)
    BY DEF TokenInv, ChainInv
  <2>3. \A u \in Members \ {c} : verseq[u] = verseq[u] /\ next[u] = next[u]
    OBVIOUS
  <2>4. IsFirst(c, Members, verseq) /\ c # tail
    BY <1>1
  <2>5. Chained(Members \ {c}, verseq, next, tail, tail_verseq) /\ IsFirst(next[c], Members \ {c}, verseq)
    BY ONLY <2>1, <2>2, <2>3, <2>4, ChainRemove
  <2>6. QED
    BY <2>5, <1>3, <1>5 DEF ChainInv, FirstFor, LinksKept
<1>7. HeadFor(t)'
  <2> SUFFICES ASSUME NEW x \in Tokens, is_head'[x]
               PROVE  pc'[t] \in DeqPcs /\ x = t /\ loc'[t].resume = "rel_finish"
    BY DEF HeadFor
  <2>1. x # c /\ is_head[x]
    BY DEF TouchesOnly
  <2>2. QED
    BY <2>1, <1>1, <1>3 DEF HeadFor
<1>8. WalkFor(t)'
  BY <1>1, <1>3, <1>5 DEF WalkFor, TouchesOnly
<1>9. StageFor(t)' /\ LinksAll'
  BY <1>1, <1>3 DEF StageFor, LinksAll, LinksKept, NextSet, AgeSet
<1>10. AgeAll'
  BY <1>1, <1>5, AgeAllRemove
<1>11. AgeFor(t)'
  BY <1>1, <1>2, <1>3, <1>5 DEF AgeFor, LinksKept
<1>12. QlenFor(t)'
  <2>1. c \in Members
    BY <1>1 DEF Members
  <2>2. Cardinality(Members') = Cardinality(Members) - 1 /\ Cardinality(Members) \in Nat
    BY <2>1, <1>5, CardinalityLess, MembersFinite
  <2>3. qlen \in Nat
    BY <1>1 DEF DataTyped
  <2>4. QED
    BY <2>2, <2>3, <1>1, <1>3 DEF QlenFor
<1>13. QED
  BY <1>2, <1>3, <1>5, <1>6, <1>7, <1>8, <1>9, <1>10, <1>11, <1>12 DEF QueueFor

\* Clearing the link of a token that has left keeps the queue right.
LEMMA ClearQueue ==
    ASSUME TokenInv, NEW t \in Tokens, NEW c, c = loc[t].link, pc[t] = "rec_clear", Moves(t, "rec", loc'[t]),
           loc'[t].curr = loc[t].curr, loc'[t].resume = loc[t].resume, loc'[t].delptrs = loc[t].delptrs,
           state' = state, is_head' = is_head,
           \A u \in Tokens \ {c} : verseq'[u] = verseq[u] /\ next'[u] = next[u],
           qlen' = qlen - 1, UNCHANGED <<min_age, dummy_next, dummy_min_age, tail, tail_verseq>>
    PROVE  c \in Tokens /\ ~Linked(c) /\ HolderFrame(t, t) /\ Members' = Members /\ DelInv' /\ ChainInv' /\ QueueFor(t)'
<1> USE DEF WalkPcs, DeqPcs, LivePcs, IdlePcs, WaitPcs, KeepPcs, RecPcs, Done
<1>1. /\ Alone(t) /\ FirstFor(t) /\ HeadFor(t) /\ WalkFor(t) /\ LinksAll /\ AgeAll /\ QlenFor(t)
      /\ Local(t) /\ DataTyped /\ loc[t].curr \in Members
  BY WalkerSees DEF QueueFor, IsFirst
<1>2. c \in Tokens \ Members
  BY <1>1 DEF WalkFor
<1>3. /\ HolderFrame(t, t) /\ pc'[t] = "rec"
      /\ \A u \in Tokens \ {t} : pc'[u] = pc[u] /\ loc'[u] = loc[u]
  BY DEF Moves, HolderFrame
<1>4. Members' = Members /\ DelInv'
  <2>1. OwnLinked(t)' <=> OwnLinked(t)
    BY <1>3 DEF OwnLinked
  <2>2. QED
    BY <1>3, <2>1, SameMembers, DelKept
<1>5. \A u \in Members : u \in Tokens /\ verseq'[u] = verseq[u] /\ next'[u] = next[u]
  BY <1>2 DEF Members
<1>6. ChainInv'
  <2>1. Chained(Members, verseq, next, tail, tail_verseq)
    BY DEF TokenInv, ChainInv
  <2>2. \A u \in Members : u # tail => next[u] \in Members
    BY <2>1 DEF Chained
  <2>3. Chained(Members, verseq', next', tail, tail_verseq)
    BY <2>1, <2>2, <1>5 DEF Chained
  <2>4. QED
    BY <2>3, <1>4 DEF ChainInv
<1>7. FirstFor(t)'
  BY <1>1, <1>3, <1>4, <1>5 DEF FirstFor, IsFirst
<1>8. HeadFor(t)'
  BY <1>1, <1>3 DEF HeadFor
<1>9. WalkFor(t)'
  BY <1>1, <1>3 DEF WalkFor
<1>10. StageFor(t)'
  BY <1>3 DEF StageFor, NextSet, AgeSet
<1>11. LinksAll'
  <2>1. pc[c] \notin {"upd", "upd_requeue"}
    BY <1>1, <1>2 DEF HeadFor, TokenInv, Local
  <2>2. QED
    BY <2>1, <1>1, <1>2, <1>3 DEF LinksAll
<1>12. AgeAll' /\ AgeFor(t)'
  BY <1>1, <1>3, <1>4, <1>5 DEF AgeAll, AgeFor
<1>13. QlenFor(t)'
  <2>1. Cardinality(Members) \in Nat /\ qlen \in Nat
    BY <1>1, MembersFinite DEF DataTyped
  <2>2. QED
    BY <2>1, <1>1, <1>3, <1>4 DEF QlenFor
<1>14. QED
  BY <1>2, <1>3, <1>4, <1>6, <1>7, <1>8, <1>9, <1>10, <1>11, <1>12, <1>13 DEF QueueFor, Members

\* The released head starts a walk at its successor.
LEMMA StartQueue ==
    ASSUME TokenInv, NEW t \in Tokens, Alone(t), pc[t] \in {"rel", "rel_idle_locked"}, is_head[t], next[t] # NULL,
           Moves(t, "deq", loc'[t]), loc'[t].curr = next[t], loc'[t].delptrs = loc[t].delptrs,
           loc[t].resume # "rel_finish", state[t] # "AcquireLock", state'[t] # "AcquireLock", QueueSame, TouchesOnly(t),
           \/ loc'[t].resume = "rel_finish"
           \/ loc'[t].resume = "rel_idle_finish" /\ state'[t] = "ReleaseDone" /\ ~is_head'[t]
    PROVE  HolderFrame(t, t) /\ Members' = Members \ {t} /\ Linked(t) /\ DelInv' /\ ChainInv' /\ QueueFor(t)'
<1> USE DEF WalkPcs, DeqPcs, LivePcs, IdlePcs, WaitPcs, KeepPcs, RecPcs, Done
<1>1. /\ FirstFor(t) /\ HeadFor(t) /\ WalkFor(t) /\ LinksAll /\ AgeAll /\ AgeFor(t) /\ QlenFor(t)
      /\ Local(t) /\ DataTyped /\ t # NULL
  BY HolderSees, TypeParts, TokensAssumption DEF QueueFor, TokenInv
<1>2. Linked(t)
  BY <1>1 DEF TokenInv, DelInv, Linked, Local
<1>3. t = dummy_next /\ t \in Members /\ Members \in SUBSET Tokens
  BY <1>1, <1>2 DEF HeadFor, Members
<1>4. IsFirst(t, Members, verseq)
  BY <1>1, <1>3 DEF FirstFor
<1>5. t # tail
  BY <1>4 DEF TokenInv, ChainInv, Chained, IsFirst
<1>6. /\ HolderFrame(t, t) /\ pc'[t] = "deq"
      /\ \A u \in Tokens \ {t} : pc'[u] = pc[u] /\ loc'[u] = loc[u]
  BY DEF Moves, TouchesOnly, HolderFrame
<1>7. Members' = Members \ {t} /\ DelInv'
  <2>1. ~OwnLinked(t)'
    BY DEF OwnLinked
  <2>2. QED
    BY <1>2, <1>6, <2>1, LosesMember, DelKept
<1>8. ChainInv' /\ FirstFor(t)'
  <2>1. verseq \in [Tokens -> Nat] /\ tail_verseq \in Nat
    BY <1>1 DEF DataTyped
  <2>2. Chained(Members, verseq, next, tail, tail_verseq)
    BY DEF TokenInv, ChainInv
  <2>3. \A u \in Members \ {t} : verseq[u] = verseq[u] /\ next[u] = next[u]
    OBVIOUS
  <2>4. Chained(Members \ {t}, verseq, next, tail, tail_verseq) /\ IsFirst(next[t], Members \ {t}, verseq)
    BY <2>1, <2>2, <2>3, <1>3, <1>4, <1>5, ChainRemove
  <2>5. QED
    BY <2>4, <1>6, <1>7 DEF ChainInv, FirstFor, QueueSame, LinksKept
<1>9. HeadFor(t)'
  <2> SUFFICES ASSUME NEW x \in Tokens, is_head'[x]
               PROVE  x = t /\ loc'[t].resume = "rel_finish"
    BY <1>6 DEF HeadFor
  <2>1. x = t
    BY <1>1, <1>3 DEF HeadFor, TouchesOnly
  <2>2. QED
    BY <2>1
<1>10. WalkFor(t)'
  BY <1>1, <1>6 DEF WalkFor, TouchesOnly
<1>11. StageFor(t)' /\ LinksAll'
  BY <1>1, <1>6 DEF StageFor, LinksAll, QueueSame, LinksKept, NextSet, AgeSet
<1>12. AgeAll'
  BY <1>1, <1>7, AgeAllRemove DEF QueueSame
<1>13. AgeFor(t)'
  <2>1. next[t] # t
    BY <1>1, <1>3, <1>5 DEF TokenInv, ChainInv, Chained, DataTyped
  <2>2. QED
    BY <2>1, <1>1, <1>3, <1>4, <1>6, <1>7 DEF AgeFor, AgeAll, QueueSame, LinksKept, IsFirst
<1>14. QlenFor(t)'
  <2>1. Cardinality(Members') = Cardinality(Members) - 1 /\ Cardinality(Members) \in Nat
    BY <1>3, <1>7, CardinalityLess, MembersFinite
  <2>2. QED
    BY <2>1, <1>1, <1>6 DEF QlenFor, QueueSame, LinksKept, DataTyped
<1>15. QED
  BY <1>2, <1>6, <1>7, <1>8, <1>9, <1>10, <1>11, <1>12, <1>13, <1>14 DEF QueueFor

-----------------------------------------------------------------------------
(* A token goes to the tail: a new one, the head that updates itself, or an   *)
(* idle token that a walk meets.                                             *)

\* What enqueue does.
Enqueued(c) ==
    /\ Appended(verseq, next, tail, tail_verseq, c, verseq', next')
    /\ tail' = c /\ tail_verseq' = tail_verseq + 1
    /\ dummy_next' = IF tail = NULL THEN c ELSE dummy_next

\* enqueue does it.
LEMMA EnqueueEffect ==
    ASSUME DataTyped, NEW c \in Tokens, c # tail, enqueue(c)
    PROVE  /\ Enqueued(c)
           /\ verseq' \in [Tokens -> Nat] /\ next' \in [Tokens -> Link]
           /\ tail' \in Link /\ tail_verseq' \in Nat /\ dummy_next' \in Link
<1>1. tail \in Tokens \cup {NULL} /\ c # NULL /\ NULL \notin Tokens
  BY TokensAssumption DEF DataTyped, Link
<1>2. verseq'[c] = tail_verseq + 1 /\ \A u \in Tokens \ {c} : verseq'[u] = verseq[u]
  BY DEF enqueue, DataTyped
<1>3. next'[c] = NULL /\ (tail # NULL => next'[tail] = c) /\ \A u \in Tokens \ {c, tail} : next'[u] = next[u]
  BY <1>1 DEF enqueue, DataTyped
<1>4. verseq' \in [Tokens -> Nat] /\ next' \in [Tokens -> Link] /\ dummy_next' \in Link
  BY <1>1 DEF enqueue, DataTyped, Link
<1>5. tail' = c /\ tail_verseq' = tail_verseq + 1 /\ dummy_next' = IF tail = NULL THEN c ELSE dummy_next
  BY DEF enqueue
<1>6. tail' \in Link /\ tail_verseq' \in Nat
  BY <1>5 DEF DataTyped, Link
<1>7. QED
  BY <1>2, <1>3, <1>4, <1>5, <1>6 DEF Enqueued, Appended

\* A token at the tail keeps the ages right.
LEMMA AgeAllAppend ==
    ASSUME DataTyped, AgeAll, NEW c \in Tokens, Enqueued(c), \A u \in Members' : u \in Members \cup {c},
           dummy_min_age' = dummy_min_age, min_age' \in [Tokens -> Nat],
           \A w \in Tokens : \/ min_age'[w] = min_age[w]
                             \/ min_age'[w] <= tail_verseq /\ \A u \in Members : min_age'[w] <= verseq[u]
    PROVE  AgeAll'
<1>1. verseq'[c] = tail_verseq + 1 /\ tail_verseq' = tail_verseq + 1 /\ \A u \in Tokens \ {c} : verseq'[u] = verseq[u]
  BY DEF Enqueued, Appended
<1>2. dummy_min_age \in Nat /\ tail_verseq \in Nat /\ \A w \in Tokens : min_age[w] \in Nat /\ min_age'[w] \in Nat /\ verseq[w] \in Nat
  BY DEF DataTyped
<1>3. Members \subseteq Tokens
  BY DEF Members
<1>4. dummy_min_age <= tail_verseq /\ \A u \in Members : dummy_min_age <= verseq[u]
  BY DEF AgeAll
<1>5. \A w \in Tokens : min_age'[w] <= tail_verseq /\ \A u \in Members : min_age'[w] <= verseq[u]
  BY DEF AgeAll
<1>6. dummy_min_age <= tail_verseq + 1 /\ \A w \in Tokens : min_age'[w] <= tail_verseq + 1
  BY <1>2, <1>4, <1>5
<1>7. ASSUME NEW u \in Members' PROVE dummy_min_age <= verseq'[u] /\ \A w \in Tokens : min_age'[w] <= verseq'[u]
  <2>1. CASE u = c
    BY <2>1, <1>1, <1>6
  <2>2. CASE u # c
    BY <2>2, <1>1, <1>3, <1>4, <1>5
  <2>3. QED
    BY <2>1, <2>2
<1>8. QED
  BY <1>1, <1>6, <1>7 DEF AgeAll

\* A token at the tail takes no link away that mt_update has read.
LEMMA LinksAppend ==
    ASSUME NEW t \in Tokens, NEW c \in Tokens, LinksAll, Enqueued(c), tail # NULL => next[tail] = NULL,
           \A u \in Tokens \ {t} : pc'[u] = pc[u] /\ loc'[u] = loc[u],
           pc'[t] \notin {"upd", "upd_requeue"},
           c # t => pc[c] \notin {"upd", "upd_requeue"}
    PROVE  LinksAll'
<1> SUFFICES ASSUME NEW u \in Tokens, u # t, loc[u].link # NULL, pc[u] \in {"upd", "upd_requeue"}
             PROVE  next'[u] # NULL
  BY DEF LinksAll
<1>1. u # c /\ next[u] # NULL
  BY DEF LinksAll
<1>2. next'[u] = next[u]
  BY <1>1, TokensAssumption DEF Enqueued, Appended
<1>3. QED
  BY <1>1, <1>2

\* The tail is a member without a successor.
LEMMA TailHasNoNext ==
    ASSUME TokenInv
    PROVE  tail # NULL => next[tail] = NULL /\ tail \in Members
  BY DEF TokenInv, ChainInv, Chained

\* mt_update: the head takes its token to the tail and starts a walk at its successor.
LEMMA RequeueOwn ==
    ASSUME TokenInv, NEW t \in Tokens, Alone(t), pc[t] = "upd_requeue", next[t] # NULL, is_head[t],
           Moves(t, "deq", loc'[t]), loc'[t].curr = next[t], loc'[t].delptrs = loc[t].delptrs, loc'[t].resume = "upd_finish",
           state' = state, TouchesOnly(t), ~is_head'[t],
           Enqueued(t), UNCHANGED <<min_age, dummy_min_age, qlen>>
    PROVE  /\ HolderFrame(t, t) /\ Members' = Members /\ Linked(t) /\ IsFirst(t, Members, verseq)
           /\ DelInv' /\ ChainInv' /\ QueueFor(t)'
<1> USE DEF WalkPcs, DeqPcs, LivePcs, IdlePcs, WaitPcs, KeepPcs, RecPcs, Done
<1>1. /\ FirstFor(t) /\ HeadFor(t) /\ WalkFor(t) /\ LinksAll /\ AgeAll /\ AgeFor(t) /\ QlenFor(t)
      /\ Local(t) /\ DataTyped /\ t # NULL
  BY HolderSees, TypeParts, TokensAssumption DEF QueueFor, TokenInv
<1>2. Linked(t) /\ loc[t].resume = "out" /\ state[t] = "AcquireDone"
  BY <1>1 DEF TokenInv, DelInv, Linked, Local
<1>3. t = dummy_next /\ t \in Members /\ Members \in SUBSET Tokens
  BY <1>1, <1>2 DEF HeadFor, Members
<1>4. IsFirst(t, Members, verseq)
  BY <1>1, <1>3 DEF FirstFor
<1>5. t # tail
  BY <1>4 DEF TokenInv, ChainInv, Chained, IsFirst
<1>6. /\ HolderFrame(t, t) /\ pc'[t] = "deq"
      /\ \A u \in Tokens \ {t} : pc'[u] = pc[u] /\ loc'[u] = loc[u]
  BY DEF Moves, TouchesOnly, HolderFrame
<1>7. Members' = Members /\ DelInv'
  <2>1. OwnLinked(t)' <=> OwnLinked(t)
    BY <1>2, <1>6 DEF OwnLinked
  <2>2. QED
    BY <1>2, <1>6, <2>1, SameMembers, DelKept
<1>8. ChainInv' /\ FirstFor(t)'
  <2>1. verseq \in [Tokens -> Nat] /\ tail_verseq \in Nat
    BY <1>1 DEF DataTyped
  <2>2. Chained(Members, verseq, next, tail, tail_verseq) /\ Appended(verseq, next, tail, tail_verseq, t, verseq', next')
    BY DEF TokenInv, ChainInv, Enqueued
  <2>3. Chained(Members, verseq', next', t, tail_verseq + 1) /\ IsFirst(next[t], Members, verseq')
    BY ONLY <2>1, <2>2, <1>3, <1>4, <1>5, ChainRequeue
  <2>4. QED
    BY <2>3, <1>6, <1>7 DEF ChainInv, FirstFor, Enqueued
<1>9. HeadFor(t)'
  BY <1>1, <1>3 DEF HeadFor, TouchesOnly
<1>10. WalkFor(t)'
  BY <1>1, <1>6 DEF WalkFor
<1>11. StageFor(t)' /\ LinksAll'
  BY <1>1, <1>6, TailHasNoNext, LinksAppend DEF StageFor, NextSet, AgeSet
<1>12. AgeAll'
  BY <1>1, <1>7, AgeAllAppend DEF DataTyped
<1>13. AgeFor(t)' /\ QlenFor(t)'
  BY <1>1, <1>6, <1>7 DEF AgeFor, QlenFor
<1>14. QED
  BY <1>2, <1>4, <1>6, <1>7, <1>8, <1>9, <1>10, <1>11, <1>12, <1>13 DEF QueueFor

\* reclaim_head: an idle token goes from the head to the tail.
LEMMA RequeueIdle ==
    ASSUME TokenInv, NEW t \in Tokens, NEW c, c = loc[t].curr, pc[t] = "rec_idle",
           Moves(t, "rec", loc'[t]), loc'[t].curr = next[c], loc'[t].delptrs = loc[t].delptrs, loc'[t].resume = loc[t].resume,
           state'[c] = "AcquireIdle", ~is_head'[c], TouchesOnly(c), Enqueued(c),
           min_age' = [min_age EXCEPT ![c] = verseq[c]], UNCHANGED <<dummy_min_age, qlen>>
    PROVE  c # t /\ HolderFrame(t, c) /\ Members' = Members /\ DelInv' /\ ChainInv' /\ QueueFor(t)'
<1> USE DEF WalkPcs, DeqPcs, LivePcs, IdlePcs, WaitPcs, KeepPcs, RecPcs, Done
<1>1. /\ Alone(t) /\ FirstFor(t) /\ HeadFor(t) /\ WalkFor(t) /\ LinksAll /\ AgeAll /\ AgeFor(t) /\ QlenFor(t)
      /\ c \in Tokens /\ Linked(c) /\ IsFirst(c, Members, verseq) /\ Local(t) /\ DataTyped /\ Local(c)
  BY WalkerSees DEF QueueFor
<1>2. c # tail /\ state[c] = "AcquireLock" /\ c # t /\ loc[t].resume = "out"
  BY <1>1 DEF WalkFor, Local
<1>3. /\ HolderFrame(t, c) /\ pc'[t] = "rec"
      /\ \A u \in Tokens \ {t} : pc'[u] = pc[u] /\ loc'[u] = loc[u]
  BY DEF Moves, TouchesOnly, HolderFrame
<1>4. Members' = Members /\ DelInv'
  <2>1. OwnLinked(t)' <=> OwnLinked(t)
    BY <1>2, <1>3 DEF OwnLinked, TouchesOnly
  <2>2. OwnLinked(c)' <=> OwnLinked(c)
    BY <1>1, <1>2, <1>3 DEF OwnLinked
  <2>3. QED
    BY <1>1, <1>2, <1>3, <2>1, <2>2, SameMembers, DelKept
<1>5. ChainInv' /\ FirstFor(t)'
  <2>1. verseq \in [Tokens -> Nat] /\ tail_verseq \in Nat /\ Members \in SUBSET Tokens
    BY <1>1 DEF DataTyped, Members
  <2>2. Chained(Members, verseq, next, tail, tail_verseq) /\ Appended(verseq, next, tail, tail_verseq, c, verseq', next')
    BY DEF TokenInv, ChainInv, Enqueued
  <2>3. IsFirst(c, Members, verseq) /\ c # tail
    BY <1>1, <1>2
  <2>4. Chained(Members, verseq', next', c, tail_verseq + 1) /\ IsFirst(next[c], Members, verseq')
    BY ONLY <2>1, <2>2, <2>3, ChainRequeue
  <2>5. QED
    BY <2>4, <1>3, <1>4 DEF ChainInv, FirstFor, Enqueued
<1>6. HeadFor(t)'
  BY <1>1 DEF HeadFor, TouchesOnly
<1>7. WalkFor(t)'
  BY <1>1, <1>3 DEF WalkFor, TouchesOnly
<1>8. StageFor(t)' /\ LinksAll'
  <2>1. pc[c] \notin {"upd", "upd_requeue"}
    BY <1>1, <1>2 DEF Local
  <2>2. QED
    BY <2>1, <1>1, <1>3, TailHasNoNext, LinksAppend DEF StageFor, NextSet, AgeSet
<1>9. AgeAll'
  <2>1. min_age' \in [Tokens -> Nat] /\ \A w \in Tokens : min_age'[w] = min_age[w] \/ min_age'[w] = verseq[c]
    BY <1>1 DEF DataTyped
  <2>2. verseq[c] <= tail_verseq /\ \A u \in Members : verseq[c] <= verseq[u]
    BY <1>1 DEF TokenInv, ChainInv, Chained, IsFirst
  <2>3. QED
    BY <2>1, <2>2, <1>1, <1>4, AgeAllAppend
<1>10. AgeFor(t)' /\ QlenFor(t)'
  BY <1>1, <1>3, <1>4 DEF AgeFor, QlenFor
<1>11. QED
  BY <1>2, <1>3, <1>4, <1>5, <1>6, <1>7, <1>8, <1>9, <1>10 DEF QueueFor

\* mt_acquire: a new token comes last.
LEMMA AppendOwn ==
    ASSUME TokenInv, NEW t \in Tokens, Alone(t), pc[t] = "acq_enqueue",
           Moves(t, "acq_unlock", loc[t]), state' = state, is_head' = is_head,
           Enqueued(t), UNCHANGED <<min_age, dummy_min_age>>, qlen' = qlen + 1
    PROVE  /\ HolderFrame(t, t) /\ ~Linked(t) /\ Members' = Members \cup {t}
           /\ DelInv' /\ ChainInv' /\ QueueFor(t)'
<1> USE DEF WalkPcs, DeqPcs, LivePcs, IdlePcs, WaitPcs, KeepPcs, RecPcs, Done
<1>1. /\ FirstFor(t) /\ HeadFor(t) /\ WalkFor(t) /\ LinksAll /\ AgeAll /\ AgeFor(t) /\ QlenFor(t)
      /\ Local(t) /\ DataTyped /\ t # NULL /\ NULL \notin Tokens
  BY HolderSees, TypeParts, TokensAssumption DEF QueueFor, TokenInv
<1>2. /\ HolderFrame(t, t) /\ pc'[t] = "acq_unlock" /\ loc'[t] = loc[t]
      /\ \A u \in Tokens \ {t} : pc'[u] = pc[u] /\ loc'[u] = loc[u]
  BY DEF Moves, HolderFrame
<1>3. ~Linked(t) /\ Members' = Members \cup {t}
  <2>1. loc[t].resume = "out" /\ state[t] = "AcquireDone" /\ \A u \in Tokens : t \notin loc[u].delptrs
    BY <1>1 DEF TokenInv, DelInv, Local
  <2>2. Linked(t)'
    BY <2>1, <1>2 DEF Linked
  <2>3. \A u \in Tokens \ {t} : Linked(u)' <=> Linked(u)
    BY <1>2 DEF Linked
  <2>4. ~Linked(t)
    BY DEF Linked
  <2>5. QED
    BY <2>2, <2>3, <2>4 DEF Members
<1>4. DelInv'
  BY <1>2, DelKept
<1>5. Members \in SUBSET Tokens /\ t \notin Members /\ verseq \in [Tokens -> Nat] /\ tail_verseq \in Nat
  BY <1>1, <1>3 DEF Members, DataTyped
<1>6. ChainInv'
  <2>1. Chained(Members, verseq, next, tail, tail_verseq) /\ Appended(verseq, next, tail, tail_verseq, t, verseq', next')
    BY DEF TokenInv, ChainInv, Enqueued
  <2>2. Chained(Members \cup {t}, verseq', next', t, tail_verseq + 1)
    BY ONLY <2>1, <1>5, ChainAppend
  <2>3. QED
    BY <2>2, <1>3 DEF ChainInv, Enqueued
<1>7. \A u \in Members : verseq'[u] = verseq[u] /\ verseq[u] <= verseq'[t]
  <2>1. \A u \in Members : verseq[u] <= tail_verseq /\ verseq[u] \in Nat
    BY <1>5 DEF TokenInv, ChainInv, Chained
  <2>2. verseq'[t] = tail_verseq + 1 /\ \A u \in Tokens \ {t} : verseq'[u] = verseq[u]
    BY DEF Enqueued, Appended
  <2>3. QED
    BY <2>1, <2>2, <1>5 DEF Members
<1>8. FirstFor(t)' /\ HeadFor(t)'
  <2>1. CASE tail = NULL
    <3>1. Members = {} /\ dummy_next' = t
      BY <2>1, <1>1, <1>5 DEF TokenInv, ChainInv, Chained, Enqueued
    <3>2. dummy_next = NULL /\ \A x \in Tokens : ~is_head[x]
      BY <3>1, <1>1 DEF FirstFor, HeadFor, IsFirst
    <3>3. Members' = {t} /\ verseq'[t] \in Nat
      BY <3>1, <1>3, <1>5 DEF Enqueued, Appended
    <3>4. IsFirst(dummy_next', Members', verseq')
      BY <3>1, <3>3 DEF IsFirst
    <3>5. QED
      BY <3>2, <3>4, <1>2 DEF FirstFor, HeadFor
  <2>2. CASE tail # NULL
    <3>1. Members # {} /\ dummy_next' = dummy_next
      BY <2>2 DEF TokenInv, ChainInv, Chained, Enqueued
    <3>2. IsFirst(dummy_next, Members, verseq)
      BY <3>1, <1>1 DEF FirstFor
    <3>3. IsFirst(dummy_next, Members \cup {t}, verseq')
      <4>1. dummy_next \in Members /\ \A u \in Members : verseq[dummy_next] <= verseq[u]
        BY <3>2 DEF IsFirst
      <4>2. \A u \in Members : verseq'[dummy_next] <= verseq'[u]
        BY <4>1, <1>7
      <4>3. verseq'[dummy_next] <= verseq'[t]
        BY <4>1, <1>7
      <4>4. QED
        BY <4>1, <4>2, <4>3 DEF IsFirst
    <3>4. QED
      BY <3>1, <3>3, <1>1, <1>2, <1>3 DEF FirstFor, HeadFor
  <2>3. QED
    BY <2>1, <2>2
<1>9. WalkFor(t)'
  BY <1>1, <1>2 DEF WalkFor
<1>10. StageFor(t)' /\ LinksAll'
  BY <1>1, <1>2, TailHasNoNext, LinksAppend DEF StageFor, NextSet, AgeSet
<1>11. AgeAll'
  BY <1>1, <1>3, AgeAllAppend DEF DataTyped
<1>12. AgeFor(t)'
  BY <1>2 DEF AgeFor
<1>13. QlenFor(t)'
  <2>1. Cardinality(Members') = Cardinality(Members) + 1 /\ Cardinality(Members) \in Nat
    BY <1>3, <1>5, MembersFinite, FS_AddElement
  <2>2. QED
    BY <2>1, <1>1, <1>2 DEF QlenFor, DataTyped
<1>14. QED
  BY <1>2, <1>3, <1>4, <1>6, <1>8, <1>9, <1>10, <1>11, <1>12, <1>13 DEF QueueFor

-----------------------------------------------------------------------------
(* The remaining steps at the lock.                                          *)

\* reclaim_head starts at the head of the queue.
LEMMA StartReclaim ==
    ASSUME TokenInv, NEW t \in Tokens, Alone(t), pc[t] = "rec_check", Moves(t, "rec", loc'[t]),
           loc'[t].curr = dummy_next, loc'[t].delptrs = loc[t].delptrs, loc'[t].resume = loc[t].resume,
           state' = state, is_head' = is_head, QueueSame
    PROVE  HolderFrame(t, t) /\ Members' = Members /\ DelInv' /\ ChainInv' /\ QueueFor(t)'
<1> USE DEF WalkPcs, DeqPcs, LivePcs, IdlePcs, WaitPcs, KeepPcs, RecPcs, Done
<1>1. /\ FirstFor(t) /\ HeadFor(t) /\ WalkFor(t) /\ LinksAll /\ AgeAll /\ QlenFor(t) /\ Local(t)
  BY HolderSees DEF QueueFor, TokenInv
<1>2. /\ HolderFrame(t, t) /\ pc'[t] = "rec"
      /\ \A u \in Tokens \ {t} : pc'[u] = pc[u] /\ loc'[u] = loc[u]
  BY DEF Moves, HolderFrame
<1>3. Members' = Members /\ DelInv'
  <2>1. OwnLinked(t)' <=> OwnLinked(t)
    BY <1>2 DEF OwnLinked
  <2>2. QED
    BY <1>2, <2>1, SameMembers, DelKept
<1>4. Linked(t)
  BY <1>1 DEF TokenInv, DelInv, Linked, Local
<1>5. FirstFor(t)'
  <2>1. Members # {}
    BY <1>4 DEF Members
  <2>2. QED
    BY <2>1, <1>1, <1>2, <1>3 DEF FirstFor, QueueSame, LinksKept
<1>6. HeadFor(t)'
  BY <1>1, <1>2 DEF HeadFor
<1>7. WalkFor(t)'
  BY <1>1, <1>2 DEF WalkFor
<1>8. StageFor(t)' /\ LinksAll'
  BY <1>1, <1>2 DEF StageFor, LinksAll, QueueSame, LinksKept, NextSet, AgeSet
<1>9. ChainInv' /\ AgeAll'
  BY <1>1, <1>3 DEF TokenInv, ChainInv, QueueSame, LinksKept, AgeAll
<1>10. AgeFor(t)' /\ QlenFor(t)'
  BY <1>1, <1>2, <1>3 DEF AgeFor, QlenFor, QueueSame
<1>11. QED
  BY <1>2, <1>3, <1>5, <1>6, <1>7, <1>8, <1>9, <1>10 DEF QueueFor

\* mt_release ends.
LEMMA FinishQueue ==
    ASSUME TokenInv, NEW t \in Tokens, Alone(t), pc[t] \in {"rel_finish", "rel_idle_finish"},
           Moves(t, pc'[t], loc'[t]), pc'[t] \in {"out", "dispose", "del_tokens"}, loc'[t].delptrs = loc[t].delptrs,
           TouchesOnly(t), state'[t] = "ReleaseDone", ~is_head'[t],
           \A u \in Tokens \ {t} : min_age'[u] = min_age[u],
           min_age'[t] = IF loc[t].ok THEN verseq[t] ELSE min_age[t],
           qlen' = IF pc[t] = "rel_finish" THEN qlen - 1 ELSE qlen,
           UNCHANGED <<next, verseq, dummy_next, dummy_min_age, tail, tail_verseq>>
    PROVE  HolderFrame(t, t) /\ ~Linked(t) /\ Members' = Members /\ DelInv' /\ ChainInv' /\ QueueFor(t)'
<1> USE DEF WalkPcs, DeqPcs, LivePcs, IdlePcs, WaitPcs, KeepPcs, RecPcs, Done
<1>1. /\ FirstFor(t) /\ HeadFor(t) /\ WalkFor(t) /\ LinksAll /\ AgeAll /\ AgeFor(t) /\ QlenFor(t) /\ Local(t)
      /\ DataTyped
  BY HolderSees, TypeParts DEF QueueFor, TokenInv
<1>2. /\ HolderFrame(t, t)
      /\ \A u \in Tokens \ {t} : pc'[u] = pc[u] /\ loc'[u] = loc[u]
  BY DEF Moves, HolderFrame, TouchesOnly
<1>3. ~OwnLinked(t) /\ ~OwnLinked(t)' /\ loc[t].resume = pc[t]
  BY <1>1 DEF OwnLinked, Local
<1>4. Members' = Members /\ DelInv' /\ ~Linked(t)
  <2>1. ~Linked(t)
    BY <1>3 DEF Linked, OwnLinked
  <2>2. QED
    BY <1>2, <1>3, <2>1, SameMembers, DelKept
<1>5. FirstFor(t)' /\ ChainInv'
  BY <1>1, <1>4 DEF FirstFor, TokenInv, ChainInv
<1>6. HeadFor(t)'
  BY <1>1 DEF HeadFor, TouchesOnly
<1>7. WalkFor(t)'
  BY <1>1 DEF WalkFor, TouchesOnly
<1>8. StageFor(t)' /\ LinksAll'
  BY <1>1, <1>2 DEF StageFor, LinksAll, NextSet, AgeSet
<1>9. AgeAll'
  <2>1. loc[t].ok => verseq[t] <= dummy_min_age /\ \A u \in Members : verseq[t] <= verseq[u]
    BY <1>1, <1>3 DEF AgeFor
  <2>2. loc[t].ok => verseq[t] <= tail_verseq
    BY <2>1, <1>1 DEF AgeAll, DataTyped
  <2>3. \A w \in Tokens : min_age'[w] = min_age[w] \/ (loc[t].ok /\ min_age'[w] = verseq[t])
    OBVIOUS
  <2>4. QED
    BY <2>1, <2>2, <2>3, <1>1, <1>4 DEF AgeAll
<1>10. AgeFor(t)'
  BY DEF AgeFor
<1>11. QlenFor(t)'
  <2>1. qlen \in Nat /\ Cardinality(Members) \in Nat /\ Cardinality(Members') = Cardinality(Members)
    BY <1>1, <1>4, MembersFinite DEF DataTyped
  <2>2. qlen >= Cardinality(Members) /\ (pc[t] = "rel_finish" => qlen > Cardinality(Members))
    BY <1>1, <1>3 DEF QlenFor
  <2>3. qlen' >= Cardinality(Members')
    BY <2>1, <2>2
  <2>4. QED
    BY <2>3 DEF QlenFor
<1>12. QED
  BY <1>2, <1>4, <1>5, <1>6, <1>7, <1>8, <1>9, <1>10, <1>11 DEF QueueFor

\* mt_update of a token that is alone.
LEMMA BumpQueue ==
    ASSUME TokenInv, NEW t \in Tokens, Alone(t), pc[t] = "upd_bump", next[t] = NULL, is_head[t],
           Moves(t, "bump_age", loc'[t]), loc'[t].delptrs = loc[t].delptrs, loc'[t].resume = loc[t].resume,
           state' = state, is_head' = is_head,
           verseq' = [verseq EXCEPT ![t] = @ + 1], tail_verseq' = verseq[t] + 1,
           UNCHANGED <<next, min_age, dummy_next, dummy_min_age, tail, qlen>>
    PROVE  /\ HolderFrame(t, t) /\ Members = {t} /\ tail_verseq = verseq[t] /\ Members' = Members
           /\ DelInv' /\ ChainInv' /\ QueueFor(t)'
<1> USE DEF WalkPcs, DeqPcs, LivePcs, IdlePcs, WaitPcs, KeepPcs, RecPcs, Done
<1>1. /\ FirstFor(t) /\ HeadFor(t) /\ WalkFor(t) /\ LinksAll /\ AgeAll /\ AgeFor(t) /\ QlenFor(t) /\ Local(t)
      /\ DataTyped /\ t # NULL
  BY HolderSees, TypeParts, TokensAssumption DEF QueueFor, TokenInv
<1>2. /\ HolderFrame(t, t)
      /\ \A u \in Tokens \ {t} : pc'[u] = pc[u] /\ loc'[u] = loc[u]
  BY DEF Moves, HolderFrame
<1>0. pc'[t] = "bump_age"
  BY DEF Moves
<1>3. Members' = Members /\ DelInv'
  <2>1. OwnLinked(t)' <=> OwnLinked(t)
    BY <1>0, <1>1 DEF OwnLinked, Local
  <2>2. QED
    BY <1>2, <2>1, SameMembers, DelKept
<1>4. IsFirst(t, Members, verseq)
  <2>1. t = dummy_next
    BY <1>1 DEF HeadFor
  <2>2. QED
    BY <2>1, <1>1 DEF FirstFor
<1>5. t = tail /\ verseq[t] = tail_verseq /\ Members = {t}
  <2>1. verseq \in [Tokens -> Nat] /\ tail_verseq \in Nat /\ Members \in SUBSET Tokens
    BY <1>1 DEF DataTyped, Members
  <2>2. Chained(Members, verseq, next, tail, tail_verseq)
    BY DEF TokenInv, ChainInv
  <2>3. QED
    BY ONLY <2>1, <2>2, <1>4, next[t] = NULL, FirstIsLast
<1>6. /\ verseq[t] \in Nat /\ verseq'[t] = verseq[t] + 1 /\ dummy_min_age \in Nat
      /\ \A w \in Tokens : min_age[w] \in Nat
  BY <1>1 DEF DataTyped
<1>7. ChainInv'
  BY <1>3, <1>5, <1>6 DEF ChainInv, Chained
<1>8. FirstFor(t)'
  <2>1. dummy_next' = t
    BY <1>1 DEF HeadFor
  <2>2. IsFirst(dummy_next', Members', verseq')
    BY <2>1, <1>3, <1>5, <1>6 DEF IsFirst
  <2>3. QED
    BY <2>2, <1>0 DEF FirstFor
<1>9. HeadFor(t)'
  BY <1>0, <1>1 DEF HeadFor
<1>10. WalkFor(t)'
  BY <1>0, <1>1 DEF WalkFor
<1>11. StageFor(t)' /\ LinksAll'
  BY <1>0, <1>1, <1>2 DEF StageFor, LinksAll, NextSet, AgeSet
<1>12. AgeAll'
  <2>1. dummy_min_age <= verseq[t] + 1 /\ \A w \in Tokens : min_age[w] <= verseq[t] + 1
    BY <1>1, <1>5, <1>6 DEF AgeAll
  <2>2. QED
    BY <2>1, <1>3, <1>5, <1>6 DEF AgeAll
<1>13. AgeFor(t)'
  BY <1>0 DEF AgeFor
<1>14. QlenFor(t)'
  BY <1>0, <1>1, <1>3 DEF QlenFor
<1>15. QED
  BY <1>2, <1>3, <1>5, <1>7, <1>8, <1>9, <1>10, <1>11, <1>12, <1>13, <1>14 DEF QueueFor

\* Then it tells the trie and itself.
LEMMA TellQueue ==
    ASSUME TokenInv, NEW t \in Tokens, Alone(t), pc[t] \in BumpPcs, Moves(t, pc'[t], loc'[t]),
           pc'[t] \in {"bump_tell", "out", "idle"}, loc'[t].delptrs = loc[t].delptrs, loc'[t].resume = loc[t].resume,
           state' = state, is_head' = is_head, Stores(t), dummy_next' = dummy_next
    PROVE  HolderFrame(t, t) /\ IsFirst(t, Members, verseq) /\ Members' = Members /\ DelInv' /\ ChainInv' /\ QueueFor(t)'
<1> USE DEF WalkPcs, DeqPcs, LivePcs, IdlePcs, WaitPcs, KeepPcs, RecPcs, BumpPcs, Done
<1>1. /\ FirstFor(t) /\ HeadFor(t) /\ WalkFor(t) /\ LinksAll /\ AgeAll /\ QlenFor(t) /\ Local(t)
      /\ DataTyped /\ t # NULL
  BY HolderSees, TypeParts, TokensAssumption DEF QueueFor, TokenInv
<1>2. /\ HolderFrame(t, t)
      /\ \A u \in Tokens \ {t} : pc'[u] = pc[u] /\ loc'[u] = loc[u]
  BY DEF Moves, HolderFrame
<1>3. Members' = Members /\ DelInv'
  <2>1. OwnLinked(t)' <=> OwnLinked(t)
    BY <1>1 DEF OwnLinked, Local
  <2>2. QED
    BY <1>2, <2>1, SameMembers, DelKept
<1>4. IsFirst(t, Members, verseq)
  <2>1. t = dummy_next
    BY <1>1 DEF HeadFor, Local
  <2>2. QED
    BY <2>1, <1>1 DEF FirstFor
<1>5. ChainInv' /\ AgeAll'
  BY <1>1, <1>3, <1>4, AgeAllStores DEF TokenInv, ChainInv, Stores
<1>6. FirstFor(t)' /\ HeadFor(t)'
  BY <1>1, <1>3 DEF FirstFor, HeadFor, Stores
<1>7. WalkFor(t)' /\ StageFor(t)' /\ LinksAll'
  BY <1>1, <1>2 DEF WalkFor, StageFor, LinksAll, Stores, NextSet, AgeSet
<1>8. AgeFor(t)' /\ QlenFor(t)'
  BY <1>1, <1>3 DEF AgeFor, QlenFor, Stores
<1>9. QED
  BY <1>2, <1>3, <1>4, <1>5, <1>6, <1>7, <1>8 DEF QueueFor

-----------------------------------------------------------------------------
(* The steps of a walk.                                                      *)

\* A walk that was started by mt_update does not end at a token that waits: it would
\* have met its own.
LEMMA WaitingTailAlone ==
    ASSUME TokenInv, NEW t \in Tokens, NEW c, c = loc[t].curr, pc[t] = "deq", next[c] = NULL, state[c] # "AcquireDone"
    PROVE  loc[t].resume # "upd_finish"
<1>1. IsFirst(c, Members, verseq) /\ Local(t) /\ DataTyped /\ \A u \in Tokens : t \notin loc[u].delptrs
  BY WalkerSees DEF WalkPcs, DeqPcs, LivePcs, IdlePcs, WaitPcs, KeepPcs
<1>2. verseq \in [Tokens -> Nat] /\ tail_verseq \in Nat /\ Members \in SUBSET Tokens
  BY <1>1 DEF DataTyped, Members
<1>3. Chained(Members, verseq, next, tail, tail_verseq)
  BY DEF TokenInv, ChainInv
<1>4. Members = {c}
  BY <1>1, <1>2, <1>3, FirstIsLast
<1>5. loc[t].resume = "upd_finish" => state[t] = "AcquireDone" /\ Linked(t)
  BY <1>1 DEF Local, Linked
<1>6. QED
  BY <1>4, <1>5 DEF Members

\* What a walk does to the queue at the token c: nothing or one of the stores, c leaves, the
\* link of a token that has left is cleared, or c goes to the tail.
WalkEffect(c) ==
    \/ Stores(c) /\ (dummy_min_age' = dummy_min_age \/ min_age' = min_age) /\ Members' = Members
    \/ LinksKept /\ Members' = Members \ {c} /\ state[c] # "AcquireDone"
    \/ /\ \E d \in Tokens \ Members : verseq' = [verseq EXCEPT ![d] = 0]
       /\ UNCHANGED <<min_age, dummy_min_age, tail_verseq>> /\ Members' = Members
    \/ /\ Enqueued(c) /\ min_age' = [min_age EXCEPT ![c] = verseq[c]] /\ dummy_min_age' = dummy_min_age
       /\ Members' = Members /\ state[c] # "AcquireDone"

\* A step of the walk of t at the token c.
WalkStep(t, c) ==
    /\ Alone(t) /\ HolderStep(t) /\ c \in Tokens /\ Linked(c) /\ IsFirst(c, Members, verseq)
    /\ pc[t] \in WalkPcs /\ pc'[t] \in LockPcs
    /\ TouchesOnly(c) /\ (state'[c] = "AcquireDone" <=> state[c] = "AcquireDone")
    /\ WalkEffect(c)

\* A walk that marks its token, or makes one of the stores, and goes on.
LEMMA MarkStep ==
    ASSUME TokenInv, NEW t \in Tokens, NEW c, c = loc[t].curr, NEW l \in WalkPcs \ {"rec_clear"},
           pc[t] \in WalkPcs \ {"rec_clear"}, Goto(t, l), l \in DeqPcs <=> pc[t] \in DeqPcs,
           DataTyped', head_lock' = head_lock, TouchesOnly(c), Rely(c),
           state'[c] = "AcquireDone" <=> state[c] = "AcquireDone",
           Stores(c), dummy_min_age' = dummy_min_age \/ min_age' = min_age, Marks(t, c)
    PROVE  WalkStep(t, c)
<1> USE DEF Done, DeqPcs, LivePcs, IdlePcs, WaitPcs, KeepPcs, RecPcs, WalkPcs
<1>1. /\ Alone(t) /\ PcTyped /\ DataTyped /\ Local(t) /\ loc[t] \in Locals
      /\ c \in Tokens /\ Linked(c) /\ Local(c) /\ IsFirst(c, Members, verseq)
  BY WalkerSees
<1>2. l \in PcLabel
  BY DEF PcLabel
<1>3. Moves(t, l, loc[t]) /\ PcTyped' /\ pc'[t] = l /\ loc'[t] = loc[t]
  BY <1>1, <1>2, GotoMoves DEF Moves
<1>4. Local(t)'
  <2>1. CASE c # t
    <3>1. state'[t] = state[t] /\ (is_head'[t] <=> is_head[t])
      BY <2>1 DEF TouchesOnly
    <3>2. QED
      BY <1>1, <1>3, <3>1 DEF Local, BumpPcs
  <2>2. CASE c = t
    <3>1. loc[t].resume # "rel_finish" /\ state[t] # "ReleaseDone"
      BY <1>1, <2>2 DEF Linked
    <3>2. state[t] = "AcquireDone"
      BY <1>1, <3>1 DEF Local
    <3>3. QED
      BY <1>1, <1>3, <2>2, <3>1, <3>2 DEF Local, BumpPcs
  <2>3. QED
    BY <2>1, <2>2
<1>5. LockRule(t) /\ Others(t)
  <2>1. LockRule(t)
    BY <1>3 DEF LockRule, LockPcs
  <2>2. \A u \in Tokens \ {c} : Rely(u)
    BY <1>1 DEF TouchesOnly, Rely, DataTyped
  <2>3. QED
    BY <2>1, <2>2, <1>3 DEF Others, Moves
<1>6. Members' = Members /\ DelInv' /\ ChainInv' /\ QueueFor(t)'
  <2>1. Moves(t, pc'[t], loc[t]) /\ pc'[t] \in WalkPcs \ {"rec_clear"} /\ (pc'[t] \in DeqPcs <=> pc[t] \in DeqPcs)
    BY <1>3
  <2>2. QED
    BY <2>1, MarkQueue
<1>7. WalkEffect(c) /\ pc'[t] \in LockPcs
  BY <1>3, <1>6 DEF WalkEffect, LockPcs
<1>8. QED
  BY <1>1, <1>3, <1>4, <1>5, <1>6, <1>7 DEF WalkStep, HolderStep

\* Nothing is stored.
LEMMA NoStore ==
    ASSUME NEW c \in Tokens, LinksKept, qlen' = qlen
    PROVE  Stores(c) /\ min_age' = min_age
  BY DEF LinksKept, Stores

\* A store of a walk that has marked its token: the marks stay.
LEMMA StoreStep ==
    ASSUME TokenInv, NEW t \in Tokens, NEW c, c = loc[t].curr, NEW l, Goto(t, l),
           \/ pc[t] \in LivePcs /\ l \in LivePcs
           \/ pc[t] \in IdlePcs /\ l \in IdlePcs
           \/ pc[t] \in WaitPcs /\ l \in WaitPcs
           \/ pc[t] \in RecPcs \ {"rec", "rec_clear", "rec_idle"} /\ l \in RecPcs \ {"rec", "rec_clear", "rec_idle"},
           DataTyped', head_lock' = head_lock, state' = state, is_head' = is_head,
           Stores(c), dummy_min_age' = dummy_min_age \/ min_age' = min_age,
           l \in NextSet => dummy_next' = c, l \in AgeSet => dummy_min_age' = verseq[c]
    PROVE  WalkStep(t, c)
<1> USE DEF Done, DeqPcs, LivePcs, IdlePcs, WaitPcs, KeepPcs, RecPcs, WalkPcs
<1>1. /\ PcTyped /\ WalkFor(t) /\ HeadFor(t) /\ c \in Tokens /\ Linked(c) /\ l \in PcLabel
  BY WalkerSees DEF QueueFor, PcLabel
<1>2. pc'[t] = l
  BY <1>1, GotoMoves DEF Moves
<1>3. state[c] \notin {"ReleaseDone", "DisposeDone"} /\ (c = t => loc[t].resume # "rel_finish")
  BY <1>1 DEF Linked
<1>4. is_head[c] => l \in LivePcs \cup RecPcs
  BY <1>1, <1>3 DEF HeadFor
<1>5. /\ (state[c] = "AcquireLock" <=> l \in KeepPcs) /\ l # "rec_idle"
      /\ l \in WaitPcs => loc[t].resume # "upd_finish"
  BY <1>1 DEF WalkFor
<1>6. Marks(t, c)
  BY <1>2, <1>3, <1>4, <1>5 DEF Marks
<1>7. TouchesOnly(c) /\ Rely(c)
  BY DEF TouchesOnly, Rely
<1>8. QED
  BY <1>6, <1>7, MarkStep

\* A walk that ends.
LEMMA EndStep ==
    ASSUME TokenInv, NEW t \in Tokens, NEW c, c = loc[t].curr, NEW l, NEW m \in Locals, Go(t, l, m),
           \/ pc[t] \in DeqPcs \ {"deq"} /\ l = loc[t].resume /\ m = Answer(loc[t], pc[t] \notin WaitPcs)
           \/ pc[t] = "rec_tell" /\ l = "rec_unlock" /\ m = loc[t],
           DataTyped', head_lock' = head_lock, TouchesOnly(c), Rely(c),
           state'[c] = "AcquireDone" <=> state[c] = "AcquireDone",
           state'[c] \notin {"ReleaseDone", "DisposeDone", "AcquireLock"},
           is_head'[c] => is_head[c] \/ (pc[t] \in IdlePcs /\ state'[c] # "AcquireDone"),
           Stores(c), dummy_min_age' = dummy_min_age, dummy_next' = c, dummy_min_age' = verseq[c]
    PROVE  WalkStep(t, c)
<1> USE DEF Done, DeqPcs, LivePcs, IdlePcs, WaitPcs, KeepPcs, RecPcs, WalkPcs
<1>1. /\ Alone(t) /\ PcTyped /\ DataTyped /\ Local(t) /\ loc[t] \in Locals /\ WalkFor(t)
      /\ c \in Tokens /\ Linked(c) /\ IsFirst(c, Members, verseq)
  BY WalkerSees DEF QueueFor
<1>2. l \in Done \cup {"rec_unlock"} /\ l \in PcLabel /\ (l \in Done <=> pc[t] \in DeqPcs)
  BY <1>1 DEF Local, PcLabel
<1>3. Moves(t, l, m) /\ PcTyped' /\ pc'[t] = l /\ loc'[t] = m
  BY <1>1, <1>2, GoMoves DEF Moves
<1>4. /\ m.caller = loc[t].caller /\ m.resume = loc[t].resume /\ m.delptrs = loc[t].delptrs
      /\ l \in Done => m.ok = (pc[t] \notin WaitPcs)
  <2>1. (pc[t] \notin WaitPcs) \in BOOLEAN
    OBVIOUS
  <2>2. CASE m = Answer(loc[t], pc[t] \notin WaitPcs)
    BY <1>1, <2>1, <2>2, AnswerFields
  <2>3. CASE l = "rec_unlock" /\ m = loc[t]
    BY <2>3
  <2>4. QED
    BY <2>2, <2>3
<1>5. l = "upd_finish" => m.ok
  BY <1>1, <1>2, <1>4 DEF WalkFor
<1>6. Local(t)'
  <2>1. CASE c # t
    <3>1. state'[t] = state[t] /\ (is_head'[t] <=> is_head[t])
      BY <2>1 DEF TouchesOnly
    <3>2. QED
      BY <1>1, <1>2, <1>3, <1>4, <1>5, <3>1 DEF Local, BumpPcs
  <2>2. CASE c = t
    <3>1. loc[t].resume # "rel_finish" /\ state[t] # "ReleaseDone"
      BY <1>1, <2>2 DEF Linked
    <3>2. state[t] = "AcquireDone" /\ loc[t].resume # "rel_idle_finish"
      BY <1>1, <3>1 DEF Local
    <3>3. QED
      BY <1>1, <1>2, <1>3, <1>4, <1>5, <2>2, <3>1, <3>2 DEF Local, BumpPcs
  <2>3. QED
    BY <2>1, <2>2
<1>7. LockRule(t) /\ Others(t)
  <2>1. LockRule(t)
    BY <1>2, <1>3 DEF LockRule, LockPcs
  <2>2. \A u \in Tokens \ {c} : Rely(u)
    BY <1>1 DEF TouchesOnly, Rely, DataTyped
  <2>3. QED
    BY <2>1, <2>2, <1>3 DEF Others, Moves
<1>8. Members' = Members /\ DelInv' /\ ChainInv' /\ QueueFor(t)'
  <2>1. /\ Moves(t, pc'[t], loc'[t]) /\ loc'[t].delptrs = loc[t].delptrs /\ loc'[t].resume = loc[t].resume
        /\ \/ pc[t] \in DeqPcs /\ pc'[t] = loc[t].resume
           \/ pc[t] \in RecPcs /\ pc'[t] = "rec_unlock"
    BY <1>3, <1>4
  <2>2. is_head'[c] => is_head[c] \/ pc[t] \in IdlePcs
    OBVIOUS
  <2>3. QED
    BY <2>1, <2>2, SetHeadQueue
<1>9. WalkEffect(c) /\ pc'[t] \in LockPcs
  BY <1>2, <1>3, <1>8 DEF WalkEffect, LockPcs
<1>10. QED
  BY <1>1, <1>3, <1>6, <1>7, <1>8, <1>9 DEF WalkStep, HolderStep

\* The stores by which a walk makes its token the head.
LEMMA StoreActions ==
    ASSUME TokenInv, NEW t \in Tokens, NEW c, c = loc[t].curr, pc[t] \notin BumpPcs
    PROVE  /\ StoreNext(t) => WalkStep(t, c)
           /\ StoreAge(t) => WalkStep(t, c)
           /\ StoreHeadFlags(t) => WalkStep(t, c)
           /\ StoreMinAge(t) => WalkStep(t, c)
           /\ DequeueIdleDone(t) => WalkStep(t, c)
<1> USE DEF tokenVars, queueVars, headVars, Done, DeqPcs, LivePcs, IdlePcs, WaitPcs, KeepPcs, RecPcs, WalkPcs, BumpPcs
<1>a. /\ After["live_age"] = "live_next" /\ After["live_next"] = "live_tell" /\ After["idle_next"] = "idle_age"
      /\ After["idle_age"] = "idle_flag" /\ After["idle_flag"] = "idle_tell" /\ After["idle_tell"] = "idle_open"
      /\ After["wait_next"] = "wait_age" /\ After["wait_age"] = "wait_tell" /\ After["rec_next"] = "rec_age"
      /\ After["rec_age"] = "rec_dead" /\ After["rec_dead"] = "rec_tell" /\ After["rec_tell"] = "rec_unlock"
  BY DEF After
<1>b. ASSUME pc[t] \in WalkPcs
      PROVE  /\ c \in Tokens /\ DataTyped /\ StageFor(t) /\ WalkFor(t) /\ Local(t) /\ loc[t] \in Locals
             /\ Linked(c) /\ verseq[c] \in Nat
  BY <1>b, WalkerSees DEF QueueFor, DataTyped
<1>1. ASSUME StoreNext(t) PROVE WalkStep(t, c)
  <2>1. /\ pc[t] \in {"live_next", "idle_next", "wait_next", "rec_next"} /\ Goto(t, After[pc[t]])
        /\ dummy_next' = c /\ state' = state /\ is_head' = is_head /\ head_lock' = head_lock
        /\ UNCHANGED <<next, verseq, min_age, dummy_min_age, tail, tail_verseq, qlen, head_is_dead, head_is_idle>>
    BY <1>1 DEF StoreNext
  <2>2. c \in Tokens /\ DataTyped /\ StageFor(t)
    BY <2>1, <1>b
  <2>3. Stores(c) /\ DataTyped'
    BY <2>1, <2>2 DEF Stores, DataTyped, Link
  <2>4. After[pc[t]] \in AgeSet => dummy_min_age' = verseq[c]
    BY <2>1, <2>2, <1>a DEF StageFor, AgeSet
  <2>5. QED
    BY <2>1, <2>3, <2>4, <1>a, StoreStep
<1>2. ASSUME StoreAge(t) PROVE WalkStep(t, c)
  <2>1. /\ pc[t] \in {"live_age", "idle_age", "wait_age", "rec_age"} /\ Goto(t, After[pc[t]])
        /\ dummy_min_age' = verseq[c] /\ state' = state /\ is_head' = is_head /\ head_lock' = head_lock
        /\ UNCHANGED <<next, verseq, min_age, dummy_next, tail, tail_verseq, qlen, head_is_dead, head_is_idle>>
    BY <1>2 DEF StoreAge
  <2>2. c \in Tokens /\ DataTyped /\ StageFor(t) /\ verseq[c] \in Nat
    BY <2>1, <1>b
  <2>3. Stores(c) /\ DataTyped'
    BY <2>1, <2>2 DEF Stores, DataTyped
  <2>4. After[pc[t]] \in NextSet => dummy_next' = c
    BY <2>1, <2>2, <1>a DEF StageFor, NextSet
  <2>5. QED
    BY <2>1, <2>3, <2>4, <1>a, StoreStep
<1>3. ASSUME StoreHeadFlags(t) PROVE WalkStep(t, c)
  <2>1. /\ pc[t] \in {"idle_flag", "rec_dead"} /\ Goto(t, After[pc[t]]) /\ LinksKept /\ qlen' = qlen
        /\ state' = state /\ is_head' = is_head /\ head_lock' = head_lock
    BY <1>3 DEF StoreHeadFlags, LinksKept
  <2>2. c \in Tokens /\ DataTyped /\ StageFor(t)
    BY <2>1, <1>b
  <2>3. Stores(c) /\ min_age' = min_age
    BY <2>1, <2>2, NoStore
  <2>4. DataTyped'
    BY <1>3, <2>2 DEF StoreHeadFlags, DataTyped
  <2>5. dummy_next' = c /\ dummy_min_age' = verseq[c]
    BY <2>1, <2>2 DEF StageFor, NextSet, AgeSet, LinksKept
  <2>6. QED
    BY <2>1, <2>3, <2>4, <2>5, <1>a, StoreStep
<1>4. ASSUME StoreMinAge(t) PROVE WalkStep(t, c)
  <2>1. /\ pc[t] \in {"live_tell", "wait_tell", "idle_tell", "rec_tell"}
        /\ min_age' = [min_age EXCEPT ![c] = verseq[c]] /\ state' = state /\ is_head' = is_head /\ head_lock' = head_lock
        /\ UNCHANGED <<next, verseq, dummy_next, dummy_min_age, tail, tail_verseq, qlen, head_is_dead, head_is_idle>>
    BY <1>4 DEF StoreMinAge
  <2>2. /\ c \in Tokens /\ DataTyped /\ StageFor(t) /\ WalkFor(t) /\ loc[t] \in Locals /\ Linked(c) /\ verseq[c] \in Nat
    BY <2>1, <1>b
  <2>3. Stores(c) /\ DataTyped'
    BY <2>1, <2>2 DEF Stores, DataTyped
  <2>4. dummy_next' = c /\ dummy_min_age' = verseq[c]
    BY <2>1, <2>2 DEF StageFor, NextSet, AgeSet
  <2>5. TouchesOnly(c) /\ Rely(c)
    BY <2>1 DEF TouchesOnly, Rely
  <2>6. CASE pc[t] = "idle_tell"
    <3>1. Goto(t, "idle_open")
      BY <1>4, <2>6, <1>a DEF StoreMinAge
    <3>2. QED
      BY <2>1, <2>3, <2>4, <2>6, <3>1, StoreStep
  <2>7. CASE pc[t] # "idle_tell"
    <3>1. state[c] \notin {"ReleaseDone", "DisposeDone", "AcquireLock"}
      BY <2>1, <2>2, <2>7 DEF Linked, WalkFor
    <3>2. CASE pc[t] \in {"live_tell", "wait_tell"}
      <4>1. Go(t, loc[t].resume, Answer(loc[t], pc[t] = "live_tell"))
        BY <1>4, <3>2 DEF StoreMinAge
      <4>2. (pc[t] = "live_tell") = (pc[t] \notin WaitPcs)
        BY <3>2
      <4>3. Go(t, loc[t].resume, Answer(loc[t], pc[t] \notin WaitPcs))
        BY ONLY <4>1, <4>2
      <4>4. Answer(loc[t], pc[t] \notin WaitPcs) \in Locals
        BY <2>2, AnswerFields
      <4>5. QED
        BY <2>1, <2>3, <2>4, <2>5, <3>1, <3>2, <4>3, <4>4, EndStep
    <3>3. CASE pc[t] = "rec_tell"
      <4>1. Go(t, "rec_unlock", loc[t])
        BY <1>4, <3>3, <1>a DEF StoreMinAge, Goto
      <4>2. QED
        BY <2>1, <2>2, <2>3, <2>4, <2>5, <3>1, <3>3, <4>1, EndStep
    <3>4. QED
      BY <2>1, <2>7, <3>2, <3>3
  <2>8. QED
    BY <2>6, <2>7
<1>5. ASSUME DequeueIdleDone(t) PROVE WalkStep(t, c)
  <2>1. pc[t] = "idle_open" /\ LinksKept /\ qlen' = qlen /\ head_lock' = head_lock
        /\ Go(t, loc[t].resume, Answer(loc[t], TRUE)) /\ UNCHANGED <<head_is_dead, head_is_idle>>
    BY <1>5 DEF DequeueIdleDone, LinksKept
  <2>2. /\ c \in Tokens /\ DataTyped /\ StageFor(t) /\ WalkFor(t) /\ loc[t] \in Locals
    BY <2>1, <1>b
  <2>3. state[c] = "AcquireLock"
    BY <2>1, <2>2 DEF WalkFor
  <2>4. Stores(c) /\ min_age' = min_age /\ dummy_min_age' = dummy_min_age
    BY <2>1, <2>2, NoStore DEF LinksKept
  <2>5. /\ TouchesOnly(c) /\ state'[c] = "AcquireIdle" /\ state' \in [Tokens -> TokenState] /\ is_head' \in [Tokens -> BOOLEAN]
    BY <1>5, <2>2 DEF DequeueIdleDone, SetFlags, TouchesOnly, DataTyped, TokenState
  <2>6. DataTyped' /\ Rely(c)
    BY <2>1, <2>2, <2>3, <2>5 DEF DataTyped, LinksKept, Rely
  <2>7. dummy_next' = c /\ dummy_min_age' = verseq[c]
    BY <2>1, <2>2 DEF StageFor, NextSet, AgeSet, LinksKept
  <2>8. (pc[t] \notin WaitPcs) = TRUE
    BY <2>1
  <2>9. Go(t, loc[t].resume, Answer(loc[t], pc[t] \notin WaitPcs)) /\ Answer(loc[t], pc[t] \notin WaitPcs) \in Locals
    BY <2>1, <2>2, <2>8, AnswerFields
  <2>10. QED
    BY <2>1, <2>3, <2>4, <2>5, <2>6, <2>7, <2>9, EndStep
<1>6. QED
  BY <1>1, <1>2, <1>3, <1>4, <1>5

\* The actions by which dequeue and reclaim_head look at a token and pass it, one by one.
LEMMA WalkActions ==
    ASSUME TokenInv, NEW t \in Tokens, NEW c, c = loc[t].curr
    PROVE  /\ DequeueLive(t) => WalkStep(t, c)
           /\ DequeueIdle(t) => WalkStep(t, c)
           /\ DequeueWaitingTail(t) => WalkStep(t, c)
           /\ ReclaimIdle(t) => WalkStep(t, c)
           /\ ReclaimLive(t) => WalkStep(t, c)
           /\ DequeueReleased(t) => WalkStep(t, c)
           /\ ReclaimReleased(t) => WalkStep(t, c)
           /\ ReclaimClear(t) => WalkStep(t, c)
           /\ DequeueDisposed(t) => WalkStep(t, c)
           /\ ReclaimDisposed(t) => WalkStep(t, c)
           /\ ReclaimIdleDone(t) => WalkStep(t, c)
<1> USE DEF SetFlags, HasFlags, tokenVars, queueVars, headVars, Done, DeqPcs, LivePcs, IdlePcs, WaitPcs, KeepPcs, RecPcs, WalkPcs
<1>a. ASSUME pc[t] \in WalkPcs
      PROVE  /\ Alone(t) /\ WalkFor(t) /\ PcTyped /\ DataTyped /\ Local(t) /\ loc[t] \in Locals
             /\ c \in Tokens /\ Linked(c) /\ Local(c) /\ next[c] \in Link /\ IsFirst(c, Members, verseq)
             /\ (next[c] # NULL => c # tail /\ next[c] \in Tokens)
  BY <1>a, WalkerSees DEF QueueFor
<1>1. ASSUME DequeueLive(t) PROVE WalkStep(t, c)
  <2>1. pc[t] = "deq" /\ Goto(t, "live_age") /\ LinksKept /\ qlen' = qlen /\ head_lock' = head_lock
    BY <1>1 DEF DequeueLive, LinksKept
  <2>2. /\ PcTyped /\ DataTyped /\ Local(c) /\ c \in Tokens /\ Linked(c) /\ WalkFor(t)
        /\ (next[c] # NULL => c # tail)
    BY <2>1, <1>a
  <2>3. state[c] = "AcquireDone" /\ ~is_head[c]
    BY <1>1, <2>1, <2>2 DEF DequeueLive, Local, Linked
  <2>4. TouchesOnly(c) /\ state'[c] = "AcquireDone" /\ is_head'[c] /\ Rely(c) /\ DataTyped'
    BY <1>1, <2>1, <2>2, <2>3 DEF DequeueLive, TouchesOnly, Rely, DataTyped, TokenState
  <2>5. pc'[t] = "live_age"
    BY <2>1, <2>2, GotoMoves DEF Moves, PcLabel
  <2>6. Marks(t, c)
    BY <2>1, <2>2, <2>3, <2>4, <2>5 DEF Marks, NextSet, AgeSet
  <2>7. Stores(c) /\ min_age' = min_age
    BY <2>1, <2>2, NoStore
  <2>8. QED
    BY <2>1, <2>3, <2>4, <2>6, <2>7, MarkStep
<1>2. ASSUME DequeueIdle(t) PROVE WalkStep(t, c)
  <2>1. pc[t] = "deq" /\ Goto(t, "idle_next") /\ LinksKept /\ qlen' = qlen /\ head_lock' = head_lock
    BY <1>2 DEF DequeueIdle, LinksKept
  <2>2. /\ PcTyped /\ DataTyped /\ Local(c) /\ c \in Tokens /\ Linked(c) /\ WalkFor(t)
        /\ (next[c] # NULL => c # tail)
    BY <2>1, <1>a
  <2>3. state[c] = "AcquireIdle" /\ ~is_head[c]
    BY <1>2, <2>1, <2>2 DEF DequeueIdle, Local, Linked
  <2>4. TouchesOnly(c) /\ state'[c] = "AcquireLock" /\ ~is_head'[c] /\ Rely(c) /\ DataTyped'
    BY <1>2, <2>1, <2>2, <2>3 DEF DequeueIdle, TouchesOnly, Rely, DataTyped, TokenState
  <2>5. pc'[t] = "idle_next"
    BY <2>1, <2>2, GotoMoves DEF Moves, PcLabel
  <2>6. Marks(t, c)
    BY <2>1, <2>2, <2>3, <2>4, <2>5 DEF Marks, NextSet, AgeSet
  <2>7. Stores(c) /\ min_age' = min_age
    BY <2>1, <2>2, NoStore
  <2>8. QED
    BY <2>1, <2>3, <2>4, <2>6, <2>7, MarkStep
<1>3. ASSUME DequeueWaitingTail(t) PROVE WalkStep(t, c)
  <2>1. pc[t] = "deq" /\ Goto(t, "wait_next") /\ LinksKept /\ qlen' = qlen /\ head_lock' = head_lock
    BY <1>3 DEF DequeueWaitingTail, LinksKept
  <2>2. /\ PcTyped /\ DataTyped /\ Local(c) /\ c \in Tokens /\ Linked(c) /\ WalkFor(t)
        /\ (next[c] # NULL => c # tail)
    BY <2>1, <1>a
  <2>3. next[c] = NULL /\ state[c] \in {"ReleaseWait", "DisposeWait"} /\ ~is_head[c] /\ loc[t].resume # "upd_finish"
    BY <1>3, <2>1, <2>2, WaitingTailAlone DEF DequeueWaitingTail, Local, Linked
  <2>4. TouchesOnly(c) /\ state'[c] = state[c] /\ ~is_head'[c] /\ Rely(c) /\ DataTyped'
    BY <1>3, <2>1, <2>2, <2>3 DEF DequeueWaitingTail, TouchesOnly, Rely, DataTyped, TokenState
  <2>5. pc'[t] = "wait_next"
    BY <2>1, <2>2, GotoMoves DEF Moves, PcLabel
  <2>6. Marks(t, c)
    BY <2>1, <2>2, <2>3, <2>4, <2>5 DEF Marks, NextSet, AgeSet
  <2>7. Stores(c) /\ min_age' = min_age
    BY <2>1, <2>2, NoStore
  <2>8. QED
    BY <2>1, <2>3, <2>4, <2>6, <2>7, MarkStep
<1>4. ASSUME ReclaimIdle(t) PROVE WalkStep(t, c)
  <2>1. pc[t] = "rec" /\ Goto(t, "rec_idle") /\ LinksKept /\ qlen' = qlen /\ head_lock' = head_lock
    BY <1>4 DEF ReclaimIdle, LinksKept
  <2>2. /\ PcTyped /\ DataTyped /\ Local(c) /\ c \in Tokens /\ Linked(c) /\ WalkFor(t)
        /\ (next[c] # NULL => c # tail)
    BY <2>1, <1>a
  <2>3. state[c] = "AcquireIdle" /\ c # tail
    BY <1>4, <2>1, <2>2 DEF ReclaimIdle, Local, Linked
  <2>4. TouchesOnly(c) /\ state'[c] = "AcquireLock" /\ ~is_head'[c] /\ Rely(c) /\ DataTyped'
    BY <1>4, <2>1, <2>2, <2>3 DEF ReclaimIdle, TouchesOnly, Rely, DataTyped, TokenState
  <2>5. pc'[t] = "rec_idle"
    BY <2>1, <2>2, GotoMoves DEF Moves, PcLabel
  <2>6. Marks(t, c)
    BY <2>1, <2>2, <2>3, <2>4, <2>5 DEF Marks, NextSet, AgeSet
  <2>7. Stores(c) /\ min_age' = min_age
    BY <2>1, <2>2, NoStore
  <2>8. QED
    BY <2>1, <2>3, <2>4, <2>6, <2>7, MarkStep
<1>5. ASSUME ReclaimLive(t) PROVE WalkStep(t, c)
  <2>1. pc[t] = "rec" /\ Goto(t, "rec_next") /\ LinksKept /\ qlen' = qlen /\ head_lock' = head_lock
    BY <1>5 DEF ReclaimLive, LinksKept
  <2>2. /\ PcTyped /\ DataTyped /\ Local(c) /\ c \in Tokens /\ Linked(c) /\ WalkFor(t)
        /\ (next[c] # NULL => c # tail)
    BY <2>1, <1>a
  <2>3. state[c] = "AcquireDone"
    BY <1>5, <2>1, <2>2 DEF ReclaimLive, Local, Linked
  <2>4. TouchesOnly(c) /\ state'[c] = "AcquireDone" /\ is_head'[c] /\ Rely(c) /\ DataTyped'
    BY <1>5, <2>1, <2>2, <2>3 DEF ReclaimLive, TouchesOnly, Rely, DataTyped, TokenState
  <2>5. pc'[t] = "rec_next"
    BY <2>1, <2>2, GotoMoves DEF Moves, PcLabel
  <2>6. Marks(t, c)
    BY <2>1, <2>2, <2>3, <2>4, <2>5 DEF Marks, NextSet, AgeSet
  <2>7. Stores(c) /\ min_age' = min_age
    BY <2>1, <2>2, NoStore
  <2>8. QED
    BY <2>1, <2>3, <2>4, <2>6, <2>7, MarkStep
<1>10. ASSUME DequeueReleased(t) PROVE WalkStep(t, c)
  <2>1. pc[t] = "deq"
    BY <1>10 DEF DequeueReleased
  <2>2. /\ Alone(t) /\ WalkFor(t) /\ PcTyped /\ DataTyped /\ Local(t) /\ loc[t] \in Locals
        /\ c \in Tokens /\ Linked(c) /\ Local(c) /\ next[c] \in Link /\ IsFirst(c, Members, verseq)
        /\ (next[c] # NULL => c # tail /\ next[c] \in Tokens)
    BY <2>1, <1>a
  <2>3. state[c] = "ReleaseWait" /\ next[c] # NULL
    BY <1>10, <2>1, <2>2 DEF DequeueReleased, WalkFor, Local, Linked
  <2>4. Moves(t, "deq", AtToken(loc[t], next[c])) /\ PcTyped'
    BY <1>10, <2>1, <2>2, GoMoves, AtTokenFields DEF DequeueReleased, PcLabel
  <2>5. TouchesOnly(c) /\ state'[c] = "ReleaseDone" /\ ~is_head'[c] /\ LinksKept /\ qlen' = qlen - 1 /\ head_lock' = head_lock /\ DataTyped'
    <3>1. qlen - 1 \in Nat
      BY <2>2, QlenPositive
    <3>2. QED
      BY <1>10, <2>1, <2>2, <2>3, <3>1 DEF DequeueReleased, TouchesOnly, DataTyped, TokenState,
         Link, LinksKept
  <2>6. Local(t)'
    BY <2>1, <2>2, <2>3, <2>4, <2>5, AtTokenFields DEF Moves, Local, TouchesOnly
  <2>7. LockRule(t) /\ Others(t)
    <3>1. LockRule(t)
      BY <2>1, <2>2, <2>4, <2>5 DEF Moves, LockRule, LockPcs, BumpPcs, Local
    <3>2. \A u \in Tokens \ {t} : Rely(u)
      BY <2>2, <2>3, <2>5 DEF TouchesOnly, Rely, DataTyped
    <3>3. QED
      BY <3>1, <3>2, <2>4 DEF Others, Moves
  <2>8. DelInv' /\ ChainInv' /\ QueueFor(t)' /\ Members' = Members \ {c}
    <3>1. Moves(t, pc'[t], loc'[t]) /\ loc'[t] = AtToken(loc[t], next[c]) /\ pc'[t] = "deq"
      BY <2>4 DEF Moves
    <3>2. /\ loc'[t].resume = loc[t].resume /\ loc'[t].curr = next[c]
          /\ loc'[t].delptrs = loc[t].delptrs
      BY <2>2, <3>1, AtTokenFields
    <3>3. QED
      BY <2>1, <2>2, <2>3, <2>5, <3>1, <3>2, PassQueue DEF WalkFor
  <2>9. WalkEffect(c) /\ (state'[c] = "AcquireDone" <=> state[c] = "AcquireDone") /\ pc'[t] \in LockPcs
    BY <2>1, <2>2, <2>3, <2>4, <2>5, <2>8 DEF WalkEffect, Moves, LockPcs, BumpPcs, Local
  <2>10. QED
    BY <2>1, <2>9, <2>2, <2>4, <2>5, <2>6, <2>7, <2>8 DEF WalkStep, HolderStep
<1>11. ASSUME ReclaimReleased(t) PROVE WalkStep(t, c)
  <2>1. pc[t] = "rec"
    BY <1>11 DEF ReclaimReleased
  <2>2. /\ Alone(t) /\ WalkFor(t) /\ PcTyped /\ DataTyped /\ Local(t) /\ loc[t] \in Locals
        /\ c \in Tokens /\ Linked(c) /\ Local(c) /\ next[c] \in Link /\ IsFirst(c, Members, verseq)
        /\ (next[c] # NULL => c # tail /\ next[c] \in Tokens)
    BY <2>1, <1>a
  <2>3. state[c] = "ReleaseWait" /\ next[c] # NULL
    BY <1>11, <2>1, <2>2 DEF ReclaimReleased, WalkFor, Local, Linked
  <2>4. Moves(t, "rec_clear", Clearing(loc[t], next[c], c)) /\ PcTyped'
    BY <1>11, <2>1, <2>2, GoMoves, ClearingFields DEF ReclaimReleased, PcLabel
  <2>5. TouchesOnly(c) /\ state'[c] = "ReleaseDone" /\ ~is_head'[c] /\ LinksKept /\ qlen' = qlen /\ head_lock' = head_lock /\ DataTyped'
    BY <1>11, <2>1, <2>2, <2>3 DEF ReclaimReleased, TouchesOnly, DataTyped, TokenState, Link, LinksKept
  <2>6. Local(t)'
    BY <2>1, <2>2, <2>3, <2>4, <2>5, ClearingFields DEF Moves, Local, TouchesOnly, BumpPcs
  <2>7. LockRule(t) /\ Others(t)
    <3>1. LockRule(t)
      BY <2>1, <2>2, <2>4, <2>5 DEF Moves, LockRule, LockPcs, BumpPcs, Local
    <3>2. \A u \in Tokens \ {t} : Rely(u)
      BY <2>2, <2>3, <2>5 DEF TouchesOnly, Rely, DataTyped
    <3>3. QED
      BY <3>1, <3>2, <2>4 DEF Others, Moves
  <2>8. DelInv' /\ ChainInv' /\ QueueFor(t)' /\ Members' = Members \ {c}
    <3>1. Moves(t, pc'[t], loc'[t]) /\ loc'[t] = Clearing(loc[t], next[c], c) /\ pc'[t] = "rec_clear"
      BY <2>4 DEF Moves
    <3>2. /\ loc'[t].resume = loc[t].resume /\ loc'[t].curr = next[c]
          /\ loc'[t].delptrs = loc[t].delptrs /\ loc'[t].link = c
      BY <2>2, <3>1, ClearingFields
    <3>3. QED
      BY <2>1, <2>2, <2>3, <2>5, <3>1, <3>2, PassQueue DEF WalkFor
  <2>9. WalkEffect(c) /\ (state'[c] = "AcquireDone" <=> state[c] = "AcquireDone") /\ pc'[t] \in LockPcs
    BY <2>1, <2>2, <2>3, <2>4, <2>5, <2>8 DEF WalkEffect, Moves, LockPcs, BumpPcs, Local
  <2>10. QED
    BY <2>1, <2>9, <2>2, <2>4, <2>5, <2>6, <2>7, <2>8 DEF WalkStep, HolderStep
<1>20. ASSUME ReclaimClear(t) PROVE WalkStep(t, c)
  <2>1. pc[t] = "rec_clear" /\ state' = state /\ is_head' = is_head /\ head_lock' = head_lock
    BY <1>20 DEF ReclaimClear
  <2>2. /\ Alone(t) /\ WalkFor(t) /\ PcTyped /\ DataTyped /\ Local(t) /\ loc[t] \in Locals
        /\ c \in Tokens /\ Linked(c) /\ IsFirst(c, Members, verseq)
    BY <2>1, <1>a
  <2>3. loc[t].link \in Tokens \ Members
    BY <2>1, <2>2 DEF WalkFor
  <2>4. Moves(t, "rec", ReadLink(loc[t], NULL)) /\ PcTyped'
    BY <1>20, <2>2, GoMoves, ReadLinkFields DEF ReclaimClear, PcLabel, Link
  <2>5. /\ next' = [next EXCEPT ![loc[t].link] = NULL] /\ verseq' = [verseq EXCEPT ![loc[t].link] = 0]
        /\ qlen' = qlen - 1 /\ UNCHANGED <<min_age, dummy_next, dummy_min_age, tail, tail_verseq, head_is_dead, head_is_idle>>
    BY <1>20 DEF ReclaimClear
  <2>6. TouchesOnly(c) /\ DataTyped'
    <3>1. qlen - 1 \in Nat
      BY <2>2, QlenPositive
    <3>2. QED
      BY <2>1, <2>2, <2>3, <2>5, <3>1 DEF TouchesOnly, DataTyped, Link
  <2>7. /\ pc'[t] = "rec" /\ loc'[t].caller = loc[t].caller /\ loc'[t].resume = loc[t].resume
        /\ loc'[t].curr = c /\ loc'[t].delptrs = loc[t].delptrs /\ Moves(t, "rec", loc'[t])
    BY <2>2, <2>4, ReadLinkFields DEF Moves, Link
  <2>8. Local(t)'
    BY <2>1, <2>2, <2>7 DEF Local, BumpPcs
  <2>9. LockRule(t) /\ Others(t)
    BY <2>1, <2>7 DEF LockRule, LockPcs, Others, Moves, Rely
  <2>10. DelInv' /\ ChainInv' /\ QueueFor(t)' /\ Members' = Members
    <3>1. \A u \in Tokens \ {loc[t].link} : verseq'[u] = verseq[u] /\ next'[u] = next[u]
      BY <2>2, <2>5 DEF DataTyped
    <3>2. QED
      BY <2>1, <2>5, <2>7, <3>1, ClearQueue
  <2>11. WalkEffect(c) /\ pc'[t] \in LockPcs
    BY <2>3, <2>5, <2>7, <2>10 DEF WalkEffect, LockPcs
  <2>12. QED
    BY <2>1, <2>2, <2>4, <2>6, <2>8, <2>9, <2>10, <2>11 DEF WalkStep, HolderStep
<1>12. ASSUME DequeueDisposed(t), Cardinality(loc[t].delptrs) < MAX_DEL_PTRS PROVE WalkStep(t, c)
  <2>1. pc[t] = "deq"
    BY <1>12 DEF DequeueDisposed
  <2>2. /\ Alone(t) /\ WalkFor(t) /\ PcTyped /\ DataTyped /\ Local(t) /\ loc[t] \in Locals
        /\ c \in Tokens /\ Linked(c) /\ Local(c) /\ next[c] \in Link /\ IsFirst(c, Members, verseq)
        /\ (next[c] # NULL => c # tail /\ next[c] \in Tokens)
    BY <2>1, <1>a
  <2>3. state[c] = "DisposeWait" /\ next[c] # NULL
    BY <1>12, <2>1, <2>2 DEF DequeueDisposed, WalkFor, Local, Linked
  <2>4. Moves(t, "deq", Passing(loc[t], next[c], c)) /\ PcTyped'
    BY <1>12, <2>1, <2>2, GoMoves, PassingFields DEF DequeueDisposed, DropDisposed, PcLabel
  <2>5. TouchesOnly(c) /\ state' = state /\ ~is_head'[c] /\ is_head' = is_head /\ LinksKept /\ qlen' = qlen - 1 /\ head_lock' = head_lock /\ DataTyped'
    <3>1. qlen - 1 \in Nat
      BY <2>2, QlenPositive
    <3>2. QED
      BY <1>12, <2>1, <2>2, <2>3, <3>1 DEF DequeueDisposed, TouchesOnly, DataTyped, TokenState,
         Link, LinksKept, DropDisposed, Local
  <2>6. Local(t)'
    BY <2>1, <2>2, <2>3, <2>4, <2>5, PassingFields DEF Moves, Local, TouchesOnly
  <2>7. LockRule(t) /\ Others(t)
    <3>1. LockRule(t)
      BY <2>1, <2>2, <2>4, <2>5 DEF Moves, LockRule, LockPcs, BumpPcs, Local
    <3>2. \A u \in Tokens \ {t} : Rely(u)
      BY <2>2, <2>3, <2>5 DEF TouchesOnly, Rely, DataTyped
    <3>3. QED
      BY <3>1, <3>2, <2>4 DEF Others, Moves
  <2>8. DelInv' /\ ChainInv' /\ QueueFor(t)' /\ Members' = Members \ {c}
    <3>1. Moves(t, pc'[t], loc'[t]) /\ loc'[t] = Passing(loc[t], next[c], c) /\ pc'[t] = "deq"
      BY <2>4 DEF Moves
    <3>2. /\ loc'[t].resume = loc[t].resume /\ loc'[t].curr = next[c]
          /\ loc'[t].delptrs = loc[t].delptrs \cup {c}
      BY <2>2, <3>1, PassingFields
    <3>3. QED
      BY <2>1, <2>2, <2>3, <2>5, <3>1, <3>2, PassQueue DEF WalkFor
  <2>9. WalkEffect(c) /\ (state'[c] = "AcquireDone" <=> state[c] = "AcquireDone") /\ pc'[t] \in LockPcs
    BY <2>1, <2>2, <2>3, <2>4, <2>5, <2>8 DEF WalkEffect, Moves, LockPcs, BumpPcs, Local
  <2>10. QED
    BY <2>1, <2>9, <2>2, <2>4, <2>5, <2>6, <2>7, <2>8 DEF WalkStep, HolderStep
<1>13. ASSUME DequeueDisposed(t), ~(Cardinality(loc[t].delptrs) < MAX_DEL_PTRS) PROVE WalkStep(t, c)
  <2>1. pc[t] = "deq"
    BY <1>13 DEF DequeueDisposed
  <2>2. /\ Alone(t) /\ WalkFor(t) /\ PcTyped /\ DataTyped /\ Local(t) /\ loc[t] \in Locals
        /\ c \in Tokens /\ Linked(c) /\ Local(c) /\ next[c] \in Link /\ IsFirst(c, Members, verseq)
        /\ (next[c] # NULL => c # tail /\ next[c] \in Tokens)
    BY <2>1, <1>a
  <2>3. state[c] = "DisposeWait" /\ next[c] # NULL
    BY <1>13, <2>1, <2>2 DEF DequeueDisposed, WalkFor, Local, Linked
  <2>4. Moves(t, "deq", AtToken(loc[t], next[c])) /\ PcTyped'
    BY <1>13, <2>1, <2>2, GoMoves, AtTokenFields DEF DequeueDisposed, DropDisposed, PcLabel
  <2>5. TouchesOnly(c) /\ state'[c] = "DisposeDone" /\ ~is_head'[c] /\ is_head' = is_head /\ LinksKept /\ qlen' = qlen - 1 /\ head_lock' = head_lock /\ DataTyped'
    <3>1. qlen - 1 \in Nat
      BY <2>2, QlenPositive
    <3>2. QED
      BY <1>13, <2>1, <2>2, <2>3, <3>1 DEF DequeueDisposed, TouchesOnly, DataTyped, TokenState,
         Link, LinksKept, DropDisposed, Local
  <2>6. Local(t)'
    BY <2>1, <2>2, <2>3, <2>4, <2>5, AtTokenFields DEF Moves, Local, TouchesOnly
  <2>7. LockRule(t) /\ Others(t)
    <3>1. LockRule(t)
      BY <2>1, <2>2, <2>4, <2>5 DEF Moves, LockRule, LockPcs, BumpPcs, Local
    <3>2. \A u \in Tokens \ {t} : Rely(u)
      BY <2>2, <2>3, <2>5 DEF TouchesOnly, Rely, DataTyped
    <3>3. QED
      BY <3>1, <3>2, <2>4 DEF Others, Moves
  <2>8. DelInv' /\ ChainInv' /\ QueueFor(t)' /\ Members' = Members \ {c}
    <3>1. Moves(t, pc'[t], loc'[t]) /\ loc'[t] = AtToken(loc[t], next[c]) /\ pc'[t] = "deq"
      BY <2>4 DEF Moves
    <3>2. /\ loc'[t].resume = loc[t].resume /\ loc'[t].curr = next[c]
          /\ loc'[t].delptrs = loc[t].delptrs
      BY <2>2, <3>1, AtTokenFields
    <3>3. QED
      BY <2>1, <2>2, <2>3, <2>5, <3>1, <3>2, PassQueue DEF WalkFor
  <2>9. WalkEffect(c) /\ (state'[c] = "AcquireDone" <=> state[c] = "AcquireDone") /\ pc'[t] \in LockPcs
    BY <2>1, <2>2, <2>3, <2>4, <2>5, <2>8 DEF WalkEffect, Moves, LockPcs, BumpPcs, Local
  <2>10. QED
    BY <2>1, <2>9, <2>2, <2>4, <2>5, <2>6, <2>7, <2>8 DEF WalkStep, HolderStep
<1>14. DequeueDisposed(t) => WalkStep(t, c)
  BY <1>12, <1>13
<1>15. ASSUME ReclaimDisposed(t), Cardinality(loc[t].delptrs) < MAX_DEL_PTRS PROVE WalkStep(t, c)
  <2>1. pc[t] = "rec"
    BY <1>15 DEF ReclaimDisposed
  <2>2. /\ Alone(t) /\ WalkFor(t) /\ PcTyped /\ DataTyped /\ Local(t) /\ loc[t] \in Locals
        /\ c \in Tokens /\ Linked(c) /\ Local(c) /\ next[c] \in Link /\ IsFirst(c, Members, verseq)
        /\ (next[c] # NULL => c # tail /\ next[c] \in Tokens)
    BY <2>1, <1>a
  <2>3. state[c] = "DisposeWait" /\ next[c] # NULL
    BY <1>15, <2>1, <2>2 DEF ReclaimDisposed, WalkFor, Local, Linked
  <2>4. Moves(t, "rec", Passing(loc[t], next[c], c)) /\ PcTyped'
    BY <1>15, <2>1, <2>2, GoMoves, PassingFields DEF ReclaimDisposed, DropDisposed, PcLabel
  <2>5. TouchesOnly(c) /\ state' = state /\ ~is_head'[c] /\ is_head' = is_head /\ LinksKept /\ qlen' = qlen - 1 /\ head_lock' = head_lock /\ DataTyped'
    <3>1. qlen - 1 \in Nat
      BY <2>2, QlenPositive
    <3>2. QED
      BY <1>15, <2>1, <2>2, <2>3, <3>1 DEF ReclaimDisposed, TouchesOnly, DataTyped, TokenState,
         Link, LinksKept, DropDisposed, Local
  <2>6. Local(t)'
    BY <2>1, <2>2, <2>3, <2>4, <2>5, PassingFields DEF Moves, Local, TouchesOnly
  <2>7. LockRule(t) /\ Others(t)
    <3>1. LockRule(t)
      BY <2>1, <2>2, <2>4, <2>5 DEF Moves, LockRule, LockPcs, BumpPcs, Local
    <3>2. \A u \in Tokens \ {t} : Rely(u)
      BY <2>2, <2>3, <2>5 DEF TouchesOnly, Rely, DataTyped
    <3>3. QED
      BY <3>1, <3>2, <2>4 DEF Others, Moves
  <2>8. DelInv' /\ ChainInv' /\ QueueFor(t)' /\ Members' = Members \ {c}
    <3>1. Moves(t, pc'[t], loc'[t]) /\ loc'[t] = Passing(loc[t], next[c], c) /\ pc'[t] = "rec"
      BY <2>4 DEF Moves
    <3>2. /\ loc'[t].resume = loc[t].resume /\ loc'[t].curr = next[c]
          /\ loc'[t].delptrs = loc[t].delptrs \cup {c}
      BY <2>2, <3>1, PassingFields
    <3>3. QED
      BY <2>1, <2>2, <2>3, <2>5, <3>1, <3>2, PassQueue DEF WalkFor
  <2>9. WalkEffect(c) /\ (state'[c] = "AcquireDone" <=> state[c] = "AcquireDone") /\ pc'[t] \in LockPcs
    BY <2>1, <2>2, <2>3, <2>4, <2>5, <2>8 DEF WalkEffect, Moves, LockPcs, BumpPcs, Local
  <2>10. QED
    BY <2>1, <2>9, <2>2, <2>4, <2>5, <2>6, <2>7, <2>8 DEF WalkStep, HolderStep
<1>16. ASSUME ReclaimDisposed(t), ~(Cardinality(loc[t].delptrs) < MAX_DEL_PTRS) PROVE WalkStep(t, c)
  <2>1. pc[t] = "rec"
    BY <1>16 DEF ReclaimDisposed
  <2>2. /\ Alone(t) /\ WalkFor(t) /\ PcTyped /\ DataTyped /\ Local(t) /\ loc[t] \in Locals
        /\ c \in Tokens /\ Linked(c) /\ Local(c) /\ next[c] \in Link /\ IsFirst(c, Members, verseq)
        /\ (next[c] # NULL => c # tail /\ next[c] \in Tokens)
    BY <2>1, <1>a
  <2>3. state[c] = "DisposeWait" /\ next[c] # NULL
    BY <1>16, <2>1, <2>2 DEF ReclaimDisposed, WalkFor, Local, Linked
  <2>4. Moves(t, "rec", AtToken(loc[t], next[c])) /\ PcTyped'
    BY <1>16, <2>1, <2>2, GoMoves, AtTokenFields DEF ReclaimDisposed, DropDisposed, PcLabel
  <2>5. TouchesOnly(c) /\ state'[c] = "DisposeDone" /\ ~is_head'[c] /\ is_head' = is_head /\ LinksKept /\ qlen' = qlen - 1 /\ head_lock' = head_lock /\ DataTyped'
    <3>1. qlen - 1 \in Nat
      BY <2>2, QlenPositive
    <3>2. QED
      BY <1>16, <2>1, <2>2, <2>3, <3>1 DEF ReclaimDisposed, TouchesOnly, DataTyped, TokenState,
         Link, LinksKept, DropDisposed, Local
  <2>6. Local(t)'
    BY <2>1, <2>2, <2>3, <2>4, <2>5, AtTokenFields DEF Moves, Local, TouchesOnly
  <2>7. LockRule(t) /\ Others(t)
    <3>1. LockRule(t)
      BY <2>1, <2>2, <2>4, <2>5 DEF Moves, LockRule, LockPcs, BumpPcs, Local
    <3>2. \A u \in Tokens \ {t} : Rely(u)
      BY <2>2, <2>3, <2>5 DEF TouchesOnly, Rely, DataTyped
    <3>3. QED
      BY <3>1, <3>2, <2>4 DEF Others, Moves
  <2>8. DelInv' /\ ChainInv' /\ QueueFor(t)' /\ Members' = Members \ {c}
    <3>1. Moves(t, pc'[t], loc'[t]) /\ loc'[t] = AtToken(loc[t], next[c]) /\ pc'[t] = "rec"
      BY <2>4 DEF Moves
    <3>2. /\ loc'[t].resume = loc[t].resume /\ loc'[t].curr = next[c]
          /\ loc'[t].delptrs = loc[t].delptrs
      BY <2>2, <3>1, AtTokenFields
    <3>3. QED
      BY <2>1, <2>2, <2>3, <2>5, <3>1, <3>2, PassQueue DEF WalkFor
  <2>9. WalkEffect(c) /\ (state'[c] = "AcquireDone" <=> state[c] = "AcquireDone") /\ pc'[t] \in LockPcs
    BY <2>1, <2>2, <2>3, <2>4, <2>5, <2>8 DEF WalkEffect, Moves, LockPcs, BumpPcs, Local
  <2>10. QED
    BY <2>1, <2>9, <2>2, <2>4, <2>5, <2>6, <2>7, <2>8 DEF WalkStep, HolderStep
<1>17. ReclaimDisposed(t) => WalkStep(t, c)
  BY <1>15, <1>16
<1>18. ASSUME ReclaimIdleDone(t) PROVE WalkStep(t, c)
  <2>1. pc[t] = "rec_idle"
    BY <1>18 DEF ReclaimIdleDone
  <2>2. /\ Alone(t) /\ WalkFor(t) /\ PcTyped /\ DataTyped /\ Local(t) /\ loc[t] \in Locals
        /\ c \in Tokens /\ Linked(c) /\ Local(c) /\ next[c] \in Link /\ IsFirst(c, Members, verseq)
        /\ (next[c] # NULL => c # tail /\ next[c] \in Tokens)
    BY <2>1, <1>a
  <2>3. state[c] = "AcquireLock" /\ c # tail
    BY <1>18, <2>1, <2>2 DEF ReclaimIdleDone, WalkFor, Local, Linked
  <2>4. Moves(t, "rec", AtToken(loc[t], next[c])) /\ PcTyped'
    BY <1>18, <2>1, <2>2, GoMoves, AtTokenFields DEF ReclaimIdleDone, PcLabel
  <2>5. TouchesOnly(c) /\ state'[c] = "AcquireIdle" /\ ~is_head'[c] /\ Enqueued(c) /\ min_age' = [min_age EXCEPT ![c] = verseq[c]] /\ UNCHANGED <<dummy_min_age, qlen>> /\ head_lock' = head_lock /\ DataTyped'
    <3>1. Enqueued(c) /\ verseq' \in [Tokens -> Nat] /\ next' \in [Tokens -> Link] /\ tail' \in Link /\ tail_verseq' \in Nat /\ dummy_next' \in Link
      BY <1>18, <2>2, <2>3, EnqueueEffect DEF ReclaimIdleDone
    <3>2. TouchesOnly(c) /\ state'[c] = "AcquireIdle" /\ ~is_head'[c] /\ min_age' = [min_age EXCEPT ![c] = verseq[c]] /\ UNCHANGED <<dummy_min_age, qlen>> /\ head_lock' = head_lock
      BY <1>18, <2>2 DEF ReclaimIdleDone, TouchesOnly, DataTyped, TokenState
    <3>3. state' \in [Tokens -> TokenState] /\ is_head' \in [Tokens -> BOOLEAN] /\ head_is_dead' \in BOOLEAN /\ head_is_idle' \in BOOLEAN
      BY <1>18, <2>2 DEF ReclaimIdleDone, DataTyped, TokenState
    <3>4. QED
      BY <2>2, <3>1, <3>2, <3>3 DEF DataTyped
  <2>6. Local(t)'
    BY <2>1, <2>2, <2>3, <2>4, <2>5, AtTokenFields DEF Moves, Local, TouchesOnly, BumpPcs
  <2>7. LockRule(t) /\ Others(t)
    <3>1. LockRule(t)
      BY <2>1, <2>2, <2>4, <2>5 DEF Moves, LockRule, LockPcs, BumpPcs, Local
    <3>2. \A u \in Tokens \ {t} : Rely(u)
      BY <2>2, <2>3, <2>5 DEF TouchesOnly, Rely, DataTyped
    <3>3. QED
      BY <3>1, <3>2, <2>4 DEF Others, Moves
  <2>8. DelInv' /\ ChainInv' /\ QueueFor(t)' /\ Members' = Members
    <3>1. Moves(t, pc'[t], loc'[t]) /\ loc'[t] = AtToken(loc[t], next[c]) /\ pc'[t] = "rec"
      BY <2>4 DEF Moves
    <3>2. /\ loc'[t].resume = loc[t].resume /\ loc'[t].curr = next[c]
          /\ loc'[t].delptrs = loc[t].delptrs
      BY <2>2, <3>1, AtTokenFields
    <3>3. QED
      BY <2>1, <2>2, <2>3, <2>5, <3>1, <3>2, RequeueIdle DEF WalkFor
  <2>9. WalkEffect(c) /\ (state'[c] = "AcquireDone" <=> state[c] = "AcquireDone") /\ pc'[t] \in LockPcs
    BY <2>1, <2>2, <2>3, <2>4, <2>5, <2>8 DEF WalkEffect, Moves, LockPcs, BumpPcs, Local
  <2>10. QED
    BY <2>1, <2>9, <2>2, <2>4, <2>5, <2>6, <2>7, <2>8 DEF WalkStep, HolderStep
<1>19. QED
  BY <1>1, <1>2, <1>3, <1>4, <1>5, <1>10, <1>11, <1>14, <1>17, <1>18, <1>20

-----------------------------------------------------------------------------
(* The steps that start or end the work at the lock.                         *)

\* What a thread knows when it holds the lock or finds it free.
LEMMA AtTheLock ==
    ASSUME TokenInv, NEW t \in Tokens, pc[t] \in LockPcs \/ head_lock = NULL
    PROVE  /\ Alone(t) /\ QueueFor(t) /\ PcTyped /\ DataTyped /\ Local(t) /\ loc[t] \in Locals
           /\ next[t] \in Link /\ t # NULL /\ NULL \notin Tokens
           /\ loc[t].caller \in {"out", "idle", "dispose"} /\ loc[t].link \in Link
<1>1. Alone(t)
  BY TokensAssumption DEF TokenInv, LockInv, Alone
<1>2. QED
  BY <1>1, HolderSees, TypeParts, LocalsFields, TokensAssumption DEF TokenInv, PcTyped, DataTyped

\* A step that touches only its own token.
LEMMA OnlyOwn ==
    ASSUME NEW t \in Tokens, NEW label, NEW l, Moves(t, label, l), TouchesOnly(t), DataTyped, DataTyped'
    PROVE  Others(t)
  BY DEF Moves, TouchesOnly, Others, Rely, DataTyped

\* The actions that start work on the queue: mt_release of a head, mt_update, reclaim_head.
LEMMA StartActions ==
    ASSUME TokenInv, NEW t \in Tokens
    PROVE  /\ ReleaseReadFlags(t) /\ HasFlags(t, "AcquireDone", TRUE) /\ next[t] # NULL /\ head_lock = NULL
                 => Alone(t) /\ HolderStep(t) /\ Members' = Members \ {t} /\ Linked(t)
           /\ ReleaseIdleLocked(t) /\ HasFlags(t, "AcquireIdle", TRUE) /\ ~stale'
                 => Alone(t) /\ HolderStep(t) /\ Members' = Members \ {t} /\ Linked(t)
           /\ UpdateRequeue(t)
                 => /\ Alone(t) /\ HolderStep(t) /\ Members' = Members /\ Linked(t) /\ IsFirst(t, Members, verseq)
                    /\ Enqueued(t)
           /\ ReclaimCheck(t) /\ (head_is_dead \/ head_is_idle)
                 => Alone(t) /\ HolderStep(t) /\ Members' = Members
<1> USE DEF SetFlags, HasFlags, tokenVars, queueVars, headVars, Done, DeqPcs, LivePcs, IdlePcs, WaitPcs, KeepPcs, RecPcs, WalkPcs, Lock, dequeue
<1>1. ASSUME ReleaseReadFlags(t), HasFlags(t, "AcquireDone", TRUE), next[t] # NULL, head_lock = NULL
      PROVE  Alone(t) /\ HolderStep(t) /\ Members' = Members \ {t} /\ Linked(t)
  <2>1. /\ Alone(t) /\ PcTyped /\ DataTyped /\ Local(t) /\ loc[t] \in Locals /\ next[t] \in Link /\ t # NULL
        /\ pc[t] = "rel" /\ is_head[t] /\ state[t] = "AcquireDone" /\ loc[t].resume = "out"
    BY <1>1, AtTheLock DEF ReleaseReadFlags, Local
  <2>2. Moves(t, "deq", Walking(loc[t], next[t], "rel_finish")) /\ PcTyped'
    BY <1>1, <2>1, GoMoves, WalkingFields DEF ReleaseReadFlags, PcLabel
  <2>3. state' = state /\ is_head' = is_head /\ head_lock' = t /\ QueueSame /\ DataTyped'
    BY <1>1, <2>1 DEF ReleaseReadFlags, QueueSame, LinksKept, DataTyped, Link
  <2>4. /\ loc'[t].curr = next[t] /\ loc'[t].resume = "rel_finish" /\ loc'[t].delptrs = loc[t].delptrs
        /\ loc'[t].caller = loc[t].caller /\ pc'[t] = "deq" /\ Moves(t, "deq", loc'[t]) /\ TouchesOnly(t)
    BY <2>1, <2>2, <2>3, WalkingFields DEF Moves, TouchesOnly
  <2>5. Local(t)'
    BY <2>1, <2>3, <2>4 DEF Local, BumpPcs
  <2>6. LockRule(t) /\ Others(t)
    BY <1>1, <2>1, <2>2, <2>3, <2>4, OnlyOwn DEF LockRule, LockPcs, BumpPcs
  <2>7. DelInv' /\ ChainInv' /\ QueueFor(t)' /\ Members' = Members \ {t} /\ Linked(t)
    BY <1>1, <2>1, <2>3, <2>4, StartQueue
  <2>8. QED
    BY <2>1, <2>2, <2>3, <2>5, <2>6, <2>7 DEF HolderStep
<1>2. ASSUME ReleaseIdleLocked(t), HasFlags(t, "AcquireIdle", TRUE), ~stale'
      PROVE  Alone(t) /\ HolderStep(t) /\ Members' = Members \ {t} /\ Linked(t)
  <2>1. /\ Alone(t) /\ PcTyped /\ DataTyped /\ Local(t) /\ loc[t] \in Locals /\ next[t] \in Link /\ t # NULL
        /\ pc[t] = "rel_idle_locked" /\ is_head[t] /\ state[t] = "AcquireIdle" /\ loc[t].resume = "out"
        /\ loc[t].link # NULL
    BY <1>2, AtTheLock DEF ReleaseIdleLocked, Local, LockPcs, BumpPcs, QueueFor
  <2>2. loc[t].link = next[t] /\ next[t] # NULL
    BY <1>2, <2>1 DEF ReleaseIdleLocked
  <2>3. Moves(t, "deq", Walking(loc[t], next[t], "rel_idle_finish")) /\ PcTyped'
    BY <1>2, <2>1, <2>2, GoMoves, WalkingFields DEF ReleaseIdleLocked, PcLabel
  <2>4. state'[t] = "ReleaseDone" /\ ~is_head'[t] /\ TouchesOnly(t) /\ head_lock' = head_lock /\ QueueSame /\ DataTyped'
    BY <1>2, <2>1 DEF ReleaseIdleLocked, QueueSame, LinksKept, DataTyped, TouchesOnly, TokenState
  <2>5. /\ loc'[t].curr = next[t] /\ loc'[t].resume = "rel_idle_finish" /\ loc'[t].delptrs = loc[t].delptrs
        /\ loc'[t].caller = loc[t].caller /\ pc'[t] = "deq" /\ Moves(t, "deq", loc'[t])
    BY <2>1, <2>3, WalkingFields DEF Moves
  <2>6. Local(t)'
    BY <2>1, <2>4, <2>5 DEF Local, BumpPcs
  <2>7. LockRule(t) /\ Others(t)
    BY <2>1, <2>3, <2>4, <2>5, OnlyOwn DEF LockRule, LockPcs, BumpPcs
  <2>8. DelInv' /\ ChainInv' /\ QueueFor(t)' /\ Members' = Members \ {t} /\ Linked(t)
    BY <2>1, <2>2, <2>4, <2>5, StartQueue
  <2>9. QED
    BY <2>1, <2>3, <2>4, <2>6, <2>7, <2>8 DEF HolderStep
<1>3. ASSUME UpdateRequeue(t)
      PROVE  /\ Alone(t) /\ HolderStep(t) /\ Members' = Members /\ Linked(t) /\ IsFirst(t, Members, verseq)
             /\ Enqueued(t)
  <2>1. /\ Alone(t) /\ PcTyped /\ DataTyped /\ Local(t) /\ loc[t] \in Locals /\ next[t] \in Link /\ t # NULL
        /\ pc[t] = "upd_requeue" /\ is_head[t] /\ state[t] = "AcquireDone" /\ loc[t].resume = "out"
        /\ LinksAll /\ loc[t].link # NULL
    BY <1>3, AtTheLock DEF UpdateRequeue, Local, LockPcs, BumpPcs, QueueFor
  <2>2. next[t] # NULL /\ t # tail
    BY <2>1, TailHasNoNext DEF LinksAll
  <2>3. Moves(t, "deq", Walking(loc[t], next[t], "upd_finish")) /\ PcTyped'
    BY <1>3, <2>1, GoMoves, WalkingFields DEF UpdateRequeue, PcLabel
  <2>4. /\ Enqueued(t) /\ verseq' \in [Tokens -> Nat] /\ next' \in [Tokens -> Link]
        /\ tail' \in Link /\ tail_verseq' \in Nat /\ dummy_next' \in Link
    BY <1>3, <2>1, <2>2, EnqueueEffect DEF UpdateRequeue
  <2>5. /\ state' = state /\ ~is_head'[t] /\ TouchesOnly(t) /\ head_lock' = head_lock /\ is_head' \in [Tokens -> BOOLEAN]
        /\ UNCHANGED <<min_age, dummy_min_age, qlen, head_is_dead, head_is_idle>>
    BY <1>3, <2>1 DEF UpdateRequeue, TouchesOnly, DataTyped
  <2>6. DataTyped'
    BY <2>1, <2>4, <2>5 DEF DataTyped
  <2>7. /\ loc'[t].curr = next[t] /\ loc'[t].resume = "upd_finish" /\ loc'[t].delptrs = loc[t].delptrs
        /\ loc'[t].caller = loc[t].caller /\ pc'[t] = "deq" /\ Moves(t, "deq", loc'[t])
    BY <2>1, <2>3, WalkingFields DEF Moves
  <2>8. Local(t)'
    BY <2>1, <2>5, <2>7 DEF Local, BumpPcs
  <2>9. LockRule(t) /\ Others(t)
    BY <2>1, <2>3, <2>5, <2>6, <2>7, OnlyOwn DEF LockRule, LockPcs, BumpPcs
  <2>10. DelInv' /\ ChainInv' /\ QueueFor(t)' /\ Members' = Members /\ Linked(t) /\ IsFirst(t, Members, verseq)
    BY <2>1, <2>2, <2>4, <2>5, <2>7, RequeueOwn
  <2>11. QED
    BY <2>1, <2>3, <2>4, <2>6, <2>8, <2>9, <2>10 DEF HolderStep
<1>4. ASSUME ReclaimCheck(t), head_is_dead \/ head_is_idle
      PROVE  Alone(t) /\ HolderStep(t) /\ Members' = Members
  <2>1. /\ Alone(t) /\ PcTyped /\ DataTyped /\ Local(t) /\ loc[t] \in Locals /\ dummy_next \in Link
        /\ pc[t] = "rec_check" /\ state[t] = "AcquireDone" /\ loc[t].resume = "out"
    BY <1>4, AtTheLock DEF ReclaimCheck, Local, LockPcs, BumpPcs, DataTyped
  <2>2. Moves(t, "rec", AtToken(loc[t], dummy_next)) /\ PcTyped'
    BY <1>4, <2>1, GoMoves, AtTokenFields DEF ReclaimCheck, PcLabel
  <2>3. state' = state /\ is_head' = is_head /\ TouchesOnly(t) /\ head_lock' = head_lock /\ QueueSame /\ DataTyped'
    BY <1>4, <2>1 DEF ReclaimCheck, QueueSame, LinksKept, DataTyped, TouchesOnly
  <2>4. /\ loc'[t].curr = dummy_next /\ loc'[t].resume = "out" /\ loc'[t].delptrs = loc[t].delptrs
        /\ loc'[t].caller = loc[t].caller /\ pc'[t] = "rec" /\ Moves(t, "rec", loc'[t])
    BY <2>1, <2>2, AtTokenFields DEF Moves
  <2>5. Local(t)'
    BY <2>1, <2>3, <2>4 DEF Local, BumpPcs
  <2>6. LockRule(t) /\ Others(t)
    BY <2>1, <2>2, <2>3, <2>4, OnlyOwn DEF LockRule, LockPcs, BumpPcs
  <2>7. DelInv' /\ ChainInv' /\ QueueFor(t)' /\ Members' = Members
    BY <2>1, <2>3, <2>4, StartReclaim
  <2>8. QED
    BY <2>1, <2>2, <2>3, <2>5, <2>6, <2>7 DEF HolderStep
<1>5. QED
  BY <1>1, <1>2, <1>3, <1>4

\* The actions that append a new token or end the work on the queue.
LEMMA EndActions ==
    ASSUME TokenInv, NEW t \in Tokens
    PROVE  /\ AcquireEnqueue(t)
                 => /\ Alone(t) /\ HolderStep(t) /\ ~Linked(t) /\ Members' = Members \cup {t}
                    /\ Enqueued(t)
           /\ ReleaseFinish(t)
                 => Alone(t) /\ HolderStep(t) /\ ~Linked(t) /\ Members' = Members
           /\ UpdateBump(t) /\ next[t] = NULL
                 => Alone(t) /\ HolderStep(t) /\ Members = {t} /\ tail_verseq = verseq[t] /\ Members' = Members
<1> USE DEF SetFlags, HasFlags, tokenVars, queueVars, headVars, Done, DeqPcs, LivePcs, IdlePcs, WaitPcs, KeepPcs, RecPcs, WalkPcs, Unlock
<1>1. ASSUME AcquireEnqueue(t)
      PROVE  Alone(t) /\ HolderStep(t) /\ ~Linked(t) /\ Members' = Members \cup {t} /\ Enqueued(t)
  <2>1. /\ Alone(t) /\ PcTyped /\ DataTyped /\ Local(t) /\ loc[t] \in Locals
        /\ pc[t] = "acq_enqueue" /\ state[t] = "AcquireDone" /\ loc[t].resume = "out" /\ t # NULL
    BY <1>1, AtTheLock DEF AcquireEnqueue, Local, LockPcs, BumpPcs
  <2>2. Moves(t, "acq_unlock", loc[t]) /\ PcTyped'
    BY <1>1, <2>1, GotoMoves DEF AcquireEnqueue, PcLabel
  <2>3. t # tail
    BY <2>1, TailHasNoNext DEF Members, Linked
  <2>4. /\ Enqueued(t) /\ verseq' \in [Tokens -> Nat] /\ next' \in [Tokens -> Link]
        /\ tail' \in Link /\ tail_verseq' \in Nat /\ dummy_next' \in Link
    BY <1>1, <2>1, <2>3, EnqueueEffect DEF AcquireEnqueue
  <2>5. /\ state' = state /\ is_head' = is_head /\ TouchesOnly(t) /\ head_lock' = head_lock
        /\ UNCHANGED <<min_age, dummy_min_age>> /\ qlen' = qlen + 1 /\ UNCHANGED <<head_is_dead, head_is_idle>>
    BY <1>1 DEF AcquireEnqueue, TouchesOnly
  <2>6. DataTyped'
    BY <2>1, <2>4, <2>5 DEF DataTyped
  <2>7. Local(t)'
    BY <2>1, <2>2, <2>5 DEF Local, BumpPcs, Moves
  <2>8. LockRule(t) /\ Others(t)
    BY <2>1, <2>2, <2>5, <2>6, OnlyOwn DEF LockRule, LockPcs, BumpPcs, Moves
  <2>9. ~Linked(t) /\ DelInv' /\ ChainInv' /\ QueueFor(t)' /\ Members' = Members \cup {t}
    BY <2>1, <2>2, <2>4, <2>5, AppendOwn
  <2>10. QED
    BY <2>1, <2>2, <2>4, <2>6, <2>7, <2>8, <2>9 DEF HolderStep
<1>2. ASSUME ReleaseFinish(t)
      PROVE  Alone(t) /\ HolderStep(t) /\ ~Linked(t) /\ Members' = Members
  <2>1. /\ Alone(t) /\ PcTyped /\ DataTyped /\ Local(t) /\ loc[t] \in Locals /\ QlenFor(t)
        /\ pc[t] \in {"rel_finish", "rel_idle_finish"} /\ loc[t].resume = pc[t] /\ t # NULL
        /\ loc[t].caller \in {"out", "dispose"}
    BY <1>2, AtTheLock DEF ReleaseFinish, Local, LockPcs, BumpPcs, QueueFor
  <2>2. /\ Moves(t, pc'[t], loc'[t]) /\ PcTyped' /\ pc'[t] \in {"out", "dispose", "del_tokens"}
        /\ loc'[t].delptrs = loc[t].delptrs /\ loc'[t].caller = loc[t].caller
        /\ \/ pc'[t] = "del_tokens" /\ loc'[t] = loc[t]
           \/ pc'[t] = loc[t].caller /\ loc'[t].resume = "out" /\ loc'[t].delptrs = {} /\ loc'[t].link = NULL
    <3>1. CASE loc[t].delptrs = {}
      <4>1. Moves(t, loc[t].caller, Returned(loc[t])) /\ PcTyped'
        BY <1>2, <2>1, <3>1, ReturnMoves DEF ReleaseFinish, DeleteOrReturn
      <4>2. QED
        BY <2>1, <3>1, <4>1, ReturnedFields DEF Moves
    <3>2. CASE loc[t].delptrs # {}
      <4>1. Moves(t, "del_tokens", loc[t]) /\ PcTyped'
        BY <1>2, <2>1, <3>2, GotoMoves DEF ReleaseFinish, DeleteOrReturn, PcLabel
      <4>2. QED
        BY <2>1, <4>1 DEF Moves
    <3>3. QED
      BY <3>1, <3>2
  <2>3. /\ (loc[t].ok => min_age' = [min_age EXCEPT ![t] = verseq[t]]) /\ (~loc[t].ok => min_age' = min_age)
        /\ UNCHANGED <<next, verseq, dummy_next, dummy_min_age, tail, tail_verseq, head_is_idle>>
        /\ qlen' = (IF pc[t] = "rel_finish" THEN qlen - 1 ELSE qlen) /\ head_lock' = NULL
        /\ head_is_dead' \in BOOLEAN
    BY <1>2, <2>1 DEF ReleaseFinish, DataTyped
  <2>4. /\ TouchesOnly(t) /\ state'[t] = "ReleaseDone" /\ ~is_head'[t]
        /\ state' \in [Tokens -> TokenState] /\ is_head' \in [Tokens -> BOOLEAN]
    <3>1. CASE pc[t] = "rel_finish"
      BY <1>2, <2>1, <3>1 DEF ReleaseFinish, DataTyped, TouchesOnly, TokenState
    <3>2. CASE pc[t] = "rel_idle_finish"
      <4>1. state' = state /\ is_head' = is_head
        BY <1>2, <3>2 DEF ReleaseFinish
      <4>2. QED
        BY <2>1, <3>2, <4>1 DEF DataTyped, TouchesOnly, TokenState, Local
    <3>3. QED
      BY <2>1, <3>1, <3>2
  <2>5. /\ min_age' \in [Tokens -> Nat] /\ \A u \in Tokens \ {t} : min_age'[u] = min_age[u]
        /\ min_age'[t] = IF loc[t].ok THEN verseq[t] ELSE min_age[t]
    <3>1. CASE loc[t].ok
      BY <2>1, <2>3, <3>1 DEF DataTyped
    <3>2. CASE ~loc[t].ok
      BY <2>1, <2>3, <3>2 DEF DataTyped
    <3>3. QED
      BY <3>1, <3>2
  <2>6. qlen' \in Nat
    <3>1. Cardinality(Members) \in Nat /\ qlen \in Nat
      BY <2>1, MembersFinite DEF DataTyped
    <3>2. pc[t] = "rel_finish" => qlen > Cardinality(Members)
      BY <2>1 DEF QlenFor
    <3>3. QED
      BY <2>3, <3>1, <3>2
  <2>7. DataTyped'
    <3>1. head_lock' \in Link
      BY <2>3 DEF Link
    <3>2. QED
      BY <2>1, <2>3, <2>4, <2>5, <2>6, <3>1 DEF DataTyped
  <2>8. Local(t)'
    BY <2>1, <2>2, <2>4 DEF Local, BumpPcs
  <2>9. LockRule(t) /\ Others(t)
    BY <2>1, <2>2, <2>3, <2>4, <2>7, OnlyOwn DEF LockRule, LockPcs, BumpPcs
  <2>10. ~Linked(t) /\ DelInv' /\ ChainInv' /\ QueueFor(t)' /\ Members' = Members
    BY <2>1, <2>2, <2>3, <2>4, <2>5, FinishQueue
  <2>11. QED
    BY <2>1, <2>2, <2>7, <2>8, <2>9, <2>10 DEF HolderStep
<1>3. ASSUME UpdateBump(t), next[t] = NULL
      PROVE  Alone(t) /\ HolderStep(t) /\ Members = {t} /\ tail_verseq = verseq[t] /\ Members' = Members
  <2>1. /\ Alone(t) /\ PcTyped /\ DataTyped /\ Local(t) /\ loc[t] \in Locals
        /\ pc[t] = "upd_bump" /\ state[t] = "AcquireDone" /\ is_head[t] /\ loc[t].resume = "out" /\ t # NULL
        /\ loc[t].caller \in {"out", "idle"} /\ loc[t].delptrs = {}
    BY <1>3, AtTheLock DEF UpdateBump, Local, LockPcs, BumpPcs
  <2>2. Moves(t, "bump_age", AtToken(loc[t], t)) /\ PcTyped'
    BY <1>3, <2>1, GoMoves, AtTokenFields DEF UpdateBump, PcLabel, Link
  <2>3. /\ Moves(t, pc'[t], loc'[t]) /\ pc'[t] = "bump_age" /\ loc'[t].delptrs = loc[t].delptrs
        /\ loc'[t].resume = "out" /\ loc'[t].caller = loc[t].caller /\ loc'[t].curr = t
    BY <2>1, <2>2, AtTokenFields DEF Moves, Link
  <2>4. /\ verseq' = [verseq EXCEPT ![t] = @ + 1] /\ tail_verseq' = verseq[t] + 1
        /\ state' = state /\ is_head' = is_head /\ head_lock' = head_lock /\ TouchesOnly(t)
        /\ UNCHANGED <<next, min_age, dummy_next, dummy_min_age, tail, qlen, head_is_dead, head_is_idle>>
    BY <1>3 DEF UpdateBump, TouchesOnly
  <2>5. DataTyped'
    BY <2>1, <2>4 DEF DataTyped, Link
  <2>6. Local(t)'
    BY <2>1, <2>3, <2>4 DEF Local, BumpPcs
  <2>7. LockRule(t) /\ Others(t)
    BY <2>1, <2>3, <2>4, <2>5, OnlyOwn DEF LockRule, LockPcs, BumpPcs
  <2>8. DelInv' /\ ChainInv' /\ QueueFor(t)' /\ Members = {t} /\ tail_verseq = verseq[t] /\ Members' = Members
    BY <1>3, <2>1, <2>3, <2>4, BumpQueue
  <2>9. QED
    BY <2>1, <2>2, <2>5, <2>6, <2>7, <2>8 DEF HolderStep
<1>4. QED
  BY <1>1, <1>2, <1>3

\* The head that is alone and has a new verseq tells the trie, and then itself.
BumpStep(t) ==
    /\ Alone(t) /\ HolderStep(t) /\ pc[t] \in BumpPcs /\ pc'[t] \in {"bump_tell", "out", "idle"} /\ state' = state
    /\ Stores(t) /\ (dummy_min_age' = dummy_min_age \/ min_age' = min_age)
    /\ IsFirst(t, Members, verseq) /\ Members' = Members

\* The stores of mt_update by a head that is alone.
LEMMA BumpActions ==
    ASSUME TokenInv, NEW t \in Tokens, pc[t] \in BumpPcs
    PROVE  /\ StoreAge(t) => BumpStep(t)
           /\ StoreMinAge(t) => BumpStep(t)
<1> USE DEF tokenVars, queueVars, headVars, Done, DeqPcs, LivePcs, IdlePcs, WaitPcs, KeepPcs, RecPcs, WalkPcs, BumpPcs, Unlock
<1>a. /\ Alone(t) /\ PcTyped /\ DataTyped /\ Local(t) /\ loc[t] \in Locals /\ verseq[t] \in Nat
      /\ state[t] = "AcquireDone" /\ is_head[t] /\ loc[t].resume = "out" /\ t # NULL /\ loc[t].curr = t
      /\ loc[t].caller \in {"out", "idle"} /\ loc[t].delptrs = {}
  BY AtTheLock DEF Local, LockPcs, DataTyped
<1>1. ASSUME StoreAge(t) PROVE BumpStep(t)
  <2>1. /\ pc[t] = "bump_age" /\ dummy_min_age' = verseq[t] /\ Goto(t, "bump_tell")
        /\ state' = state /\ is_head' = is_head /\ head_lock' = head_lock /\ TouchesOnly(t)
        /\ UNCHANGED <<next, verseq, min_age, dummy_next, tail, tail_verseq, qlen, head_is_dead, head_is_idle>>
    BY <1>1, <1>a DEF StoreAge, After, TouchesOnly
  <2>2. Moves(t, "bump_tell", loc[t]) /\ PcTyped' /\ pc'[t] = "bump_tell" /\ loc'[t] = loc[t]
    BY <1>a, <2>1, GotoMoves DEF PcLabel, Moves
  <2>3. DataTyped' /\ Stores(t)
    BY <1>a, <2>1 DEF DataTyped, Stores
  <2>4. Local(t)'
    BY <1>a, <2>1, <2>2 DEF Local
  <2>5. LockRule(t) /\ Others(t)
    BY <1>a, <2>1, <2>2, <2>3, OnlyOwn DEF LockRule, LockPcs
  <2>6. DelInv' /\ ChainInv' /\ QueueFor(t)' /\ Members' = Members /\ IsFirst(t, Members, verseq)
    BY <1>a, <2>1, <2>2, <2>3, TellQueue
  <2>7. QED
    BY <1>a, <2>1, <2>2, <2>3, <2>4, <2>5, <2>6 DEF HolderStep, BumpStep
<1>2. ASSUME StoreMinAge(t) PROVE BumpStep(t)
  <2>1. /\ pc[t] = "bump_tell" /\ min_age' = [min_age EXCEPT ![t] = verseq[t]] /\ Return(t)
        /\ state' = state /\ is_head' = is_head /\ head_lock' = NULL /\ TouchesOnly(t)
        /\ UNCHANGED <<next, verseq, dummy_next, dummy_min_age, tail, tail_verseq, qlen, head_is_dead, head_is_idle>>
    BY <1>2, <1>a DEF StoreMinAge, TouchesOnly
  <2>2. Moves(t, loc[t].caller, Returned(loc[t])) /\ PcTyped'
    BY <1>a, <2>1, ReturnMoves
  <2>3. /\ Moves(t, pc'[t], loc'[t]) /\ pc'[t] = loc[t].caller /\ loc'[t].delptrs = loc[t].delptrs
        /\ loc'[t].resume = "out" /\ loc'[t].caller = loc[t].caller /\ loc'[t].link = NULL
    BY <1>a, <2>2, ReturnedFields DEF Moves
  <2>4. DataTyped' /\ Stores(t)
    BY <1>a, <2>1 DEF DataTyped, Stores, Link
  <2>5. Local(t)'
    BY <1>a, <2>1, <2>3 DEF Local
  <2>6. LockRule(t) /\ Others(t)
    BY <1>a, <2>1, <2>3, <2>4, OnlyOwn DEF LockRule, LockPcs
  <2>7. DelInv' /\ ChainInv' /\ QueueFor(t)' /\ Members' = Members /\ IsFirst(t, Members, verseq)
    BY <1>a, <2>1, <2>3, <2>4, TellQueue
  <2>8. QED
    BY <1>a, <2>1, <2>2, <2>3, <2>4, <2>5, <2>6, <2>7 DEF HolderStep, BumpStep
<1>3. QED
  BY <1>1, <1>2

-----------------------------------------------------------------------------
(* del_tokens, which runs without the lock.                                  *)

\* What del_tokens does.
LEMMA DeleteEffect ==
    ASSUME TokenInv, NEW t \in Tokens, del_tokens(t)
    PROVE  /\ pc[t] = "del_tokens" /\ pc'[t] \in {"out", "idle", "dispose"} /\ PcTyped' /\ DataTyped' /\ Local(t)' /\ LockRule(t)
           /\ loc'[t].delptrs = {} /\ loc'[t].resume = "out" /\ state'[t] = state[t] /\ is_head' = is_head
           /\ \A u \in Tokens \ {t} : pc'[u] = pc[u] /\ loc'[u] = loc[u] /\ Rely(u)
           /\ \A c \in Tokens : IF c \in loc[t].delptrs
                                THEN state[c] = "DisposeWait" /\ state'[c] = "DisposeDone" /\ pc[c] = "gone" ELSE state'[c] = state[c]
           /\ QueueSame /\ head_lock' = head_lock
<1> USE DEF DeqPcs, LivePcs, IdlePcs, WaitPcs, KeepPcs, RecPcs, WalkPcs, Done, tokenVars, queueVars, headVars
<1>1. /\ PcTyped /\ DataTyped /\ Local(t) /\ loc[t] \in Locals /\ loc[t].caller \in {"out", "idle", "dispose"}
      /\ pc[t] = "del_tokens" /\ loc[t].resume \in {"out", "rel_finish", "rel_idle_finish", "upd_finish"}
  BY TypeParts, LocalsFields DEF TokenInv, PcTyped, del_tokens
<1>2. Moves(t, loc[t].caller, Returned(loc[t])) /\ PcTyped'
  BY <1>1, ReturnMoves DEF del_tokens
<1>3. /\ pc'[t] = loc[t].caller /\ loc'[t].resume = "out" /\ loc'[t].delptrs = {} /\ loc'[t].link = NULL
      /\ loc'[t].caller = loc[t].caller
      /\ \A u \in Tokens \ {t} : pc'[u] = pc[u] /\ loc'[u] = loc[u]
  BY <1>1, <1>2, ReturnedFields DEF Moves
<1>4. \A c \in loc[t].delptrs : state[c] = "DisposeWait" /\ pc[c] = "gone"
  BY DEF TokenInv, DelInv
<1>5. \A c \in Tokens : state'[c] = IF c \in loc[t].delptrs THEN "DisposeDone" ELSE state[c]
  BY DEF del_tokens
<1>6. is_head' = is_head /\ QueueSame /\ head_lock' = head_lock /\ head_is_dead' = head_is_dead /\ head_is_idle' = head_is_idle
  BY DEF del_tokens, QueueSame, LinksKept
<1>7. state' \in [Tokens -> TokenState]
  BY <1>1 DEF del_tokens, DataTyped, TokenState
<1>8. DataTyped'
  BY <1>1, <1>6, <1>7 DEF DataTyped, QueueSame, LinksKept
<1>9. state'[t] = state[t]
  BY <1>1, <1>4, <1>5
<1>10. Local(t)'
  BY <1>1, <1>3, <1>6, <1>9 DEF Local, BumpPcs
<1>11. LockRule(t)
  BY <1>1, <1>3, <1>6 DEF LockRule, LockPcs, BumpPcs
<1>12. \A u \in Tokens : Rely(u)
  BY <1>4, <1>5, <1>6 DEF Rely
<1>13. QED
  BY <1>1, <1>2, <1>3, <1>4, <1>5, <1>6, <1>8, <1>9, <1>10, <1>11, <1>12

\* It does not change who is in the queue.
LEMMA DeleteMembers ==
    ASSUME TokenInv, NEW t \in Tokens, del_tokens(t)
    PROVE  (\A u \in Tokens : Linked(u)' <=> Linked(u)) /\ Members' = Members
<1>1. /\ pc[t] = "del_tokens" /\ pc'[t] \in {"out", "idle", "dispose"} /\ state'[t] = state[t]
      /\ loc'[t].delptrs = {} /\ loc'[t].resume = "out"
      /\ \A u \in Tokens \ {t} : pc'[u] = pc[u] /\ loc'[u] = loc[u]
      /\ \A c \in Tokens : IF c \in loc[t].delptrs
                           THEN state[c] = "DisposeWait" /\ state'[c] = "DisposeDone" /\ pc[c] = "gone" ELSE state'[c] = state[c]
  BY DeleteEffect
<1>2. ASSUME NEW u \in Tokens PROVE Linked(u)' <=> Linked(u)
  <2>1. CASE u \in loc[t].delptrs
    BY <1>1, <2>1 DEF Linked
  <2>2. CASE u \notin loc[t].delptrs
    <3>1. (\A v \in Tokens : u \notin loc'[v].delptrs) <=> (\A v \in Tokens : u \notin loc[v].delptrs)
      BY <1>1, <2>2
    <3>2. loc[t].resume = "rel_finish" => state[t] = "ReleaseDone"
      BY <1>1 DEF TokenInv, Local
    <3>3. QED
      BY <1>1, <2>2, <3>1, <3>2 DEF Linked
  <2>3. QED
    BY <2>1, <2>2
<1>3. QED
  BY <1>2 DEF Members

\* del_tokens keeps the invariant.
LEMMA DeletePreserves ==
    ASSUME TokenInv, NEW t \in Tokens, del_tokens(t)
    PROVE  TokenInv'
<1> USE DEF DeqPcs, LivePcs, IdlePcs, WaitPcs, KeepPcs, RecPcs, WalkPcs, Done
<1>0. /\ pc[t] = "del_tokens" /\ pc'[t] \in {"out", "idle", "dispose"} /\ PcTyped' /\ DataTyped' /\ Local(t)' /\ LockRule(t)
      /\ loc'[t].delptrs = {} /\ loc'[t].resume = "out" /\ state'[t] = state[t] /\ is_head' = is_head
      /\ \A u \in Tokens \ {t} : pc'[u] = pc[u] /\ loc'[u] = loc[u] /\ Rely(u)
      /\ \A c \in Tokens : IF c \in loc[t].delptrs
                           THEN state[c] = "DisposeWait" /\ state'[c] = "DisposeDone" /\ pc[c] = "gone" ELSE state'[c] = state[c]
      /\ QueueSame /\ head_lock' = head_lock
  BY DeleteEffect
<1>1. Typed' /\ LockInv'
  BY <1>0, LockKept DEF Typed, PcTyped, DataTyped
<1>2. \A u \in Tokens : Local(u)'
  <2>1. ASSUME NEW u \in Tokens \ {t} PROVE Local(u)'
    <3>1. Local(u) /\ pc'[u] = pc[u] /\ loc'[u] = loc[u] /\ is_head'[u] = is_head[u]
      BY <1>0 DEF TokenInv
    <3>2. CASE u \in loc[t].delptrs
      <4>1. state[u] = "DisposeWait" /\ state'[u] = "DisposeDone" /\ pc[u] = "gone"
        BY <1>0, <3>2
      <4>2. QED
        BY <3>1, <4>1 DEF Local
    <3>3. CASE u \notin loc[t].delptrs
      <4>1. state'[u] = state[u]
        BY <1>0, <3>3
      <4>2. QED
        BY <3>1, <4>1 DEF Local
    <3>4. QED
      BY <3>2, <3>3
  <2>2. QED
    BY <2>1, <1>0
<1>3. DelInv'
  <2> SUFFICES ASSUME NEW u \in Tokens, NEW c \in loc'[u].delptrs
               PROVE  /\ state'[c] = "DisposeWait" /\ pc'[c] = "gone"
                      /\ \A v \in Tokens : v # u => c \notin loc'[v].delptrs
    BY DEF DelInv
  <2>1. u # t /\ c \in loc[u].delptrs /\ c \in Tokens
    BY <1>0, LocalsFields DEF TokenInv, Typed
  <2>2. /\ state[c] = "DisposeWait" /\ pc[c] = "gone"
        /\ \A v \in Tokens : v # u => c \notin loc[v].delptrs
    BY <2>1 DEF TokenInv, DelInv
  <2>3. QED
    BY <2>1, <2>2, <1>0
<1>4. Members' = Members /\ \A u \in Tokens : Linked(u)' <=> Linked(u)
  BY DeleteMembers
<1>5. ChainInv'
  BY <1>0, <1>4 DEF ChainInv, TokenInv, QueueSame, LinksKept
<1>6. \A u \in Tokens : pc'[u] \in WalkPcs \cup Done => pc'[u] = pc[u] /\ loc'[u] = loc[u] /\ u # t
  BY <1>0
<1>7. \A u \in Tokens : pc[u] \in WalkPcs => pc'[u] = pc[u] /\ loc'[u] = loc[u] /\ u # t
  BY <1>0
<1>8. FirstInv'
  BY <1>0, <1>4, <1>6, <1>7 DEF FirstInv, TokenInv, QueueSame, LinksKept, Walker
<1>9. HeadInv'
  <2> SUFFICES ASSUME NEW x \in Tokens, is_head[x]
               PROVE  /\ \A u \in Tokens : pc'[u] \in RecPcs => x = loc'[u].curr
                      /\ \A u \in Tokens : pc'[u] \in DeqPcs =>
                             \/ x = u /\ loc'[u].resume = "rel_finish"
                             \/ x = loc'[u].curr /\ pc'[u] \in LivePcs
                      /\ (\A u \in Tokens : ~Walker(u)') => x = dummy_next' \/ pc'[x] = "rel_finish"
    BY <1>0 DEF HeadInv
  <2>1. pc[x] = "rel_finish" => pc'[x] = "rel_finish"
    BY <1>0
  <2>2. (\A u \in Tokens : ~Walker(u)') => \A u \in Tokens : ~Walker(u)
    BY <1>7 DEF Walker
  <2>3. QED
    BY <2>1, <2>2, <1>0, <1>6 DEF TokenInv, HeadInv, QueueSame, LinksKept
<1>10. WalkInv'
  <2>1. \A c \in Tokens : state'[c] = "AcquireLock" <=> state[c] = "AcquireLock"
    BY <1>0
  <2>2. \A u \in Tokens : pc'[u] \in KeepPcs => state'[loc'[u].curr] = "AcquireLock"
    <3> SUFFICES ASSUME NEW u \in Tokens, pc'[u] \in KeepPcs
                 PROVE  state'[loc'[u].curr] = "AcquireLock"
      OBVIOUS
    <3>1. pc[u] = pc'[u] /\ loc'[u] = loc[u]
      BY <1>6
    <3>2. loc[u].curr \in Tokens /\ state[loc[u].curr] = "AcquireLock"
      BY <3>1, CurrLinked DEF TokenInv, WalkInv, Walker
    <3>3. QED
      BY <3>1, <3>2, <2>1
  <2>3. \A c \in Tokens : state'[c] = "AcquireLock" =>
            \E u \in Tokens : pc'[u] \in KeepPcs /\ loc'[u].curr = c
    <3> SUFFICES ASSUME NEW c \in Tokens, state'[c] = "AcquireLock"
                 PROVE  \E u \in Tokens : pc'[u] \in KeepPcs /\ loc'[u].curr = c
      OBVIOUS
    <3>1. PICK u \in Tokens : pc[u] \in KeepPcs /\ loc[u].curr = c
      BY <2>1 DEF TokenInv, WalkInv
    <3>2. QED
      BY <3>1, <1>7
  <2>4. \A u \in Tokens : pc'[u] = "rec_idle" => loc'[u].curr # tail'
    BY <1>0, <1>6 DEF TokenInv, WalkInv, QueueSame, LinksKept
  <2>5. \A u \in Tokens : pc'[u] \in WaitPcs => loc'[u].resume # "upd_finish"
    BY <1>0, <1>6 DEF TokenInv, WalkInv
  <2>6. \A u \in Tokens : pc'[u] \in {"upd", "upd_requeue"} /\ loc'[u].link # NULL => next'[u] # NULL
    BY <1>0 DEF TokenInv, WalkInv, QueueSame, LinksKept
  <2>7. \A u \in Tokens : pc'[u] = "rec_clear" => loc'[u].link \in Tokens \ Members'
    BY <1>4, <1>6 DEF TokenInv, WalkInv
  <2>8. QED
    BY <2>2, <2>3, <2>4, <2>5, <2>6, <2>7 DEF WalkInv
<1>11. StageInv'
  BY <1>0, <1>6 DEF TokenInv, StageInv, NextSet, AgeSet, QueueSame, LinksKept
<1>12. AgeInv'
  BY <1>0, <1>4, <1>6 DEF TokenInv, AgeInv, QueueSame, LinksKept
<1>13. QlenInv'
  BY <1>0, <1>4, <1>6 DEF TokenInv, QlenInv, QueueSame, LinksKept
<1>14. QED
  BY <1>1, <1>2, <1>3, <1>5, <1>8, <1>9, <1>10, <1>11, <1>12, <1>13 DEF TokenInv

-----------------------------------------------------------------------------
(* The invariant holds.                                                      *)

\* The invariant holds initially.
LEMMA InitTokenInv ==
    ASSUME Init
    PROVE  TokenInv
<1> USE DEF Init, DeqPcs, LivePcs, IdlePcs, WaitPcs, KeepPcs, RecPcs, WalkPcs, Done
<1>1. Typed
  BY NoLocalsFields DEF Typed, PcLabel, TokenState, Link
<1>2. /\ \A t \in Tokens : pc[t] = "out" /\ loc[t] = NoLocals /\ state[t] = "ReleaseDone" /\ is_head[t] = FALSE
      /\ NoLocals.resume = "out" /\ NoLocals.delptrs = {} /\ NoLocals.caller = "out"
  BY NoLocalsFields
<1>3. LockInv
  BY <1>2, TokensAssumption DEF LockInv, LockPcs, BumpPcs
<1>4. \A t \in Tokens : Local(t)
  BY <1>2 DEF Local, BumpPcs
<1>5. DelInv
  BY <1>2 DEF DelInv
<1>6. Members = {}
  BY <1>2 DEF Members, Linked
<1>7. ChainInv
  BY <1>6 DEF ChainInv, Chained
<1>8. FirstInv /\ HeadInv /\ WalkInv /\ StageInv
  BY <1>2, <1>6 DEF FirstInv, HeadInv, WalkInv, StageInv, NextSet, AgeSet, Walker
<1>9. AgeInv
  BY <1>2, <1>6 DEF AgeInv
<1>10. QlenInv
  BY <1>2, <1>6, FS_EmptySet DEF QlenInv
<1>11. QED
  BY <1>1, <1>3, <1>4, <1>5, <1>7, <1>8, <1>9, <1>10 DEF TokenInv

\* The kinds of step: of the thread alone, at the lock, and del_tokens.
LEMMA StepKinds ==
    ASSUME TokenInv, ~stale', NEW t \in Tokens, Step(t)
    PROVE  \/ PlainStep(t)
           \/ WalkStep(t, loc[t].curr)
           \/ BumpStep(t)
           \/ /\ ReleaseReadFlags(t) /\ HasFlags(t, "AcquireDone", TRUE) /\ next[t] # NULL /\ head_lock = NULL
              /\ Alone(t) /\ HolderStep(t)
           \/ ReleaseIdleLocked(t) /\ HasFlags(t, "AcquireIdle", TRUE) /\ Alone(t) /\ HolderStep(t)
           \/ UpdateRequeue(t) /\ Alone(t) /\ HolderStep(t)
           \/ ReclaimCheck(t) /\ (head_is_dead \/ head_is_idle) /\ Alone(t) /\ HolderStep(t)
           \/ AcquireEnqueue(t) /\ Alone(t) /\ HolderStep(t)
           \/ ReleaseFinish(t) /\ Alone(t) /\ HolderStep(t)
           \/ UpdateBump(t) /\ next[t] = NULL /\ Alone(t) /\ HolderStep(t)
           \/ del_tokens(t)
<1>1. CASE acquire(t)
  BY <1>1, PlainActions, EndActions DEF acquire
<1>2. CASE release(t)
  BY <1>2, PlainActions, StartActions, EndActions DEF release
<1>3. CASE ReleaseIdleLocked(t)
  BY <1>3, PlainActions, StartActions
<1>4. CASE set_head(t)
  <2>1. CASE pc[t] \in BumpPcs
    <3>1. ~StoreNext(t) /\ ~StoreHeadFlags(t)
      BY <2>1 DEF StoreNext, StoreHeadFlags, BumpPcs
    <3>2. QED
      BY <1>4, <2>1, <3>1, BumpActions DEF set_head
  <2>2. CASE pc[t] \notin BumpPcs
    BY <1>4, <2>2, StoreActions DEF set_head
  <2>3. QED
    BY <2>1, <2>2
<1>5. CASE walk(t)
  <2>1. DequeueIdleDone(t) => pc[t] \notin BumpPcs
    BY DEF DequeueIdleDone, BumpPcs
  <2>2. QED
    BY <1>5, <2>1, WalkActions, StoreActions DEF walk
<1>6. CASE update(t)
  BY <1>6, PlainActions, StartActions, EndActions DEF update
<1>7. CASE reclaim_head(t)
  BY <1>7, PlainActions, StartActions, WalkActions DEF reclaim_head
<1>8. CASE Idle(t) \/ IdleCas(t) \/ Dispose(t)
  BY <1>8, PlainActions
<1>9. QED
  BY <1>1, <1>2, <1>3, <1>4, <1>5, <1>6, <1>7, <1>8 DEF Step

\* Every step of a thread that does not start from a stale link keeps the invariant.
LEMMA StepKeepsInv ==
    ASSUME TokenInv, ~stale', NEW t \in Tokens, Step(t)
    PROVE  TokenInv'
  BY StepKinds, PlainPreserves, HolderPreserves, DeletePreserves DEF WalkStep, BumpStep

\* A stale link is not forgotten.
LEMMA StaleStays ==
    ASSUME stale, [Next]_vars
    PROVE  stale'
<1>1. ASSUME NEW t \in Tokens, Step(t) PROVE stale'
  BY <1>1 DEF Step, ReleaseIdleLocked
<1>2. QED
  BY <1>1 DEF Next, Stopped, vars

\* So does a stuttering step.
LEMMA StutterKeepsInv ==
    ASSUME TokenInv, UNCHANGED vars
    PROVE  TokenInv'
<1> USE DEF vars, tokenVars, queueVars, headVars
<1>1. Typed' /\ LockInv' /\ DelInv' /\ Members' = Members
  BY DEF TokenInv, Typed, LockInv, DelInv, Members, Linked
<1>2. \A t \in Tokens : Local(t)'
  BY DEF TokenInv, Local
<1>3. ChainInv' /\ FirstInv' /\ HeadInv' /\ WalkInv' /\ StageInv'
  BY <1>1 DEF TokenInv, ChainInv, FirstInv, HeadInv, WalkInv, StageInv, Walker
<1>4. AgeInv' /\ QlenInv'
  BY <1>1 DEF TokenInv, AgeInv, QlenInv
<1>5. QED
  BY <1>1, <1>2, <1>3, <1>4 DEF TokenInv

\* The token queue keeps its invariant in every interleaving of acquire, release, update, reclaim,
\* idle and dispose (cspptrie.cpp, class TokenBase and class MainPatricia) until mt_release starts
\* a walk from a link that is stale.
THEOREM TokenInvariant == Spec => [](stale \/ TokenInv)
<1>1. Init => stale \/ TokenInv
  BY InitTokenInv
<1>2. ASSUME stale \/ TokenInv, [Next]_vars PROVE stale' \/ TokenInv'
  <2>1. CASE stale
    BY <1>2, <2>1, StaleStays
  <2>2. CASE UNCHANGED vars /\ TokenInv
    BY <2>2, StutterKeepsInv
  <2>3. ASSUME NEW t \in Tokens, Step(t), TokenInv, ~stale' PROVE TokenInv'
    BY <2>3, StepKeepsInv
  <2>4. QED
    BY <1>2, <2>1, <2>2, <2>3 DEF Next, Stopped
<1>3. QED
  BY <1>1, <1>2, PTL DEF Spec

-----------------------------------------------------------------------------
(* What it implies: no assertion of the queue fails, and its books are right. *)

\* Nothing ends the process, and none of the assertions of the token queue fails, in a state
\* of the invariant.
LEMMA InvImpliesNoDie ==
    ASSUME TokenInv, NEW t \in Tokens
    PROVE  ~DiesInWalk(t) /\ ~DiesInOperation(t) /\ AssertsOf(t)
<1> USE DEF DeqPcs, LivePcs, IdlePcs, WaitPcs, KeepPcs, RecPcs, WalkPcs, BumpPcs, Done
<1>1. Local(t) /\ \A c \in loc[t].delptrs : state[c] = "DisposeWait"
  BY DEF TokenInv, DelInv
<1>2. ASSUME pc[t] \in {"deq", "rec"}
      PROVE  loc[t].curr # NULL /\ state[loc[t].curr] \notin {"ReleaseDone", "DisposeDone", "AcquireLock"}
  <2>1. loc[t].curr \in Tokens /\ Linked(loc[t].curr) /\ WalkFor(t)
    BY <1>2, WalkerSees DEF QueueFor
  <2>2. QED
    BY <1>2, <2>1, TokensAssumption DEF Linked, WalkFor
<1>3. ASSUME pc[t] = "deq" PROVE ~is_head[loc[t].curr]
  <2>1. loc[t].curr \in Tokens /\ Linked(loc[t].curr) /\ HeadFor(t)
    BY <1>3, WalkerSees DEF QueueFor
  <2>2. loc[t].curr = t => loc[t].resume # "rel_finish"
    BY <2>1 DEF Linked
  <2>3. QED
    BY <1>3, <2>1, <2>2 DEF HeadFor
<1>4. Members \in SUBSET Tokens /\ verseq \in [Tokens -> Nat] /\ tail_verseq \in Nat /\ Chained(Members, verseq, next, tail, tail_verseq)
  BY DEF Members, TokenInv, Typed, ChainInv
<1>5. ASSUME pc[t] = "rec", next[loc[t].curr] = NULL PROVE state[loc[t].curr] = "AcquireDone"
  <2>1. IsFirst(loc[t].curr, Members, verseq)
    BY <1>5, WalkerSees
  <2>2. Members = {loc[t].curr}
    BY <1>4, <1>5, <2>1, FirstIsLast
  <2>3. Linked(t) /\ state[t] = "AcquireDone"
    BY <1>1, <1>5 DEF TokenInv, DelInv, Linked, Local
  <2>4. QED
    BY <2>2, <2>3 DEF Members
<1>6. ASSUME pc[t] = "upd_bump", next[t] = NULL PROVE tail = t /\ tail_verseq = verseq[t]
  <2>1. FirstFor(t) /\ HeadFor(t) /\ t # NULL
    BY <1>6, AtTheLock DEF LockPcs, BumpPcs, QueueFor
  <2>2. t = dummy_next
    BY <1>1, <1>6, <2>1 DEF HeadFor, Local
  <2>3. IsFirst(t, Members, verseq)
    BY <1>6, <2>1, <2>2 DEF FirstFor
  <2>4. QED
    BY <1>4, <1>6, <2>3, FirstIsLast
<1>7. /\ pc[t] = "upd_finish" => loc[t].ok
      /\ pc[t] = "rel" => state[t] \in {"AcquireDone", "AcquireIdle", "AcquireLock"}
      /\ pc[t] = "idle" => state[t] = "AcquireDone"
  BY <1>1 DEF Local
<1>8. ~DiesInWalk(t)
  BY <1>2, <1>3, <1>5 DEF DiesInWalk
<1>9. tail \in Members \cup {NULL} /\ t # NULL /\ (t \in Members <=> Linked(t))
  BY <1>4, TokensAssumption DEF Chained, Members
<1>10. state[t] = "ReleaseDone" => tail # t
  BY <1>9 DEF Linked
<1>11. ~DiesInOperation(t)
  BY <1>1, <1>6, <1>7, <1>10 DEF DiesInOperation
<1>12. ASSUME (pc[t] = "rel" /\ head_lock = NULL) \/ pc[t] \in {"rel_idle_locked", "upd_requeue"}, is_head[t]
       PROVE  dummy_next = t
  <2>1. HeadFor(t)
    BY <1>12, AtTheLock DEF LockPcs, QueueFor
  <2>2. QED
    BY <1>12, <2>1 DEF HeadFor
<1>13. ASSUME pc[t] \in {"rel_finish", "rel_idle_finish"}
       PROVE  dummy_next # t /\ tail # t /\ next[t] \notin {NULL, t}
  <2>1. FirstFor(t) /\ AgeFor(t) /\ loc[t].resume = pc[t] /\ (pc[t] = "rel_idle_finish" => state[t] = "ReleaseDone")
    BY <1>1, <1>13, AtTheLock DEF LockPcs, QueueFor, Local
  <2>2. t \notin Members
    BY <1>9, <1>13, <2>1 DEF Linked
  <2>3. QED
    BY <1>9, <1>13, <2>1, <2>2 DEF FirstFor, AgeFor, IsFirst
<1>14. ASSUME pc[t] = "upd_requeue" PROVE next[t] # NULL /\ verseq[t] < verseq[next[t]]
  <2>1. FirstFor(t) /\ LinksAll /\ loc[t].link # NULL
    BY <1>1, <1>14, AtTheLock DEF LockPcs, QueueFor, Local
  <2>2. next[t] # NULL
    BY <1>14, <2>1 DEF LinksAll
  <2>3. t \in Members
    BY <1>1, <1>9, <1>12, <1>14, <2>1 DEF FirstFor, IsFirst, Local
  <2>4. QED
    BY <1>4, <2>2, <2>3 DEF Chained
<1>15. ASSUME pc[t] = "rec", state[loc[t].curr] \in {"ReleaseWait", "DisposeWait"} PROVE ~is_head[loc[t].curr]
  <2>1. Local(loc[t].curr)
    BY <1>15, WalkerSees
  <2>2. QED
    BY <1>15, <2>1 DEF Local
<1>16. InUse(t) => min_age[t] <= verseq[t] /\ dummy_min_age <= verseq[t]
  BY <1>9 DEF InUse, TokenInv, AgeInv
<1>17. AssertsOf(t)
  <2>1. pc[t] \in {"out", "dispose"} /\ state[t] = "ReleaseDone" => tail # t
    BY <1>10
  <2>2. /\ (pc[t] = "rel" /\ HasFlags(t, "AcquireDone", TRUE) /\ head_lock = NULL => dummy_next = t)
        /\ (pc[t] = "rel_idle_locked" /\ HasFlags(t, "AcquireIdle", TRUE) => dummy_next = t)
    BY <1>12 DEF HasFlags
  <2>3. pc[t] \in {"rel_finish", "rel_idle_finish"} => dummy_next # t /\ (~loc[t].ok => tail # t /\ next[t] \notin {NULL, t})
    BY <1>13
  <2>4. pc[t] = "upd_requeue" => dummy_next = t /\ next[t] # NULL /\ verseq[t] < verseq[next[t]]
    BY <1>1, <1>12, <1>14 DEF Local
  <2>5. pc[t] = "rec" /\ state[loc[t].curr] \in {"ReleaseWait", "DisposeWait"} => ~is_head[loc[t].curr]
    BY <1>15
  <2>6. QED
    BY <2>1, <2>2, <2>3, <2>4, <2>5, <1>16, Zenon DEF AssertsOf
<1>18. QED
  BY <1>8, <1>11, <1>17

\* m_tail, m_qlen and the links are right in a state of the invariant.
LEMMA InvImpliesQueueRight ==
    ASSUME TokenInv
    PROVE  QueueWhole /\ HeadIsFirst /\ QlenCovers
<1> USE DEF DeqPcs, LivePcs, IdlePcs, WaitPcs, KeepPcs, RecPcs, WalkPcs, Done
<1>1. ASSUME head_lock = NULL, NEW t \in Tokens PROVE ~Walker(t) /\ pc[t] # "rel_finish"
  BY <1>1, TokensAssumption DEF TokenInv, LockInv, LockPcs, BumpPcs, Walker
<1>2. QueueWhole
  <2> SUFFICES ASSUME head_lock = NULL
               PROVE  /\ Members = {} => dummy_next = NULL /\ tail = NULL
                      /\ Members # {} => dummy_next \in Members /\ \A x \in Members : verseq[dummy_next] <= verseq[x]
                      /\ \A t \in Members :
                           /\ IF {u \in Members : verseq[u] > verseq[t]} = {}
                              THEN next[t] = NULL /\ tail = t /\ tail_verseq = verseq[t]
                              ELSE /\ next[t] \in {u \in Members : verseq[u] > verseq[t]}
                                   /\ \A x \in {u \in Members : verseq[u] > verseq[t]} : verseq[next[t]] <= verseq[x]
                           /\ \A u \in Members : verseq[t] = verseq[u] => t = u
    BY DEF QueueWhole, Members
  <2>1. Chained(Members, verseq, next, tail, tail_verseq) /\ Members \subseteq Tokens /\ tail_verseq \in Nat /\ \A u \in Members : verseq[u] \in Nat
    BY DEF TokenInv, ChainInv, Typed, Members
  <2>2. (Members = {} /\ dummy_next = NULL) \/ IsFirst(dummy_next, Members, verseq)
    BY <1>1 DEF TokenInv, FirstInv
  <2>3. ASSUME NEW t \in Members
        PROVE  IF {u \in Members : verseq[u] > verseq[t]} = {}
               THEN next[t] = NULL /\ tail = t /\ tail_verseq = verseq[t]
               ELSE /\ next[t] \in {u \in Members : verseq[u] > verseq[t]}
                    /\ \A x \in {u \in Members : verseq[u] > verseq[t]} : verseq[next[t]] <= verseq[x]
    <3>1. CASE t = tail
      <4>1. \A u \in Members : ~(verseq[u] > verseq[t])
        BY <2>1, <3>1 DEF Chained
      <4>2. QED
        BY <2>1, <3>1, <4>1 DEF Chained
    <3>2. CASE t # tail
      <4>1. /\ next[t] \in Members /\ verseq[t] < verseq[next[t]]
            /\ \A u \in Members : verseq[t] < verseq[u] => verseq[next[t]] <= verseq[u]
        BY <2>1, <3>2 DEF Chained
      <4>2. \A u \in Members : verseq[u] > verseq[t] <=> verseq[t] < verseq[u]
        BY <2>1
      <4>3. QED
        BY <4>1, <4>2
    <3>3. QED
      BY <3>1, <3>2
  <2>4. \A t, u \in Members : verseq[t] = verseq[u] => t = u
    BY <2>1 DEF Chained
  <2>5. QED
    BY <2>1, <2>2, <2>3, <2>4 DEF Chained, IsFirst
<1>3. HeadIsFirst
  BY <1>1 DEF HeadIsFirst, TokenInv, HeadInv
<1>4. QlenCovers
  BY DEF QlenCovers, TokenInv, QlenInv, Members
<1>5. QED
  BY <1>2, <1>3, <1>4

-----------------------------------------------------------------------------
(* Every step of the queue is a step of CsppEpoch or changes nothing there.   *)

links == [t \in Tokens |-> Linked(t)]
uses  == [t \in Tokens |-> InUse(t)]

\* The two functions at a token.
LEMMA AtLinks ==
    ASSUME NEW t \in Tokens
    PROVE  (links[t] <=> Linked(t)) /\ (uses[t] <=> InUse(t))
  BY DEF links, uses

\* links stays when every Linked does.
LEMMA SameLinks ==
    ASSUME \A u \in Tokens : Linked(u)' <=> Linked(u)
    PROVE  links' = links
<1>1. \A u \in Tokens : Linked(u)' = Linked(u)
  BY Zenon DEF Linked
<1>2. QED
  BY <1>1, Zenon DEF links

\* links changes at one token.
LEMMA OneLink ==
    ASSUME NEW c \in Tokens, NEW b \in BOOLEAN, \A u \in Tokens \ {c} : Linked(u)' <=> Linked(u), Linked(c)' <=> b
    PROVE  links' = [links EXCEPT ![c] = b]
<1>1. \A u \in Tokens : Linked(u)' = IF u = c THEN b ELSE Linked(u)
  BY Zenon DEF Linked
<1>2. QED
  BY <1>1, Zenon DEF links

\* uses stays when every InUse does.
LEMMA SameUses ==
    ASSUME \A u \in Tokens : InUse(u)' <=> InUse(u)
    PROVE  uses' = uses
<1>1. \A u \in Tokens : InUse(u)' = InUse(u)
  BY Zenon DEF InUse
<1>2. QED
  BY <1>1, Zenon DEF uses

\* uses changes at one token.
LEMMA OneUse ==
    ASSUME NEW c \in Tokens, NEW b \in BOOLEAN, \A u \in Tokens \ {c} : InUse(u)' <=> InUse(u), InUse(c)' <=> b
    PROVE  uses' = [uses EXCEPT ![c] = b]
<1>1. \A u \in Tokens : InUse(u)' = IF u = c THEN b ELSE InUse(u)
  BY Zenon DEF InUse
<1>2. QED
  BY <1>1, Zenon DEF uses

\* The places that change, as CsppEpoch has them.
places == <<verseq, min_age, dummy_min_age, tail_verseq>>

\* A step of CsppEpoch, or none, that leaves the tokens in use where they are.
Simulates ==
    /\ [Epoch!EpochNext]_(Epoch!epochVars)
    /\ \A u \in Tokens : pc[u] = "out" /\ InUse(u) => verseq'[u] = verseq[u]

\* The steps of CsppEpoch in these terms.
LEMMA EpochSteps ==
    ASSUME NEW c \in Tokens
    PROVE  /\ links' = links /\ uses' = uses /\ UNCHANGED places => UNCHANGED Epoch!epochVars
           /\ links[c] /\ ~uses[c] /\ links' = links /\ uses' = [uses EXCEPT ![c] = TRUE] /\ UNCHANGED places
                 => Epoch!Resume(c)
           /\ uses[c] /\ links' = links /\ uses' = [uses EXCEPT ![c] = FALSE] /\ UNCHANGED places
                 => Epoch!Leave(c)
           /\ links[c] /\ ~uses[c] /\ links' = [links EXCEPT ![c] = FALSE] /\ uses' = uses /\ UNCHANGED places
                 => Epoch!Unlink(c)
           /\ ~links[c] /\ ~uses[c] /\ links' = links /\ uses' = uses /\ verseq' = [verseq EXCEPT ![c] = 0]
                 /\ UNCHANGED <<min_age, dummy_min_age, tail_verseq>>
                 => Epoch!Clear(c)
           /\ links[c] /\ (\A u \in Tokens : links[u] => verseq[c] <= verseq[u])
                 /\ links' = links /\ uses' = uses /\ dummy_min_age' = verseq[c]
                 /\ UNCHANGED <<verseq, min_age, tail_verseq>>
                 => Epoch!TellTrie(c)
           /\ links[c] /\ (\A u \in Tokens : links[u] => verseq[c] <= verseq[u])
                 /\ links' = links /\ uses' = uses /\ min_age' = [min_age EXCEPT ![c] = verseq[c]]
                 /\ UNCHANGED <<verseq, dummy_min_age, tail_verseq>>
                 => Epoch!TellToken(c)
           /\ ~links[c] /\ ~uses[c] /\ (\A u \in Tokens : links[u] => verseq[c] <= verseq[u])
                 /\ min_age[c] <= verseq[c] /\ verseq[c] <= dummy_min_age
                 /\ links' = links /\ uses' = uses /\ min_age' = [min_age EXCEPT ![c] = verseq[c]]
                 /\ UNCHANGED <<verseq, dummy_min_age, tail_verseq>>
                 => Epoch!Remember(c)
           /\ ~links[c] /\ ~uses[c] /\ links' = [links EXCEPT ![c] = TRUE] /\ uses' = [uses EXCEPT ![c] = TRUE]
                 /\ Epoch!ToTail(c) /\ UNCHANGED <<min_age, dummy_min_age>>
                 => Epoch!Acquire(c)
           /\ links[c] /\ uses[c] /\ (\A u \in Tokens : links[u] => verseq[c] <= verseq[u])
                 /\ links' = links /\ uses' = uses /\ Epoch!ToTail(c) /\ UNCHANGED <<min_age, dummy_min_age>>
                 => Epoch!Requeue(c)
           /\ links[c] /\ ~uses[c] /\ (\A u \in Tokens : links[u] => verseq[c] <= verseq[u])
                 /\ links' = links /\ uses' = uses /\ Epoch!ToTail(c)
                 /\ min_age' = [min_age EXCEPT ![c] = verseq[c]] /\ dummy_min_age' = dummy_min_age
                 => Epoch!MoveIdle(c)
<1>1. links' = links /\ uses' = uses /\ UNCHANGED places => UNCHANGED Epoch!epochVars
  BY Zenon DEF links, uses, places, Epoch!epochVars
<1>2. links[c] /\ ~uses[c] /\ links' = links /\ uses' = [uses EXCEPT ![c] = TRUE] /\ UNCHANGED places
      => Epoch!Resume(c)
  BY Zenon DEF links, uses, places, Epoch!Resume
<1>3. uses[c] /\ links' = links /\ uses' = [uses EXCEPT ![c] = FALSE] /\ UNCHANGED places
      => Epoch!Leave(c)
  BY Zenon DEF links, uses, places, Epoch!Leave
<1>4. links[c] /\ ~uses[c] /\ links' = [links EXCEPT ![c] = FALSE] /\ uses' = uses /\ UNCHANGED places
      => Epoch!Unlink(c)
  BY Zenon DEF links, uses, places, Epoch!Unlink
<1>12. ~links[c] /\ ~uses[c] /\ links' = links /\ uses' = uses /\ verseq' = [verseq EXCEPT ![c] = 0]
      /\ UNCHANGED <<min_age, dummy_min_age, tail_verseq>>
      => Epoch!Clear(c)
  BY Zenon DEF links, uses, Epoch!Clear
<1>5. links[c] /\ (\A u \in Tokens : links[u] => verseq[c] <= verseq[u])
      /\ links' = links /\ uses' = uses /\ dummy_min_age' = verseq[c] /\ UNCHANGED <<verseq, min_age, tail_verseq>>
      => Epoch!TellTrie(c)
  BY Zenon DEF links, uses, Epoch!TellTrie, Epoch!Oldest
<1>13. links[c] /\ (\A u \in Tokens : links[u] => verseq[c] <= verseq[u])
      /\ links' = links /\ uses' = uses /\ min_age' = [min_age EXCEPT ![c] = verseq[c]]
      /\ UNCHANGED <<verseq, dummy_min_age, tail_verseq>>
      => Epoch!TellToken(c)
  BY Zenon DEF links, uses, Epoch!TellToken, Epoch!Oldest
<1>6. ~links[c] /\ ~uses[c] /\ (\A u \in Tokens : links[u] => verseq[c] <= verseq[u])
      /\ min_age[c] <= verseq[c] /\ verseq[c] <= dummy_min_age
      /\ links' = links /\ uses' = uses /\ min_age' = [min_age EXCEPT ![c] = verseq[c]]
      /\ UNCHANGED <<verseq, dummy_min_age, tail_verseq>>
      => Epoch!Remember(c)
  BY Zenon DEF links, uses, places, Epoch!Remember, Epoch!Oldest
<1>7. ~links[c] /\ ~uses[c] /\ links' = [links EXCEPT ![c] = TRUE] /\ uses' = [uses EXCEPT ![c] = TRUE]
      /\ Epoch!ToTail(c) /\ UNCHANGED <<min_age, dummy_min_age>>
      => Epoch!Acquire(c)
  BY Zenon DEF links, uses, places, Epoch!Acquire
<1>8. links[c] /\ uses[c] /\ (\A u \in Tokens : links[u] => verseq[c] <= verseq[u])
      /\ links' = links /\ uses' = uses /\ Epoch!ToTail(c) /\ UNCHANGED <<min_age, dummy_min_age>>
      => Epoch!Requeue(c)
  BY Zenon DEF links, uses, places, Epoch!Requeue, Epoch!Oldest
<1>10. links[c] /\ ~uses[c] /\ (\A u \in Tokens : links[u] => verseq[c] <= verseq[u])
      /\ links' = links /\ uses' = uses /\ Epoch!ToTail(c)
      /\ min_age' = [min_age EXCEPT ![c] = verseq[c]] /\ dummy_min_age' = dummy_min_age
      => Epoch!MoveIdle(c)
  BY Zenon DEF links, uses, places, Epoch!MoveIdle, Epoch!Oldest
<1>11. QED
  BY <1>1, <1>2, <1>3, <1>4, <1>5, <1>6, <1>7, <1>8, <1>10, <1>12, <1>13

\* An enqueued token takes CsppEpoch's step to the tail.
LEMMA ToTheTail ==
    ASSUME NEW c \in Tokens, Enqueued(c), DataTyped, DataTyped'
    PROVE  Epoch!ToTail(c) /\ \A u \in Tokens \ {c} : verseq'[u] = verseq[u]
<1>1. verseq'[c] = tail_verseq + 1 /\ tail_verseq' = tail_verseq + 1 /\ \A u \in Tokens \ {c} : verseq'[u] = verseq[u]
  BY DEF Enqueued, Appended
<1>2. verseq' = [verseq EXCEPT ![c] = tail_verseq + 1] /\ tail_verseq + 1 \in Nat
  BY <1>1 DEF DataTyped
<1>3. QED
  BY <1>1, <1>2 DEF Epoch!ToTail

\* Linked tokens are the members.
LEMMA LinkedMembers ==
    /\ \A u \in Tokens : Linked(u) <=> u \in Members
    /\ \A u \in Tokens : Linked(u)' <=> u \in Members'
  BY DEF Members

\* A thread's own part of InUse.
Working(t) == state[t] = "AcquireDone" /\ pc[t] \notin {"rel", "rel_leave_dead"}

\* The tokens of the other threads stay in use or unused.
LEMMA UsesKept ==
    ASSUME NEW t \in Tokens, Others(t), NEW u \in Tokens,
           \/ (Linked(u)' <=> Linked(u)) /\ (u = t => (Working(t)' <=> Working(t)))
           \/ ~Linked(u)' /\ ~InUse(u)
    PROVE  InUse(u)' <=> InUse(u)
  BY DEF Others, Rely, InUse, Working

\* A step of a thread on its own token is Resume, Leave or nothing.
LEMMA PlainSimulates ==
    ASSUME TokenInv, NEW t \in Tokens, PlainStep(t)
    PROVE  Simulates
<1>1. /\ \A u \in Tokens \ {t} : pc'[u] = pc[u] /\ loc'[u] = loc[u] /\ state'[u] = state[u] /\ is_head'[u] = is_head[u]
      /\ UNCHANGED <<next, verseq, min_age, dummy_next, dummy_min_age, tail, tail_verseq, qlen>>
      /\ loc'[t].delptrs = loc[t].delptrs /\ (OwnLinked(t)' <=> OwnLinked(t))
  BY DEF PlainStep, PlainFrame, PlainOwn
<1>2. \A u \in Tokens : Linked(u)' <=> Linked(u)
  BY <1>1 DEF Linked, OwnLinked
<1>3. \A u \in Tokens \ {t} : InUse(u)' <=> InUse(u)
  BY <1>1, <1>2 DEF InUse
<1>4. links' = links /\ UNCHANGED places /\ verseq' = verseq
  BY <1>1, <1>2, SameLinks DEF places
<1>5. CASE InUse(t)' <=> InUse(t)
  <2>1. uses' = uses
    BY <1>3, <1>5, SameUses
  <2>2. QED
    BY <1>4, <2>1, EpochSteps DEF Simulates
<1>6. CASE InUse(t)' /\ ~InUse(t)
  <2>1. uses' = [uses EXCEPT ![t] = TRUE]
    BY <1>3, <1>6, OneUse
  <2>2. links[t] /\ ~uses[t]
    BY <1>2, <1>6, AtLinks DEF InUse
  <2>3. Epoch!Resume(t)
    BY <1>4, <2>1, <2>2, EpochSteps
  <2>4. QED
    BY <1>4, <2>3 DEF Simulates, Epoch!EpochNext
<1>7. CASE ~InUse(t)' /\ InUse(t)
  <2>1. uses' = [uses EXCEPT ![t] = FALSE]
    BY <1>3, <1>7, OneUse
  <2>2. uses[t]
    BY <1>7, AtLinks
  <2>3. Epoch!Leave(t)
    BY <1>4, <2>1, <2>2, EpochSteps
  <2>4. QED
    BY <1>4, <2>3 DEF Simulates, Epoch!EpochNext
<1>8. QED
  BY <1>5, <1>6, <1>7

\* The stores that make the oldest token the head are TellTrie, TellToken or nothing.
LEMMA StoresSimulate ==
    ASSUME NEW c \in Tokens, DataTyped, DataTyped', links[c], \A u \in Tokens : links[u] => verseq[c] <= verseq[u],
           links' = links, uses' = uses, Stores(c), dummy_min_age' = dummy_min_age \/ min_age' = min_age
    PROVE  Simulates
<1>1. verseq' = verseq /\ tail_verseq' = tail_verseq /\ dummy_min_age' \in {dummy_min_age, verseq[c]}
  BY DEF Stores
<1>2. min_age' = min_age \/ min_age' = [min_age EXCEPT ![c] = verseq[c]]
  BY DEF Stores, DataTyped
<1>3. CASE dummy_min_age' = dummy_min_age /\ min_age' = min_age
  BY <1>1, <1>3, EpochSteps DEF Simulates, places
<1>4. CASE min_age' = min_age /\ dummy_min_age' = verseq[c]
  <2>1. Epoch!TellTrie(c)
    BY <1>1, <1>4, EpochSteps
  <2>2. QED
    BY <1>1, <2>1 DEF Simulates, Epoch!EpochNext
<1>5. CASE dummy_min_age' = dummy_min_age /\ min_age' = [min_age EXCEPT ![c] = verseq[c]]
  <2>1. Epoch!TellToken(c)
    BY <1>1, <1>5, EpochSteps
  <2>2. QED
    BY <1>1, <2>1 DEF Simulates, Epoch!EpochNext
<1>6. QED
  BY <1>1, <1>2, <1>3, <1>4, <1>5

\* A step of a walk is TellTrie, TellToken, Unlink, Clear, MoveIdle or nothing.
LEMMA WalkSimulates ==
    ASSUME TokenInv, NEW t \in Tokens, NEW c, WalkStep(t, c)
    PROVE  Simulates
<1>0. /\ HolderStep(t) /\ Others(t) /\ DataTyped' /\ DataTyped /\ c \in Tokens /\ Linked(c) /\ IsFirst(c, Members, verseq)
      /\ pc[t] \in WalkPcs /\ pc'[t] \in LockPcs /\ TouchesOnly(c)
      /\ (state'[c] = "AcquireDone" <=> state[c] = "AcquireDone") /\ WalkEffect(c)
  BY TypeParts DEF WalkStep, HolderStep, TokenInv
<1>1. Working(t)' <=> Working(t)
  BY <1>0 DEF Working, TouchesOnly, WalkPcs, DeqPcs, LivePcs, IdlePcs, WaitPcs, KeepPcs, RecPcs, LockPcs, BumpPcs, Done
<1>2. links[c] /\ (uses[c] => state[c] = "AcquireDone") /\ \A u \in Tokens : links[u] => verseq[c] <= verseq[u]
  BY <1>0, AtLinks, LinkedMembers DEF IsFirst, InUse
<1>3. ASSUME Members' = Members PROVE links' = links /\ uses' = uses
  <2>1. \A u \in Tokens : Linked(u)' <=> Linked(u)
    BY <1>3, LinkedMembers
  <2>2. \A u \in Tokens : InUse(u)' <=> InUse(u)
    BY <1>0, <1>1, <2>1, UsesKept
  <2>3. QED
    BY <2>1, <2>2, SameLinks, SameUses
<1>4. CASE Stores(c) /\ (dummy_min_age' = dummy_min_age \/ min_age' = min_age) /\ Members' = Members
  BY <1>0, <1>2, <1>3, <1>4, StoresSimulate
<1>5. CASE LinksKept /\ Members' = Members \ {c} /\ state[c] # "AcquireDone"
  <2>1. ~Linked(c)' /\ ~InUse(c) /\ \A u \in Tokens \ {c} : Linked(u)' <=> Linked(u)
    BY <1>0, <1>5, LinkedMembers DEF InUse
  <2>2. \A u \in Tokens : InUse(u)' <=> InUse(u)
    BY <1>0, <1>1, <2>1, UsesKept
  <2>3. links' = [links EXCEPT ![c] = FALSE] /\ uses' = uses
    BY <1>0, <2>1, <2>2, OneLink, SameUses
  <2>4. UNCHANGED places /\ verseq' = verseq
    BY <1>5 DEF LinksKept, places
  <2>5. ~uses[c]
    BY <1>0, <2>1, AtLinks
  <2>6. Epoch!Unlink(c)
    BY <1>0, <1>2, <2>3, <2>4, <2>5, EpochSteps
  <2>7. QED
    BY <1>0, <2>4, <2>6 DEF Simulates, Epoch!EpochNext
<1>6. CASE /\ \E d \in Tokens \ Members : verseq' = [verseq EXCEPT ![d] = 0]
           /\ UNCHANGED <<min_age, dummy_min_age, tail_verseq>> /\ Members' = Members
  <2>1. PICK d \in Tokens \ Members : verseq' = [verseq EXCEPT ![d] = 0]
    BY <1>6
  <2>2. ~Linked(d) /\ ~InUse(d) /\ ~links[d] /\ ~uses[d]
    BY <2>1, AtLinks, LinkedMembers DEF InUse
  <2>3. Epoch!Clear(d)
    BY <1>3, <1>6, <2>1, <2>2, EpochSteps
  <2>4. \A u \in Tokens \ {d} : verseq'[u] = verseq[u]
    BY <1>0, <2>1 DEF DataTyped
  <2>5. QED
    BY <2>2, <2>3, <2>4 DEF Simulates, Epoch!EpochNext
<1>7. CASE /\ Enqueued(c) /\ min_age' = [min_age EXCEPT ![c] = verseq[c]] /\ dummy_min_age' = dummy_min_age
           /\ Members' = Members /\ state[c] # "AcquireDone"
  <2>1. Epoch!ToTail(c) /\ \A u \in Tokens \ {c} : verseq'[u] = verseq[u]
    BY <1>0, <1>7, ToTheTail
  <2>2. Epoch!MoveIdle(c)
    BY <1>0, <1>2, <1>3, <1>7, <2>1, EpochSteps
  <2>3. ~InUse(c)
    BY <1>7 DEF InUse
  <2>4. QED
    BY <1>0, <2>1, <2>2, <2>3 DEF Simulates, Epoch!EpochNext
<1>8. QED
  BY <1>0, <1>4, <1>5, <1>6, <1>7 DEF WalkEffect

\* The other steps at the lock are Acquire, Requeue, Remember, Unlink or nothing.
LEMMA LockSimulates ==
    ASSUME TokenInv, NEW t \in Tokens, Alone(t), HolderStep(t),
           \/ ReleaseReadFlags(t) /\ HasFlags(t, "AcquireDone", TRUE) /\ next[t] # NULL /\ head_lock = NULL
           \/ ReleaseIdleLocked(t) /\ HasFlags(t, "AcquireIdle", TRUE) /\ ~stale'
           \/ UpdateRequeue(t)
           \/ ReclaimCheck(t) /\ (head_is_dead \/ head_is_idle)
           \/ AcquireEnqueue(t)
           \/ ReleaseFinish(t)
           \/ UpdateBump(t) /\ next[t] = NULL
    PROVE  Simulates
<1> USE DEF tokenVars, queueVars, headVars
<1>0. /\ Others(t) /\ PcTyped /\ DataTyped /\ PcTyped' /\ DataTyped' /\ Local(t) /\ Local(t)' /\ QueueFor(t)
  BY TypeParts, HolderSees DEF HolderStep, TokenInv
<1>1. ASSUME Members' = Members \ {t}, Linked(t), ~InUse(t), UNCHANGED places
      PROVE  Simulates
  <2>1. ~Linked(t)' /\ \A u \in Tokens \ {t} : Linked(u)' <=> Linked(u)
    BY <1>1, LinkedMembers
  <2>2. \A u \in Tokens : InUse(u)' <=> InUse(u)
    BY <1>0, <1>1, <2>1, UsesKept
  <2>3. links' = [links EXCEPT ![t] = FALSE] /\ uses' = uses
    BY <2>1, <2>2, OneLink, SameUses
  <2>4. Epoch!Unlink(t)
    BY <1>1, <2>3, AtLinks, EpochSteps DEF places
  <2>5. QED
    BY <1>1, <2>4 DEF Simulates, Epoch!EpochNext, places
<1>2. ASSUME Members' = Members, (Working(t)' <=> Working(t)) \/ ~Linked(t)
      PROVE  links' = links /\ uses' = uses
  <2>1. \A u \in Tokens : Linked(u)' <=> Linked(u)
    BY <1>2, LinkedMembers
  <2>2. \A u \in Tokens : InUse(u)' <=> InUse(u)
    BY <1>0, <1>2, <2>1, UsesKept DEF InUse
  <2>3. QED
    BY <2>1, <2>2, SameLinks, SameUses
<1>3. CASE ReleaseReadFlags(t) /\ HasFlags(t, "AcquireDone", TRUE) /\ next[t] # NULL /\ head_lock = NULL
  <2>1. Members' = Members \ {t} /\ Linked(t)
    BY <1>3, StartActions
  <2>2. ~InUse(t) /\ UNCHANGED places
    BY <1>3 DEF ReleaseReadFlags, InUse, places
  <2>3. QED
    BY <1>1, <2>1, <2>2
<1>4. CASE ReleaseIdleLocked(t) /\ HasFlags(t, "AcquireIdle", TRUE) /\ ~stale'
  <2>1. Members' = Members \ {t} /\ Linked(t)
    BY <1>4, StartActions
  <2>2. ~InUse(t) /\ UNCHANGED places
    BY <1>4 DEF ReleaseIdleLocked, HasFlags, InUse, places
  <2>3. QED
    BY <1>1, <2>1, <2>2
<1>5. CASE UpdateRequeue(t)
  <2>1. Members' = Members /\ Linked(t) /\ IsFirst(t, Members, verseq) /\ Enqueued(t)
    BY <1>5, StartActions
  <2>2. pc[t] = "upd_requeue" /\ state[t] = "AcquireDone" /\ state' = state /\ UNCHANGED <<min_age, dummy_min_age>>
    BY <1>0, <1>5 DEF UpdateRequeue, Local
  <2>3. pc'[t] = "deq"
    BY <1>0, <1>5 DEF UpdateRequeue, dequeue, Go, PcTyped
  <2>4. links' = links /\ uses' = uses
    BY <1>2, <2>1, <2>2, <2>3 DEF Working
  <2>5. links[t] /\ uses[t] /\ \A u \in Tokens : links[u] => verseq[t] <= verseq[u]
    BY <2>1, <2>2, AtLinks, LinkedMembers DEF IsFirst, InUse
  <2>6. Epoch!ToTail(t) /\ \A u \in Tokens \ {t} : verseq'[u] = verseq[u]
    BY <1>0, <2>1, ToTheTail
  <2>7. Epoch!Requeue(t)
    BY <2>2, <2>4, <2>5, <2>6, EpochSteps
  <2>8. QED
    BY <2>2, <2>6, <2>7 DEF Simulates, Epoch!EpochNext
<1>6. CASE ReclaimCheck(t) /\ (head_is_dead \/ head_is_idle)
  <2>1. Members' = Members
    BY <1>6, StartActions
  <2>2. pc[t] = "rec_check" /\ pc'[t] = "rec" /\ state' = state /\ UNCHANGED places /\ verseq' = verseq
    BY <1>0, <1>6 DEF ReclaimCheck, Go, PcTyped, places
  <2>3. links' = links /\ uses' = uses
    BY <1>2, <2>1, <2>2 DEF Working
  <2>4. QED
    BY <2>2, <2>3, EpochSteps DEF Simulates
<1>7. CASE AcquireEnqueue(t)
  <2>1. ~Linked(t) /\ Members' = Members \cup {t} /\ Enqueued(t)
    BY <1>7, EndActions
  <2>2. pc[t] = "acq_enqueue" /\ state[t] = "AcquireDone" /\ state' = state /\ UNCHANGED <<min_age, dummy_min_age>>
    BY <1>0, <1>7 DEF AcquireEnqueue, Local
  <2>3. pc'[t] = "acq_unlock"
    BY <1>0, <1>7 DEF AcquireEnqueue, Goto, Go, PcTyped
  <2>4. Linked(t)' /\ \A u \in Tokens \ {t} : Linked(u)' <=> Linked(u)
    BY <2>1, LinkedMembers
  <2>5. InUse(t)' /\ \A u \in Tokens \ {t} : InUse(u)' <=> InUse(u)
    BY <1>0, <2>2, <2>3, <2>4, UsesKept DEF InUse
  <2>6. links' = [links EXCEPT ![t] = TRUE] /\ uses' = [uses EXCEPT ![t] = TRUE]
    BY <2>4, <2>5, OneLink, OneUse
  <2>7. ~links[t] /\ ~uses[t]
    BY <2>1, AtLinks DEF InUse
  <2>8. Epoch!ToTail(t) /\ \A u \in Tokens \ {t} : verseq'[u] = verseq[u]
    BY <1>0, <2>1, ToTheTail
  <2>9. Epoch!Acquire(t)
    BY <2>2, <2>6, <2>7, <2>8, EpochSteps
  <2>10. QED
    BY <2>2, <2>8, <2>9 DEF Simulates, Epoch!EpochNext
<1>8. CASE ReleaseFinish(t)
  <2>1. ~Linked(t) /\ Members' = Members
    BY <1>8, EndActions
  <2>2. links' = links /\ uses' = uses
    BY <1>2, <2>1
  <2>3. UNCHANGED <<verseq, dummy_min_age, tail_verseq>> /\ pc[t] \in {"rel_finish", "rel_idle_finish"}
    BY <1>8 DEF ReleaseFinish
  <2>4. CASE loc[t].ok
    <3>1. min_age' = [min_age EXCEPT ![t] = verseq[t]]
      BY <1>8, <2>4 DEF ReleaseFinish
    <3>2. AgeFor(t) /\ loc[t].resume = pc[t]
      BY <1>0, <2>3 DEF QueueFor, Local, Done
    <3>3. min_age[t] <= verseq[t] /\ verseq[t] <= dummy_min_age /\ \A u \in Members : verseq[t] <= verseq[u]
      BY <2>3, <2>4, <3>2 DEF AgeFor, Done
    <3>4. ~links[t] /\ ~uses[t] /\ \A u \in Tokens : links[u] => verseq[t] <= verseq[u]
      BY <2>1, <3>3, AtLinks, LinkedMembers DEF InUse
    <3>5. Epoch!Remember(t)
      BY <2>2, <2>3, <3>1, <3>3, <3>4, EpochSteps
    <3>6. QED
      BY <2>3, <3>5 DEF Simulates, Epoch!EpochNext
  <2>5. CASE ~loc[t].ok
    <3>1. min_age' = min_age
      BY <1>8, <2>5 DEF ReleaseFinish
    <3>2. QED
      BY <2>2, <2>3, <3>1, EpochSteps DEF Simulates, places
  <2>6. QED
    BY <2>4, <2>5
<1>9. CASE UpdateBump(t) /\ next[t] = NULL
  <2>1. Members = {t} /\ tail_verseq = verseq[t] /\ Members' = Members
    BY <1>9, EndActions
  <2>2. pc[t] = "upd_bump" /\ state[t] = "AcquireDone" /\ state' = state /\ UNCHANGED <<min_age, dummy_min_age>>
    BY <1>0, <1>9 DEF UpdateBump, Local
  <2>3. pc'[t] = "bump_age"
    BY <1>0, <1>9 DEF UpdateBump, Go, PcTyped
  <2>4. links' = links /\ uses' = uses
    BY <1>2, <2>1, <2>2, <2>3 DEF Working
  <2>5. links[t] /\ uses[t] /\ \A u \in Tokens : links[u] => verseq[t] <= verseq[u]
    BY <1>0, <2>1, <2>2, AtLinks, LinkedMembers DEF InUse, DataTyped
  <2>6. verseq' = [verseq EXCEPT ![t] = tail_verseq + 1] /\ tail_verseq' = tail_verseq + 1
    BY <1>9, <2>1 DEF UpdateBump
  <2>7. Epoch!ToTail(t) /\ \A u \in Tokens \ {t} : verseq'[u] = verseq[u]
    BY <1>0, <2>6 DEF Epoch!ToTail, DataTyped
  <2>8. Epoch!Requeue(t)
    BY <2>2, <2>4, <2>5, <2>7, EpochSteps
  <2>9. QED
    BY <2>2, <2>7, <2>8 DEF Simulates, Epoch!EpochNext
<1>10. QED
  BY <1>3, <1>4, <1>5, <1>6, <1>7, <1>8, <1>9

\* The stores of mt_update by a head that is alone are TellTrie and TellToken.
LEMMA BumpSimulates ==
    ASSUME TokenInv, NEW t \in Tokens, BumpStep(t)
    PROVE  Simulates
<1>1. /\ Others(t) /\ DataTyped /\ DataTyped' /\ IsFirst(t, Members, verseq) /\ Members' = Members /\ Stores(t)
      /\ (dummy_min_age' = dummy_min_age \/ min_age' = min_age)
      /\ (Working(t)' <=> Working(t))
  BY TypeParts DEF BumpStep, HolderStep, TokenInv, Working, BumpPcs
<1>2. \A u \in Tokens : Linked(u)' <=> Linked(u)
  BY <1>1, LinkedMembers
<1>3. \A u \in Tokens : InUse(u)' <=> InUse(u)
  BY <1>1, <1>2, UsesKept
<1>4. links' = links /\ uses' = uses
  BY <1>2, <1>3, SameLinks, SameUses
<1>5. links[t] /\ \A u \in Tokens : links[u] => verseq[t] <= verseq[u]
  BY <1>1, AtLinks, LinkedMembers DEF IsFirst
<1>6. QED
  BY <1>1, <1>4, <1>5, StoresSimulate

\* del_tokens is nothing.
LEMMA DeleteSimulates ==
    ASSUME TokenInv, NEW t \in Tokens, del_tokens(t)
    PROVE  Simulates
<1>1. /\ pc[t] = "del_tokens" /\ pc'[t] \in {"out", "idle", "dispose"} /\ state'[t] = state[t] /\ QueueSame
      /\ \A u \in Tokens \ {t} : pc'[u] = pc[u] /\ loc'[u] = loc[u] /\ Rely(u)
  BY DeleteEffect
<1>2. \A u \in Tokens : Linked(u)' <=> Linked(u)
  BY DeleteMembers
<1>3. \A u \in Tokens : InUse(u)' <=> InUse(u)
  BY <1>1, <1>2, UsesKept DEF Others, Working
<1>4. links' = links /\ uses' = uses /\ UNCHANGED places /\ verseq' = verseq
  BY <1>1, <1>2, <1>3, SameLinks, SameUses DEF QueueSame, LinksKept, places
<1>5. QED
  BY <1>4, EpochSteps DEF Simulates

\* Every step of a thread that does not start from a stale link is a step of CsppEpoch.
LEMMA StepSimulates ==
    ASSUME TokenInv, ~stale', NEW t \in Tokens, Step(t)
    PROVE  Simulates
  BY StepKinds, PlainSimulates, WalkSimulates, BumpSimulates, LockSimulates, DeleteSimulates

\* So is every such step of the specification.
LEMMA NextSimulates ==
    ASSUME stale \/ TokenInv, [Next]_vars, ~stale'
    PROVE  Simulates
<1>0. TokenInv
  BY StaleStays
<1>1. CASE UNCHANGED vars
  <2>1. /\ \A u \in Tokens : Linked(u)' <=> Linked(u)
        /\ \A u \in Tokens : InUse(u)' <=> InUse(u)
        /\ verseq' = verseq /\ UNCHANGED places
    BY <1>1 DEF vars, tokenVars, queueVars, headVars, Linked, InUse, places
  <2>2. UNCHANGED Epoch!epochVars
    <3>1. links' = links /\ uses' = uses
      BY <2>1, SameLinks, SameUses
    <3>2. QED
      BY <2>1, <3>1, Zenon DEF links, uses, places, Epoch!epochVars
  <2>3. QED
    BY <2>1, <2>2 DEF Simulates
<1>2. ASSUME NEW t \in Tokens, Step(t) PROVE Simulates
  BY <1>0, <1>2, StepSimulates
<1>3. QED
  BY <1>1, <1>2 DEF Next, Stopped

-----------------------------------------------------------------------------
(* The theorems.                                                             *)

\* Until mt_release starts a walk from a stale link, nothing ends the process and no assertion of
\* mt_acquire, mt_release, mt_update, reclaim_head, dequeue, dispose or del_tokens fails (TERARK_DIE,
\* TERARK_VERIFY and the asserts of cspptrie.cpp), whatever the threads and their order.
THEOREM QueueNeverDies == Spec => []NoDie
<1>1. stale \/ TokenInv => NoDie
  BY InvImpliesNoDie DEF NoDie, Died
<1>2. QED
  BY <1>1, TokenInvariant, PTL

\* Until then, outside the lock, the queue is the chain of the tokens that are in it:
\* m_dummy.m_next is its oldest token, m_tail its newest, and m_qlen does not fall below their number.
THEOREM QueueStaysRight == Spec => []QueueRight
<1>1. stale \/ TokenInv => QueueRight
  BY InvImpliesQueueRight DEF QueueRight
<1>2. QED
  BY <1>1, TokenInvariant, PTL

\* Until then a token in use keeps its verseq between its own calls: no other thread moves it to
\* the tail, which would let memory be reclaimed that its thread still reads.
THEOREM PlacesAreKept == Spec => [][~stale' => \A t \in Tokens : PlaceKept(t)]_vars
<1>1. (stale \/ TokenInv) /\ [Next]_vars => [~stale' => \A t \in Tokens : PlaceKept(t)]_vars
  BY NextSimulates DEF Simulates, PlaceKept
<1>2. QED
  BY <1>1, TokenInvariant, PTL DEF Spec

\* Until then the queue with its lock, its links and its half-done walks implements CsppEpoch, on
\* which the safety of reclaiming memory rests.
THEOREM QueueIsEpoch == Spec => ImplementsEpoch
<1>1. Init => Epoch!EpochInit
  <2> SUFFICES ASSUME Init PROVE Epoch!EpochInit
    OBVIOUS
  <2>1. \A t \in Tokens : state[t] = "ReleaseDone"
    BY DEF Init
  <2>2. \A t \in Tokens : Linked(t) = FALSE /\ InUse(t) = FALSE
    BY <2>1, Zenon DEF Linked, InUse
  <2>3. [t \in Tokens |-> Linked(t)] = [t \in Tokens |-> FALSE] /\ [t \in Tokens |-> InUse(t)] = [t \in Tokens |-> FALSE]
    BY <2>2, Zenon
  <2>4. QED
    BY <2>3, Zenon DEF Init, Epoch!EpochInit
<1>2. (stale \/ TokenInv) /\ [Next]_vars => [~stale' => Epoch!EpochNext]_(Epoch!epochVars)
  BY NextSimulates DEF Simulates
<1>3. QED
  BY <1>1, <1>2, TokenInvariant, PTL DEF Spec, ImplementsEpoch
=============================================================================
