------------------------------ MODULE Pipeline ------------------------------
(***************************************************************************)
(* PipelineProcessor and PipelineStage (thread/pipeline.cpp): stages of    *)
(* execution units, a bounded queue behind each of them but the last.      *)
(*                                                                         *)
(* The first queue is filled by callers of enqueue (compile) or there is   *)
(* none and the first stage makes the tasks (start).  Nothing marks the    *)
(* end of the input: m_run is reset, and a unit leaves once it has read    *)
(* that the processor is not running, that no unit of the previous stage   *)
(* is, and that the queue between them is empty.  These are three reads,   *)
(* with everyone else's steps in between.                                  *)
(*                                                                         *)
(* A serial stage (ple_keep) puts the items back in the order of their     *)
(* serial numbers, with a window of the next ones and an overflow heap.    *)
(*                                                                         *)
(* A pop is the attempt of pop_front with its timeout: it takes an item or *)
(* finds none.  Execution units are threads.                               *)
(***************************************************************************)
EXTENDS Integers, Sequences, SequencesExt, FiniteSets, FiniteSetsExt

CONSTANTS
    Pipelines,   \* the pipelines to run, records as in PipelineAssumption
    QueueSize,   \* m_queue_size, of every queue
    Window,      \* nlen of run_serial_step_fast
    EarlyStop    \* may stop() and exceptions come before all units run?

(* A pipeline: whose tasks it runs, the stages, the tasks of every caller of *)
(* enqueue, the number of tasks the first stage makes, and for which stages  *)
(* and tasks process may keep the task for itself, or throw.                 *)
ASSUME PipelineAssumption ==
    /\ QueueSize \in Nat \ {0} /\ Window \in Nat \ {0} /\ EarlyStop \in BOOLEAN
    /\ \A p \in Pipelines :
         /\ p.feed \in {"enqueue", "self"}
         /\ p.stages \in Seq([mode : {"none", "generate", "keep"}, units : Nat \ {0}])
         /\ p.batches \in Seq(Seq(Nat)) /\ p.tasks \in Nat
         /\ \A k \in DOMAIN p.stages : p.stages[k].mode # "none" => p.stages[k].units = 1
         /\ p.feed = "self" => Len(p.stages) > 1 /\ p.stages[1].units = 1 /\ p.stages[1].mode # "keep"
         (* start() asserts that there is a stage, and what gives out serials before one that keeps them *)
         /\ p.stages # <<>>
         /\ \A k \in DOMAIN p.stages : p.stages[k].mode = "keep" =>
              p.feed = "enqueue" \/ \E g \in 1..(k - 1) : p.stages[g].mode = "generate"
         (* a task is enqueued once, and not when the first stage makes the tasks; process is called with tasks *)
         /\ \A c \in DOMAIN p.batches : \A i \in DOMAIN p.batches[c] : p.batches[c][i] \in 1..p.tasks
         /\ \A c, d \in DOMAIN p.batches : \A i \in DOMAIN p.batches[c], j \in DOMAIN p.batches[d] :
              p.batches[c][i] = p.batches[d][j] => c = d /\ i = j
         /\ p.feed = "self" => p.batches = <<>> /\ p.tasks > 0
         /\ p.drops \cup p.throws \subseteq (DOMAIN p.stages) \X (1..p.tasks)

VARIABLES
    pipeline,   \* the one that runs
    run,        \* m_run
    queue,      \* m_out_queue of the stages, 0: of m_head
    running,    \* m_running_exec_units
    plserial,   \* m_plserial of the stages
    unit,       \* per execution unit: where it is and its local variables
    mutex,      \* who holds m_mutexForInqueue, 0: no one
    caller,     \* per caller of enqueue: tasks enqueued, and the serial it counts from
    main,       \* the number of stages wait() has joined, -1 before stop()
    fate,       \* history, per task: "new", "live", "dropped", "destroyed" or "lost"
    log         \* history, per stage: serials process was called for, if it is serial

vars == <<pipeline, run, queue, running, plserial, unit, mutex, caller, main, fate, log>>

N == Len(pipeline.stages)
Stages == 1..N
Units == UNION {{<<k, i>> : i \in 1..pipeline.stages[k].units} : k \in Stages}
Callers == DOMAIN pipeline.batches
Tasks == 1..pipeline.tasks

NoTask == 0
NoItem == [plserial |-> 0, task |-> NoTask]

Mode(k) == pipeline.stages[k].mode
IsLast(k) == k = N
IsSource(k) == k = 1 /\ pipeline.feed = "self"
keepSerial == \E k \in Stages : Mode(k) = "keep"

Init ==
    /\ pipeline \in Pipelines
    /\ run = TRUE
    /\ queue = [k \in 0..N |-> <<>>]
    /\ running = [k \in 0..N |-> 0]
    /\ plserial = [k \in 0..N |-> 0]
    /\ unit = [u \in Units |-> [pc |-> "new", item |-> NoItem, head |-> 0,
                                cache |-> [i \in 0..(Window - 1) |-> NoItem], overflow |-> {}]]
    /\ mutex = 0
    /\ caller = [c \in Callers |-> [done |-> 0, base |-> 0]]
    /\ main = IF pipeline.feed = "enqueue" THEN -1 ELSE 0
    /\ fate = [t \in Tasks |-> "new"]
    /\ log = [k \in Stages |-> <<>>]

Goto(u, pc) == unit' = [unit EXCEPT ![u].pc = pc]

\* Every unit has counted itself in m_running_exec_units.
Started == \A u \in Units : unit[u].pc # "new"

MayStop == Started \/ EarlyStop

----------------------------------------------------------------------------
(* PipelineProcessor: enqueue, stop, wait *)

Batch(c) == pipeline.batches[c]

\* enqueue: the lock, and the serial read under it.  One task is an array of one: that its
\* serial is stored before the push and not after it shows only without the lock.
Enqueue(c) ==
    /\ caller[c].done < Len(Batch(c))
    /\ mutex = 0
    /\ mutex' = c
    /\ caller' = [caller EXCEPT ![c].base = plserial[0]]
    /\ UNCHANGED <<pipeline, run, queue, running, plserial, unit, main, fate, log>>

\* enqueue_impl: one push_back of its loop, and the end of it.
EnqueuePush(c) ==
    LET i == caller[c].done + 1
        s == caller[c].base + i
    IN  /\ mutex = c
        /\ Len(queue[0]) < QueueSize
        /\ queue' = [queue EXCEPT ![0] = Append(@, [plserial |-> s, task |-> Batch(c)[i]])]
        /\ fate' = [fate EXCEPT ![Batch(c)[i]] = "live"]
        /\ caller' = [caller EXCEPT ![c].done = i]
        /\ \/ /\ i < Len(Batch(c))
              /\ UNCHANGED <<plserial, mutex>>
           \/ /\ i = Len(Batch(c))
              /\ plserial' = [plserial EXCEPT ![0] = s]
              /\ mutex' = 0
        /\ UNCHANGED <<pipeline, run, running, unit, main, log>>

Stop ==
    /\ main = -1
    /\ \A c \in Callers : caller[c].done = Len(Batch(c))
    /\ MayStop
    /\ run' = FALSE
    /\ main' = 0
    /\ UNCHANGED <<pipeline, queue, running, plserial, unit, mutex, caller, fate, log>>

\* The threads of the next stage are joined.
Wait ==
    /\ main \in 0..(N - 1)
    /\ \A u \in Units : u[1] = main + 1 => unit[u].pc = "gone"
    /\ main' = main + 1
    /\ UNCHANGED <<pipeline, run, queue, running, plserial, unit, mutex, caller, fate, log>>

----------------------------------------------------------------------------
(* PipelineStage::run_wrapper *)

Begin(u) ==
    /\ unit[u].pc = "new"
    /\ running' = [running EXCEPT ![u[1]] = @ + 1]
    /\ plserial' = IF Mode(u[1]) = "keep" THEN [plserial EXCEPT ![u[1]] = 1] ELSE plserial
    /\ Goto(u, "run")
    /\ UNCHANGED <<pipeline, run, queue, mutex, caller, main, fate, log>>

Leave(u) ==
    /\ unit[u].pc \in {"left", "left_catch"}
    /\ run' = FALSE
    /\ running' = [running EXCEPT ![u[1]] = @ - 1]
    /\ Goto(u, "gone")
    /\ UNCHANGED <<pipeline, queue, plserial, mutex, caller, main, fate, log>>

Held(r) == {r.item.task} \cup {r.cache[i].task : i \in DOMAIN r.cache} \cup {x.task : x \in r.overflow}

\* What becomes of the tasks of S.
Become(S, f) == [t \in Tasks |-> IF t \in S THEN f ELSE fate[t]]

\* Mutant: the queue before the stage is not emptied after an exception.
Catch_NoDrain(u, S) ==
    /\ run' = FALSE
    /\ unit' = [unit EXCEPT ![u] = [pc |-> "left_catch", item |-> NoItem, head |-> 0,
                                    cache |-> [i \in 0..(Window - 1) |-> NoItem], overflow |-> {}]]
    /\ fate' = Become(Held(unit[u]) \cup S, "lost")

\* An exception: the local variables are gone with their tasks, S with them.
Catch(u, S) ==
    /\ run' = FALSE
    /\ unit' = [unit EXCEPT ![u] = [pc |-> IF u[1] = 1 THEN "left_catch" ELSE "empty_catch", item |-> NoItem,
                                    head |-> 0, cache |-> [i \in 0..(Window - 1) |-> NoItem],
                                    overflow |-> {}]]
    /\ fate' = Become(Held(unit[u]) \cup S, "lost")

DrainEmpty(u) ==
    /\ unit[u].pc = "empty_catch"
    /\ Goto(u, IF queue[u[1] - 1] = <<>> THEN "prev_catch" ELSE "pop_catch")
    /\ UNCHANGED <<pipeline, run, queue, running, plserial, mutex, caller, main, fate, log>>

DrainPrev(u) ==
    /\ unit[u].pc = "prev_catch"
    /\ Goto(u, IF running[u[1] - 1] = 0 THEN "left_catch" ELSE "pop_catch")
    /\ UNCHANGED <<pipeline, run, queue, running, plserial, mutex, caller, main, fate, log>>

DrainPop(u) ==
    LET q == queue[u[1] - 1]
    IN  /\ unit[u].pc = "pop_catch"
        /\ Goto(u, "empty_catch")
        /\ \/ /\ q = <<>>
              /\ UNCHANGED <<queue, fate>>
           \/ /\ q # <<>>
              /\ queue' = [queue EXCEPT ![u[1] - 1] = Tail(q)]
              /\ fate' = Become({Head(q).task}, "destroyed")
        /\ UNCHANGED <<pipeline, run, running, plserial, mutex, caller, main, log>>

----------------------------------------------------------------------------
(* isPrevRunning, and the loops' condition *)

\* Mutant: m_prev->isRunning() is not asked.
ReadRun_NoPrev(u) ==
    /\ unit[u].pc = "run"
    /\ Goto(u, IF IsSource(u[1]) THEN (IF run THEN "make" ELSE "left")
                                 ELSE (IF run THEN "pop" ELSE "empty"))
    /\ UNCHANGED <<pipeline, run, queue, running, plserial, mutex, caller, main, fate, log>>

ReadRun(u) ==
    /\ unit[u].pc = "run"
    /\ Goto(u, IF IsSource(u[1]) THEN (IF run THEN "make" ELSE "left")
                                 ELSE (IF run THEN "pop" ELSE "prev"))
    /\ UNCHANGED <<pipeline, run, queue, running, plserial, mutex, caller, main, fate, log>>

ReadPrev(u) ==
    /\ unit[u].pc = "prev"
    /\ Goto(u, IF running[u[1] - 1] # 0 THEN "pop" ELSE "empty")
    /\ UNCHANGED <<pipeline, run, queue, running, plserial, mutex, caller, main, fate, log>>

\* What the window still holds goes to the overflow, to be flushed in order.
Gathered(r) ==
    [r EXCEPT !.pc = "flush", !.cache = [i \in DOMAIN r.cache |-> NoItem],
              !.overflow = @ \cup {r.cache[i] : i \in {j \in DOMAIN r.cache : r.cache[j].plserial # 0}}]

ReadEmpty(u) ==
    /\ unit[u].pc = "empty"
    /\ \/ /\ queue[u[1] - 1] # <<>>
          /\ Goto(u, "pop")
       \/ /\ queue[u[1] - 1] = <<>>
          /\ unit' = [unit EXCEPT ![u] = IF Mode(u[1]) = "keep" THEN Gathered(@)
                                                               ELSE [@ EXCEPT !.pc = "left"]]
    /\ UNCHANGED <<pipeline, run, queue, running, plserial, mutex, caller, main, fate, log>>

----------------------------------------------------------------------------
(* run_step_first, run_step_mid, run_step_last *)

\* What process may do with a task of stage k: leave it, or take it away.
Outcomes(k, t) == {t} \cup (IF <<k, t>> \in pipeline.drops THEN {NoTask} ELSE {})

Throws(k, t) == <<k, t>> \in pipeline.throws /\ MayStop

\* A stage that generates serials counts its items and gives them their number.
Generated(k) == IF Mode(k) = "generate" THEN plserial[k] + 1 ELSE plserial[k]
Numbered(k, x) == IF Mode(k) = "generate" THEN [x EXCEPT !.plserial = Generated(k)] ELSE x

\* The first stage makes its next task, or throws; with the last task it calls stop().
Make(u) ==
    LET k == u[1]
        t == Cardinality({x \in Tasks : fate[x] # "new"}) + 1
    IN  /\ unit[u].pc = "make"
        /\ \/ /\ t < pipeline.tasks \/ MayStop
              /\ run' = (run /\ t < pipeline.tasks)
              /\ plserial' = [plserial EXCEPT ![k] = Generated(k)]
              /\ unit' = [unit EXCEPT ![u].pc = "push", ![u].item = Numbered(k, [NoItem EXCEPT !.task = t])]
              /\ fate' = [fate EXCEPT ![t] = "live"]
           \/ /\ Throws(k, t)
              /\ Catch(u, {})
              /\ plserial' = plserial
        /\ UNCHANGED <<pipeline, queue, running, mutex, caller, main, log>>

PopTimeout(u) ==
    /\ unit[u].pc = "pop"
    /\ queue[u[1] - 1] = <<>>
    /\ Goto(u, "run")
    /\ UNCHANGED <<pipeline, run, queue, running, plserial, mutex, caller, main, fate, log>>

PopFront(u) ==
    LET k == u[1]
        x == Head(queue[k - 1])
    IN  /\ unit[u].pc = "pop"
        /\ Mode(k) # "keep"
        /\ queue[k - 1] # <<>>
        /\ queue' = [queue EXCEPT ![k - 1] = Tail(@)]
        /\ plserial' = [plserial EXCEPT ![k] = Generated(k)]
        /\ unit' = [unit EXCEPT ![u].pc = "process", ![u].item = Numbered(k, x)]
        /\ UNCHANGED <<pipeline, run, running, mutex, caller, main, fate, log>>

\* Process, for stages that are not serial; the last one destroys the task.
Process(u) ==
    LET k == u[1]
        x == unit[u].item
    IN  /\ unit[u].pc = "process"
        /\ \/ \E t \in Outcomes(k, x.task) :
                /\ unit' = [unit EXCEPT
                     ![u] = IF ~IsLast(k) /\ (t # NoTask \/ keepSerial)
                              THEN [@ EXCEPT !.pc = "push", !.item.task = t]
                              ELSE [@ EXCEPT !.pc = "run", !.item = NoItem]]
                /\ fate' = IF t # x.task THEN Become({x.task}, "dropped")
                           ELSE IF IsLast(k) THEN Become({x.task}, "destroyed") ELSE fate
                /\ run' = run
           \/ /\ Throws(k, x.task)
              /\ Catch(u, {})
        /\ UNCHANGED <<pipeline, queue, running, plserial, mutex, caller, main, log>>

PushBack(u) ==
    /\ unit[u].pc = "push"
    /\ Len(queue[u[1]]) < QueueSize
    /\ queue' = [queue EXCEPT ![u[1]] = Append(@, unit[u].item)]
    /\ unit' = [unit EXCEPT ![u].pc = "run", ![u].item = NoItem]
    /\ UNCHANGED <<pipeline, run, running, plserial, mutex, caller, main, fate, log>>

----------------------------------------------------------------------------
(* run_serial_step_fast *)

\* Mutant: plserial_less for plserial_greater and the other way round.
Top_Less(S) == CHOOSE x \in S : \A y \in S : x.plserial >= y.plserial

\* The next of the overflow heap.
Top(S) == CHOOSE x \in S : \A y \in S : x.plserial <= y.plserial

\* An item goes to its place in the window, or to the overflow, of which a second item
\* makes the code move what is in the window by now.
Place(r, expected, x) ==
    LET diff(y) == y.plserial - expected
        over == r.overflow \cup {x}
        moved == IF Cardinality(over) >= 2 THEN {y \in over : diff(y) < Window} ELSE {}
        Put(S) == [i \in DOMAIN r.cache |->
                     IF \E y \in S : i = (r.head + diff(y)) % Window
                       THEN CHOOSE y \in S : i = (r.head + diff(y)) % Window
                       ELSE r.cache[i]]
    IN  IF diff(x) < Window THEN [r EXCEPT !.cache = Put({x})]
                            ELSE [r EXCEPT !.cache = Put(moved), !.overflow = over \ moved]

PopSerial(u) ==
    LET k == u[1]
        x == Head(queue[k - 1])
    IN  /\ unit[u].pc = "pop"
        /\ Mode(k) = "keep"
        /\ queue[k - 1] # <<>>
        /\ queue' = [queue EXCEPT ![k - 1] = Tail(@)]
        /\ \/ /\ x.plserial >= plserial[k]
              /\ unit' = [unit EXCEPT ![u] = [Place(@, plserial[k], x) EXCEPT !.pc = "serial"]]
              /\ UNCHANGED <<run, fate>>
           \/ /\ x.plserial < plserial[k]     \* CHECK_SERIAL
              /\ Catch(u, {x.task})
        /\ UNCHANGED <<pipeline, running, plserial, mutex, caller, main, log>>

\* cache[head], or the next of the sorted overflow at the end.
IsTurn(u) ==
    \/ unit[u].pc = "serial" /\ unit[u].cache[unit[u].head].plserial = plserial[u[1]]
    \/ unit[u].pc = "flush" /\ unit[u].overflow # {}
Turn(r) == IF r.pc = "serial" THEN r.cache[r.head] ELSE Top(r.overflow)

\* The unit after process, which has left t of its task; pc tells where it is pushed from.
Processed(r, t) ==
    IF r.pc = "serial"
    THEN [r EXCEPT !.pc = "push_serial", !.cache[r.head].task = t]
    ELSE [r EXCEPT !.pc = "push_flush", !.item = [Turn(r) EXCEPT !.task = t], !.overflow = @ \ {Turn(r)}]

\* The item whose turn it is is processed.
SerialProcess(u) ==
    LET k == u[1]
        x == Turn(unit[u])
    IN  /\ IsTurn(u)
        /\ \/ \E t \in Outcomes(k, x.task) :
                /\ unit' = [unit EXCEPT ![u] = Processed(@, t)]
                /\ fate' = IF t # x.task THEN Become({x.task}, "dropped") ELSE fate
                /\ run' = run
           \/ /\ Throws(k, x.task)
              /\ Catch(u, {})
        /\ log' = IF x.task # NoTask THEN [log EXCEPT ![k] = Append(@, x.plserial)] ELSE log
        /\ UNCHANGED <<pipeline, queue, running, plserial, mutex, caller, main>>

SerialWait(u) ==
    /\ unit[u].pc \in {"serial", "flush"} /\ ~IsTurn(u)
    /\ Goto(u, IF unit[u].pc = "serial" THEN "run" ELSE "left")
    /\ UNCHANGED <<pipeline, run, queue, running, plserial, mutex, caller, main, fate, log>>

\* The end of the serial stage's inner loop: the next place of the window, and the item of
\* the overflow that belongs there.
Advance(r, expected) ==
    LET h == (r.head + 1) % Window
        due == {y \in r.overflow : y.plserial = expected}
        cleared == [r.cache EXCEPT ![r.head] = NoItem]
    IN  [r EXCEPT !.pc = "serial", !.head = h,
                  !.cache = IF due = {} THEN cleared ELSE [cleared EXCEPT ![h] = Top(due)],
                  !.overflow = @ \ due]

\* Pushed to the next stage, destroyed if there is none.
Deliver(k, x) ==
    \/ /\ IsLast(k)
       /\ fate' = Become({x.task}, "destroyed")
       /\ queue' = queue
    \/ /\ ~IsLast(k)
       /\ Len(queue[k]) < QueueSize
       /\ queue' = [queue EXCEPT ![k] = Append(@, x)]
       /\ fate' = fate

SerialPush(u) ==
    LET k == u[1]
    IN  /\ unit[u].pc = "push_serial"
        /\ Deliver(k, unit[u].cache[unit[u].head])
        /\ plserial' = [plserial EXCEPT ![k] = @ + 1]
        /\ unit' = [unit EXCEPT ![u] = Advance(@, plserial[k] + 1)]
        /\ UNCHANGED <<pipeline, run, running, mutex, caller, main, log>>

FlushPush(u) ==
    /\ unit[u].pc = "push_flush"
    /\ Deliver(u[1], unit[u].item)
    /\ unit' = [unit EXCEPT ![u].pc = "flush", ![u].item = NoItem]
    /\ UNCHANGED <<pipeline, run, running, plserial, mutex, caller, main, log>>

----------------------------------------------------------------------------
UnitNext(u) ==
    \/ Begin(u) \/ Leave(u)
    \/ ReadRun(u) \/ ReadPrev(u) \/ ReadEmpty(u)
    \/ Make(u) \/ PopTimeout(u) \/ PopFront(u) \/ Process(u) \/ PushBack(u)
    \/ PopSerial(u) \/ SerialProcess(u) \/ SerialWait(u) \/ SerialPush(u) \/ FlushPush(u)
    \/ DrainEmpty(u) \/ DrainPrev(u) \/ DrainPop(u)

CallerNext(c) == Enqueue(c) \/ EnqueuePush(c)

\* wait() has returned.
Done == main = N /\ UNCHANGED vars

Next ==
    \/ \E u \in Units : UnitNext(u)
    \/ \E c \in Callers : CallerNext(c)
    \/ Stop \/ Wait \/ Done

Spec == Init /\ [][Next]_vars

\* The units and the callers of all the pipelines.
AnyUnit == UNION {UNION {{<<k, i>> : i \in 1..p.stages[k].units} : k \in DOMAIN p.stages} : p \in Pipelines}
AnyCaller == UNION {DOMAIN p.batches : p \in Pipelines}

\* Threads are scheduled, and process returns.
FairSpec ==
    /\ Spec
    /\ \A u \in AnyUnit : WF_vars(u \in Units /\ UnitNext(u))
    /\ \A c \in AnyCaller : WF_vars(c \in Callers /\ CallerNext(c))
    /\ WF_vars(Stop \/ Wait)

----------------------------------------------------------------------------
(* Properties *)

\* The type invariant: the queues of thread/pipeline.cpp are within their size, the units
\* counted are those that have begun and not left, and the items are of the run's tasks.
PipelineTypeOK ==
    /\ run \in BOOLEAN
    /\ \A k \in 0..N : Len(queue[k]) <= QueueSize
    /\ \A k \in Stages : running[k] = Cardinality({u \in Units : u[1] = k /\ unit[u].pc \notin {"new", "gone"}})
    /\ running[0] = 0
    /\ \A u \in Units : Held(unit[u]) \subseteq Tasks \cup {NoTask} /\ unit[u].head \in 0..(Window - 1)
    /\ main \in -1..N
    /\ mutex \in Callers \cup {0}

\* Where a task is: in queues, in the units' hands and in the serial stages' windows and overflows.
InQueues(t) == UNION {{<<"queue", k, i>> : i \in {j \in DOMAIN queue[k] : queue[k][j].task = t}} : k \in 0..N}
InHands(t) == {<<"item", u>> : u \in {v \in Units : unit[v].item.task = t}}
InWindows(t) ==
    UNION {{<<"cache", u, i>> : i \in {j \in DOMAIN unit[u].cache : unit[u].cache[j].task = t}} : u \in Units}
InOverflows(t) == UNION {{<<"overflow", u, x>> : x \in {y \in unit[u].overflow : y.task = t}} : u \in Units}
Where(t) == InQueues(t) \cup InHands(t) \cup InWindows(t) \cup InOverflows(t)

\* A task that was enqueued or made and that no one has destroyed, kept or leaked is in
\* exactly one place (a queue, a unit's item, a serial stage's window or overflow), and one
\* that was is in none: pop_front, push_back and the moves of run_serial_step_fast neither
\* lose an item nor leave a second pointer to a task that destroyTask frees.
OnePlace ==
    \A t \in Tasks : Cardinality(Where(t)) = IF fate[t] = "live" THEN 1 ELSE 0

\* A serial stage calls process in the order of the serial numbers, whatever order the
\* units before it finish in (tests/core/test_pipeline.cpp:94 asserts it).
InOrder ==
    \A k \in Stages : \A i, j \in DOMAIN log[k] : i < j => log[k][i] < log[k][j]

\* A serial stage that waits for input does not hold the item whose turn it is: what the
\* window or the overflow of run_serial_step_fast holds is not held up until stop().
SerialKeepsUp ==
    \A u \in Units :
        Mode(u[1]) = "keep" /\ unit[u].pc \in {"run", "prev", "empty", "pop"} =>
            \A x \in unit[u].overflow \cup {unit[u].cache[i] : i \in DOMAIN unit[u].cache} :
                x.plserial # plserial[u[1]]

\* assert(m_prev == m_owner->m_head || m_prev->m_out_queue->empty()) of run_wrapper: a unit
\* whose loop has ended leaves nothing behind, and nothing comes while it goes.
LeavesNothing ==
    \A u \in Units : u[1] > 1 /\ unit[u].pc = "left" => queue[u[1] - 1] = <<>>

\* What run_wrapper says of its catch block ("empty the out_queue of the step before", pipeline.cpp:475): a
\* unit that has drained the queue before its stage leaves it empty.
DrainedIsEmpty ==
    \A u \in Units : u[1] > 1 /\ unit[u].pc = "left_catch" => queue[u[1] - 1] = <<>>

\* When wait() has returned and no task was lost by a throw, every task that entered the
\* pipeline has come to its end in the last stage, or process kept it ("wait for all pending items to be
\* processed", tests/core/test_pipeline.cpp:167).
Complete ==
    main = N /\ (\A t \in Tasks : fate[t] # "lost") =>
        \A t \in Tasks : fate[t] \in {"new", "dropped", "destroyed"}

\* No task is lost: not between two stages, not in one that ends, not when wait() returns.
NothingLost == OnePlace /\ LeavesNothing /\ Complete

\* The order is restored, and without delay.
OrderRestored == InOrder /\ SerialKeepsUp

\* wait() returns: the reads of isPrevRunning let every unit leave, and no stage leaves
\* while the one before it may still block in push_back.
WaitReturns == <>(main = N)

-----------------------------------------------------------------------------
(* The pipelines that TLC runs *)

Stage(mode, units) == [mode |-> mode, units |-> units]

\* Callers of enqueue, units that overtake each other, a serial stage at the end.
Reordered ==
    [feed |-> "enqueue", stages |-> <<Stage("none", 3), Stage("keep", 1)>>,
     batches |-> <<<<1, 2, 3, 4>>>>, tasks |-> 4, drops |-> {<<1, 2>>}, throws |-> {}]

\* Two callers, one of them with an array of tasks.
TwoCallers ==
    [feed |-> "enqueue", stages |-> <<Stage("keep", 1), Stage("none", 1)>>,
     batches |-> <<<<1, 2>>, <<3>>>>, tasks |-> 3, drops |-> {<<1, 2>>}, throws |-> {}]

\* The first stage makes the tasks, the serial stage is in the middle.
SelfDriven ==
    [feed |-> "self", stages |-> <<Stage("generate", 1), Stage("none", 2), Stage("keep", 1)>>,
     batches |-> <<>>, tasks |-> 3, drops |-> {<<3, 1>>}, throws |-> {}]

\* process throws, of one unit of two and of the serial stage behind them.
Throwing ==
    [feed |-> "self", stages |-> <<Stage("generate", 1), Stage("none", 2), Stage("keep", 1)>>,
     batches |-> <<>>, tasks |-> 3, drops |-> {}, throws |-> {<<2, 1>>, <<3, 3>>}]

\* The same with a stage behind the serial one; the first and the last one may throw too.
Middle ==
    [feed |-> "self", stages |-> <<Stage("generate", 1), Stage("none", 2), Stage("keep", 1), Stage("none", 1)>>,
     batches |-> <<>>, tasks |-> 2, drops |-> {<<3, 1>>}, throws |-> {<<1, 2>>, <<2, 1>>, <<4, 2>>}]

\* The serials are made by the second stage.
LateSerials ==
    [feed |-> "self", stages |-> <<Stage("none", 1), Stage("generate", 1), Stage("keep", 1)>>,
     batches |-> <<>>, tasks |-> 4, drops |-> {<<2, 2>>}, throws |-> {<<2, 1>>}]

\* Callers of enqueue, and the first stage throws.
EnqueueThrowing ==
    [feed |-> "enqueue", stages |-> <<Stage("none", 1), Stage("none", 1)>>,
     batches |-> <<<<1, 2, 3>>>>, tasks |-> 3, drops |-> {}, throws |-> {<<1, 1>>}]

NoneThrowing == {TwoCallers, SelfDriven}
OneThrowing == {EnqueueThrowing}

Pipes == {Reordered, TwoCallers, SelfDriven, Throwing, Middle, LateSerials}
=============================================================================
