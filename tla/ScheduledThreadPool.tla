------------------------- MODULE ScheduledThreadPool -------------------------
(***************************************************************************)
(* The scheduled thread pool of the core library                           *)
(* (infrastructure/scheduled_thread_pool.{h,cpp}): worker threads that     *)
(* take tasks from a queue ordered by scheduled time, run them at a fixed  *)
(* rate and put them back until their executions are used up.              *)
(*                                                                         *)
(* q_mutex is modelled explicitly, so a step of the model is what one      *)
(* thread does between two points at which another thread can observe it.  *)
(* Client threads call scheduleAtFixedRate and cancel at any time; one     *)
(* thread calls close.                                                     *)
(***************************************************************************)
EXTENDS Integers, Sequences, FiniteSets

CONSTANTS
    Workers,    \* the worker threads
    Tasks,      \* the tasks clients may schedule, each at most once
    NoTask,     \* the null task pointer
    NoThread,   \* nobody holds q_mutex
    Interval,   \* interval of each task, in clock units
    ExeTime,    \* execution_times of each task, -1 for "run forever"
    Delays,     \* the first-execution delays clients ask for
    MaxTime     \* bound: the clock stops here

ASSUME PoolAssumption ==
    /\ NoTask \notin Tasks
    /\ NoThread \notin Workers
    /\ Interval \in [Tasks -> Nat \ {0}]
    /\ ExeTime \in [Tasks -> Nat \cup {-1}]
    /\ Delays \subseteq Nat
    /\ MaxTime \in Nat

VARIABLES
    now,             \* std::chrono::steady_clock
    phase,           \* task: "none", "built" (constructed) or "queued" (handed over)
    scheduled_time,  \* task: when it is to run next
    remaining,       \* task: remaining_exe_time
    cancelled,       \* task: the cancelled flag
    q,               \* queue: the list of tasks
    q_mutex,         \* queue: holder of the mutex
    q_stop,          \* queue: the stop flag
    stop,            \* pool: the stop flag
    closer,          \* pool: progress of close()
    pc,              \* worker: where it is
    task,            \* worker: its local task pointer
    deadline,        \* worker: when its wait_for times out
    starts,          \* history: how often the function of a task was started
    late             \* history: how many of these starts followed a cancel

taskVars == <<phase, scheduled_time, remaining, cancelled>>
queueVars == <<q, q_mutex, q_stop>>
poolVars == <<stop, closer>>
workerVars == <<pc, task, deadline>>
histVars == <<starts, late>>
vars == <<now, taskVars, queueVars, poolVars, workerVars, histVars>>

WorkerStates == {"top", "lock", "scan", "look", "wait", "wait_for", "popped",
                 "begin", "running", "next", "requeue", "exited"}

CloserStates == {"open", "close_queue", "notify", "join", "closed"}

-----------------------------------------------------------------------------
(* ScheduledThreadPoolTask and SchedulingQueue as functions of the state. *)

NextTimeNoCatchUp(s, i, t) == s + i

\* ScheduledThreadPoolTask::next(): one interval on, and when that is still
\* in the past, on by as many whole intervals as fit before now.
NextTime(s, i, t) ==
    LET s1 == s + i
    IN  IF t > s1 THEN s1 + i * ((t - s1) \div i) ELSE s1

\* find_if from the back in enqueue: how many queued tasks stay ahead of t,
\* that is the position of the last one t is scheduled strictly after.
Ahead(t) ==
    LET before == {i \in 1..Len(q) : scheduled_time[t] > scheduled_time[q[i]]}
    IN  IF before = {} THEN 0 ELSE CHOOSE i \in before : \A j \in before : j <= i

InsertAfter(s, p, t) ==
    [i \in 1..Len(s) + 1 |-> IF i <= p THEN s[i] ELSE IF i = p + 1 THEN t ELSE s[i - 1]]

\* cv.notify_all: every thread blocked on the condition variable goes for the mutex.
NotifyAll(p) ==
    [w \in Workers |-> IF p[w] \in {"wait", "wait_for"} THEN "lock" ELSE p[w]]

Enqueue(t) ==
    /\ q_mutex = NoThread
    /\ q' = IF q_stop THEN q ELSE InsertAfter(q, Ahead(t), t)

-----------------------------------------------------------------------------
Init ==
    /\ now = 0
    /\ phase = [t \in Tasks |-> "none"]
    /\ scheduled_time = [t \in Tasks |-> 0]
    /\ remaining = ExeTime
    /\ cancelled = [t \in Tasks |-> FALSE]
    /\ q = <<>>
    /\ q_mutex = NoThread
    /\ q_stop = FALSE
    /\ stop = FALSE
    /\ closer = "open"
    /\ pc = [w \in Workers |-> "top"]
    /\ task = [w \in Workers |-> NoTask]
    /\ deadline = [w \in Workers |-> 0]
    /\ starts = [t \in Tasks |-> 0]
    /\ late = [t \in Tasks |-> 0]

Goto(w, from, to) ==
    /\ pc[w] = from
    /\ pc' = [pc EXCEPT ![w] = to]

Tick ==
    /\ now < MaxTime
    /\ now' = now + 1
    /\ UNCHANGED <<taskVars, queueVars, poolVars, workerVars, histVars>>

-----------------------------------------------------------------------------
(* The loop of a worker thread, ScheduledThreadPool::init, and the dequeue *)
(* it calls.                                                               *)

CheckStop(w) ==
    /\ Goto(w, "top", IF stop THEN "exited" ELSE "lock")
    /\ UNCHANGED <<now, taskVars, queueVars, poolVars, task, deadline, histVars>>

\* Taking q_mutex, on entry to dequeue and again when a wait returns.
LockQueue(w) ==
    /\ q_mutex = NoThread
    /\ q_mutex' = w
    /\ Goto(w, "lock", "scan")
    /\ deadline' = [deadline EXCEPT ![w] = 0]
    /\ UNCHANGED <<now, taskVars, q, q_stop, poolVars, task, histVars>>

\* The while condition of dequeue; a stopped queue hands out the null pointer.
Scan(w) ==
    /\ Goto(w, "scan", IF q_stop THEN "popped" ELSE "look")
    /\ q_mutex' = IF q_stop THEN NoThread ELSE q_mutex
    /\ UNCHANGED <<now, taskVars, q, q_stop, poolVars, task, deadline, histVars>>

LookEmpty(w) ==
    /\ q = <<>>
    /\ Goto(w, "look", "wait")
    /\ q_mutex' = NoThread
    /\ UNCHANGED <<q, task, deadline>>

LookCancelled(w) ==
    /\ q # <<>>
    /\ cancelled[Head(q)]
    /\ Goto(w, "look", "scan")
    /\ q' = Tail(q)
    /\ UNCHANGED <<q_mutex, task, deadline>>

LookDue(w) ==
    /\ q # <<>>
    /\ ~cancelled[Head(q)]
    /\ now >= scheduled_time[Head(q)]
    /\ Goto(w, "look", "popped")
    /\ q' = Tail(q)
    /\ task' = [task EXCEPT ![w] = Head(q)]
    /\ q_mutex' = NoThread
    /\ UNCHANGED deadline

LookEarly(w) ==
    /\ q # <<>>
    /\ ~cancelled[Head(q)]
    /\ now < scheduled_time[Head(q)]
    /\ Goto(w, "look", "wait_for")
    /\ deadline' = [deadline EXCEPT ![w] = scheduled_time[Head(q)]]
    /\ q_mutex' = NoThread
    /\ UNCHANGED <<q, task>>

\* The body of dequeue's loop, q_mutex held.
Look(w) ==
    /\ LookEmpty(w) \/ LookCancelled(w) \/ LookDue(w) \/ LookEarly(w)
    /\ UNCHANGED <<now, taskVars, q_stop, poolVars, histVars>>

Timeout(w) ==
    /\ now >= deadline[w]
    /\ Goto(w, "wait_for", "lock")
    /\ UNCHANGED <<now, taskVars, queueVars, poolVars, task, deadline, histVars>>

\* A condition variable may wake a waiter for no reason.
SpuriousWakeup(w) ==
    /\ Goto(w, "wait", "lock") \/ Goto(w, "wait_for", "lock")
    /\ UNCHANGED <<now, taskVars, queueVars, poolVars, task, deadline, histVars>>

\* The second stop check and the null check after dequeue.
AfterDequeue(w) ==
    /\ Goto(w, "popped", IF stop THEN "exited" ELSE IF task[w] = NoTask THEN "top" ELSE "begin")
    /\ task' = [task EXCEPT ![w] = IF stop THEN NoTask ELSE @]
    /\ UNCHANGED <<now, taskVars, queueVars, poolVars, deadline, histVars>>

RunBeginCountsForever(w) ==
    LET t == task[w]
    IN  /\ Goto(w, "begin", "running")
        /\ remaining' = [remaining EXCEPT ![t] = @ - 1]
        /\ starts' = [starts EXCEPT ![t] = @ + 1]
        /\ UNCHANGED <<now, phase, scheduled_time, cancelled, queueVars, poolVars, task, deadline, late>>

\* ScheduledThreadPoolTask::run up to the call of func.
RunBegin(w) ==
    LET t == task[w]
    IN  /\ Goto(w, "begin", IF remaining[t] = 0 THEN "next" ELSE "running")
        /\ remaining' = [remaining EXCEPT ![t] = IF @ > 0 THEN @ - 1 ELSE @]
        /\ starts' = [starts EXCEPT ![t] = IF remaining[t] = 0 THEN @ ELSE @ + 1]
        /\ late' = [late EXCEPT ![t] = IF remaining[t] # 0 /\ cancelled[t] THEN @ + 1 ELSE @]
        /\ UNCHANGED <<now, phase, scheduled_time, cancelled, queueVars, poolVars, task, deadline>>

\* func returns, or throws and the exception is logged: the loop goes on alike.
RunEnd(w) ==
    /\ Goto(w, "running", "next")
    /\ UNCHANGED <<now, taskVars, queueVars, poolVars, task, deadline, histVars>>

\* task->next(): drop a task that used up its executions, advance any other.
AdvanceTask(w) ==
    LET t == task[w]
    IN  /\ Goto(w, "next", IF remaining[t] = 0 THEN "top" ELSE "requeue")
        /\ task' = [task EXCEPT ![w] = IF remaining[t] = 0 THEN NoTask ELSE @]
        /\ scheduled_time' = [scheduled_time EXCEPT ![t] =
               IF remaining[t] = 0 THEN @ ELSE NextTime(@, Interval[t], now)]
        /\ UNCHANGED <<now, phase, remaining, cancelled, queueVars, poolVars, deadline, histVars>>

Requeue(w) ==
    /\ pc[w] = "requeue"
    /\ Enqueue(task[w])
    /\ pc' = LET p == [pc EXCEPT ![w] = "top"] IN IF q_stop THEN p ELSE NotifyAll(p)
    /\ task' = [task EXCEPT ![w] = NoTask]
    /\ UNCHANGED <<now, taskVars, q_mutex, q_stop, poolVars, deadline, histVars>>

-----------------------------------------------------------------------------
(* The calls of client threads. *)

\* scheduleAtFixedRate: the constructor fixes the first scheduled time ...
Construct(t, d) ==
    /\ phase[t] = "none"
    /\ phase' = [phase EXCEPT ![t] = "built"]
    /\ scheduled_time' = [scheduled_time EXCEPT ![t] = now + d]
    /\ UNCHANGED <<now, remaining, cancelled, queueVars, poolVars, workerVars, histVars>>

ScheduleQuietly(t) ==
    /\ closer # "closed"
    /\ phase[t] = "built"
    /\ phase' = [phase EXCEPT ![t] = "queued"]
    /\ Enqueue(t)
    /\ UNCHANGED <<now, scheduled_time, remaining, cancelled, q_mutex, q_stop,
                   poolVars, workerVars, histVars>>

\* ... and the new task is enqueued, as long as there is a queue.
Schedule(t) ==
    /\ closer # "closed"
    /\ phase[t] = "built"
    /\ phase' = [phase EXCEPT ![t] = "queued"]
    /\ Enqueue(t)
    /\ pc' = IF q_stop THEN pc ELSE NotifyAll(pc)
    /\ UNCHANGED <<now, scheduled_time, remaining, cancelled, q_mutex, q_stop,
                   poolVars, task, deadline, histVars>>

Cancel(t) ==
    /\ phase[t] = "queued"
    /\ ~cancelled[t]
    /\ cancelled' = [cancelled EXCEPT ![t] = TRUE]
    /\ UNCHANGED <<now, phase, scheduled_time, remaining, queueVars, poolVars, workerVars, histVars>>

-----------------------------------------------------------------------------
(* ScheduledThreadPool::close, and SchedulingQueue::close inside it. *)

CloserGoto(from, to) ==
    /\ closer = from
    /\ closer' = to

StopPool ==
    /\ CloserGoto("open", "close_queue")
    /\ stop' = TRUE
    /\ UNCHANGED <<now, taskVars, queueVars, workerVars, histVars>>

CloseQueueUnlocked ==
    /\ CloserGoto("close_queue", "notify")
    /\ q_stop' = TRUE
    /\ q' = <<>>
    /\ UNCHANGED <<now, taskVars, q_mutex, stop, workerVars, histVars>>

CloseQueue ==
    /\ CloserGoto("close_queue", "notify")
    /\ q_mutex = NoThread
    /\ q_stop' = TRUE
    /\ q' = <<>>
    /\ UNCHANGED <<now, taskVars, q_mutex, stop, workerVars, histVars>>

NotifyWorkers ==
    /\ CloserGoto("notify", "join")
    /\ pc' = NotifyAll(pc)
    /\ UNCHANGED <<now, taskVars, queueVars, stop, task, deadline, histVars>>

JoinWorkers ==
    /\ CloserGoto("join", "closed")
    /\ \A w \in Workers : pc[w] = "exited"
    /\ UNCHANGED <<now, taskVars, queueVars, stop, workerVars, histVars>>

-----------------------------------------------------------------------------
WorkerStep(w) ==
    \/ CheckStop(w) \/ LockQueue(w) \/ Scan(w) \/ Look(w) \/ Timeout(w)
    \/ AfterDequeue(w) \/ RunBegin(w) \/ RunEnd(w) \/ AdvanceTask(w) \/ Requeue(w)

CloseStep == StopPool \/ CloseQueue \/ NotifyWorkers \/ JoinWorkers

Next ==
    \/ Tick
    \/ \E w \in Workers : WorkerStep(w) \/ SpuriousWakeup(w)
    \/ \E t \in Tasks : Schedule(t) \/ Cancel(t) \/ \E d \in Delays : Construct(t, d)
    \/ CloseStep

Spec == Init /\ [][Next]_vars

(***************************************************************************)
(* Threads are scheduled fairly, the functions clients hand in return, a   *)
(* thread that keeps finding q_mutex free some of the time gets it, and    *)
(* time passes. Nobody is obliged to call close.                           *)
(***************************************************************************)
Fairness ==
    /\ \A w \in Workers : /\ WF_vars(WorkerStep(w))
                          /\ SF_vars(LockQueue(w))
                          /\ SF_vars(Requeue(w))
    /\ SF_vars(CloseQueue)
    /\ WF_vars(NotifyWorkers \/ JoinWorkers)
    /\ WF_vars(Tick)

FairSpec == Spec /\ Fairness

-----------------------------------------------------------------------------
TypeOK ==
    /\ now \in Nat
    /\ phase \in [Tasks -> {"none", "built", "queued"}]
    /\ scheduled_time \in [Tasks -> Nat]
    /\ remaining \in [Tasks -> Nat \cup {-1}]
    /\ cancelled \in [Tasks -> BOOLEAN]
    /\ q \in Seq(Tasks)
    /\ q_mutex \in Workers \cup {NoThread}
    /\ q_stop \in BOOLEAN
    /\ stop \in BOOLEAN
    /\ closer \in CloserStates
    /\ pc \in [Workers -> WorkerStates]
    /\ task \in [Workers -> Tasks \cup {NoTask}]
    /\ deadline \in [Workers -> Nat]
    /\ starts \in [Tasks -> Nat]
    /\ late \in [Tasks -> Nat]

\* A task is in at most one place: at one position of the queue or in the hands
\* of one worker. So its function never runs on two workers at once, although
\* nothing in ScheduledThreadPoolTask protects remaining_exe_time and
\* scheduled_time, which run() and next() write without a lock.
SingleOwner ==
    /\ \A i, j \in 1..Len(q) : q[i] = q[j] => i = j
    /\ \A v, w \in Workers : task[v] = task[w] /\ task[v] # NoTask => v = w
    /\ \A w \in Workers, i \in 1..Len(q) : task[w] # q[i]

\* The queue is ordered by scheduled time at every moment, although tasks are
\* re-inserted with times next() computed outside the lock: dequeue only ever
\* looks at the head.
QueueOrdered ==
    \A i, j \in 1..Len(q) : i < j => scheduled_time[q[i]] <= scheduled_time[q[j]]

\* A task scheduled for n executions is started at most n times, and once they
\* are used up it is never found in the queue again.
ExecutionBound ==
    \A t \in Tasks : ExeTime[t] > 0 =>
        /\ starts[t] <= ExeTime[t]
        /\ starts[t] + remaining[t] = ExeTime[t]
        /\ remaining[t] = 0 => \A i \in 1..Len(q) : q[i] # t

\* cancel() only sets a flag that dequeue reads, so a worker that has already
\* taken the task still starts it, but at most that once.
OneStartAfterCancel ==
    \A t \in Tasks : late[t] <= 1

\* Once SchedulingQueue::close has cleared the queue no task enters it again:
\* a worker that was running a task, or a late client, drops it in enqueue.
StoppedQueueEmpty ==
    q_stop => q = <<>>

\* next() keeps a queued task on the grid of its interval, always moves it
\* forward, and never leaves it a whole interval or more behind the clock, so a
\* long run is not followed by a burst of catch-up runs.
KeepsRate ==
    [][\A t \in Tasks : phase[t] = "queued" /\ scheduled_time'[t] # scheduled_time[t] =>
          /\ scheduled_time'[t] > scheduled_time[t]
          /\ (scheduled_time'[t] - scheduled_time[t]) % Interval[t] = 0
          /\ scheduled_time'[t] + Interval[t] > now]_vars

\* No wakeup is lost at shutdown: whatever the workers are doing when close()
\* is called, all of them leave their loop and close() returns from its joins.
CloseTerminates ==
    stop ~> closer = "closed"

\* A task whose time has come leaves the queue eventually (it is taken by a
\* worker, or dropped because it was cancelled or the pool closed), although
\* enqueue puts a task before those scheduled for the same time.
DueTaskTaken ==
    \A t \in Tasks : (\E i \in 1..Len(q) : q[i] = t /\ now >= scheduled_time[t])
                     ~> \A i \in 1..Len(q) : q[i] # t

\* What holds these together: a worker that acts on a task has one,
HasTask ==
    \A w \in Workers : pc[w] \in {"begin", "running", "next", "requeue"} => task[w] # NoTask

\* only tasks that were handed over are queued or held,
HandedOver ==
    /\ \A i \in 1..Len(q) : phase[q[i]] = "queued"
    /\ \A w \in Workers : task[w] # NoTask => phase[task[w]] = "queued"
    /\ \A t \in Tasks : phase[t] # "queued" => remaining[t] = ExeTime[t]

\* a task whose executions are used up is at most still running,
UsedUp ==
    \A t \in Tasks : ExeTime[t] > 0 /\ remaining[t] = 0 =>
        \A w \in Workers : task[w] = t => pc[w] \in {"running", "next"}

\* and a start after cancel() was the last one.
LastStart ==
    \A t \in Tasks : late[t] > 0 =>
        /\ cancelled[t]
        /\ \A w \in Workers : task[w] = t => pc[w] \in {"running", "next", "requeue"}

\* The inductive invariant of the pool: a task taken out of the queue belongs
\* to the one worker that holds it until it is queued again or dropped, the
\* queue stays ordered by scheduled time and is empty once close() cleared it,
\* and neither the execution limit nor cancel() is overrun, because what a
\* worker still holds is already counted.
IInv ==
    /\ TypeOK /\ SingleOwner /\ QueueOrdered /\ ExecutionBound
    /\ OneStartAfterCancel /\ StoppedQueueEmpty
    /\ HasTask /\ HandedOver /\ UsedUp /\ LastStart
====
