---------------------- MODULE ScheduledThreadPoolProofs ----------------------
(***************************************************************************)
(* Proofs about the thread pool, for any number of workers and tasks, any  *)
(* intervals, delays and execution counts.                                 *)
(***************************************************************************)
EXTENDS ScheduledThreadPool, TLAPS, SequenceTheorems, NaturalsInduction,
        WellFoundedInduction

-----------------------------------------------------------------------------
(* Facts about the operators of the model. *)

\* A nonempty set of positions of a sequence has a last element.
LEMMA LastPosition ==
    ASSUME NEW n \in Nat, NEW S \in SUBSET (1..n), S # {}
    PROVE  \E m \in S : \A j \in S : j <= m
  <1> DEFINE T == {k \in Nat : n - k \in S}
             R == OpToRel(<, Nat)
  <1>1. T \subseteq Nat /\ T # {}
    <2>1. PICK i \in S : TRUE
      OBVIOUS
    <2>2. n - i \in Nat /\ n - (n - i) = i
      BY <2>1
    <2>3. QED
      BY <2>1, <2>2
  <1>2. \E x \in T : \A y \in T : ~(<<y, x>> \in R)
    <2> HIDE DEF T, R
    <2>1. IsWellFoundedOn(R, Nat)
      BY NatLessThanWellFounded DEF R
    <2>2. QED
      BY <1>1, <2>1, WFMin
  <1>3. PICK x \in T : \A y \in T : ~(<<y, x>> \in R)
    BY <1>2
  <1>4. \A y \in T : x <= y
    <2>1. R = {ss \in Nat \X Nat : ss[1] < ss[2]}
      BY DEF OpToRel
    <2> HIDE DEF R
    <2> TAKE y \in T
    <2>2. y \in Nat /\ x \in Nat
      OBVIOUS
    <2>3. y < x => <<y, x>> \in R
      BY <2>1, <2>2
    <2>4. QED
      BY <1>3, <2>2, <2>3
  <1>5. \A j \in S : n - j \in T
    OBVIOUS
  <1>6. \A j \in S : x <= n - j
    BY <1>4, <1>5
  <1>7. QED
    BY <1>6

\* next() moves a task forward by at least one interval, along a natural number.
LEMMA NextTimeForward ==
    ASSUME NEW s \in Nat, NEW i \in Nat \ {0}, NEW t \in Nat
    PROVE  NextTime(s, i, t) \in Nat /\ NextTime(s, i, t) >= s + i
  <1>1. CASE t > s + i
    <2>1. t - (s + i) \in Nat
      BY <1>1
    <2>2. (t - (s + i)) \div i \in Nat
      BY <2>1
    <2>3. \A k \in Nat : i * k \in Nat
      OBVIOUS
    <2>4. QED
      BY <1>1, <2>2, <2>3 DEF NextTime
  <1>2. CASE ~(t > s + i)
    BY <1>2 DEF NextTime
  <1>3. QED
    BY <1>1, <1>2

\* Inserting into a sequence of tasks: what is where afterwards.
LEMMA InsertAfterElements ==
    ASSUME NEW s \in Seq(Tasks), NEW p \in 0..Len(s), NEW t \in Tasks
    PROVE  /\ InsertAfter(s, p, t) \in Seq(Tasks)
           /\ Len(InsertAfter(s, p, t)) = Len(s) + 1
           /\ \A i \in 1..p : InsertAfter(s, p, t)[i] = s[i]
           /\ InsertAfter(s, p, t)[p + 1] = t
           /\ \A i \in p + 2..Len(s) + 1 : InsertAfter(s, p, t)[i] = s[i - 1]
  <1> DEFINE r == InsertAfter(s, p, t)
  <1>1. Len(s) \in Nat /\ \A i \in 1..Len(s) : s[i] \in Tasks
    OBVIOUS
  <1>2. r \in [1..Len(s) + 1 -> Tasks]
    BY <1>1 DEF InsertAfter
  <1>3. r \in Seq(Tasks) /\ Len(r) = Len(s) + 1
    <2> HIDE DEF r
    <2> QED
      BY <1>1, <1>2
  <1>4. QED
    BY <1>1, <1>3 DEF InsertAfter

\* The place enqueue finds: everything up to it is scheduled before t, and
\* nothing behind it is.
LEMMA AheadPlace ==
    ASSUME q \in Seq(Tasks), scheduled_time \in [Tasks -> Nat], NEW t \in Tasks
    PROVE  /\ Ahead(t) \in 0..Len(q)
           /\ Ahead(t) > 0 => scheduled_time[t] > scheduled_time[q[Ahead(t)]]
           /\ \A j \in Ahead(t) + 1..Len(q) : scheduled_time[t] <= scheduled_time[q[j]]
  <1> DEFINE before == {i \in 1..Len(q) : scheduled_time[t] > scheduled_time[q[i]]}
  <1>1. Len(q) \in Nat /\ \A i \in 1..Len(q) : scheduled_time[q[i]] \in Nat
    OBVIOUS
  <1>2. CASE before = {}
    BY <1>1, <1>2 DEF Ahead
  <1>3. CASE before # {}
    <2>1. \E m \in before : \A j \in before : j <= m
      BY <1>1, <1>3, LastPosition
    <2>2. Ahead(t) \in before /\ \A j \in before : j <= Ahead(t)
      BY <1>3, <2>1 DEF Ahead
    <2>3. QED
      BY <1>1, <2>2
  <1>4. QED
    BY <1>2, <1>3

-----------------------------------------------------------------------------
(* Type correctness. *)

LEMMA EnqueueType ==
    ASSUME TypeOK, NEW t \in Tasks, Enqueue(t)
    PROVE  q' \in Seq(Tasks)
  BY AheadPlace, InsertAfterElements DEF Enqueue, TypeOK

LEMMA TailType ==
    ASSUME NEW S, NEW s \in Seq(S), s # <<>>
    PROVE  /\ Head(s) \in S /\ Head(s) = s[1]
           /\ Tail(s) \in Seq(S) /\ Len(Tail(s)) = Len(s) - 1
           /\ Len(s) \in Nat /\ Len(s) > 0
           /\ \A i \in 1..Len(s) - 1 : Tail(s)[i] = s[i + 1]
  BY HeadTailProperties

LEMMA NotifyAllType ==
    ASSUME NEW p \in [Workers -> WorkerStates]
    PROVE  NotifyAll(p) \in [Workers -> WorkerStates]
  BY DEF NotifyAll, WorkerStates

\* Every variable keeps its type: in particular scheduled times stay natural
\* numbers and remaining_exe_time never falls below -1.
LEMMA TypeStep == IInv /\ [Next]_vars => TypeOK'
  <1> SUFFICES ASSUME IInv, [Next]_vars PROVE TypeOK'
    OBVIOUS
  <1> USE PoolAssumption
  <1> USE DEF vars, taskVars, queueVars, poolVars, workerVars, histVars
  <1>0. TypeOK /\ HasTask
    BY DEF IInv
  <1>1. CASE Tick
    BY <1>0, <1>1 DEF TypeOK, Tick
  <1>2. ASSUME NEW w \in Workers, WorkerStep(w) PROVE TypeOK'
    <2>1. CASE CheckStop(w)
      BY <1>0, <2>1 DEF TypeOK, CheckStop, Goto, WorkerStates
    <2>2. CASE LockQueue(w)
      BY <1>0, <2>2 DEF TypeOK, LockQueue, Goto, WorkerStates
    <2>3. CASE Scan(w)
      BY <1>0, <2>3 DEF TypeOK, Scan, Goto, WorkerStates
    <2>4. CASE Look(w)
      <3>1. CASE LookEmpty(w)
        BY <1>0, <2>4, <3>1 DEF TypeOK, Look, LookEmpty, Goto, WorkerStates
      <3>2. CASE LookCancelled(w)
        BY <1>0, <2>4, <3>2, TailType DEF TypeOK, Look, LookCancelled, Goto, WorkerStates
      <3>3. CASE LookDue(w)
        BY <1>0, <2>4, <3>3, TailType DEF TypeOK, Look, LookDue, Goto, WorkerStates
      <3>4. CASE LookEarly(w)
        BY <1>0, <2>4, <3>4, TailType DEF TypeOK, Look, LookEarly, Goto, WorkerStates
      <3>5. QED
        BY <2>4, <3>1, <3>2, <3>3, <3>4 DEF Look
    <2>5. CASE Timeout(w)
      BY <1>0, <2>5 DEF TypeOK, Timeout, Goto, WorkerStates
    <2>6. CASE AfterDequeue(w)
      BY <1>0, <2>6 DEF TypeOK, AfterDequeue, Goto, WorkerStates
    <2>7. CASE RunBegin(w)
      <3>1. task[w] \in Tasks
        BY <1>0, <2>7 DEF TypeOK, HasTask, RunBegin, Goto
      <3>2. remaining' \in [Tasks -> Nat \cup {-1}]
        BY <1>0, <2>7, <3>1 DEF TypeOK, RunBegin
      <3>3. starts' \in [Tasks -> Nat] /\ late' \in [Tasks -> Nat]
        BY <1>0, <2>7, <3>1 DEF TypeOK, RunBegin
      <3>4. pc' \in [Workers -> WorkerStates]
        BY <1>0, <2>7 DEF TypeOK, RunBegin, Goto, WorkerStates
      <3>5. QED
        BY <1>0, <2>7, <3>2, <3>3, <3>4 DEF TypeOK, RunBegin
    <2>8. CASE RunEnd(w)
      BY <1>0, <2>8 DEF TypeOK, RunEnd, Goto, WorkerStates
    <2>9. CASE AdvanceTask(w)
      <3>1. task[w] \in Tasks
        BY <1>0, <2>9 DEF TypeOK, HasTask, AdvanceTask, Goto
      <3>2. NextTime(scheduled_time[task[w]], Interval[task[w]], now) \in Nat
        BY <1>0, <3>1, NextTimeForward DEF TypeOK
      <3>3. QED
        BY <1>0, <2>9, <3>1, <3>2 DEF TypeOK, AdvanceTask, Goto, WorkerStates
    <2>10. CASE Requeue(w)
      <3>1. task[w] \in Tasks
        BY <1>0, <2>10 DEF TypeOK, HasTask, Requeue, Goto
      <3>2. q' \in Seq(Tasks)
        BY <1>0, <2>10, <3>1, EnqueueType DEF Requeue
      <3>3. pc' \in [Workers -> WorkerStates]
        BY <1>0, <2>10, NotifyAllType DEF TypeOK, Requeue, WorkerStates
      <3>4. QED
        BY <1>0, <2>10, <3>2, <3>3 DEF TypeOK, Requeue
    <2>11. QED
      BY <1>2, <2>1, <2>2, <2>3, <2>4, <2>5, <2>6, <2>7, <2>8, <2>9, <2>10 DEF WorkerStep
  <1>3. ASSUME NEW w \in Workers, SpuriousWakeup(w) PROVE TypeOK'
    BY <1>0, <1>3 DEF TypeOK, SpuriousWakeup, Goto, WorkerStates
  <1>4. ASSUME NEW t \in Tasks, Schedule(t) PROVE TypeOK'
    BY <1>0, <1>4, EnqueueType, NotifyAllType DEF TypeOK, Schedule
  <1>5. ASSUME NEW t \in Tasks, Cancel(t) PROVE TypeOK'
    BY <1>0, <1>5 DEF TypeOK, Cancel
  <1>6. ASSUME NEW t \in Tasks, NEW d \in Delays, Construct(t, d) PROVE TypeOK'
    BY <1>0, <1>6 DEF TypeOK, Construct
  <1>7. CASE CloseStep
    <2>1. CASE StopPool
      BY <1>0, <2>1 DEF TypeOK, StopPool, CloserGoto, CloserStates
    <2>2. CASE CloseQueue
      BY <1>0, <2>2 DEF TypeOK, CloseQueue, CloserGoto, CloserStates
    <2>3. CASE NotifyWorkers
      BY <1>0, <2>3, NotifyAllType DEF TypeOK, NotifyWorkers, CloserGoto, CloserStates
    <2>4. CASE JoinWorkers
      BY <1>0, <2>4 DEF TypeOK, JoinWorkers, CloserGoto, CloserStates
    <2>5. QED
      BY <1>7, <2>1, <2>2, <2>3, <2>4 DEF CloseStep
  <1>8. CASE UNCHANGED vars
    BY <1>0, <1>8 DEF TypeOK
  <1>9. QED
    BY <1>1, <1>2, <1>3, <1>4, <1>5, <1>6, <1>7, <1>8 DEF Next
-----------------------------------------------------------------------------
(* The invariant of the pool. *)

\* enqueue puts t somewhere between the tasks scheduled before it and the rest.
LEMMA EnqueueElements ==
    ASSUME TypeOK, NEW t \in Tasks, Enqueue(t), ~q_stop
    PROVE  \E p \in 0..Len(q) :
             /\ Len(q') = Len(q) + 1
             /\ \A i \in 1..p : q'[i] = q[i]
             /\ q'[p + 1] = t
             /\ \A i \in p + 2..Len(q) + 1 : q'[i] = q[i - 1]
             /\ p > 0 => scheduled_time[t] > scheduled_time[q[p]]
             /\ \A j \in p + 1..Len(q) : scheduled_time[t] <= scheduled_time[q[j]]
  <1>1. q \in Seq(Tasks) /\ scheduled_time \in [Tasks -> Nat]
    BY DEF TypeOK
  <1>2. /\ Ahead(t) \in 0..Len(q)
        /\ Ahead(t) > 0 => scheduled_time[t] > scheduled_time[q[Ahead(t)]]
        /\ \A j \in Ahead(t) + 1..Len(q) : scheduled_time[t] <= scheduled_time[q[j]]
    BY <1>1, AheadPlace
  <1>3. q' = InsertAfter(q, Ahead(t), t)
    BY DEF Enqueue
  <1>4. /\ Len(q') = Len(q) + 1
        /\ \A i \in 1..Ahead(t) : q'[i] = q[i]
        /\ q'[Ahead(t) + 1] = t
        /\ \A i \in Ahead(t) + 2..Len(q) + 1 : q'[i] = q[i - 1]
    BY <1>1, <1>2, <1>3, InsertAfterElements
  <1>5. QED
    BY <1>2, <1>4

\* Enqueueing a task that is not queued leaves every task queued at most once.
LEMMA EnqueueSingle ==
    ASSUME IInv, NEW t \in Tasks, Enqueue(t), ~q_stop,
           \A i \in 1..Len(q) : q[i] # t
    PROVE  /\ \A i, j \in 1..Len(q') : q'[i] = q'[j] => i = j
           /\ \A i \in 1..Len(q') : q'[i] = t \/ \E j \in 1..Len(q) : q'[i] = q[j]
  <1>1. TypeOK /\ SingleOwner /\ Len(q) \in Nat
    BY DEF IInv, TypeOK
  <1>2. PICK p \in 0..Len(q) :
             /\ Len(q') = Len(q) + 1
             /\ \A i \in 1..p : q'[i] = q[i]
             /\ q'[p + 1] = t
             /\ \A i \in p + 2..Len(q) + 1 : q'[i] = q[i - 1]
    BY <1>1, EnqueueElements
  <1>3. ASSUME NEW i \in 1..Len(q')
        PROVE  i \in 1..p \/ i = p + 1 \/ (i \in p + 2..Len(q) + 1 /\ i - 1 \in 1..Len(q))
    BY <1>1, <1>2
  <1>4. \A i \in 1..Len(q') : q'[i] = t <=> i = p + 1
    BY <1>1, <1>2, <1>3
  <1>5. ASSUME NEW i \in 1..Len(q'), NEW j \in 1..Len(q'), q'[i] = q'[j], i # p + 1, j # p + 1
        PROVE  i = j
    <2>1. i \in 1..p \/ (i \in p + 2..Len(q) + 1 /\ i - 1 \in 1..Len(q))
      BY <1>3, <1>5
    <2>2. j \in 1..p \/ (j \in p + 2..Len(q) + 1 /\ j - 1 \in 1..Len(q))
      BY <1>3, <1>5
    <2>3. QED
      BY <1>1, <1>2, <1>5, <2>1, <2>2 DEF SingleOwner
  <1>6. \A i \in 1..Len(q') : q'[i] = t \/ \E j \in 1..Len(q) : q'[i] = q[j]
    BY <1>1, <1>2, <1>3
  <1>7. QED
    BY <1>4, <1>5, <1>6

\* Enqueueing keeps the queue ordered.
LEMMA EnqueueOrdered ==
    ASSUME IInv, NEW t \in Tasks, Enqueue(t), ~q_stop, UNCHANGED scheduled_time
    PROVE  QueueOrdered'
  <1>1. TypeOK /\ QueueOrdered /\ Len(q) \in Nat
    BY DEF IInv, TypeOK
  <1>2. PICK p \in 0..Len(q) :
             /\ Len(q') = Len(q) + 1
             /\ \A i \in 1..p : q'[i] = q[i]
             /\ q'[p + 1] = t
             /\ \A i \in p + 2..Len(q) + 1 : q'[i] = q[i - 1]
             /\ p > 0 => scheduled_time[t] > scheduled_time[q[p]]
             /\ \A j \in p + 1..Len(q) : scheduled_time[t] <= scheduled_time[q[j]]
    BY <1>1, EnqueueElements
  <1>3. \A i \in 1..Len(q) : scheduled_time[q[i]] \in Nat
    BY <1>1 DEF TypeOK
  <1>4. scheduled_time[t] \in Nat
    BY <1>1 DEF TypeOK
  <1>5. \A i \in 1..p : scheduled_time[q[i]] <= scheduled_time[t]
    BY <1>1, <1>2, <1>3, <1>4 DEF QueueOrdered
  <1>6. SUFFICES ASSUME NEW i \in 1..Len(q) + 1, NEW j \in 1..Len(q) + 1, i < j
                 PROVE  scheduled_time[q'[i]] <= scheduled_time[q'[j]]
    BY <1>2 DEF QueueOrdered
  <1>7. CASE j <= p
    BY <1>1, <1>2, <1>6, <1>7 DEF QueueOrdered
  <1>8. CASE j = p + 1
    BY <1>1, <1>2, <1>5, <1>6, <1>8
  <1>9. CASE j > p + 1 /\ i <= p
    BY <1>1, <1>2, <1>6, <1>9 DEF QueueOrdered
  <1>10. CASE j > p + 1 /\ i = p + 1
    BY <1>1, <1>2, <1>6, <1>10
  <1>11. CASE j > p + 1 /\ i > p + 1
    BY <1>1, <1>2, <1>6, <1>11 DEF QueueOrdered
  <1>12. QED
    BY <1>1, <1>7, <1>8, <1>9, <1>10, <1>11

\* Taking the head away keeps the queue ordered and every task in one place.
LEMMA PopHead ==
    ASSUME IInv, q # <<>>, q' = Tail(q), UNCHANGED scheduled_time
    PROVE  /\ QueueOrdered'
           /\ \A i, j \in 1..Len(q') : q'[i] = q'[j] => i = j
           /\ \A i \in 1..Len(q') : \E j \in 1..Len(q) : j > 1 /\ q'[i] = q[j]
           /\ Head(q) \in Tasks /\ Head(q) = q[1] /\ 1 \in 1..Len(q)
           /\ \A i \in 1..Len(q') : q'[i] # Head(q)
  <1>1. TypeOK /\ SingleOwner /\ QueueOrdered /\ q \in Seq(Tasks)
    BY DEF IInv, TypeOK
  <1>2. /\ Head(q) \in Tasks /\ Head(q) = q[1]
        /\ Len(q) \in Nat /\ Len(q) > 0 /\ Len(q') = Len(q) - 1
        /\ \A i \in 1..Len(q) - 1 : q'[i] = q[i + 1]
    BY <1>1, TailType
  <1>3. \A i \in 1..Len(q') : i + 1 \in 1..Len(q) /\ q'[i] = q[i + 1]
    BY <1>2
  <1>4. QueueOrdered'
    BY <1>1, <1>2, <1>3 DEF QueueOrdered
  <1>5. \A i, j \in 1..Len(q') : q'[i] = q'[j] => i = j
    BY <1>1, <1>2, <1>3 DEF SingleOwner
  <1>6. QED
    BY <1>1, <1>2, <1>3, <1>4, <1>5 DEF SingleOwner

\* A step that leaves the tasks, the queue and the workers alone preserves it.
LEMMA InvFrame ==
    ASSUME IInv, TypeOK',
           UNCHANGED <<phase, scheduled_time, remaining, cancelled>>,
           UNCHANGED <<q, q_stop, pc, task, starts, late>>
    PROVE  IInv'
  <1>1. SingleOwner' /\ QueueOrdered'
    BY DEF IInv, SingleOwner, QueueOrdered
  <1>2. ExecutionBound' /\ OneStartAfterCancel' /\ StoppedQueueEmpty'
    BY DEF IInv, ExecutionBound, OneStartAfterCancel, StoppedQueueEmpty
  <1>3. HasTask' /\ HandedOver'
    BY DEF IInv, HasTask, HandedOver
  <1>4. UsedUp' /\ LastStart'
    BY DEF IInv, UsedUp, LastStart
  <1>5. QED
    BY <1>1, <1>2, <1>3, <1>4 DEF IInv

\* Every step of the pool preserves the invariant.
LEMMA InvStep == IInv /\ [Next]_vars => IInv'
  <1> SUFFICES ASSUME IInv, [Next]_vars PROVE IInv'
    OBVIOUS
  <1> USE PoolAssumption
  <1> USE DEF vars, taskVars, queueVars, poolVars, workerVars, histVars
  <1>0. /\ TypeOK /\ SingleOwner /\ QueueOrdered /\ ExecutionBound
        /\ OneStartAfterCancel /\ StoppedQueueEmpty
        /\ HasTask /\ HandedOver /\ UsedUp /\ LastStart
        /\ TypeOK'
    BY TypeStep DEF IInv
  <1>p. pc \in [Workers -> WorkerStates]
    BY <1>0 DEF TypeOK
  <1>k. task \in [Workers -> Tasks \cup {NoTask}] /\ NoTask \notin Tasks
    BY <1>0 DEF TypeOK
  <1>q. q \in Seq(Tasks) /\ Len(q) \in Nat /\ \A i \in 1..Len(q) : q[i] \in Tasks
    <2>1. q \in Seq(Tasks)
      BY <1>0 DEF TypeOK
    <2>2. QED
      BY <2>1
  <1>r. remaining \in [Tasks -> Nat \cup {-1}] /\ ExeTime \in [Tasks -> Nat \cup {-1}]
    BY <1>0 DEF TypeOK
  <1>h. starts \in [Tasks -> Nat] /\ late \in [Tasks -> Nat]
    BY <1>0 DEF TypeOK
  <1>s. scheduled_time \in [Tasks -> Nat]
    BY <1>0 DEF TypeOK
  <1>f. phase \in [Tasks -> {"none", "built", "queued"}]
    BY <1>0 DEF TypeOK
  <1>c. cancelled \in [Tasks -> BOOLEAN]
    BY <1>0 DEF TypeOK
  <1>1. CASE Tick
    BY <1>0, <1>1, InvFrame DEF Tick
  <1>2. ASSUME NEW w \in Workers,
               \/ CheckStop(w) \/ LockQueue(w) \/ Scan(w) \/ Timeout(w)
               \/ SpuriousWakeup(w) \/ RunEnd(w)
        PROVE IInv'
    <2>1. UNCHANGED <<taskVars, q, q_stop, task, histVars>>
      BY <1>2 DEF CheckStop, LockQueue, Scan, Timeout, SpuriousWakeup, RunEnd
    <2>2. SingleOwner' /\ QueueOrdered' /\ ExecutionBound' /\ OneStartAfterCancel'
      BY <1>0, <2>1 DEF SingleOwner, QueueOrdered, ExecutionBound, OneStartAfterCancel
    <2>3. StoppedQueueEmpty' /\ HandedOver'
      BY <1>0, <2>1 DEF StoppedQueueEmpty, HandedOver
    <2>5. \A v \in Workers :
             \/ pc'[v] = pc[v]
             \/ /\ pc[v] \notin {"running", "next", "requeue"}
                /\ pc'[v] \notin {"begin", "running", "next", "requeue"}
             \/ pc[v] = "running" /\ pc'[v] = "next"
      BY <1>2, <1>p DEF CheckStop, LockQueue, Scan, Timeout, SpuriousWakeup, RunEnd, Goto, WorkerStates
    <2>6. HasTask' /\ UsedUp' /\ LastStart'
      BY <1>0, <2>1, <2>5 DEF HasTask, UsedUp, LastStart
    <2>7. QED
      BY <1>0, <2>2, <2>3, <2>6 DEF IInv
  <1>3. ASSUME NEW w \in Workers, Look(w) PROVE IInv'
    <2>u. UNCHANGED <<taskVars, q_stop, histVars>>
      BY <1>3 DEF Look
    <2>1. ASSUME UNCHANGED <<q, task>>, LookEmpty(w) \/ LookEarly(w) PROVE IInv'
      <3>1. \A v \in Workers : \/ pc'[v] = pc[v]
                               \/ pc[v] = "look" /\ pc'[v] \in {"wait", "wait_for"}
        BY <1>p, <2>1 DEF LookEmpty, LookEarly, Goto
      <3>2. HasTask' /\ UsedUp' /\ LastStart'
        BY <1>0, <2>u, <2>1, <3>1 DEF HasTask, UsedUp, LastStart
      <3>3. SingleOwner' /\ QueueOrdered' /\ ExecutionBound'
        BY <1>0, <2>u, <2>1 DEF SingleOwner, QueueOrdered, ExecutionBound
      <3>4. OneStartAfterCancel' /\ StoppedQueueEmpty' /\ HandedOver'
        BY <1>0, <2>u, <2>1 DEF OneStartAfterCancel, StoppedQueueEmpty, HandedOver
      <3>5. QED
        BY <1>0, <3>2, <3>3, <3>4 DEF IInv
    <2>2. CASE LookCancelled(w)
      <3>1. UNCHANGED task /\ q # <<>> /\ q' = Tail(q)
        BY <2>2 DEF LookCancelled
      <3>2. \A v \in Workers : pc'[v] = pc[v] \/ (pc[v] = "look" /\ pc'[v] = "scan")
        BY <1>p, <2>2 DEF LookCancelled, Goto
      <3>3. /\ QueueOrdered'
            /\ \A i, j \in 1..Len(q') : q'[i] = q'[j] => i = j
            /\ \A i \in 1..Len(q') : \E j \in 1..Len(q) : q'[i] = q[j]
        BY <2>u, <3>1, PopHead
      <3>4. SingleOwner' /\ ExecutionBound' /\ HandedOver'
        BY <1>0, <2>u, <3>1, <3>3 DEF SingleOwner, ExecutionBound, HandedOver
      <3>5. HasTask' /\ UsedUp' /\ LastStart'
        BY <1>0, <2>u, <3>1, <3>2 DEF HasTask, UsedUp, LastStart
      <3>6. StoppedQueueEmpty' /\ OneStartAfterCancel'
        BY <1>0, <2>u, <3>1 DEF StoppedQueueEmpty, OneStartAfterCancel
      <3>7. QED
        BY <1>0, <3>3, <3>4, <3>5, <3>6 DEF IInv
    <2>3. CASE LookDue(w)
      <3>1. q # <<>> /\ q' = Tail(q) /\ ~cancelled[Head(q)]
        BY <2>3 DEF LookDue
      <3>2. \A v \in Workers : v # w => pc'[v] = pc[v] /\ task'[v] = task[v]
        BY <1>p, <1>k, <2>3 DEF LookDue, Goto
      <3>3. pc'[w] = "popped" /\ task'[w] = Head(q)
        BY <1>p, <1>k, <2>3 DEF LookDue, Goto
      <3>4. /\ QueueOrdered'
            /\ \A i, j \in 1..Len(q') : q'[i] = q'[j] => i = j
            /\ \A i \in 1..Len(q') : \E j \in 1..Len(q) : q'[i] = q[j]
            /\ Head(q) \in Tasks /\ Head(q) = q[1] /\ 1 \in 1..Len(q)
            /\ \A i \in 1..Len(q') : q'[i] # Head(q)
        BY <2>u, <3>1, PopHead
      <3>5. SingleOwner'
        BY <1>0, <3>2, <3>3, <3>4 DEF SingleOwner
      <3>6a. ExecutionBound'
        BY <1>0, <2>u, <3>4 DEF ExecutionBound
      <3>6. HandedOver'
        <4>1. \A i \in 1..Len(q') : phase[q'[i]] = "queued"
          BY <1>0, <3>4 DEF HandedOver
        <4>2. phase[Head(q)] = "queued"
          BY <1>0, <3>4 DEF HandedOver
        <4>3. \A v \in Workers : task'[v] # NoTask => phase[task'[v]] = "queued"
          BY <1>0, <3>2, <3>3, <4>2 DEF HandedOver
        <4>4. QED
          BY <1>0, <2>u, <4>1, <4>3 DEF HandedOver
      <3>7. HasTask'
        BY <1>0, <3>2, <3>3 DEF HasTask
      <3>8. UsedUp'
        <4>1. ~(ExeTime[Head(q)] > 0 /\ remaining[Head(q)] = 0)
          BY <1>0, <3>4 DEF ExecutionBound
        <4>2. QED
          BY <1>0, <2>u, <3>2, <3>3, <4>1 DEF UsedUp
      <3>9. LastStart'
        BY <1>0, <2>u, <3>1, <3>2, <3>3 DEF LastStart
      <3>10. StoppedQueueEmpty' /\ OneStartAfterCancel'
        BY <1>0, <2>u, <3>1 DEF StoppedQueueEmpty, OneStartAfterCancel
      <3>11. QED
        BY <1>0, <3>4, <3>5, <3>6a, <3>6, <3>7, <3>8, <3>9, <3>10 DEF IInv
    <2>4. QED
      BY <1>3, <2>1, <2>2, <2>3 DEF Look, LookEmpty, LookEarly
  <1>4. ASSUME NEW w \in Workers, AfterDequeue(w) PROVE IInv'
    <2>1. UNCHANGED <<taskVars, q, q_stop, histVars>>
      BY <1>4 DEF AfterDequeue
    <2>2. \A v \in Workers : task'[v] = task[v] \/ task'[v] = NoTask
      BY <1>k, <1>4 DEF AfterDequeue
    <2>3. \A v \in Workers : \/ pc'[v] = pc[v] /\ task'[v] = task[v]
                             \/ pc'[v] \in {"exited", "top"} /\ task'[v] = NoTask
                             \/ pc[v] = "popped" /\ pc'[v] = "begin" /\ task'[v] = task[v] /\ task[v] # NoTask
      BY <1>p, <1>k, <1>4 DEF AfterDequeue, Goto
    <2>4a. SingleOwner'
      BY <1>0, <1>k, <1>q, <2>1, <2>2 DEF SingleOwner
    <2>4. HandedOver'
      BY <1>0, <2>1, <2>2 DEF HandedOver
    <2>5. QueueOrdered' /\ ExecutionBound' /\ OneStartAfterCancel' /\ StoppedQueueEmpty'
      BY <1>0, <2>1 DEF QueueOrdered, ExecutionBound, OneStartAfterCancel, StoppedQueueEmpty
    <2>6. HasTask'
      BY <1>0, <2>3 DEF HasTask
    <2>7. UsedUp'
      BY <1>0, <1>k, <2>1, <2>3 DEF UsedUp
    <2>8. LastStart'
      BY <1>0, <1>k, <2>1, <2>3 DEF LastStart
    <2>9. QED
      BY <1>0, <2>4a, <2>4, <2>5, <2>6, <2>7, <2>8 DEF IInv
  <1>5. ASSUME NEW w \in Workers, RunBegin(w) PROVE IInv'
    <2> DEFINE t == task[w]
    <2>1. t \in Tasks /\ pc[w] = "begin"
      BY <1>0, <1>k, <1>5 DEF RunBegin, Goto, HasTask
    <2>2. UNCHANGED <<phase, scheduled_time, cancelled, q, q_stop, task>>
      BY <1>5 DEF RunBegin
    <2>3. \A v \in Workers : v # w => pc'[v] = pc[v] /\ task[v] # t
      BY <1>0, <1>k, <1>p, <1>5, <2>1 DEF RunBegin, Goto, SingleOwner
    <2>4. pc'[w] \in {"next", "running"}
      BY <1>p, <1>5 DEF RunBegin, Goto
    <2>5. \A u \in Tasks : u # t => remaining'[u] = remaining[u] /\ starts'[u] = starts[u] /\ late'[u] = late[u]
      BY <1>r, <1>h, <1>5 DEF RunBegin
    <2>6. /\ remaining[t] > 0 => remaining'[t] = remaining[t] - 1 /\ starts'[t] = starts[t] + 1
          /\ remaining[t] = 0 => remaining'[t] = 0 /\ starts'[t] = starts[t]
          /\ late'[t] = late[t] \/ (cancelled[t] /\ late'[t] = late[t] + 1)
      BY <1>r, <1>h, <1>5, <2>1 DEF RunBegin
    <2>7. late[t] = 0
      <3>1. ~(late[t] > 0)
        BY <1>0, <2>1 DEF LastStart
      <3>2. QED
        BY <1>h, <2>1, <3>1
    <2>8. ExeTime[t] > 0 => remaining[t] > 0
      <3>1. ExeTime[t] > 0 => remaining[t] # 0
        BY <1>0, <2>1 DEF UsedUp
      <3>2. ExeTime[t] > 0 => starts[t] <= ExeTime[t] /\ starts[t] + remaining[t] = ExeTime[t]
        BY <1>0, <2>1 DEF ExecutionBound
      <3>3. QED
        BY <1>r, <1>h, <2>1, <3>1, <3>2
    <2>9. \A i \in 1..Len(q) : q[i] # t
      BY <1>0 DEF SingleOwner
    <2> HIDE DEF t
    <2>10. SingleOwner' /\ QueueOrdered' /\ StoppedQueueEmpty'
      BY <1>0, <2>2 DEF SingleOwner, QueueOrdered, StoppedQueueEmpty
    <2>11. ExecutionBound'
      <3> SUFFICES ASSUME NEW u \in Tasks, ExeTime[u] > 0
                   PROVE  /\ starts'[u] <= ExeTime[u]
                          /\ starts'[u] + remaining'[u] = ExeTime[u]
                          /\ remaining'[u] = 0 => \A i \in 1..Len(q') : q'[i] # u
        BY DEF ExecutionBound
      <3>1. CASE u = t
        <4>1. starts[t] <= ExeTime[t] /\ starts[t] + remaining[t] = ExeTime[t]
          BY <1>0, <2>1, <3>1 DEF ExecutionBound
        <4>2. starts'[t] = starts[t] + 1 /\ remaining'[t] = remaining[t] - 1 /\ remaining[t] > 0
          BY <2>6, <2>8, <3>1
        <4>3. starts'[t] <= ExeTime[t] /\ starts'[t] + remaining'[t] = ExeTime[t]
          BY <1>r, <1>h, <2>1, <4>1, <4>2
        <4>4. QED
          BY <2>2, <2>9, <3>1, <4>3
      <3>2. CASE u # t
        BY <1>0, <2>2, <2>5, <3>2 DEF ExecutionBound
      <3>3. QED
        BY <3>1, <3>2
    <2>12. OneStartAfterCancel'
      <3> SUFFICES ASSUME NEW u \in Tasks PROVE late'[u] <= 1
        BY DEF OneStartAfterCancel
      <3>1. QED
        BY <1>0, <2>5, <2>6, <2>7 DEF OneStartAfterCancel
    <2>13. HasTask'
      BY <1>0, <1>k, <2>1, <2>2, <2>3 DEF HasTask, t
    <2>14. HandedOver'
      BY <1>0, <1>k, <2>1, <2>2, <2>5 DEF HandedOver, t
    <2>15. UsedUp'
      BY <1>0, <2>2, <2>3, <2>4, <2>5 DEF UsedUp
    <2>16. LastStart'
      <3> SUFFICES ASSUME NEW u \in Tasks, late'[u] > 0
                   PROVE  /\ cancelled'[u]
                          /\ \A v \in Workers : task'[v] = u => pc'[v] \in {"running", "next", "requeue"}
        BY DEF LastStart
      <3>1. CASE u = t
        <4>1. cancelled[t]
          BY <2>6, <2>7, <3>1
        <4>2. QED
          BY <2>2, <2>3, <2>4, <3>1, <4>1 DEF t
      <3>2. CASE u # t
        <4>1. \A v \in Workers : task'[v] = u => v # w
          BY <2>2, <3>2 DEF t
        <4>2. QED
          BY <1>0, <2>2, <2>3, <2>5, <3>2, <4>1 DEF LastStart
      <3>3. QED
        BY <3>1, <3>2
    <2>17. QED
      BY <1>0, <2>10, <2>11, <2>12, <2>13, <2>14, <2>15, <2>16 DEF IInv
  <1>6. ASSUME NEW w \in Workers, AdvanceTask(w) PROVE IInv'
    <2> DEFINE t == task[w]
    <2>1. t \in Tasks /\ pc[w] = "next"
      BY <1>0, <1>k, <1>6 DEF AdvanceTask, Goto, HasTask
    <2>2. UNCHANGED <<phase, remaining, cancelled, q, q_stop, histVars>>
      BY <1>6 DEF AdvanceTask
    <2>3. \A v \in Workers : v # w => pc'[v] = pc[v] /\ task'[v] = task[v]
      BY <1>p, <1>k, <1>6 DEF AdvanceTask, Goto
    <2>4. \/ remaining[t] = 0 /\ pc'[w] = "top" /\ task'[w] = NoTask
          \/ remaining[t] # 0 /\ pc'[w] = "requeue" /\ task'[w] = t
      BY <1>p, <1>k, <1>6 DEF AdvanceTask, Goto
    <2>5. \A i \in 1..Len(q) : q[i] # t
      BY <1>0 DEF SingleOwner
    <2>6. \A u \in Tasks : u # t => scheduled_time'[u] = scheduled_time[u]
      BY <1>s, <1>6 DEF AdvanceTask
    <2>7. QueueOrdered'
      BY <1>0, <1>q, <2>2, <2>5, <2>6 DEF QueueOrdered
    <2>7a. \A v \in Workers : task'[v] = task[v] \/ task'[v] = NoTask
      BY <2>3, <2>4
    <2>7b. SingleOwner'
      BY <1>0, <1>k, <1>q, <2>2, <2>7a DEF SingleOwner
    <2>7c. HandedOver'
      BY <1>0, <1>k, <1>q, <2>2, <2>7a DEF HandedOver
    <2>8. SingleOwner' /\ HandedOver'
      BY <2>7b, <2>7c
    <2>9. ExecutionBound' /\ OneStartAfterCancel' /\ StoppedQueueEmpty'
      BY <1>0, <2>2 DEF ExecutionBound, OneStartAfterCancel, StoppedQueueEmpty
    <2>10. HasTask'
      BY <1>0, <1>k, <2>1, <2>3, <2>4 DEF HasTask
    <2>11. UsedUp'
      BY <1>0, <1>k, <2>2, <2>3, <2>4 DEF UsedUp
    <2>12. LastStart'
      BY <1>0, <1>k, <2>1, <2>2, <2>3, <2>4 DEF LastStart
    <2>13. QED
      BY <1>0, <2>7, <2>8, <2>9, <2>10, <2>11, <2>12 DEF IInv
  <1>7. ASSUME NEW w \in Workers, Requeue(w) PROVE IInv'
    <2> DEFINE t == task[w]
    <2>1. t \in Tasks /\ pc[w] = "requeue" /\ Enqueue(t)
      BY <1>0, <1>k, <1>7 DEF Requeue, HasTask
    <2>2. UNCHANGED <<taskVars, q_stop, histVars>>
      BY <1>7 DEF Requeue
    <2>3. \A v \in Workers : v # w => task'[v] = task[v] /\ task[v] # t
      BY <1>0, <1>k, <1>7, <2>1 DEF Requeue, SingleOwner
    <2>4. task'[w] = NoTask /\ pc'[w] = "top"
      BY <1>p, <1>k, <1>7 DEF Requeue, NotifyAll
    <2>5. \A v \in Workers : v # w => \/ pc'[v] = pc[v]
                                      \/ pc[v] \in {"wait", "wait_for"} /\ pc'[v] = "lock"
      BY <1>p, <1>k, <1>7 DEF Requeue, NotifyAll
    <2>6. \A i \in 1..Len(q) : q[i] # t
      BY <1>0 DEF SingleOwner
    <2>7a. HasTask'
      BY <1>0, <2>3, <2>4, <2>5 DEF HasTask
    <2>7b. UsedUp'
      BY <1>0, <1>k, <2>2, <2>3, <2>4, <2>5 DEF UsedUp
    <2>7c. LastStart'
      BY <1>0, <1>k, <2>2, <2>3, <2>4, <2>5 DEF LastStart
    <2>7. HasTask' /\ UsedUp' /\ LastStart'
      BY <2>7a, <2>7b, <2>7c
    <2>8. OneStartAfterCancel' /\ StoppedQueueEmpty'
      BY <1>0, <2>1, <2>2 DEF OneStartAfterCancel, StoppedQueueEmpty, Enqueue
    <2>9. ExeTime[t] > 0 => remaining[t] # 0
      BY <1>0, <2>1 DEF UsedUp
    <2>10. phase[t] = "queued"
      BY <1>0, <1>k, <2>1 DEF HandedOver
    <2> HIDE DEF t
    <2>11. CASE q_stop
      <3>1. UNCHANGED q
        BY <2>1, <2>11 DEF Enqueue
      <3>2. SingleOwner' /\ QueueOrdered' /\ ExecutionBound' /\ HandedOver'
        <4>1. SingleOwner'
          BY <1>0, <1>k, <1>q, <2>3, <2>4, <3>1 DEF SingleOwner
        <4>2. QueueOrdered' /\ ExecutionBound'
          BY <1>0, <2>2, <3>1 DEF QueueOrdered, ExecutionBound
        <4>3. HandedOver'
          BY <1>0, <2>2, <2>3, <2>4, <3>1 DEF HandedOver
        <4>4. QED
          BY <4>1, <4>2, <4>3
      <3>3. QED
        BY <1>0, <2>7, <2>8, <3>2 DEF IInv
    <2>12. CASE ~q_stop
      <3>1. /\ \A i, j \in 1..Len(q') : q'[i] = q'[j] => i = j
            /\ \A i \in 1..Len(q') : q'[i] = t \/ \E j \in 1..Len(q) : q'[i] = q[j]
        BY <2>1, <2>6, <2>12, EnqueueSingle
      <3>2. QueueOrdered'
        BY <2>1, <2>2, <2>12, EnqueueOrdered
      <3>3. SingleOwner'
        <4>1. \A v \in Workers : task'[v] # t
          BY <1>k, <2>1, <2>3, <2>4
        <4>2. \A v \in Workers, j \in 1..Len(q) : task'[v] # q[j]
          BY <1>0, <1>k, <1>q, <2>3, <2>4 DEF SingleOwner
        <4>3. \A u, v \in Workers : task'[u] = task'[v] /\ task'[u] # NoTask => u = v
          BY <1>0, <2>3, <2>4 DEF SingleOwner
        <4>4. QED
          BY <3>1, <4>1, <4>2, <4>3 DEF SingleOwner
      <3>4. ExecutionBound' /\ HandedOver'
        <4>1. ExecutionBound'
          BY <1>0, <2>2, <2>9, <3>1 DEF ExecutionBound
        <4>2. HandedOver'
          BY <1>0, <2>2, <2>3, <2>4, <2>10, <3>1 DEF HandedOver
        <4>3. QED
          BY <4>1, <4>2
      <3>5. QED
        BY <1>0, <2>7, <2>8, <3>2, <3>3, <3>4 DEF IInv
    <2>13. QED
      BY <2>11, <2>12
  <1>8. ASSUME NEW t \in Tasks, Schedule(t) PROVE IInv'
    <2>1. Enqueue(t) /\ phase[t] = "built" /\ phase' = [phase EXCEPT ![t] = "queued"]
      BY <1>8 DEF Schedule
    <2>2. UNCHANGED <<scheduled_time, remaining, cancelled, q_stop, task, histVars>>
      BY <1>8 DEF Schedule
    <2>3. \A v \in Workers : pc'[v] = pc[v] \/ (pc[v] \in {"wait", "wait_for"} /\ pc'[v] = "lock")
      BY <1>p, <1>8 DEF Schedule, NotifyAll
    <2>4. (\A i \in 1..Len(q) : q[i] # t) /\ (\A v \in Workers : task[v] # t) /\ remaining[t] = ExeTime[t]
      BY <1>0, <1>k, <1>q, <2>1 DEF HandedOver
    <2>5. \A u \in Tasks : phase'[u] = IF u = t THEN "queued" ELSE phase[u]
      BY <1>f, <2>1
    <2>6. HasTask' /\ UsedUp' /\ LastStart'
      BY <1>0, <2>2, <2>3 DEF HasTask, UsedUp, LastStart
    <2>7. OneStartAfterCancel' /\ StoppedQueueEmpty'
      BY <1>0, <2>1, <2>2 DEF OneStartAfterCancel, StoppedQueueEmpty, Enqueue
    <2>8. CASE q_stop
      <3>1. UNCHANGED q
        BY <2>1, <2>8 DEF Enqueue
      <3>2. SingleOwner' /\ QueueOrdered' /\ ExecutionBound' /\ HandedOver'
        <4>1. SingleOwner' /\ QueueOrdered' /\ ExecutionBound'
          <5>1. SingleOwner'
            BY <1>0, <2>2, <3>1 DEF SingleOwner
          <5>2. QueueOrdered'
            BY <1>0, <2>2, <3>1 DEF QueueOrdered
          <5>3. ExecutionBound'
            BY <1>0, <2>2, <3>1 DEF ExecutionBound
          <5>4. QED
            BY <5>1, <5>2, <5>3
        <4>2. HandedOver'
          BY <1>0, <1>k, <1>q, <2>2, <2>5, <3>1 DEF HandedOver
        <4>3. QED
          BY <4>1, <4>2
      <3>3. QED
        BY <1>0, <2>6, <2>7, <3>2 DEF IInv
    <2>9. CASE ~q_stop
      <3>1. /\ \A i, j \in 1..Len(q') : q'[i] = q'[j] => i = j
            /\ \A i \in 1..Len(q') : q'[i] = t \/ \E j \in 1..Len(q) : q'[i] = q[j]
        BY <2>1, <2>4, <2>9, EnqueueSingle
      <3>2. QueueOrdered'
        BY <2>1, <2>2, <2>9, EnqueueOrdered
      <3>3. SingleOwner'
        BY <1>0, <2>2, <2>4, <3>1 DEF SingleOwner
      <3>4. ExecutionBound' /\ HandedOver'
        <4>1. ExecutionBound'
          BY <1>0, <1>r, <2>2, <2>4, <3>1 DEF ExecutionBound
        <4>a. \A i \in 1..Len(q') : q'[i] \in Tasks /\ (q'[i] = t \/ phase[q'[i]] = "queued")
          BY <1>0, <1>q, <3>1 DEF HandedOver
        <4>2. \A i \in 1..Len(q') : phase'[q'[i]] = "queued"
          BY <2>5, <4>a
        <4>3. \A v \in Workers : task'[v] # NoTask => phase'[task'[v]] = "queued"
          BY <1>0, <1>k, <2>2, <2>5 DEF HandedOver
        <4>4. \A u \in Tasks : phase'[u] # "queued" => remaining'[u] = ExeTime[u]
          BY <1>0, <2>2, <2>5 DEF HandedOver
        <4>5. HandedOver'
          BY <4>2, <4>3, <4>4 DEF HandedOver
        <4>6. QED
          BY <4>1, <4>5
      <3>5. QED
        BY <1>0, <2>6, <2>7, <3>2, <3>3, <3>4 DEF IInv
    <2>10. QED
      BY <2>8, <2>9
  <1>9. ASSUME NEW t \in Tasks, Cancel(t) PROVE IInv'
    <2>1. UNCHANGED <<phase, scheduled_time, remaining, queueVars, workerVars, histVars>>
      BY <1>9 DEF Cancel
    <2>2. \A u \in Tasks : cancelled[u] => cancelled'[u]
      BY <1>c, <1>9 DEF Cancel
    <2>3. LastStart'
      BY <1>0, <2>1, <2>2 DEF LastStart
    <2>4. SingleOwner' /\ QueueOrdered' /\ ExecutionBound' /\ OneStartAfterCancel'
      BY <1>0, <2>1 DEF SingleOwner, QueueOrdered, ExecutionBound, OneStartAfterCancel
    <2>5. StoppedQueueEmpty' /\ HasTask' /\ HandedOver' /\ UsedUp'
      BY <1>0, <2>1 DEF StoppedQueueEmpty, HasTask, HandedOver, UsedUp
    <2>6. QED
      BY <1>0, <2>3, <2>4, <2>5 DEF IInv
  <1>10. ASSUME NEW t \in Tasks, NEW d \in Delays, Construct(t, d) PROVE IInv'
    <2>1. UNCHANGED <<remaining, cancelled, queueVars, workerVars, histVars>>
      BY <1>10 DEF Construct
    <2>2. \A u \in Tasks : u # t => phase'[u] = phase[u] /\ scheduled_time'[u] = scheduled_time[u]
      BY <1>f, <1>s, <1>10 DEF Construct
    <2>3. (\A i \in 1..Len(q) : q[i] # t) /\ (\A v \in Workers : task[v] # t) /\ phase[t] = "none"
      BY <1>0, <1>k, <1>q, <1>10 DEF Construct, HandedOver
    <2>4. QueueOrdered' /\ HandedOver'
      <3>1. QueueOrdered'
        BY <1>0, <1>q, <2>1, <2>2, <2>3 DEF QueueOrdered
      <3>2. HandedOver'
        <4>1. \A i \in 1..Len(q) : phase'[q[i]] = "queued"
          BY <1>0, <1>q, <2>2, <2>3 DEF HandedOver
        <4>2. \A v \in Workers : task[v] # NoTask => phase'[task[v]] = "queued"
          BY <1>0, <1>k, <2>2, <2>3 DEF HandedOver
        <4>3. \A u \in Tasks : phase'[u] # "queued" => remaining[u] = ExeTime[u]
          BY <1>0, <2>2, <2>3 DEF HandedOver
        <4>4. QED
          BY <2>1, <4>1, <4>2, <4>3 DEF HandedOver
      <3>3. QED
        BY <3>1, <3>2
    <2>5. SingleOwner' /\ ExecutionBound' /\ OneStartAfterCancel'
      BY <1>0, <2>1 DEF SingleOwner, ExecutionBound, OneStartAfterCancel
    <2>6. StoppedQueueEmpty' /\ HasTask' /\ UsedUp' /\ LastStart'
      BY <1>0, <2>1 DEF StoppedQueueEmpty, HasTask, UsedUp, LastStart
    <2>7. QED
      BY <1>0, <2>4, <2>5, <2>6 DEF IInv
  <1>11. CASE StopPool \/ JoinWorkers
    <2>1. UNCHANGED <<taskVars, queueVars, workerVars, histVars>>
      BY <1>11 DEF StopPool, JoinWorkers
    <2>2. QED
      BY <1>0, <2>1, InvFrame
  <1>12. CASE CloseQueue
    <2>1. UNCHANGED <<taskVars, workerVars, histVars>> /\ q' = <<>> /\ Len(q') = 0
      BY <1>12 DEF CloseQueue
    <2>2. SingleOwner' /\ QueueOrdered' /\ ExecutionBound' /\ HandedOver'
      BY <1>0, <2>1 DEF SingleOwner, QueueOrdered, ExecutionBound, HandedOver
    <2>3. OneStartAfterCancel' /\ StoppedQueueEmpty' /\ HasTask' /\ UsedUp' /\ LastStart'
      BY <1>0, <2>1 DEF OneStartAfterCancel, StoppedQueueEmpty, HasTask, UsedUp, LastStart
    <2>4. QED
      BY <1>0, <2>2, <2>3 DEF IInv
  <1>13. CASE NotifyWorkers
    <2>1. UNCHANGED <<taskVars, queueVars, task, histVars>>
      BY <1>13 DEF NotifyWorkers
    <2>2. \A v \in Workers : pc'[v] = pc[v] \/ (pc[v] \in {"wait", "wait_for"} /\ pc'[v] = "lock")
      BY <1>p, <1>13 DEF NotifyWorkers, NotifyAll
    <2>3. HasTask' /\ UsedUp' /\ LastStart'
      BY <1>0, <2>1, <2>2 DEF HasTask, UsedUp, LastStart
    <2>4. SingleOwner' /\ QueueOrdered' /\ ExecutionBound'
      BY <1>0, <2>1 DEF SingleOwner, QueueOrdered, ExecutionBound
    <2>5. OneStartAfterCancel' /\ StoppedQueueEmpty' /\ HandedOver'
      BY <1>0, <2>1 DEF OneStartAfterCancel, StoppedQueueEmpty, HandedOver
    <2>6. QED
      BY <1>0, <2>3, <2>4, <2>5 DEF IInv
  <1>14. CASE UNCHANGED vars
    BY <1>0, <1>14, InvFrame
  <1>15. QED
    BY <1>1, <1>2, <1>3, <1>4, <1>5, <1>6, <1>7, <1>8, <1>9, <1>10, <1>11, <1>12, <1>13, <1>14
       DEF Next, WorkerStep, CloseStep

\* The invariant holds initially, when nothing is queued or held.
LEMMA InvInit == Init => IInv
  <1> SUFFICES ASSUME Init PROVE IInv
    OBVIOUS
  <1> USE PoolAssumption DEF Init
  <1>1. TypeOK
    <2>1. q \in Seq(Tasks)
      OBVIOUS
    <2>2. remaining \in [Tasks -> Nat \cup {-1}]
      OBVIOUS
    <2>3. /\ scheduled_time \in [Tasks -> Nat] /\ deadline \in [Workers -> Nat]
          /\ starts \in [Tasks -> Nat] /\ late \in [Tasks -> Nat]
      OBVIOUS
    <2>4. pc \in [Workers -> WorkerStates] /\ closer \in CloserStates
      BY DEF WorkerStates, CloserStates
    <2>5. QED
      BY <2>1, <2>2, <2>3, <2>4 DEF TypeOK
  <1>2. Len(q) = 0
    OBVIOUS
  <1>3. SingleOwner /\ QueueOrdered /\ StoppedQueueEmpty /\ OneStartAfterCancel
    BY <1>2 DEF SingleOwner, QueueOrdered, StoppedQueueEmpty, OneStartAfterCancel
  <1>4. ExecutionBound
    <2> SUFFICES ASSUME NEW t \in Tasks, ExeTime[t] > 0
                 PROVE  /\ starts[t] <= ExeTime[t] /\ starts[t] + remaining[t] = ExeTime[t]
                        /\ remaining[t] = 0 => \A i \in 1..Len(q) : q[i] # t
      BY DEF ExecutionBound
    <2>1. ExeTime[t] \in Nat
      OBVIOUS
    <2>2. QED
      BY <1>2, <2>1
  <1>5. HasTask /\ HandedOver /\ LastStart
    BY <1>2 DEF HasTask, HandedOver, LastStart
  <1>6. UsedUp
    BY DEF UsedUp
  <1>7. QED
    BY <1>1, <1>3, <1>4, <1>5, <1>6 DEF IInv

\* The invariant holds throughout.
THEOREM Invariance == Spec => []IInv
  BY InvInit, InvStep, PTL DEF Spec

\* The variables of the pool keep their types.
THEOREM TypeCorrect == Spec => []TypeOK
  <1>1. IInv => TypeOK
    BY DEF IInv
  <1>2. QED
    BY <1>1, Invariance, PTL

\* run() and next(), which take no lock, are never called for one task by two
\* workers at a time.
THEOREM TaskHasSingleOwner == Spec => []SingleOwner
  <1>1. IInv => SingleOwner
    BY DEF IInv
  <1>2. QED
    BY <1>1, Invariance, PTL

\* enqueue keeps the queue ordered by scheduled time, so its head is the task
\* to look at.
THEOREM QueueStaysOrdered == Spec => []QueueOrdered
  <1>1. IInv => QueueOrdered
    BY DEF IInv
  <1>2. QED
    BY <1>1, Invariance, PTL

\* A task is never started more often than it was scheduled for.
THEOREM ExecutionsBounded == Spec => []ExecutionBound
  <1>1. IInv => ExecutionBound
    BY DEF IInv
  <1>2. QED
    BY <1>1, Invariance, PTL

\* cancel() lets a task be started at most once more.
THEOREM CancelLeavesOneStart == Spec => []OneStartAfterCancel
  <1>1. IInv => OneStartAfterCancel
    BY DEF IInv
  <1>2. QED
    BY <1>1, Invariance, PTL

\* No task enters a queue that close() has cleared.
THEOREM ClosedQueueStaysEmpty == Spec => []StoppedQueueEmpty
  <1>1. IInv => StoppedQueueEmpty
    BY DEF IInv
  <1>2. QED
    BY <1>1, Invariance, PTL
====
