---- MODULE Timer ----
(***************************************************************************)
(* The Timer objects of core/src/infrastructure/timer.{h,cpp}: a detached  *)
(* thread that runs a task at a fixed rate until cancel() is called.       *)
(*                                                                         *)
(* Callers are the threads that call the member functions.  Every timer    *)
(* has a few run slots: slot k of timer t stands for the k-th detached     *)
(* thread that scheduleAtFixedRate started on t.  canceled and to_cancel   *)
(* are the two atomics, holder is the owner of the member mutex, waiting   *)
(* the callers blocked in cancel_condition.wait.  Time is abstracted: a    *)
(* sleeping thread may wake at any moment.                                 *)
(***************************************************************************)
EXTENDS Naturals, FiniteSets

CONSTANTS Timers, Callers, MaxRuns, NoTimer, Nobody

ASSUME TimerAssumption == /\ MaxRuns \in Nat
                          /\ NoTimer \notin Timers
                          /\ Nobody \notin Callers \cup (1..MaxRuns)
                          /\ Callers \cap (1..MaxRuns) = {}

VARIABLES canceled,  \* [Timers -> BOOLEAN], Timer::canceled
          to_cancel, \* [Timers -> BOOLEAN], Timer::to_cancel
          holder,    \* [Timers -> Callers \cup Runs \cup {Nobody}], Timer::mutex
          waiting,   \* [Timers -> SUBSET Callers], Timer::cancel_condition
          thread,    \* [Timers -> [Runs -> ThreadStates]], the detached threads
          freed,     \* [Timers -> BOOLEAN], ~Timer has finished
          pc,        \* [Callers -> CallerStates]
          target,    \* [Callers -> Timers \cup {NoTimer}]
          dtor       \* [Callers -> BOOLEAN], cancel() was called by ~Timer

timerVars == <<canceled, to_cancel, holder, waiting, thread, freed, pc, target, dtor>>

Runs == 1..MaxRuns

\* The threads of t that have not run off the end of their function.
Live(t) == {k \in Runs : thread[t][k] \notin {"none", "ended"}}

----
\* scheduleAtFixedRate and cancel, called by c on timer t.

\* The check of `canceled`: a timer that is already started throws.
ScheduleAtFixedRate(c, t) ==
  /\ pc[c] = "idle" /\ ~freed[t]
  /\ IF canceled[t]
       THEN pc' = [pc EXCEPT ![c] = "schedule"] /\ target' = [target EXCEPT ![c] = t]
       ELSE UNCHANGED <<pc, target>>
  /\ UNCHANGED <<canceled, to_cancel, holder, waiting, thread, freed, dtor>>

\* `canceled = false` and the start of the detached thread.
StartThread(c) ==
  LET t == target[c] IN
  /\ pc[c] = "schedule"
  /\ canceled' = [canceled EXCEPT ![t] = FALSE]
  /\ \E k \in Runs :
       /\ \A j \in Runs : thread[t][j] = "none" <=> j >= k
       /\ thread' = [thread EXCEPT ![t][k] = "asleep"]
  /\ pc' = [pc EXCEPT ![c] = "idle"]
  /\ UNCHANGED <<to_cancel, holder, waiting, freed, target, dtor>>

\* What a caller does when cancel() returns: the destructor frees the timer.
Return(c) ==
  /\ pc' = [pc EXCEPT ![c] = "idle"]
  /\ freed' = [freed EXCEPT ![target[c]] = @ \/ dtor[c]]

\* The test of `canceled` at the head of cancel().  d is TRUE in ~Timer.
Cancel(c, t, d) ==
  /\ pc[c] = "idle" /\ ~freed[t]
  /\ target' = [target EXCEPT ![c] = t]
  /\ dtor' = [dtor EXCEPT ![c] = d]
  /\ IF canceled[t]
       THEN UNCHANGED pc /\ freed' = [freed EXCEPT ![t] = d]
       ELSE UNCHANGED freed /\ pc' = [pc EXCEPT ![c] = "cancelTest"]
  /\ UNCHANGED <<canceled, to_cancel, holder, waiting, thread>>

\* The test of `to_cancel`: somebody else is cancelling.
CancelTest(c) ==
  /\ pc[c] = "cancelTest"
  /\ IF to_cancel[target[c]]
       THEN Return(c)
       ELSE UNCHANGED freed /\ pc' = [pc EXCEPT ![c] = "cancelSet"]
  /\ UNCHANGED <<canceled, to_cancel, holder, waiting, thread, target, dtor>>

CancelSet(c) ==
  /\ pc[c] = "cancelSet"
  /\ to_cancel' = [to_cancel EXCEPT ![target[c]] = TRUE]
  /\ pc' = [pc EXCEPT ![c] = "cancelLock"]
  /\ UNCHANGED <<canceled, holder, waiting, thread, freed, target, dtor>>

\* Takes the mutex, on entry or after a wake-up (which may be spurious).
CancelLock(c) ==
  LET t == target[c] IN
  /\ pc[c] \in {"cancelLock", "cancelWait"}
  /\ pc[c] = "cancelWait" => c \notin waiting[t]
  /\ holder[t] = Nobody
  /\ holder' = [holder EXCEPT ![t] = c]
  /\ pc' = [pc EXCEPT ![c] = "cancelCheck"]
  /\ UNCHANGED <<canceled, to_cancel, waiting, thread, freed, target, dtor>>

CancelCheckNoWait(c) ==
  LET t == target[c] IN
  /\ pc[c] = "cancelCheck"
  /\ holder' = [holder EXCEPT ![t] = Nobody]
  /\ to_cancel' = [to_cancel EXCEPT ![t] = ~canceled[t]]
  /\ Return(c)
  /\ UNCHANGED <<canceled, waiting, thread, target, dtor>>

\* The predicate of the wait: block again, or clear to_cancel and return.
CancelCheck(c) ==
  LET t == target[c] IN
  /\ pc[c] = "cancelCheck"
  /\ holder' = [holder EXCEPT ![t] = Nobody]
  /\ IF canceled[t]
       THEN /\ to_cancel' = [to_cancel EXCEPT ![t] = FALSE]
            /\ Return(c)
            /\ UNCHANGED waiting
       ELSE /\ waiting' = [waiting EXCEPT ![t] = @ \cup {c}]
            /\ pc' = [pc EXCEPT ![c] = "cancelWait"]
            /\ UNCHANGED <<to_cancel, freed>>
  /\ UNCHANGED <<canceled, thread, target, dtor>>

SpuriousWakeup(c) ==
  LET t == target[c] IN
  /\ pc[c] = "cancelWait" /\ c \in waiting[t]
  /\ waiting' = [waiting EXCEPT ![t] = @ \ {c}]
  /\ UNCHANGED <<canceled, to_cancel, holder, thread, freed, pc, target, dtor>>

----
\* The detached thread in slot k of timer t.

GoThread(t, k, s) == thread' = [thread EXCEPT ![t][k] = s]

\* The sleep before the first test and after every run of the task.
Awake(t, k) ==
  /\ thread[t][k] = "asleep"
  /\ GoThread(t, k, "test")
  /\ UNCHANGED <<canceled, to_cancel, holder, waiting, freed, pc, target, dtor>>

TestCancel(t, k) ==
  /\ thread[t][k] = "test"
  /\ GoThread(t, k, IF to_cancel[t] THEN "exit" ELSE "task")
  /\ UNCHANGED <<canceled, to_cancel, holder, waiting, freed, pc, target, dtor>>

ExitUnlocked(t, k) ==
  /\ thread[t][k] = "exit"
  /\ canceled' = [canceled EXCEPT ![t] = TRUE]
  /\ GoThread(t, k, "notify")
  /\ UNCHANGED <<to_cancel, holder, waiting, freed, pc, target, dtor>>

\* Locks the mutex and announces the end.
Exit(t, k) ==
  /\ thread[t][k] = "exit" /\ holder[t] = Nobody
  /\ holder' = [holder EXCEPT ![t] = k]
  /\ canceled' = [canceled EXCEPT ![t] = TRUE]
  /\ GoThread(t, k, "notify")
  /\ UNCHANGED <<to_cancel, waiting, freed, pc, target, dtor>>

NotifyNobody(t, k) ==
  /\ thread[t][k] = "notify"
  /\ holder' = [holder EXCEPT ![t] = Nobody]
  /\ GoThread(t, k, "ended")
  /\ UNCHANGED <<canceled, to_cancel, waiting, freed, pc, target, dtor>>

\* notify_one wakes one waiter, if there is one; the mutex is released.
Notify(t, k) ==
  /\ thread[t][k] = "notify"
  /\ IF waiting[t] = {}
       THEN UNCHANGED waiting
       ELSE \E c \in waiting[t] : waiting' = [waiting EXCEPT ![t] = @ \ {c}]
  /\ holder' = [holder EXCEPT ![t] = Nobody]
  /\ GoThread(t, k, "ended")
  /\ UNCHANGED <<canceled, to_cancel, freed, pc, target, dtor>>

CallerStep(c) ==
  \/ StartThread(c)
  \/ CancelTest(c)
  \/ CancelSet(c)
  \/ CancelLock(c)
  \/ CancelCheck(c)

====
