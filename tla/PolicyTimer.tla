---- MODULE PolicyTimer ----
(***************************************************************************)
(* How PolicyManager (core/src/policy/policy_manager.cpp) uses Timer: one  *)
(* timer drives handleForOneCyle; resetCheckFrequency, called by           *)
(* xpumSetAgentConfig, cancels it and starts another one; close cancels    *)
(* it.  The module composes the manager's own steps with the steps of the  *)
(* timers of module Timer.  p_timer and p_timer_old are the two            *)
(* shared_ptr members: a timer that neither of them names is destroyed by  *)
(* the thread that let go of it.                                           *)
(***************************************************************************)
EXTENDS Timer

VARIABLES p_timer,     \* Timers \cup {NoTimer}, PolicyManager::p_timer
          p_timer_old, \* Timers \cup {NoTimer}, PolicyManager::p_timer_old
          created,     \* SUBSET Timers, the timers made so far
          mpc,         \* [Callers -> ManagerStates], where c is in the manager
          closing      \* BOOLEAN, Core::close has reached the manager

managerVars == <<p_timer, p_timer_old, created, mpc, closing>>
vars == <<timerVars, managerVars>>

\* init() has called start(): the first timer is scheduled.  No other thread
\* can reach the manager before Core::init is over.
Init ==
  \E t \in Timers :
    /\ canceled = [u \in Timers |-> u # t]
    /\ thread = [u \in Timers |-> [k \in Runs |->
                                    IF u = t /\ k = 1 THEN "asleep" ELSE "none"]]
    /\ to_cancel = [u \in Timers |-> FALSE]
    /\ holder = [u \in Timers |-> Nobody]
    /\ waiting = [u \in Timers |-> {}]
    /\ freed = [u \in Timers |-> FALSE]
    /\ pc = [c \in Callers |-> "idle"]
    /\ target = [c \in Callers |-> NoTimer]
    /\ dtor = [c \in Callers |-> FALSE]
    /\ p_timer = t /\ p_timer_old = NoTimer
    /\ created = {t}
    /\ mpc = [c \in Callers |-> "ready"]
    /\ closing = FALSE

GoManager(c, s) == mpc' = [mpc EXCEPT ![c] = s]

\* Callers that still have a timer to make.
Making == {c \in Callers : mpc[c] \in {"resetStop", "resetKeep", "new"}}

\* c lets go of timer x, which no member names any more: ~Timer runs in c.
Release(c, x) == IF x = NoTimer THEN UNCHANGED timerVars ELSE Cancel(c, x, TRUE)

ResetCheckFrequency(c) ==
  /\ mpc[c] = "ready" /\ pc[c] = "idle" /\ ~closing
  /\ Cardinality(created) + Cardinality(Making) < Cardinality(Timers)
  /\ GoManager(c, "resetStop")
  /\ UNCHANGED <<timerVars, p_timer, p_timer_old, created, closing>>

Close(c) ==
  /\ mpc[c] = "ready" /\ pc[c] = "idle" /\ ~closing
  /\ closing' = TRUE
  /\ GoManager(c, "closeStop")
  /\ UNCHANGED <<timerVars, p_timer, p_timer_old, created>>

\* stop(): nothing to do without a timer, otherwise p_timer->cancel().
Stop(c) ==
  /\ mpc[c] \in {"resetStop", "closeStop"} /\ pc[c] = "idle"
  /\ IF p_timer = NoTimer
       THEN /\ GoManager(c, IF mpc[c] = "resetStop" THEN "new" ELSE "closed")
            /\ UNCHANGED timerVars
       ELSE /\ GoManager(c, IF mpc[c] = "resetStop" THEN "resetKeep" ELSE "closeKeep")
            /\ Cancel(c, p_timer, FALSE)
  /\ UNCHANGED <<p_timer, p_timer_old, created, closing>>

\* The end of stop(): p_timer_old = p_timer.
KeepOld(c) ==
  /\ mpc[c] \in {"resetKeep", "closeKeep"} /\ pc[c] = "idle"
  /\ p_timer_old' = p_timer
  /\ Release(c, IF p_timer_old = p_timer THEN NoTimer ELSE p_timer_old)
  /\ GoManager(c, IF mpc[c] = "resetKeep" THEN "new" ELSE "closed")
  /\ UNCHANGED <<p_timer, created, closing>>

\* start(): p_timer = std::make_shared<Timer>().
NewTimer(c) ==
  /\ mpc[c] = "new" /\ pc[c] = "idle"
  /\ \E t \in Timers \ created :
       /\ created' = created \cup {t}
       /\ p_timer' = t
  /\ Release(c, IF p_timer_old = p_timer THEN NoTimer ELSE p_timer)
  /\ GoManager(c, "schedule")
  /\ UNCHANGED <<p_timer_old, closing>>

ScheduleCheckMissing(c) ==
  /\ mpc[c] = "schedule" /\ pc[c] = "idle"
  /\ GoManager(c, "ready")
  /\ UNCHANGED <<timerVars, p_timer, p_timer_old, created, closing>>

\* start(): p_timer->scheduleAtFixedRate(...).
ScheduleCheck(c) ==
  /\ mpc[c] = "schedule" /\ pc[c] = "idle"
  /\ ScheduleAtFixedRate(c, p_timer)
  /\ GoManager(c, "ready")
  /\ UNCHANGED <<p_timer, p_timer_old, created, closing>>

\* The task of the timer, handleForOneCyle, as far as timers go: after the
\* check, a cancelled old timer is let go of (its destructor returns at once).
HandleForOneCyle(t, k) ==
  LET old == p_timer_old
      drop == old # NoTimer /\ canceled[old] IN
  /\ thread[t][k] = "task"
  /\ \E s \in {"asleep", "test"} : GoThread(t, k, s)
  /\ p_timer_old' = IF drop THEN NoTimer ELSE old
  /\ freed' = IF drop /\ p_timer # old THEN [freed EXCEPT ![old] = TRUE] ELSE freed
  /\ UNCHANGED <<canceled, to_cancel, holder, waiting, pc, target, dtor,
                 p_timer, created, mpc, closing>>

TimerStep ==
  /\ \/ \E c \in Callers : CallerStep(c) \/ SpuriousWakeup(c)
     \/ \E t \in Timers, k \in Runs :
          Awake(t, k) \/ TestCancel(t, k) \/ Exit(t, k) \/ Notify(t, k)
  /\ UNCHANGED managerVars

ManagerStep(c) ==
  Stop(c) \/ KeepOld(c) \/ NewTimer(c) \/ ScheduleCheck(c)

Next ==
  \/ TimerStep
  \/ \E c \in Callers : ResetCheckFrequency(c) \/ Close(c) \/ ManagerStep(c)
  \/ \E t \in Timers, k \in Runs : HandleForOneCyle(t, k)

Spec == Init /\ [][Next]_vars

\* Every thread keeps running, the policy check included, and a mutex that is
\* free again and again is obtained in the end (the strong fairness on Exit: a
\* waiter that spuriously wakes holds it now and then).  No reset and no
\* spurious wake-up is ever forced.
Fairness ==
  /\ \A c \in Callers : /\ WF_vars(CallerStep(c) /\ UNCHANGED managerVars)
                        /\ WF_vars(ManagerStep(c))
  /\ \A t \in Timers, k \in Runs :
       /\ WF_vars((Awake(t, k) \/ TestCancel(t, k) \/ Notify(t, k)) /\ UNCHANGED managerVars)
       /\ SF_vars(Exit(t, k) /\ UNCHANGED managerVars)
       /\ WF_vars(HandleForOneCyle(t, k))

FairSpec == Spec /\ Fairness

----
\* The timers whose detached thread may still run a policy check.
Checking == {t \in Timers : \E k \in Live(t) : thread[t][k] \notin {"exit", "notify"}}

\* Once stop() has returned in resetCheckFrequency or close, the thread of the
\* old timer runs no policy check and never will again, which is what the log
\* line "stop check with old freq" announces.
OldCheckStopped ==
  \A c \in Callers : mpc[c] \in {"new", "closed"} /\ pc[c] = "idle" => Checking = {}

\* A timer is destroyed only after its detached thread, which captures `this`,
\* has made its last access (the notify and the unlock), and no caller is still
\* inside one of its member functions.
NoUseAfterFree ==
  \A t \in Timers : freed[t] =>
    /\ Live(t) = {}
    /\ \A c \in Callers : target[c] = t => pc[c] = "idle"

\* Every resetCheckFrequency and every close returns: cancel() does not miss the
\* notification of the thread it waits for.
ResetReturns ==
  \A c \in Callers : mpc[c] \notin {"ready", "closed"} ~> mpc[c] \in {"ready", "closed"}

\* As long as the manager is not closed, the policy check keeps running, across
\* any number of frequency changes.
CheckKeepsRunning ==
  []<>(closing \/ \E t \in Timers, k \in Runs : thread[t][k] = "task")
====
