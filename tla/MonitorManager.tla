---- MODULE MonitorManager ----
(***************************************************************************)
(* MonitorManager and MonitorTask for one metric, over DataHandler: the    *)
(* task of the metric runs periodically in the pool;                       *)
(* resetMetricTasksFrequency cancels it and starts a new one, which does   *)
(* not wait for a run of the old one that has begun.                       *)
(***************************************************************************)
EXTENDS DataHandler

VARIABLE current      \* the task in MonitorManager::tasks

vars == <<handlerVars, current>>

MonitorInit == Init /\ current \in Writers

\* A run of the task: this_weak_ptr.lock() finds the task only while it is in
\* tasks; from then on the run holds it.  A task runs at most once at a time.
Begin(w) ==
  /\ run[w].pc = "idle" /\ current = w
  /\ run' = [run EXCEPT ![w].pc = "begun"]
  /\ UNCHANGED <<kind, obj, p_latestData, p_preData, stats, samples, clock, unread, overlap, current>>
  /\ report' = None

\* resetMetricTasksFrequency: a new task; its number is one that no run holds.
resetMetricTasksFrequency ==
  /\ \E w \in Writers \ {current} : run[w].pc = "idle" /\ current' = w
  /\ report' = None
  /\ UNCHANGED <<kind, obj, p_latestData, p_preData, run, stats, samples, clock, unread, overlap>>

Next ==
  \/ \E w \in Writers : Begin(w) \/ (StoreStep(w) /\ UNCHANGED current)
  \/ \E s \in Session : getLatestStatistics(s) /\ UNCHANGED current
  \/ resetMetricTasksFrequency

Spec == MonitorInit /\ [][Next]_vars
====
