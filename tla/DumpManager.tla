---------------------------- MODULE DumpManager ----------------------------
(***************************************************************************)
(* Raw data dumps: clients start and stop dump tasks and change the sample *)
(* interval, while the two threads of the manager's ScheduledThreadPool    *)
(* write the rows.  Of the pool only what its module shows is kept: a job  *)
(* belongs to at most one worker at a time, is queued again after it ran,  *)
(* and its cancel flag is looked at when it is taken from the queue only.  *)
(***************************************************************************)
EXTENDS Integers, FiniteSets

CONSTANTS
    DumpClients,  \* threads that serve the calls
    Workers,      \* threads of the pool: DumpRawDataManager has two
    Rates,        \* sample intervals a client may set
    FirstRate,    \* Configuration::TELEMETRY_DATA_MONITOR_FREQUENCE at the start
    MaxDumps,     \* bound: dump tasks ever started
    MaxSets,      \* bound: changes of the interval
    NoRate,       \* no job: pThreadPoolTask is null
    DumpNobody    \* owner of the free mutex

ASSUME MaxDumpsAssumption == MaxDumps \in Nat

VARIABLES
    freq,         \* Configuration::TELEMETRY_DATA_MONITOR_FREQUENCE
    setsLeft,     \* bound counter
    dumpMutex,    \* DumpRawDataManager::dumpMutex
    taskList,     \* ids of the listed dump tasks; the list is in the order of the ids
    taskIndex,    \* the next id
    job,          \* task -> interval of its pThreadPoolTask
    worker,       \* worker -> the job it holds
    setter        \* client -> its xpumSetAgentConfig call

dumpVars == <<freq, setsLeft, dumpMutex, taskList, taskIndex, job, worker, setter>>

DumpTask == 0..(MaxDumps - 1)
WorkerIdle == [pc |-> "idle", task |-> 0, cancelled |-> FALSE]
SetterIdle == [pc |-> "idle", rate |-> NoRate, todo |-> {}]

DumpInit ==
    /\ freq = FirstRate
    /\ setsLeft = MaxSets
    /\ dumpMutex = DumpNobody
    /\ taskList = {}
    /\ taskIndex = 0
    /\ job = [t \in DumpTask |-> NoRate]
    /\ worker = [w \in Workers |-> WorkerIdle]
    /\ setter = [c \in DumpClients |-> SetterIdle]

-----------------------------------------------------------------------------
(* Cancelling the job of t: a worker that has taken it runs it once more.  *)
CancelHeld(t) ==
    worker' = [w \in Workers |->
        IF worker[w].pc # "idle" /\ worker[w].task = t
        THEN [worker[w] EXCEPT !.cancelled = TRUE] ELSE worker[w]]

(* startDumpRawDataTask; a refused call changes nothing.                   *)
startDumpRawDataTask ==
    /\ dumpMutex = DumpNobody /\ taskIndex < MaxDumps
    /\ taskIndex' = taskIndex + 1
    /\ taskList' = taskList \cup {taskIndex}
    /\ job' = [job EXCEPT ![taskIndex] = freq]
    /\ UNCHANGED <<freq, setsLeft, dumpMutex, worker, setter>>

stopDumpRawDataTask(t) ==
    /\ dumpMutex = DumpNobody /\ t \in taskList
    /\ CancelHeld(t)
    /\ job' = [job EXCEPT ![t] = NoRate]
    /\ taskList' = taskList \ {t}
    /\ UNCHANGED <<freq, setsLeft, dumpMutex, taskIndex, setter>>

-----------------------------------------------------------------------------
(* xpumSetAgentConfig: the interval is stored without a lock, then the     *)
(* dump tasks are rescheduled one after the other.                         *)
SetInterval(c, r) ==
    /\ setter[c].pc = "idle" /\ setsLeft > 0
    /\ setsLeft' = setsLeft - 1
    /\ freq' = r
    /\ setter' = [setter EXCEPT ![c] = [SetterIdle EXCEPT !.pc = "set", !.rate = r]]
    /\ UNCHANGED <<dumpMutex, taskList, taskIndex, job, worker>>

resetDumpFrequency(c) ==
    /\ setter[c].pc = "set" /\ dumpMutex = DumpNobody
    /\ dumpMutex' = c
    /\ setter' = [setter EXCEPT ![c].pc = "reset", ![c].todo = taskList]
    /\ UNCHANGED <<freq, setsLeft, taskList, taskIndex, job, worker>>

(* The loop over the list *)
NextReset(todo, t) == t \in todo /\ \A u \in todo : t <= u

RescheduleOwnRate(c, t) ==
    /\ setter[c].pc = "reset" /\ NextReset(setter[c].todo, t)
    /\ CancelHeld(t)
    /\ job' = [job EXCEPT ![t] = setter[c].rate]
    /\ setter' = [setter EXCEPT ![c].todo = @ \ {t}]
    /\ UNCHANGED <<freq, setsLeft, dumpMutex, taskList, taskIndex>>

RescheduleOnlyStops(c, t) ==
    /\ setter[c].pc = "reset" /\ NextReset(setter[c].todo, t)
    /\ CancelHeld(t)
    /\ job' = [job EXCEPT ![t] = NoRate]
    /\ setter' = [setter EXCEPT ![c].todo = @ \ {t}]
    /\ UNCHANGED <<freq, setsLeft, dumpMutex, taskList, taskIndex>>

(* stop, then a new job with the interval as it is at this moment          *)
reschedule(c, t) ==
    /\ setter[c].pc = "reset" /\ NextReset(setter[c].todo, t)
    /\ CancelHeld(t)
    /\ job' = [job EXCEPT ![t] = freq]
    /\ setter' = [setter EXCEPT ![c].todo = @ \ {t}]
    /\ UNCHANGED <<freq, setsLeft, dumpMutex, taskList, taskIndex>>

ResetEnd(c) ==
    /\ setter[c].pc = "reset" /\ setter[c].todo = {}
    /\ dumpMutex' = DumpNobody
    /\ setter' = [setter EXCEPT ![c] = SetterIdle]
    /\ UNCHANGED <<freq, setsLeft, taskList, taskIndex, job, worker>>

-----------------------------------------------------------------------------
(* The pool: a worker takes the queued job of a task; the others of the    *)
(* task that a worker still holds are cancelled ones.                      *)
Queued(t) ==
    /\ job[t] # NoRate
    /\ \A w \in Workers :
         worker[w].pc # "idle" /\ worker[w].task = t => worker[w].cancelled

Take(w, t) ==
    /\ worker[w].pc = "idle" /\ Queued(t)
    /\ worker' = [worker EXCEPT ![w] = [pc |-> "taken", task |-> t, cancelled |-> FALSE]]
    /\ UNCHANGED <<freq, setsLeft, dumpMutex, taskList, taskIndex, job, setter>>

(* The lambda of start: updateData, then the row.                          *)
UpdateData(w) ==
    /\ worker[w].pc = "taken"
    /\ worker' = [worker EXCEPT ![w].pc = "row"]
    /\ UNCHANGED <<freq, setsLeft, dumpMutex, taskList, taskIndex, job, setter>>

WriteRow(w) ==
    /\ worker[w].pc = "row"
    /\ worker' = [worker EXCEPT ![w] = WorkerIdle]
    /\ UNCHANGED <<freq, setsLeft, dumpMutex, taskList, taskIndex, job, setter>>

-----------------------------------------------------------------------------
DumpNext ==
    \/ startDumpRawDataTask
    \/ \E t \in DumpTask : stopDumpRawDataTask(t)
    \/ \E c \in DumpClients :
         \/ \E r \in Rates : SetInterval(c, r)
         \/ resetDumpFrequency(c) \/ ResetEnd(c)
         \/ \E t \in DumpTask : reschedule(c, t)
    \/ \E w \in Workers :
         \/ \E t \in DumpTask : Take(w, t)
         \/ UpdateData(w) \/ WriteRow(w)

(* The operating system runs the workers; a due job is taken in the end,   *)
(* which is DueTaskTaken of the pool's own module.                         *)
DumpFairness ==
    /\ \A w \in Workers : WF_dumpVars(UpdateData(w)) /\ WF_dumpVars(WriteRow(w))
    /\ \A t \in DumpTask : SF_dumpVars(\E w \in Workers : Take(w, t))

DumpSpec == DumpInit /\ [][DumpNext]_dumpVars /\ DumpFairness

-----------------------------------------------------------------------------
(* Once the last xpumSetAgentConfig has returned, every listed dump runs   *)
(* at the configured interval, whatever calls overlapped: the interval is  *)
(* stored before dumpMutex is taken and read under it.                     *)
DumpsAtConfiguredRate ==
    (\A c \in DumpClients : setter[c].pc = "idle")
        => \A t \in taskList : job[t] = freq

(* A listed dump task keeps writing rows, through every change of the      *)
(* interval, until it is stopped.                                          *)
KeepsDumping ==
    \A t \in DumpTask :
        (t \in taskList) ~>
            \/ t \notin taskList
            \/ \E w \in Workers : worker[w].pc = "row" /\ worker[w].task = t

=============================================================================
