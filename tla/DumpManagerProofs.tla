-------------------------- MODULE DumpManagerProofs --------------------------
(***************************************************************************)
(* A proof about the raw data dumps, for any number of clients, workers,   *)
(* dump tasks and intervals.                                               *)
(***************************************************************************)
EXTENDS DumpManager, TLAPS

Fields == {"pc", "rate", "todo"}
Shaped(r) == r = [f \in Fields |-> r[f]]

(* A call of xpumSetAgentConfig that will still reschedule t               *)
Pending(r, t) == r.pc = "set" \/ (r.pc = "reset" /\ t \in r.todo)

(* A listed task has the configured interval, or a call that has stored an *)
(* interval has yet to come to it.                                         *)
IInv ==
    /\ taskList \subseteq DumpTask /\ taskIndex \in Nat
    /\ job = [t \in DumpTask |-> job[t]]
    /\ setter = [c \in DumpClients |-> setter[c]]
    /\ \A c \in DumpClients : Shaped(setter[c])
    /\ \A t \in taskList : job[t] = freq \/ \E c \in DumpClients : Pending(setter[c], t)

(* The step of a client that ends in call r leaves the others as they are. *)
LEMMA OneSetter ==
    ASSUME IInv, NEW c \in DumpClients, NEW r, Shaped(r),
           setter' = [setter EXCEPT ![c] = r],
           taskList' \subseteq DumpTask, taskIndex' \in Nat, job' = [t \in DumpTask |-> job'[t]],
           \A t \in taskList' :
             \/ job'[t] = freq'
             \/ Pending(r, t)
             \/ \E d \in DumpClients \ {c} : Pending(setter[d], t)
    PROVE  IInv'
  <1>1. setter'[c] = r /\ \A d \in DumpClients \ {c} : setter'[d] = setter[d]
    BY DEF IInv
  <1>2. setter' = [d \in DumpClients |-> setter'[d]]
    BY DEF IInv
  <1>3. \A d \in DumpClients : Shaped(setter'[d])
    BY <1>1 DEF IInv
  <1>4. \A t \in taskList' : job'[t] = freq' \/ \E d \in DumpClients : Pending(setter'[d], t)
    BY <1>1
  <1>5. QED
    BY <1>2, <1>3, <1>4 DEF IInv, Shaped, Pending

(* A step that touches neither the calls nor a listed task's interval      *)
LEMMA NoSetter ==
    ASSUME IInv, UNCHANGED <<setter, freq>>, taskList' \subseteq DumpTask, taskIndex' \in Nat,
           job' = [t \in DumpTask |-> job'[t]],
           \A t \in taskList' : job'[t] = freq \/ (t \in taskList /\ job'[t] = job[t])
    PROVE  IInv'
  BY DEF IInv, Shaped, Pending

-----------------------------------------------------------------------------
LEMMA SetIntervalStep ==
    ASSUME IInv, NEW c \in DumpClients, NEW r \in Rates, SetInterval(c, r)
    PROVE  IInv'
  <1> DEFINE s == [SetterIdle EXCEPT !.pc = "set", !.rate = r]
  <1>1. Shaped(s) /\ s.pc = "set"
    BY DEF SetterIdle, Shaped, Fields
  <1>2. setter' = [setter EXCEPT ![c] = s] /\ UNCHANGED <<taskList, taskIndex, job>>
    BY DEF SetInterval
  <1> HIDE DEF s
  <1>3. QED
    BY <1>1, <1>2, OneSetter DEF IInv, Pending

LEMMA ResetStep ==
    ASSUME IInv, NEW c \in DumpClients, resetDumpFrequency(c)
    PROVE  IInv'
  <1> DEFINE s == [setter[c] EXCEPT !.pc = "reset", !.todo = taskList]
  <1>1. Shaped(s) /\ s.pc = "reset" /\ s.todo = taskList
    <2>1. Shaped(setter[c])
      BY DEF IInv
    <2>2. QED
      BY <2>1 DEF Shaped, Fields
  <1>2. setter' = [setter EXCEPT ![c] = s] /\ UNCHANGED <<freq, taskList, taskIndex, job>>
    BY DEF resetDumpFrequency, IInv
  <1> HIDE DEF s
  <1>3. \A t \in taskList' : Pending(s, t)
    BY <1>1, <1>2 DEF Pending
  <1>4. taskList' \subseteq DumpTask /\ taskIndex' \in Nat /\ job' = [t \in DumpTask |-> job'[t]]
    BY <1>2 DEF IInv
  <1>5. QED
    BY <1>1, <1>2, <1>3, <1>4, OneSetter

(* The task of the step gets the interval of the moment; what the call had *)
(* pending besides it still has.                                           *)
LEMMA RescheduleStep ==
    ASSUME IInv, NEW c \in DumpClients, NEW t \in DumpTask, reschedule(c, t)
    PROVE  IInv'
  <1> DEFINE s == [setter[c] EXCEPT !.todo = setter[c].todo \ {t}]
  <1>1. Shaped(s) /\ s.pc = setter[c].pc /\ s.todo = setter[c].todo \ {t}
    <2>1. Shaped(setter[c])
      BY DEF IInv
    <2>2. QED
      BY <2>1 DEF Shaped, Fields
  <1>2. /\ setter' = [setter EXCEPT ![c] = s] /\ UNCHANGED <<freq, taskList, taskIndex>>
        /\ job' = [job EXCEPT ![t] = freq]
    BY DEF reschedule, IInv
  <1> HIDE DEF s
  <1>3. /\ job'[t] = freq /\ \A u \in DumpTask \ {t} : job'[u] = job[u]
        /\ job' = [u \in DumpTask |-> job'[u]]
    BY <1>2 DEF IInv
  <1>4. ASSUME NEW u \in taskList'
        PROVE  \/ job'[u] = freq'
               \/ Pending(s, u)
               \/ \E d \in DumpClients \ {c} : Pending(setter[d], u)
    <2>1. CASE u = t
      BY <2>1, <1>2, <1>3
    <2>2. CASE u # t
      <3>1. job'[u] = job[u] /\ (job[u] = freq \/ \E d \in DumpClients : Pending(setter[d], u))
        BY <2>2, <1>2, <1>3 DEF IInv
      <3>2. Pending(setter[c], u) => Pending(s, u)
        BY <2>2, <1>1 DEF Pending
      <3>3. QED
        BY <1>2, <3>1, <3>2
    <2>3. QED
      BY <2>1, <2>2
  <1>5. taskList' \subseteq DumpTask /\ taskIndex' \in Nat
    BY <1>2 DEF IInv
  <1>6. QED
    BY <1>1, <1>2, <1>3, <1>4, <1>5, OneSetter

LEMMA ResetEndStep ==
    ASSUME IInv, NEW c \in DumpClients, ResetEnd(c)
    PROVE  IInv'
  <1>1. /\ setter' = [setter EXCEPT ![c] = SetterIdle] /\ UNCHANGED <<freq, taskList, taskIndex, job>>
        /\ setter[c].pc = "reset" /\ setter[c].todo = {}
    BY DEF ResetEnd
  <1>2. \A t : ~Pending(setter[c], t)
    BY <1>1 DEF Pending
  <1>3. Shaped(SetterIdle)
    BY DEF SetterIdle, Shaped, Fields
  <1>4. /\ taskList' \subseteq DumpTask /\ taskIndex' \in Nat /\ job' = [t \in DumpTask |-> job'[t]]
        /\ \A t \in taskList' : job'[t] = freq' \/ \E d \in DumpClients : Pending(setter[d], t)
    BY <1>1 DEF IInv
  <1>5. QED
    BY <1>1, <1>2, <1>3, <1>4, OneSetter

-----------------------------------------------------------------------------
(* No interleaving of calls leaves a task without its interval pending.    *)
THEOREM Invariance == DumpSpec => []IInv
  <1>1. DumpInit => IInv
    <2> SUFFICES ASSUME DumpInit PROVE IInv
      OBVIOUS
    <2>1. Shaped(SetterIdle)
      BY DEF Shaped, Fields, SetterIdle
    <2>2. taskList = {} /\ taskIndex = 0 /\ \A c \in DumpClients : setter[c] = SetterIdle
      BY DEF DumpInit
    <2>3. /\ job = [t \in DumpTask |-> job[t]]
          /\ setter = [c \in DumpClients |-> setter[c]]
      BY DEF DumpInit
    <2>4. QED
      BY <2>1, <2>2, <2>3 DEF IInv
  <1>2. IInv /\ [DumpNext]_dumpVars => IInv'
    <2> SUFFICES ASSUME IInv, [DumpNext]_dumpVars PROVE IInv'
      OBVIOUS
    <2>1. CASE startDumpRawDataTask
      <3>1. /\ taskIndex < MaxDumps /\ UNCHANGED <<setter, freq>> /\ taskIndex' = taskIndex + 1
            /\ taskList' = taskList \cup {taskIndex} /\ job' = [job EXCEPT ![taskIndex] = freq]
        BY <2>1 DEF startDumpRawDataTask
      <3>2. taskIndex \in DumpTask
        BY <3>1, MaxDumpsAssumption DEF IInv, DumpTask
      <3>3. QED
        BY <3>1, <3>2, NoSetter DEF IInv
    <2>2. ASSUME NEW t \in DumpTask, stopDumpRawDataTask(t) PROVE IInv'
      <3>1. /\ UNCHANGED <<setter, freq, taskIndex>> /\ taskList' = taskList \ {t}
            /\ job' = [job EXCEPT ![t] = NoRate]
        BY <2>2 DEF stopDumpRawDataTask
      <3>2. QED
        BY <3>1, NoSetter DEF IInv
    <2>3. ASSUME NEW c \in DumpClients, NEW r \in Rates, SetInterval(c, r) PROVE IInv'
      BY <2>3, SetIntervalStep
    <2>4. ASSUME NEW c \in DumpClients, resetDumpFrequency(c) \/ ResetEnd(c) PROVE IInv'
      BY <2>4, ResetStep, ResetEndStep
    <2>5. ASSUME NEW c \in DumpClients, NEW t \in DumpTask, reschedule(c, t) PROVE IInv'
      BY <2>5, RescheduleStep
    <2>6. ASSUME NEW w \in Workers,
                 (\E t \in DumpTask : Take(w, t)) \/ UpdateData(w) \/ WriteRow(w)
          PROVE  IInv'
      <3>1. UNCHANGED <<freq, taskList, taskIndex, job, setter>>
        BY <2>6 DEF Take, UpdateData, WriteRow
      <3>2. QED
        BY <3>1, NoSetter DEF IInv
    <2>7. CASE UNCHANGED dumpVars
      BY <2>7, NoSetter DEF dumpVars, IInv
    <2>8. QED
      BY <2>1, <2>2, <2>3, <2>4, <2>5, <2>6, <2>7 DEF DumpNext
  <1>3. QED
    BY <1>1, <1>2, PTL DEF DumpSpec

(* When no xpumSetAgentConfig is under way, all listed dumps run at the    *)
(* configured interval.                                                    *)
THEOREM RatesSettle == DumpSpec => []DumpsAtConfiguredRate
  <1>1. IInv => DumpsAtConfiguredRate
    BY DEF IInv, DumpsAtConfiguredRate, Pending
  <1>2. QED
    BY <1>1, Invariance, PTL

=============================================================================
