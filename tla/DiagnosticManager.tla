---- MODULE DiagnosticManager ----
(***************************************************************************)
(* Diagnostics and stress tests, core/src/diagnostic/diagnostic_manager.   *)
(* A request puts a task into diagnostic_task_infos (infos) and starts a   *)
(* detached thread, doDiagnosticCore, that runs the tests of the task and  *)
(* writes into it without the mutex.  Clients ask for results meanwhile.   *)
(*                                                                         *)
(* What a test does to a GPU is not modelled: a test is the set of         *)
(* outcomes it can have.  "terminate" is an exception thrown while the     *)
(* std::thread that reads the temperature is joinable.                     *)
(***************************************************************************)
EXTENDS Naturals, Sequences, SequencesExt, FiniteSets, FiniteSetsExt

CONSTANTS Device,    \* the device ids; getDeviceList is in id order
          Requests,  \* the requests of the clients, [level, types]
          HasPvc,    \* whether some GPU is a PVC
          MaxRuns,   \* a bound on the diagnostics started; each request is made once
          MaxStress, \* a bound on the stress tests that are started
          Failing,   \* the tests that may fail
          None

\* The members of xpum_diag_task_type_t, in their order.
TypeSeq == <<"ENV", "LIBRARY", "PERMISSION", "EXCLUSIVE", "LIGHT_COMPUTATION", "SYSMAN",
             "PCIE", "MEDIA_CODEC", "COMPUTATION", "POWER", "MEMORY_BANDWIDTH",
             "MEMORY_ALLOCATION", "MEMORY_ERROR", "LIGHT_CODEC", "XE_LINK", "ALL_TO_ALL">>

ASSUME DiagnosticAssumption ==
  /\ Device \subseteq Nat /\ 0 \in Device /\ IsFiniteSet(Device)
  /\ \A q \in Requests : /\ q.level \in 0..3 /\ q.types \in Seq(Range(TypeSeq))
                         /\ q.level = 0 => Len(q.types) \in 1..15
  /\ HasPvc \in BOOLEAN /\ MaxRuns \in Nat /\ MaxStress \in Nat
  /\ Failing \subseteq Range(TypeSeq)

\* What a task holds; run and whole are not in the code (see initDiagTaskInfo).
DiagTask == [list : Seq(Range(TypeSeq)), level : 0..3, finished : BOOLEAN, count : Nat,
             comp : Seq({"UNKNOWN", "PASS", "FAIL"}), run : Nat, whole : BOOLEAN]

ASSUME NoTaskAssumption == None \notin DiagTask

VARIABLES infos,    \* [Device -> a task or None]
          thread,   \* [1..MaxRuns -> a doDiagnosticCore or None]
          asked,    \* the requests that have been made
          stress,   \* the devices of stress_task_map whose stress test is not finished
          stresses, \* the number of stress tests started
          reader,   \* the getDiagnosticsResult that holds the mutex, or None
          terminated

vars == <<infos, thread, asked, stress, stresses, reader, terminated>>

Init ==
  /\ infos = [d \in Device |-> None]
  /\ thread = [t \in 1..MaxRuns |-> None]
  /\ asked = {}
  /\ stress = {}
  /\ stresses = 0
  /\ reader = None
  /\ terminated = FALSE

----
\* The tests.  A component is "UNKNOWN" until its test ends.  An exception that is
\* caught is an outcome FAIL, and so is a test refused on a physical function.  A
\* test that finds no engine to run on ends without a result, which the answers
\* count as PASS.

Done == {"PASS", "FAIL"}
Terminate == {"terminate"}

doDiagnosticEnvironmentVariables == Done
doDiagnosticLibraries == Done
doDiagnosticPermission == Done
doDiagnosticExclusive == Done
doDiagnosticHardwareSysman == {"FAIL"}
doDiagnosticMediaCodec == Done
doDiagnosticIntegration == Done \cup Terminate
doDiagnosticPeformanceComputation == Done \cup Terminate
doDiagnosticPeformancePower == Done
doDiagnosticPeformanceMemoryBandwidth == Done \cup Terminate
doDiagnosticPeformanceMemoryAllocation == Done
doDiagnosticMemoryError == Done
doDiagnosticXeLinkThroughput == Done \cup Terminate
doDiagnosticXeLinkAllToAllThroughput == Done \cup Terminate

Outcomes(type) ==
  CASE type = "ENV" -> doDiagnosticEnvironmentVariables
    [] type = "LIBRARY" -> doDiagnosticLibraries
    [] type = "PERMISSION" -> doDiagnosticPermission
    [] type = "EXCLUSIVE" -> doDiagnosticExclusive
    [] type = "SYSMAN" -> doDiagnosticHardwareSysman
    [] type = "PCIE" -> doDiagnosticIntegration
    [] type \in {"MEDIA_CODEC", "LIGHT_CODEC"} -> doDiagnosticMediaCodec
    [] type \in {"LIGHT_COMPUTATION", "COMPUTATION"} -> doDiagnosticPeformanceComputation
    [] type = "POWER" -> doDiagnosticPeformancePower
    [] type = "MEMORY_BANDWIDTH" -> doDiagnosticPeformanceMemoryBandwidth
    [] type = "MEMORY_ALLOCATION" -> doDiagnosticPeformanceMemoryAllocation
    [] type = "MEMORY_ERROR" -> doDiagnosticMemoryError
    [] type = "XE_LINK" -> doDiagnosticXeLinkThroughput
    [] type = "ALL_TO_ALL" -> doDiagnosticXeLinkAllToAllThroughput

----
\* runLevelDiagnostics, runMultipleSpecificDiagnostics

isLevelDiagnosticType(type) == type \notin {"LIGHT_CODEC", "SYSMAN", "ALL_TO_ALL"}

\* The first types of the enumeration that belong to a level.
LevelPrefix(level) ==
  SubSeq(TypeSeq, 1, CASE level = 1 -> 6 [] level = 2 -> 8 [] level = 3 -> 16)

LevelTypes(level) ==
  SelectSeq(LevelPrefix(level), LAMBDA type :
    /\ isLevelDiagnosticType(type)
    /\ HasPvc => type # "MEDIA_CODEC"
    /\ ~HasPvc => type # "XE_LINK")

\* No level has the all-to-all test.
ASSUME LevelAssumption ==
  \A level \in 1..3 : LevelTypes(level) \in Seq(Range(TypeSeq) \ {"ALL_TO_ALL"})

Runs == Cardinality(asked)

\* initDiagTaskInfo.  run and whole are not in the code: the request the task
\* comes from, and whether its thread has the right number of tests.
initDiagTaskInfo(q) ==
  LET list == IF q.level = 0 THEN q.types ELSE LevelTypes(q.level) IN
  [list |-> list, level |-> q.level, finished |-> FALSE, count |-> 0,
   comp |-> [i \in 1..Len(list) |-> "UNKNOWN"],
   run |-> Runs + 1, whole |-> FALSE]

Running(d) == infos[d] # None /\ ~infos[d].finished

\* DiagnosticManager::mutex is taken by the clients' calls only.
MutexFree == reader = None /\ ~terminated

RunDiagnosticsDespiteStress(S, q) ==
  /\ MutexFree /\ Runs < MaxRuns /\ q \notin asked
  /\ \A d \in S : ~Running(d)
  /\ infos' = [d \in Device |-> IF d \in S THEN initDiagTaskInfo(q) ELSE infos[d]]
  /\ thread' = [thread EXCEPT ![Runs + 1] =
                  [scope |-> S, pc |-> "begin", cnt |-> 0, i |-> 1, todo |-> S]]
  /\ asked' = asked \cup {q}
  /\ UNCHANGED <<stress, stresses, reader, terminated>>

\* Refused with TASK_NOT_COMPLETE while a device of the request is under test.
runDiagnosticsCore(S, q) ==
  /\ MutexFree /\ Runs < MaxRuns /\ q \notin asked
  /\ \A d \in S : ~Running(d) /\ d \notin stress
  /\ infos' = [d \in Device |-> IF d \in S THEN initDiagTaskInfo(q) ELSE infos[d]]
  /\ thread' = [thread EXCEPT ![Runs + 1] =
                  [scope |-> S, pc |-> "begin", cnt |-> 0, i |-> 1, todo |-> S]]
  /\ asked' = asked \cup {q}
  /\ UNCHANGED <<stress, stresses, reader, terminated>>

\* The all-to-all test "only works for all GPUs" (comlet_diagnostic.cpp).
RunDiagnostics ==
  \E q \in Requests :
    \/ runDiagnosticsCore(Device, q)
    \/ /\ q.level # 0 \/ \A i \in 1..Len(q.types) : q.types[i] # "ALL_TO_ALL"
       /\ \E d \in Device : runDiagnosticsCore({d}, q)

----
\* doDiagnosticCore, thread t

At(t, pc) == thread[t] # None /\ thread[t].pc = pc /\ ~terminated
Current(t) == Min(thread[t].todo)
Info(t) == infos[Current(t)]
Type(t) == Info(t).list[thread[t].i]
NoType(t) == thread[t].i > Len(Info(t).list)
WholeTest(t) == ~NoType(t) /\ Type(t) = "ALL_TO_ALL"

LastTestEarly(t, d) == thread[t].i = Max({1, thread[t].cnt - 1})
LastTestOwn(t, d) == thread[t].i = Len(infos[d].list)

\* i == targetCnt - 1.
LastTest(t, d) == thread[t].i = thread[t].cnt

\* The next device, or the first one with the next test, or the end.
Advance(t) ==
  LET th == thread[t]
      rest == th.todo \ {Current(t)} IN
  thread' = [thread EXCEPT ![t] =
    IF rest # {} THEN [th EXCEPT !.pc = "test", !.todo = rest]
    ELSE IF th.i < th.cnt THEN [th EXCEPT !.pc = "test", !.todo = th.scope, !.i = th.i + 1]
    ELSE None]

AfterTest(t) ==
  IF LastTest(t, Current(t)) THEN thread' = [thread EXCEPT ![t].pc = "finish"] ELSE Advance(t)

\* targetCnt is that of the task of the lowest device that has one.
ReadTargetCnt(t) ==
  LET n == Len(infos[Min({d \in Device : infos[d] # None})].list) IN
  /\ At(t, "begin")
  /\ thread' = [thread EXCEPT ![t].cnt = n, ![t].pc = "test"]
  /\ infos' = [d \in Device |-> IF d \in thread[t].scope
                 THEN [infos[d] EXCEPT !.whole = (n = Len(infos[d].list))] ELSE infos[d]]
  /\ UNCHANGED <<asked, stress, stresses, reader, terminated>>

\* The tests of a level show the Xe Link test only where it can be run.
Shown(t) == IF Type(t) = "XE_LINK" /\ Info(t).level # 0 THEN BOOLEAN ELSE {TRUE}

\* A test starts: it counts.  There is none past the end of a shorter list, and
\* the all-to-all test of all GPUs is that of GPU 0.
BeginTest(t) ==
  /\ At(t, "test")
  /\ IF NoType(t) \/ (WholeTest(t) /\ Current(t) # 0)
       THEN AfterTest(t) /\ UNCHANGED infos
       ELSE \E shown \in Shown(t) :
              /\ thread' = [thread EXCEPT ![t].pc = IF shown THEN "run" ELSE "unsupported"]
              /\ infos' = [d \in Device |->
                   IF shown /\ (WholeTest(t) \/ d = Current(t))
                     THEN [infos[d] EXCEPT !.count = @ + 1] ELSE infos[d]]
  /\ UNCHANGED <<asked, stress, stresses, reader, terminated>>

\* The results of a test that returns; the tests outside Failing do not fail.
Results(type) ==
  LET all == Outcomes(type) \ Terminate IN
  IF type \in Failing THEN all ELSE all \cap {"PASS"}

Record(d, i, o) == [infos[d] EXCEPT !.comp[i] = o]

\* A test ends on every device it has run on.
EndTest(t) ==
  LET S == IF WholeTest(t) THEN Device ELSE {Current(t)} IN
  /\ \E pc \in {"run", "unsupported"} : At(t, pc)
  /\ \E o \in [S -> IF At(t, "run") THEN Results(Type(t)) ELSE {"FAIL"}] :
       infos' = [d \in Device |-> IF d \in S THEN Record(d, thread[t].i, o[d]) ELSE infos[d]]
  /\ AfterTest(t)
  /\ UNCHANGED <<asked, stress, stresses, reader, terminated>>

\* ~thread of a joinable thread calls std::terminate.
TestTerminates(t) ==
  /\ At(t, "run") /\ Terminate \subseteq Outcomes(Type(t))
  /\ terminated' = TRUE
  /\ UNCHANGED <<infos, thread, asked, stress, stresses, reader>>

\* "All diagnostics done".
FinishTask(t) ==
  /\ At(t, "finish")
  /\ infos' = [infos EXCEPT ![Current(t)].finished = TRUE]
  /\ Advance(t)
  /\ UNCHANGED <<asked, stress, stresses, reader, terminated>>

doDiagnosticCore(t) ==
  /\ ReadTargetCnt(t) \/ BeginTest(t) \/ EndTest(t) \/ TestTerminates(t) \/ FinishTask(t)

----
\* runStress and stressThreadFunc.  A stress test of time 0 does not end by itself.

runStress(S) ==
  /\ MutexFree /\ stresses < MaxStress
  /\ \A d \in S : d \notin stress /\ ~Running(d)
  /\ stress' = stress \cup S
  /\ stresses' = stresses + 1
  /\ UNCHANGED <<infos, thread, asked, reader, terminated>>

RunStress == runStress(Device) \/ \E d \in Device : runStress({d})

stressThreadFunc(d) ==
  /\ d \in stress /\ ~terminated
  /\ stress' = stress \ {d}
  /\ UNCHANGED <<infos, thread, asked, stresses, reader, terminated>>

----
\* getDiagnosticsResult.  The thread of the task goes on while it reads.

Tasks == {d \in Device : infos[d] # None}

ReadBeginCountFirst(all, d) ==
  /\ MutexFree /\ infos[d] # None
  /\ reader' = [all |-> all, last |-> d, count |-> infos[d].count, finished |-> None]
  /\ UNCHANGED <<infos, thread, asked, stress, stresses, terminated>>

\* The result of one GPU reads finished before count; combineMultiDevice-
\* DiagnosticInfo takes both from the last device and reads count first.
ReadBegin(all, d) ==
  /\ MutexFree /\ infos[d] # None
  /\ reader' = [all |-> all, last |-> d,
                count |-> IF all THEN infos[d].count ELSE None,
                finished |-> IF all THEN None ELSE infos[d].finished]
  /\ UNCHANGED <<infos, thread, asked, stress, stresses, terminated>>

\* The tasks the reader looks at.
Scope == IF reader.all THEN Tasks ELSE {reader.last}

\* A FAIL among the first n tests of a device makes the result FAIL.
Verdict(S, n, finished) ==
  IF \E d \in S : \E i \in DOMAIN infos[d].comp : i <= n /\ infos[d].comp[i] = "FAIL"
    THEN "FAIL" ELSE IF finished THEN "PASS" ELSE "UNKNOWN"

\* The result that the reader gives if it ends now.
Answer ==
  LET info == infos[reader.last]
      n == IF reader.count = None THEN info.count ELSE reader.count
      f == IF reader.finished = None THEN info.finished ELSE reader.finished IN
  [count |-> n, finished |-> f, result |-> Verdict(Scope, n, f)]

ReadEnd ==
  /\ reader # None /\ ~terminated
  /\ reader' = None
  /\ UNCHANGED <<infos, thread, asked, stress, stresses, terminated>>

GetDiagnosticsResult ==
  \/ Tasks # {} /\ ReadBegin(TRUE, Max(Tasks))
  \/ \E d \in Device : ReadBegin(FALSE, d)
  \/ ReadEnd

\* The process is over.
Over == terminated /\ UNCHANGED vars

Next ==
  \/ RunDiagnostics \/ RunStress \/ GetDiagnosticsResult \/ Over
  \/ \E t \in 1..MaxRuns : doDiagnosticCore(t)
  \/ \E d \in Device : stressThreadFunc(d)

DiagnosticSpec == Init /\ [][Next]_vars

\* The detached threads run and the Level Zero calls of a test return.
DiagnosticFairness == \A t \in 1..MaxRuns : WF_vars(doDiagnosticCore(t))

----
\* The devices thread t is testing.
Testing(t) ==
  IF ~At(t, "run") THEN {} ELSE IF WholeTest(t) THEN Device ELSE {Current(t)}

\* Requests for one GPU, for all GPUs and stress requests never put two tests on
\* one GPU: each reads the unfinished tasks of both maps under the mutex, and the
\* thread marks a task finished only after its last test.
OneTestPerDevice ==
  \A d \in Device :
    Cardinality({t \in 1..MaxRuns : d \in Testing(t)}) + Cardinality(stress \cap {d}) <= 1

\* A task whose thread took its own number of tests is marked "All diagnostics
\* done" only when every test of the list has been run or refused.
AllTestsRun ==
  \A d \in Device :
    infos[d] # None /\ infos[d].finished /\ infos[d].whole =>
      \A i \in DOMAIN infos[d].comp : infos[d].comp[i] # "UNKNOWN"

\* A result PASS hides no failed test: that of one GPU always, that of all GPUs
\* when they ran one request and the answer shows every test that counted.
PassMeansPassed ==
  reader # None /\ Answer.result = "PASS" =>
    LET whole == /\ \A d, e \in Scope : infos[d].run = infos[e].run
                 /\ \A d \in Scope : infos[d].count = Answer.count IN
    (~reader.all \/ whole) =>
      \A d \in Scope : \A i \in DOMAIN infos[d].comp :
        i <= infos[d].count => infos[d].comp[i] # "FAIL"

\* Every diagnostic that is started is reported finished one day, also when its
\* thread took the number of tests of another task, unless the process ends.
DiagEnds == \A d \in Device : Running(d) ~> (terminated \/ ~Running(d))
====
