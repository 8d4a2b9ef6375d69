---- MODULE DiagnosticManagerProofs ----
(***************************************************************************)
(* A proof about diagnostics and stress tests, for any number of GPUs and  *)
(* threads and any requests.                                               *)
(***************************************************************************)
EXTENDS DiagnosticManager, TLAPS, FiniteSetTheorems, SequenceTheorems,
        NaturalsInduction, WellFoundedInduction

Types == Range(TypeSeq)

Thread == [scope : SUBSET Device, pc : {"begin", "test", "run", "unsupported", "finish"},
           cnt : Nat, i : Nat \ {0}, todo : SUBSET Device]

\* The devices of a thread whose task it has not finished yet: in the round of
\* its last test those to come, before it all.
Claimed(th) == IF th.i = th.cnt THEN th.todo ELSE th.scope

HasAllToAll(list) == \E j \in 1..Len(list) : list[j] = "ALL_TO_ALL"

\* A claimed device has the thread's own unfinished task, and no stress test.
Mine(t, th, inf, str) ==
  \A d \in Claimed(th) :
    /\ inf[d] \in DiagTask /\ ~inf[d].finished /\ inf[d].run = t /\ d \notin str
    /\ HasAllToAll(inf[d].list) => th.scope = Device

\* The loop over the devices is in the order of their ids.
Upward(th) == \A d \in th.scope, e \in th.todo : e <= d => d \in th.todo

\* A test that runs is one of the list; the all-to-all test is that of GPU 0.
UnderTest(th, inf) ==
  th.pc \in {"run", "unsupported"} =>
    /\ th.i <= Len(inf[Min(th.todo)].list)
    /\ inf[Min(th.todo)].list[th.i] = "ALL_TO_ALL" => Min(th.todo) = 0

Good(t, th, inf, str) ==
  th # None =>
    /\ th \in Thread /\ th.todo # {} /\ th.todo \subseteq th.scope
    /\ Upward(th)
    /\ th.pc = "begin" => th.todo = th.scope /\ th.i # th.cnt
    /\ th.pc = "finish" => th.i = th.cnt
    /\ Mine(t, th, inf, str)
    /\ UnderTest(th, inf)

IInv ==
  /\ infos \in [Device -> DiagTask \cup {None}]
  /\ DOMAIN thread = 1..MaxRuns /\ thread = [t \in 1..MaxRuns |-> thread[t]]
  /\ IsFiniteSet(asked)
  /\ \A t \in 1..MaxRuns : t > Runs => thread[t] = None
  /\ \A t \in 1..MaxRuns : Good(t, thread[t], infos, stress)

----
\* The smallest of a nonempty set of device ids is one of them.
LEMMA MinOf ==
    ASSUME NEW S \in SUBSET Device, S # {}
    PROVE  Min(S) \in S /\ \A y \in S : Min(S) <= y
  <1> DEFINE R == OpToRel(<, Nat)
  <1>0. S \subseteq Nat
    BY DiagnosticAssumption
  <1>1. \E x \in S : \A y \in S : ~(<<y, x>> \in R)
    <2> HIDE DEF R
    <2>1. IsWellFoundedOn(R, Nat)
      BY NatLessThanWellFounded DEF R
    <2>2. QED
      BY <1>0, <2>1, WFMin
  <1>2. PICK x \in S : \A y \in S : ~(<<y, x>> \in R)
    BY <1>1
  <1>3. \A y \in S : x <= y
    <2>1. R = {ss \in Nat \X Nat : ss[1] < ss[2]}
      BY DEF OpToRel
    <2> HIDE DEF R
    <2> TAKE y \in S
    <2>2. y < x => <<y, x>> \in R
      BY <1>0, <2>1
    <2>3. QED
      BY <1>0, <1>2, <2>2
  <1>4. QED
    BY <1>3 DEF Min

\* A thread's current device is claimed.
LEMMA CurrentClaimed ==
    ASSUME NEW t, NEW th, NEW inf, NEW str, Good(t, th, inf, str), th # None
    PROVE  /\ Min(th.todo) \in th.todo /\ Min(th.todo) \in Claimed(th)
           /\ Min(th.todo) \in Device /\ Claimed(th) \subseteq Device
           /\ \A e \in th.todo : Min(th.todo) <= e
  <1>1. th \in Thread /\ th.todo # {} /\ th.todo \subseteq th.scope
    BY DEF Good
  <1>2. th.todo \in SUBSET Device /\ th.scope \in SUBSET Device
    BY <1>1 DEF Thread
  <1>3. Min(th.todo) \in th.todo /\ \A e \in th.todo : Min(th.todo) <= e
    BY <1>1, <1>2, MinOf
  <1>4. QED
    BY <1>1, <1>2, <1>3 DEF Claimed

\* A thread is as good as before when its devices are as before.
LEMMA OthersGood ==
    ASSUME NEW t, NEW th, NEW inf, NEW str, NEW inf2, NEW str2,
           Good(t, th, inf, str),
           th # None => \A d \in Claimed(th) : inf2[d] = inf[d] /\ d \notin str2
    PROVE  Good(t, th, inf2, str2)
  <1> SUFFICES ASSUME th # None PROVE Good(t, th, inf2, str2)
    BY DEF Good
  <1>1. Min(th.todo) \in Claimed(th)
    BY CurrentClaimed
  <1>2. UnderTest(th, inf2)
    BY <1>1 DEF Good, UnderTest
  <1>3. Mine(t, th, inf2, str2)
    BY DEF Good, Mine
  <1>4. QED
    BY <1>2, <1>3 DEF Good

\* Two threads claim no device together.
LEMMA ClaimsApart ==
    ASSUME IInv, NEW t \in 1..MaxRuns, NEW u \in 1..MaxRuns, t # u,
           thread[t] # None, thread[u] # None
    PROVE  Claimed(thread[t]) \cap Claimed(thread[u]) = {}
  BY DEF IInv, Good, Mine

\* After a step of thread t it is enough to look at t.
LEMMA OneThread ==
    ASSUME IInv, NEW t \in 1..MaxRuns, thread[t] # None, NEW r,
           thread' = [thread EXCEPT ![t] = r],
           infos' \in [Device -> DiagTask \cup {None}],
           \A d \in Device \ Claimed(thread[t]) : infos'[d] = infos[d],
           UNCHANGED <<asked, stress>>,
           Good(t, r, infos', stress)
    PROVE  IInv'
  <1>1. thread'[t] = r /\ \A u \in 1..MaxRuns \ {t} : thread'[u] = thread[u]
    BY DEF IInv
  <1>2. ASSUME NEW u \in 1..MaxRuns PROVE Good(u, thread'[u], infos', stress')
    <2>1. CASE u = t
      BY <1>1, <2>1
    <2>2. CASE u # t
      <3>1. Good(u, thread[u], infos, stress)
        BY DEF IInv
      <3>2. ASSUME thread[u] # None, NEW d \in Claimed(thread[u])
            PROVE  infos'[d] = infos[d] /\ d \notin stress
        <4>1. d \in Device
          BY <3>1, <3>2, CurrentClaimed
        <4>2. d \notin Claimed(thread[t])
          BY <2>2, <3>2, ClaimsApart
        <4>3. d \notin stress
          BY <3>1, <3>2 DEF Good, Mine
        <4>4. QED
          BY <4>1, <4>2, <4>3
      <3>3. Good(u, thread[u], infos', stress)
        BY <3>1, <3>2, OthersGood
      <3>4. QED
        BY <1>1, <2>2, <3>3
    <2>3. QED
      BY <2>1, <2>2
  <1>3. ~(t > Runs)
    BY DEF IInv
  <1>4. \A u \in 1..MaxRuns : u > Runs' => thread'[u] = None
    BY <1>1, <1>3 DEF IInv, Runs
  <1>5. DOMAIN thread' = 1..MaxRuns /\ thread' = [u \in 1..MaxRuns |-> thread'[u]]
    BY DEF IInv
  <1>6. QED
    BY <1>2, <1>4, <1>5 DEF IInv

----
\* The results of tests.
LEMMA ResultsType ==
    ASSUME NEW type \in Types
    PROVE  Results(type) \subseteq {"PASS", "FAIL"}
  <1>1. type \in {"ENV", "LIBRARY", "PERMISSION", "EXCLUSIVE", "LIGHT_COMPUTATION", "SYSMAN",
             "PCIE", "MEDIA_CODEC", "COMPUTATION", "POWER", "MEMORY_BANDWIDTH",
             "MEMORY_ALLOCATION", "MEMORY_ERROR", "LIGHT_CODEC", "XE_LINK", "ALL_TO_ALL"}
    BY DEF Types, Range, TypeSeq
  <1>2. Outcomes(type) \subseteq {"PASS", "FAIL", "terminate"}
    BY <1>1 DEF Outcomes, Done, Terminate, doDiagnosticEnvironmentVariables,
       doDiagnosticLibraries, doDiagnosticPermission, doDiagnosticExclusive,
       doDiagnosticHardwareSysman, doDiagnosticMediaCodec, doDiagnosticIntegration,
       doDiagnosticPeformanceComputation, doDiagnosticPeformancePower,
       doDiagnosticPeformanceMemoryBandwidth, doDiagnosticPeformanceMemoryAllocation,
       doDiagnosticMemoryError, doDiagnosticXeLinkThroughput,
       doDiagnosticXeLinkAllToAllThroughput
  <1>3. QED
    BY <1>2 DEF Results, Terminate

\* Recording a result leaves a task.
LEMMA RecordTask ==
    ASSUME NEW r \in DiagTask, NEW i \in Nat, NEW o \in {"PASS", "FAIL"},
           NEW r2, r2 = [r EXCEPT !.comp[i] = o]
    PROVE  r2 \in DiagTask /\ r2.list = r.list /\ r2.run = r.run /\ r2.finished = r.finished
  <1> DEFINE C == {"UNKNOWN", "PASS", "FAIL"}
             c2 == [r.comp EXCEPT ![i] = o]
  <1>1. r.comp \in Seq(C)
    BY DEF DiagTask
  <1>2. c2 \in Seq(C)
    <2>1. r.comp \in [1..Len(r.comp) -> C] /\ Len(r.comp) \in Nat
      BY <1>1
    <2>2. c2 \in [1..Len(r.comp) -> C]
      BY <2>1
    <2>3. QED
      BY <2>1, <2>2, SeqDef
  <1>3. r2 = [r EXCEPT !.comp = c2]
    BY DEF DiagTask
  <1>4. QED
    BY <1>2, <1>3 DEF DiagTask

----
\* Where the loops of a thread go on.

AdvanceTo(th) ==
  LET rest == th.todo \ {Min(th.todo)} IN
  IF rest # {} THEN [th EXCEPT !.pc = "test", !.todo = rest]
  ELSE IF th.i < th.cnt THEN [th EXCEPT !.pc = "test", !.todo = th.scope, !.i = th.i + 1]
  ELSE None

AfterTo(th) == IF th.i = th.cnt THEN [th EXCEPT !.pc = "finish"] ELSE AdvanceTo(th)

\* The tasks of a thread stay its own; only that of the current device may end,
\* with the last test.
Keeps(th, inf, inf2) ==
  \A d \in Claimed(th) :
    /\ inf2[d] \in DiagTask /\ inf2[d].list = inf[d].list /\ inf2[d].run = inf[d].run
    /\ inf2[d].finished = inf[d].finished \/ (d = Min(th.todo) /\ th.i = th.cnt)

LEMMA AdvanceGood ==
    ASSUME NEW t, NEW th, NEW inf, NEW inf2, NEW str, th # None,
           Good(t, th, inf, str), Keeps(th, inf, inf2), th.pc # "begin"
    PROVE  Good(t, AdvanceTo(th), inf2, str)
  <1> DEFINE rest == th.todo \ {Min(th.todo)}
             r == AdvanceTo(th)
  <1>1. th \in Thread /\ th.todo # {} /\ th.todo \subseteq th.scope /\ Upward(th)
    BY DEF Good
  <1>2. th.scope \subseteq Device /\ Device \subseteq Nat /\ th.i \in Nat /\ th.cnt \in Nat
    BY <1>1, DiagnosticAssumption DEF Thread
  <1>3. Min(th.todo) \in th.todo /\ \A e \in th.todo : Min(th.todo) <= e
    BY CurrentClaimed
  <1>4. CASE rest # {}
    <2>1. r = [th EXCEPT !.pc = "test", !.todo = rest]
      BY <1>4 DEF AdvanceTo
    <2>2. r \in Thread /\ r.pc = "test" /\ r.todo = rest /\ r.scope = th.scope
          /\ r.i = th.i /\ r.cnt = th.cnt
      BY <1>1, <2>1 DEF Thread
    <2>3. Upward(r)
      <3> SUFFICES ASSUME NEW d \in th.scope, NEW e \in rest, e <= d PROVE d \in rest
        BY <2>2 DEF Upward
      <3>1. d \in th.todo
        BY <1>1 DEF Upward
      <3>2. e \in Nat /\ d \in Nat /\ Min(th.todo) \in Nat /\ Min(th.todo) <= e
        BY <1>1, <1>2, <1>3
      <3>3. QED
        BY <3>1, <3>2
    <2>4. Mine(t, r, inf2, str)
      <3>1. Claimed(r) \subseteq Claimed(th)
        BY <2>2 DEF Claimed
      <3>2. ASSUME NEW d \in Claimed(r) PROVE ~(d = Min(th.todo) /\ th.i = th.cnt)
        BY <2>2 DEF Claimed
      <3>3. QED
        BY <2>2, <3>1, <3>2 DEF Good, Mine, Keeps
    <2>5. QED
      BY <1>1, <1>4, <2>2, <2>3, <2>4 DEF Good, UnderTest
  <1>5. CASE rest = {} /\ th.i < th.cnt
    <2>1. r = [th EXCEPT !.pc = "test", !.todo = th.scope, !.i = th.i + 1]
      BY <1>5 DEF AdvanceTo
    <2>2. r \in Thread /\ r.pc = "test" /\ r.todo = th.scope /\ r.scope = th.scope
      <3>1. th.i + 1 \in Nat \ {0}
        BY <1>2
      <3>2. QED
        BY <1>1, <2>1, <3>1 DEF Thread
    <2>3. Upward(r)
      BY <2>2 DEF Upward
    <2>4. Claimed(r) = th.scope /\ Claimed(th) = th.scope /\ th.i # th.cnt
      BY <1>2, <1>5, <2>2 DEF Claimed
    <2>5. Mine(t, r, inf2, str)
      BY <2>2, <2>4 DEF Good, Mine, Keeps
    <2>6. QED
      BY <1>1, <2>2, <2>3, <2>5 DEF Good, UnderTest
  <1>6. CASE rest = {} /\ ~(th.i < th.cnt)
    BY <1>6 DEF AdvanceTo, Good
  <1>7. QED
    BY <1>4, <1>5, <1>6

\* A thread that stays at its device and its test
LEMMA StayGood ==
    ASSUME NEW t, NEW th, NEW inf, NEW inf2, NEW str, th # None,
           Good(t, th, inf, str), Keeps(th, inf, inf2),
           \A d \in Claimed(th) : inf2[d].finished = inf[d].finished,
           th.pc # "begin",
           NEW pc \in {"test", "run", "unsupported", "finish"},
           pc = "finish" => th.i = th.cnt,
           UnderTest([th EXCEPT !.pc = pc], inf2)
    PROVE  Good(t, [th EXCEPT !.pc = pc], inf2, str)
  <1> DEFINE r == [th EXCEPT !.pc = pc]
  <1>1. th \in Thread /\ th.todo # {} /\ th.todo \subseteq th.scope /\ Upward(th)
    BY DEF Good
  <1>2. r \in Thread /\ r.pc = pc /\ r.todo = th.todo /\ r.scope = th.scope
        /\ r.i = th.i /\ r.cnt = th.cnt
    BY <1>1 DEF Thread
  <1>3. Upward(r)
    BY <1>1, <1>2 DEF Upward
  <1>4. Claimed(r) = Claimed(th)
    BY <1>2 DEF Claimed
  <1>5. Mine(t, r, inf2, str)
    BY <1>2, <1>4 DEF Good, Mine, Keeps
  <1>6. QED
    BY <1>1, <1>2, <1>3, <1>5 DEF Good

LEMMA AfterGood ==
    ASSUME NEW t, NEW th, NEW inf, NEW inf2, NEW str, th # None,
           Good(t, th, inf, str), Keeps(th, inf, inf2),
           \A d \in Claimed(th) : inf2[d].finished = inf[d].finished,
           th.pc # "begin"
    PROVE  Good(t, AfterTo(th), inf2, str)
  <1>1. CASE th.i = th.cnt
    <2>1. th \in Thread
      BY DEF Good
    <2>2. UnderTest([th EXCEPT !.pc = "finish"], inf2)
      BY <2>1 DEF UnderTest, Thread
    <2>3. Good(t, [th EXCEPT !.pc = "finish"], inf2, str)
      BY <1>1, <2>2, StayGood
    <2>4. QED
      BY <1>1, <2>3 DEF AfterTo
  <1>2. CASE th.i # th.cnt
    BY <1>2, AdvanceGood DEF AfterTo
  <1>3. QED
    BY <1>1, <1>2

----
\* The steps.

LEMMA InitInv == Init => IInv
  <1> SUFFICES ASSUME Init PROVE IInv
    OBVIOUS
  <1>1. infos \in [Device -> DiagTask \cup {None}]
    BY DEF Init
  <1>2. \A t \in 1..MaxRuns : thread[t] = None
    BY DEF Init
  <1>3. IsFiniteSet(asked)
    BY FS_EmptySet DEF Init
  <1>4. DOMAIN thread = 1..MaxRuns /\ thread = [t \in 1..MaxRuns |-> thread[t]]
    BY DEF Init
  <1>5. QED
    BY <1>1, <1>2, <1>3, <1>4 DEF IInv, Good

\* A request that is accepted finds no device claimed.
LEMMA RequestInv ==
    ASSUME IInv, NEW q \in Requests, NEW S \in SUBSET Device, S # {},
           runDiagnosticsCore(S, q),
           S = Device \/ q.level # 0 \/ \A j \in 1..Len(q.types) : q.types[j] # "ALL_TO_ALL"
    PROVE  IInv'
  <1> DEFINE n == Runs + 1
             new == initDiagTaskInfo(q)
             th == [scope |-> S, pc |-> "begin", cnt |-> 0, i |-> 1, todo |-> S]
  <1>1. Runs \in Nat /\ n \in 1..MaxRuns /\ MaxRuns \in Nat
    BY FS_CardinalityType, DiagnosticAssumption DEF IInv, Runs, runDiagnosticsCore
  <1>2. IsFiniteSet(asked') /\ Runs' = n
    BY FS_AddElement DEF IInv, Runs, runDiagnosticsCore
  <1>3. new \in DiagTask /\ ~new.finished /\ new.run = n
        /\ (HasAllToAll(new.list) => S = Device)
    <2> DEFINE list == IF q.level = 0 THEN q.types ELSE LevelTypes(q.level)
    <2>1. q.level \in 0..3 /\ q.types \in Seq(Types)
      BY DiagnosticAssumption DEF Types
    <2>2. list \in Seq(Types) /\ (HasAllToAll(list) => S = Device)
      <3>1. CASE q.level = 0
        BY <2>1, <3>1 DEF HasAllToAll
      <3>2. CASE q.level # 0
        <4>1. q.level \in 1..3
          BY <2>1, <3>2
        <4>2. LevelTypes(q.level) \in Seq(Types \ {"ALL_TO_ALL"})
          BY <4>1, LevelAssumption DEF Types
        <4>3. list \in Seq(Types \ {"ALL_TO_ALL"})
          BY <3>2, <4>2
        <4> HIDE DEF list
        <4>4. QED
          BY <4>3 DEF HasAllToAll
      <3>3. QED
        BY <3>1, <3>2
    <2> HIDE DEF list
    <2>3. [j \in 1..Len(list) |-> "UNKNOWN"] \in Seq({"UNKNOWN", "PASS", "FAIL"})
      <3>1. Len(list) \in Nat
        BY <2>2
      <3>2. QED
        BY <3>1, SeqDef
    <2>4. new = [list |-> list, level |-> q.level, finished |-> FALSE, count |-> 0,
                 comp |-> [j \in 1..Len(list) |-> "UNKNOWN"], run |-> n, whole |-> FALSE]
      BY DEF initDiagTaskInfo, list
    <2>5. QED
      BY <1>1, <2>1, <2>2, <2>3, <2>4 DEF DiagTask, Types
  <1> HIDE DEF new
  <1>4. infos' = [d \in Device |-> IF d \in S THEN new ELSE infos[d]]
        /\ thread' = [thread EXCEPT ![n] = th] /\ stress' = stress
    BY DEF runDiagnosticsCore, new
  <1>5. \A d \in S : ~Running(d) /\ d \notin stress
    BY DEF runDiagnosticsCore
  <1>6. infos' \in [Device -> DiagTask \cup {None}]
    BY <1>3, <1>4 DEF IInv
  <1>7. thread'[n] = th /\ \A u \in 1..MaxRuns \ {n} : thread'[u] = thread[u]
    BY <1>1, <1>4 DEF IInv
  <1>8. Good(n, th, infos', stress')
    <2>1. th \in Thread /\ th.todo = S /\ th.scope = S /\ th.pc = "begin"
          /\ th.i = 1 /\ th.cnt = 0
      BY DEF Thread
    <2> HIDE DEF th
    <2>2. Claimed(th) = S
      BY <2>1 DEF Claimed
    <2>3. \A d \in S : infos'[d] = new
      BY <1>4
    <2>4. Mine(n, th, infos', stress')
      BY <1>3, <1>4, <1>5, <2>1, <2>2, <2>3 DEF Mine
    <2>5. Upward(th)
      BY <2>1 DEF Upward
    <2>6. QED
      BY <2>1, <2>4, <2>5 DEF Good, UnderTest
  <1>9. ASSUME NEW u \in 1..MaxRuns \ {n} PROVE Good(u, thread'[u], infos', stress')
    <2>1. Good(u, thread[u], infos, stress)
      BY DEF IInv
    <2>2. ASSUME thread[u] # None, NEW d \in Claimed(thread[u])
          PROVE  infos'[d] = infos[d] /\ d \notin stress'
      <3>1. d \in Device
        BY <2>1, <2>2, CurrentClaimed
      <3>2. infos[d] \in DiagTask /\ ~infos[d].finished /\ d \notin stress
        BY <2>1, <2>2 DEF Good, Mine
      <3>3. d \notin S
        BY <1>5, <3>2, NoTaskAssumption DEF Running
      <3>4. QED
        BY <1>4, <3>1, <3>2, <3>3
    <2>3. QED
      BY <1>7, <2>1, <2>2, OthersGood
  <1>10. \A u \in 1..MaxRuns : u > Runs' => thread'[u] = None
    BY <1>1, <1>2, <1>7 DEF IInv
  <1>11. DOMAIN thread' = 1..MaxRuns /\ thread' = [u \in 1..MaxRuns |-> thread'[u]]
    BY <1>4 DEF IInv
  <1>12. \A u \in 1..MaxRuns : Good(u, thread'[u], infos', stress')
    BY <1>7, <1>8, <1>9
  <1>13. QED
    BY <1>2, <1>6, <1>10, <1>11, <1>12 DEF IInv

\* ReadTargetCnt: the number of tests of whichever task
LEMMA ReadTargetCntInv ==
    ASSUME IInv, NEW t \in 1..MaxRuns, ReadTargetCnt(t)
    PROVE  IInv'
  <1> DEFINE th == thread[t]
             D == {d \in Device : infos[d] # None}
             n == Len(infos[Min(D)].list)
             r == [th EXCEPT !.cnt = n, !.pc = "test"]
  <1>1. th # None /\ th.pc = "begin" /\ Good(t, th, infos, stress)
    BY DEF ReadTargetCnt, At, IInv
  <1>2. th \in Thread /\ th.todo # {} /\ th.todo = th.scope /\ Claimed(th) = th.scope
    BY <1>1 DEF Good, Claimed
  <1>3. th.scope \subseteq Device
    BY <1>2 DEF Thread
  <1>4. \A d \in th.scope : infos[d] \in DiagTask
    BY <1>1, <1>2 DEF Good, Mine
  <1>5. n \in Nat
    <2>1. D # {}
      BY <1>2, <1>3, <1>4, NoTaskAssumption
    <2>2. Min(D) \in D
      BY <2>1, MinOf
    <2>3. infos[Min(D)] \in DiagTask
      BY <2>2 DEF IInv
    <2>4. infos[Min(D)].list \in Seq(Range(TypeSeq))
      BY <2>3 DEF DiagTask
    <2>5. QED
      BY <2>4
  <1> HIDE DEF n
  <1>6. thread' = [thread EXCEPT ![t] = r]
    BY DEF ReadTargetCnt, IInv, n
  <1>7. infos' = [d \in Device |-> IF d \in th.scope
                   THEN [infos[d] EXCEPT !.whole = (n = Len(infos[d].list))] ELSE infos[d]]
    BY DEF ReadTargetCnt, n
  <1>8. \A d \in th.scope : /\ infos'[d] \in DiagTask /\ infos'[d].list = infos[d].list
                            /\ infos'[d].run = infos[d].run
                            /\ infos'[d].finished = infos[d].finished
    <2> TAKE d \in th.scope
    <2>1. infos'[d] = [infos[d] EXCEPT !.whole = (n = Len(infos[d].list))]
      BY <1>3, <1>7
    <2>2. (n = Len(infos[d].list)) \in BOOLEAN
      OBVIOUS
    <2>3. QED
      BY <1>4, <2>1, <2>2 DEF DiagTask
  <1>9. infos' \in [Device -> DiagTask \cup {None}]
    BY <1>7, <1>8 DEF IInv
  <1>10. Good(t, r, infos', stress)
    <2>1. r \in Thread /\ r.pc = "test" /\ r.todo = th.scope /\ r.scope = th.scope
      BY <1>2, <1>5 DEF Thread
    <2> HIDE DEF r
    <2>2. Claimed(r) = th.scope
      BY <2>1 DEF Claimed
    <2>3. Mine(t, r, infos', stress)
      BY <1>1, <1>2, <1>8, <2>1, <2>2 DEF Good, Mine
    <2>4. Upward(r)
      BY <2>1 DEF Upward
    <2>5. QED
      BY <1>2, <2>1, <2>3, <2>4 DEF Good, UnderTest
  <1>11. \A d \in Device \ Claimed(th) : infos'[d] = infos[d]
    BY <1>2, <1>7
  <1>12. UNCHANGED <<asked, stress>>
    BY DEF ReadTargetCnt
  <1>13. QED
    BY <1>1, <1>6, <1>9, <1>10, <1>11, <1>12, OneThread

\* A test of all GPUs is made while all of them are claimed.
LEMMA WholeClaimsAll ==
    ASSUME NEW t, NEW th, NEW inf, NEW str, Good(t, th, inf, str), th # None,
           th.i <= Len(inf[Min(th.todo)].list),
           inf[Min(th.todo)].list[th.i] = "ALL_TO_ALL", Min(th.todo) = 0
    PROVE  Claimed(th) = Device
  <1>1. th \in Thread /\ th.todo \subseteq th.scope /\ Upward(th)
    BY DEF Good
  <1>2. Min(th.todo) \in Claimed(th) /\ 0 \in th.todo
    BY CurrentClaimed
  <1>3. HasAllToAll(inf[Min(th.todo)].list)
    <2>1. inf[Min(th.todo)] \in DiagTask
      BY <1>2 DEF Good, Mine
    <2>2. inf[Min(th.todo)].list \in Seq(Range(TypeSeq)) /\ th.i \in Nat \ {0}
      BY <1>1, <2>1 DEF DiagTask, Thread
    <2>3. th.i \in 1..Len(inf[Min(th.todo)].list)
      BY <2>2
    <2>4. QED
      BY <2>3 DEF HasAllToAll
  <1>4. th.scope = Device
    BY <1>2, <1>3 DEF Good, Mine
  <1>5. \A d \in Device : d \in th.todo
    BY <1>1, <1>2, <1>4, DiagnosticAssumption DEF Upward
  <1>6. th.todo = Device
    BY <1>1, <1>4, <1>5
  <1>7. QED
    BY <1>4, <1>6 DEF Claimed

\* What the steps of a test have in common: thread t is at a device of its own.
LEMMA AtDevice ==
    ASSUME IInv, NEW t \in 1..MaxRuns, thread[t] # None
    PROVE  /\ Good(t, thread[t], infos, stress) /\ thread[t] \in Thread
           /\ Current(t) = Min(thread[t].todo) /\ Current(t) \in Claimed(thread[t])
           /\ Claimed(thread[t]) \subseteq Device
           /\ \A d \in Claimed(thread[t]) : infos[d] \in DiagTask
           /\ WholeTest(t) /\ Current(t) = 0 => Claimed(thread[t]) = Device
  <1>1. Good(t, thread[t], infos, stress) /\ thread[t] \in Thread
    BY DEF IInv, Good
  <1>2. Current(t) = Min(thread[t].todo) /\ Current(t) \in Claimed(thread[t])
        /\ Claimed(thread[t]) \subseteq Device
    BY <1>1, CurrentClaimed DEF Current
  <1>3. \A d \in Claimed(thread[t]) : infos[d] \in DiagTask
    BY <1>1 DEF Good, Mine
  <1>4. ASSUME WholeTest(t), Current(t) = 0 PROVE Claimed(thread[t]) = Device
    <2>1. infos[Current(t)].list \in Seq(Range(TypeSeq)) /\ thread[t].i \in Nat
      BY <1>1, <1>2, <1>3 DEF DiagTask, Thread
    <2>2. /\ thread[t].i <= Len(infos[Min(thread[t].todo)].list)
          /\ infos[Min(thread[t].todo)].list[thread[t].i] = "ALL_TO_ALL"
          /\ Min(thread[t].todo) = 0
      BY <1>2, <1>4, <2>1 DEF WholeTest, NoType, Type, Info, Current
    <2>3. QED
      BY <1>1, <2>2, WholeClaimsAll
  <1>5. QED
    BY <1>1, <1>2, <1>3, <1>4

LEMMA AfterTestTo ==
    ASSUME IInv, NEW t \in 1..MaxRuns, AfterTest(t)
    PROVE  thread' = [thread EXCEPT ![t] = AfterTo(thread[t])]
  <1>1. CASE thread[t].i = thread[t].cnt
    BY <1>1 DEF AfterTest, LastTest, AfterTo, IInv
  <1>2. CASE thread[t].i # thread[t].cnt
    BY <1>2 DEF AfterTest, LastTest, AfterTo, Advance, AdvanceTo, Current
  <1>3. QED
    BY <1>1, <1>2

LEMMA BeginTestInv ==
    ASSUME IInv, NEW t \in 1..MaxRuns, BeginTest(t)
    PROVE  IInv'
  <1> DEFINE th == thread[t]
  <1>1. th # None /\ th.pc = "test" /\ UNCHANGED <<asked, stress>>
    BY DEF BeginTest, At
  <1>2. /\ Good(t, th, infos, stress) /\ th \in Thread
        /\ Current(t) = Min(th.todo) /\ Current(t) \in Claimed(th)
        /\ Claimed(th) \subseteq Device
        /\ \A d \in Claimed(th) : infos[d] \in DiagTask
        /\ WholeTest(t) /\ Current(t) = 0 => Claimed(th) = Device
    BY <1>1, AtDevice
  <1>3. CASE NoType(t) \/ (WholeTest(t) /\ Current(t) # 0)
    <2>1. AfterTest(t) /\ infos' = infos
      BY <1>3 DEF BeginTest
    <2>2. thread' = [thread EXCEPT ![t] = AfterTo(th)]
      BY <2>1, AfterTestTo
    <2>3. Keeps(th, infos, infos)
      BY <1>2 DEF Keeps
    <2>4. Good(t, AfterTo(th), infos, stress)
      BY <1>1, <1>2, <2>3, AfterGood
    <2>5. infos' \in [Device -> DiagTask \cup {None}]
      BY <2>1 DEF IInv
    <2>6. QED
      BY <1>1, <2>1, <2>2, <2>4, <2>5, OneThread
  <1>4. CASE ~(NoType(t) \/ (WholeTest(t) /\ Current(t) # 0))
    <2>1. PICK shown \in Shown(t) :
            /\ thread' = [thread EXCEPT ![t].pc = IF shown THEN "run" ELSE "unsupported"]
            /\ infos' = [d \in Device |->
                 IF shown /\ (WholeTest(t) \/ d = Current(t))
                   THEN [infos[d] EXCEPT !.count = @ + 1] ELSE infos[d]]
      BY <1>4 DEF BeginTest
    <2> DEFINE pc == IF shown THEN "run" ELSE "unsupported"
    <2>2. thread' = [thread EXCEPT ![t] = [th EXCEPT !.pc = pc]]
      BY <2>1 DEF IInv
    <2>3. \A d \in Device \ Claimed(th) : infos'[d] = infos[d]
      BY <1>2, <1>4, <2>1
    <2>4. ASSUME NEW d \in Claimed(th)
          PROVE  /\ infos'[d] \in DiagTask /\ infos'[d].list = infos[d].list
                 /\ infos'[d].run = infos[d].run /\ infos'[d].finished = infos[d].finished
      <3>1. infos'[d] = infos[d] \/ infos'[d] = [infos[d] EXCEPT !.count = infos[d].count + 1]
        BY <1>2, <2>1
      <3>2. infos[d] \in DiagTask
        BY <1>2
      <3>3. QED
        BY <3>1, <3>2 DEF DiagTask
    <2>5. infos' \in [Device -> DiagTask \cup {None}]
      BY <2>1, <2>3, <2>4 DEF IInv
    <2>6. Keeps(th, infos, infos')
      BY <2>4 DEF Keeps
    <2>7. UnderTest([th EXCEPT !.pc = pc], infos')
      <3>1. [th EXCEPT !.pc = pc].todo = th.todo /\ [th EXCEPT !.pc = pc].i = th.i
        BY <1>2 DEF Thread
      <3>2. infos'[Min(th.todo)].list = infos[Min(th.todo)].list
        BY <1>2, <2>4
      <3>3. infos[Min(th.todo)].list \in Seq(Range(TypeSeq)) /\ th.i \in Nat
        BY <1>2 DEF DiagTask, Thread
      <3>4. th.i <= Len(infos[Min(th.todo)].list)
            /\ (infos[Min(th.todo)].list[th.i] = "ALL_TO_ALL" => Min(th.todo) = 0)
        BY <1>2, <1>4, <3>3 DEF WholeTest, NoType, Type, Info
      <3>5. QED
        BY <3>1, <3>2, <3>4 DEF UnderTest
    <2>8. Good(t, [th EXCEPT !.pc = pc], infos', stress)
      BY <1>1, <1>2, <2>4, <2>6, <2>7, StayGood
    <2>9. QED
      BY <1>1, <2>2, <2>3, <2>5, <2>8, OneThread
  <1>5. QED
    BY <1>3, <1>4

LEMMA EndTestInv ==
    ASSUME IInv, NEW t \in 1..MaxRuns, EndTest(t)
    PROVE  IInv'
  <1> DEFINE th == thread[t]
             S == IF WholeTest(t) THEN Device ELSE {Current(t)}
  <1>1. th # None /\ th.pc \in {"run", "unsupported"} /\ UNCHANGED <<asked, stress>>
    BY DEF EndTest, At
  <1>2. /\ Good(t, th, infos, stress) /\ th \in Thread
        /\ Current(t) = Min(th.todo) /\ Current(t) \in Claimed(th)
        /\ Claimed(th) \subseteq Device
        /\ \A d \in Claimed(th) : infos[d] \in DiagTask
        /\ WholeTest(t) /\ Current(t) = 0 => Claimed(th) = Device
    BY <1>1, AtDevice
  <1>3. th.i <= Len(infos[Current(t)].list) /\ (WholeTest(t) => Current(t) = 0)
    BY <1>1, <1>2 DEF Good, UnderTest, WholeTest, Type, Info
  <1>4. S \subseteq Claimed(th)
    BY <1>2, <1>3
  <1>5. Results(Type(t)) \subseteq {"PASS", "FAIL"}
    <2>1. infos[Current(t)].list \in Seq(Types) /\ th.i \in Nat \ {0}
      BY <1>2 DEF DiagTask, Thread, Types
    <2>2. infos[Current(t)].list[th.i] \in Types
      BY <1>3, <2>1
    <2>3. QED
      BY <2>2, ResultsType DEF Type, Info
  <1>6. PICK o \in [S -> IF At(t, "run") THEN Results(Type(t)) ELSE {"FAIL"}] :
          infos' = [d \in Device |-> IF d \in S THEN Record(d, th.i, o[d]) ELSE infos[d]]
    BY DEF EndTest
  <1>7. \A d \in S : o[d] \in {"PASS", "FAIL"}
    BY <1>5, <1>6
  <1>8. thread' = [thread EXCEPT ![t] = AfterTo(th)]
    BY AfterTestTo DEF EndTest
  <1>9. \A d \in Device \ Claimed(th) : infos'[d] = infos[d]
    BY <1>4, <1>6
  <1>10. ASSUME NEW d \in Claimed(th)
         PROVE  /\ infos'[d] \in DiagTask /\ infos'[d].list = infos[d].list
                /\ infos'[d].run = infos[d].run /\ infos'[d].finished = infos[d].finished
    <2>1. infos[d] \in DiagTask /\ d \in Device /\ th.i \in Nat
      BY <1>2 DEF Thread
    <2>2. CASE d \in S
      <3>1. infos'[d] = [infos[d] EXCEPT !.comp[th.i] = o[d]]
        BY <1>6, <2>1, <2>2 DEF Record
      <3>2. QED
        BY <1>7, <2>1, <2>2, <3>1, RecordTask
    <2>3. CASE d \notin S
      BY <1>6, <2>1, <2>3
    <2>4. QED
      BY <2>2, <2>3
  <1>11. infos' \in [Device -> DiagTask \cup {None}]
    <2>1. \A d \in Device : infos'[d] \in DiagTask \cup {None}
      BY <1>9, <1>10 DEF IInv
    <2>2. QED
      BY <1>6, <2>1
  <1>12. Keeps(th, infos, infos')
    BY <1>10 DEF Keeps
  <1>13. Good(t, AfterTo(th), infos', stress)
    BY <1>1, <1>2, <1>10, <1>12, AfterGood
  <1>14. QED
    BY <1>1, <1>8, <1>9, <1>11, <1>13, OneThread

LEMMA FinishTaskInv ==
    ASSUME IInv, NEW t \in 1..MaxRuns, FinishTask(t)
    PROVE  IInv'
  <1> DEFINE th == thread[t]
  <1>1. th # None /\ th.pc = "finish" /\ UNCHANGED <<asked, stress>>
    BY DEF FinishTask, At
  <1>2. /\ Good(t, th, infos, stress) /\ th \in Thread
        /\ Current(t) = Min(th.todo) /\ Current(t) \in Claimed(th)
        /\ Claimed(th) \subseteq Device
        /\ \A d \in Claimed(th) : infos[d] \in DiagTask
    BY <1>1, AtDevice
  <1>3. th.i = th.cnt
    BY <1>1, <1>2 DEF Good
  <1>4. thread' = [thread EXCEPT ![t] = AdvanceTo(th)]
    BY DEF FinishTask, Advance, AdvanceTo, Current
  <1>5. /\ infos' = [infos EXCEPT ![Current(t)] = [infos[Current(t)] EXCEPT !.finished = TRUE]]
        /\ infos \in [Device -> DiagTask \cup {None}]
    BY DEF FinishTask, IInv
  <1>6. [infos[Current(t)] EXCEPT !.finished = TRUE] \in DiagTask
    BY <1>2 DEF DiagTask
  <1>7. infos' \in [Device -> DiagTask \cup {None}]
    BY <1>5, <1>6
  <1>8. \A d \in Device \ {Current(t)} : infos'[d] = infos[d]
    BY <1>5
  <1>9. Keeps(th, infos, infos')
    <2> SUFFICES ASSUME NEW d \in Claimed(th)
                 PROVE  /\ infos'[d] \in DiagTask /\ infos'[d].list = infos[d].list
                        /\ infos'[d].run = infos[d].run
                        /\ infos'[d].finished = infos[d].finished
                           \/ (d = Min(th.todo) /\ th.i = th.cnt)
      BY DEF Keeps
    <2>1. CASE d # Current(t)
      BY <1>2, <1>8, <2>1
    <2>2. CASE d = Current(t)
      <3>1. infos'[d] = [infos[d] EXCEPT !.finished = TRUE]
        BY <1>2, <1>5, <2>2
      <3>2. infos[d] \in DiagTask
        BY <1>2
      <3>3. QED
        BY <1>2, <1>3, <1>6, <2>2, <3>1, <3>2 DEF DiagTask
    <2>3. QED
      BY <2>1, <2>2
  <1>10. Good(t, AdvanceTo(th), infos', stress)
    BY <1>1, <1>2, <1>9, AdvanceGood
  <1>11. QED
    BY <1>1, <1>2, <1>4, <1>7, <1>8, <1>10, OneThread

\* A stress test starts on devices that no thread claims.
LEMMA StressInv ==
    ASSUME IInv, NEW S \in SUBSET Device, runStress(S)
    PROVE  IInv'
  <1>1. UNCHANGED <<infos, thread, asked>> /\ stress' = stress \cup S
        /\ \A d \in S : ~Running(d)
    BY DEF runStress
  <1>2. ASSUME NEW t \in 1..MaxRuns PROVE Good(t, thread[t], infos, stress')
    <2>1. Good(t, thread[t], infos, stress)
      BY DEF IInv
    <2>2. ASSUME thread[t] # None, NEW d \in Claimed(thread[t]) PROVE d \notin stress'
      <3>1. infos[d] \in DiagTask /\ ~infos[d].finished /\ d \notin stress
        BY <2>1, <2>2 DEF Good, Mine
      <3>2. QED
        BY <1>1, <3>1, NoTaskAssumption DEF Running
    <2>3. QED
      BY <2>1, <2>2, OthersGood
  <1>3. QED
    BY <1>1, <1>2 DEF IInv, Runs

LEMMA StepInv == IInv /\ [Next]_vars => IInv'
  <1> SUFFICES ASSUME IInv, [Next]_vars PROVE IInv'
    OBVIOUS
  <1>1. ASSUME RunDiagnostics PROVE IInv'
    <2>1. PICK q \in Requests :
            \/ runDiagnosticsCore(Device, q)
            \/ /\ q.level # 0 \/ \A i \in 1..Len(q.types) : q.types[i] # "ALL_TO_ALL"
               /\ \E d \in Device : runDiagnosticsCore({d}, q)
      BY <1>1 DEF RunDiagnostics
    <2>2. CASE runDiagnosticsCore(Device, q)
      BY <2>2, RequestInv, DiagnosticAssumption
    <2>3. CASE /\ q.level # 0 \/ \A i \in 1..Len(q.types) : q.types[i] # "ALL_TO_ALL"
               /\ \E d \in Device : runDiagnosticsCore({d}, q)
      <3>1. PICK d \in Device : runDiagnosticsCore({d}, q)
        BY <2>3
      <3>2. {d} \in SUBSET Device /\ {d} # {}
        OBVIOUS
      <3>3. QED
        BY <2>3, <3>1, <3>2, RequestInv
    <2>4. QED
      BY <2>1, <2>2, <2>3
  <1>2. ASSUME RunStress PROVE IInv'
    <2>1. CASE runStress(Device)
      BY <2>1, StressInv
    <2>2. ASSUME NEW d \in Device, runStress({d}) PROVE IInv'
      BY <2>2, StressInv
    <2>3. QED
      BY <1>2, <2>1, <2>2 DEF RunStress
  <1>3. ASSUME UNCHANGED <<infos, thread, asked, stress>> PROVE IInv'
    BY <1>3 DEF IInv, Runs
  <1>4. ASSUME NEW d \in Device, stressThreadFunc(d) PROVE IInv'
    <2>1. UNCHANGED <<infos, thread, asked>> /\ stress' \subseteq stress
      BY <1>4 DEF stressThreadFunc
    <2>2. ASSUME NEW t \in 1..MaxRuns PROVE Good(t, thread[t], infos, stress')
      <3>1. Good(t, thread[t], infos, stress)
        BY DEF IInv
      <3>2. thread[t] # None => \A e \in Claimed(thread[t]) : e \notin stress'
        BY <2>1, <3>1 DEF Good, Mine
      <3>3. QED
        BY <3>1, <3>2, OthersGood
    <2>3. QED
      BY <2>1, <2>2 DEF IInv, Runs
  <1>5. ASSUME NEW t \in 1..MaxRuns, doDiagnosticCore(t) PROVE IInv'
    <2>1. CASE TestTerminates(t)
      BY <1>3, <2>1 DEF TestTerminates
    <2>2. QED
      BY <1>5, <2>1, ReadTargetCntInv, BeginTestInv, EndTestInv, FinishTaskInv
         DEF doDiagnosticCore
  <1>6. ASSUME GetDiagnosticsResult PROVE IInv'
    BY <1>3, <1>6 DEF GetDiagnosticsResult, ReadBegin, ReadEnd
  <1>7. CASE UNCHANGED vars
    BY <1>3, <1>7 DEF vars
  <1>8. QED
    BY <1>1, <1>2, <1>4, <1>5, <1>6, <1>7 DEF Next, Over

----
\* The devices a thread has claimed stay its own in every state.
THEOREM Invariance == DiagnosticSpec => []IInv
  BY InitInv, StepInv, PTL DEF DiagnosticSpec

\* What a thread tests it has claimed.
LEMMA TestsClaimed ==
    ASSUME IInv, NEW t \in 1..MaxRuns, NEW d \in Testing(t)
    PROVE  thread[t] # None /\ d \in Claimed(thread[t]) /\ d \notin stress
  <1>1. At(t, "run")
    BY DEF Testing
  <1>2. thread[t] # None /\ thread[t].pc = "run"
    BY <1>1 DEF At
  <1>3. /\ Good(t, thread[t], infos, stress)
        /\ Current(t) = Min(thread[t].todo) /\ Current(t) \in Claimed(thread[t])
        /\ WholeTest(t) /\ Current(t) = 0 => Claimed(thread[t]) = Device
    BY <1>2, AtDevice
  <1>4. WholeTest(t) => Current(t) = 0
    BY <1>2, <1>3 DEF Good, UnderTest, WholeTest, Type, Info
  <1>5. d \in Claimed(thread[t])
    BY <1>1, <1>3, <1>4 DEF Testing
  <1>6. QED
    BY <1>2, <1>3, <1>5 DEF Good, Mine

\* For any GPUs, requests and stress tests: no GPU is under two tests.
THEOREM TestsExclusive == DiagnosticSpec => []OneTestPerDevice
  <1>1. IInv => OneTestPerDevice
    <2> SUFFICES ASSUME IInv, NEW d \in Device
                 PROVE  Cardinality({t \in 1..MaxRuns : d \in Testing(t)})
                          + Cardinality(stress \cap {d}) <= 1
      BY DEF OneTestPerDevice
    <2> DEFINE T == {t \in 1..MaxRuns : d \in Testing(t)}
    <2>1. Cardinality({}) = 0 /\ \A x : Cardinality({x}) = 1
      BY FS_EmptySet, FS_Singleton
    <2>2. CASE T = {}
      <3>1. stress \cap {d} = {} \/ stress \cap {d} = {d}
        OBVIOUS
      <3>2. Cardinality(stress \cap {d}) \in {0, 1}
        BY <2>1, <3>1
      <3>3. Cardinality(T) = 0
        BY <2>1, <2>2
      <3> HIDE DEF T
      <3>4. Cardinality(T) + Cardinality(stress \cap {d}) <= 1
        BY <3>2, <3>3
      <3>5. QED
        BY <3>4 DEF T
    <2>3. CASE T # {}
      <3>1. PICK t \in 1..MaxRuns : d \in Testing(t)
        BY <2>3
      <3>2. thread[t] # None /\ d \in Claimed(thread[t]) /\ d \notin stress
        BY <3>1, TestsClaimed
      <3>3. ASSUME NEW u \in T PROVE u = t
        <4>1. thread[u] # None /\ d \in Claimed(thread[u])
          BY TestsClaimed
        <4>2. QED
          BY <3>2, <4>1, ClaimsApart
      <3>4. T = {t} /\ stress \cap {d} = {}
        BY <3>1, <3>2, <3>3
      <3>5. Cardinality(T) = 1 /\ Cardinality(stress \cap {d}) = 0
        BY <2>1, <3>4
      <3> HIDE DEF T
      <3>6. Cardinality(T) + Cardinality(stress \cap {d}) <= 1
        BY <3>5
      <3>7. QED
        BY <3>6 DEF T
    <2>4. QED
      BY <2>2, <2>3
  <1>2. QED
    BY <1>1, Invariance, PTL
====
