---- MODULE FirmwareFlashProofs ----
(***************************************************************************)
(* Proofs about firmware flashing, for any number of devices and calling   *)
(* threads, any build-in groups and any mix of the four kinds of flash.    *)
(***************************************************************************)
EXTENDS FirmwareFlash, TLAPS, FiniteSetTheorems, NaturalsInduction,
        WellFoundedInduction

Held(S, o) == \A d \in S : holder[d] = o

\* What the record of a call says by itself.
Shape(c) ==
  /\ c \in Calls /\ c.todo \subseteq c.list
  /\ c.pc # "idle" => c.todo # {}
  /\ c.pc \in {"lock", "check", "start"} =>
       c.kind # "PSC" /\ (c.kind = "AMC" => c.list = Device)
  /\ c.pc = "check" => c.todo = c.list
  /\ c.pc = "start" /\ c.kind = "AMC" => c.todo = Device
  /\ c.pc \in {"psc", "pscFlash"} => c.kind = "PSC"
  /\ c.pc = "scan" => c.kind \in {"GFX", "DATA"}
  /\ c.pc \in {"test", "get"} /\ c.kind = "AMC" => c.todo = {Min(Device)}
  /\ c.failed => c.pc \in {"idle", "test", "get"} /\ c.res # "OK"
  /\ c.failed /\ c.pc # "idle" => c.kind \in {"GFX", "DATA"}

Shapes == \A p \in Procs : Shape(call[p])

\* A call owns the locks it has taken and not handed over.
CallHolds ==
  \A p \in Procs :
    /\ call[p].pc = "lock" => Held(call[p].list \ call[p].todo, p)
    /\ call[p].pc \in {"check", "start"} => Held(call[p].todo, p)
    /\ call[p].pc = "pscFlash" =>
         holder[Next1(p)] = "PSC" /\ task["PSC"][Next1(p)] # "flashing"

\* A task owns the lock of its device while it flashes.
TaskHolds == \A k \in Kinds, d \in Device : task[k][d] = "flashing" => holder[d] = k

\* The AMC future stands at every device at once.
AmcTogether == \A d, e \in Device : task["AMC"][d] = task["AMC"][e]

\* Two threads are never both about to start the PSC flash of one device.
PscAlone ==
  \A p, q \in Procs :
    p # q /\ call[p].pc = "pscFlash" /\ call[q].pc = "pscFlash" => Next1(p) # Next1(q)

\* What the check has seen stays so until the task is started.
StartsFresh ==
  \A p \in Procs :
    call[p].pc = "start" /\ call[p].kind \in {"GFX", "DATA"} =>
      \A d \in call[p].todo : ~Valid(call[p].kind, d)

\* FirmwareManager::mtx: one thread at a time polls the data task.
DataPollAlone == \A p, q \in Procs : Polling(p, "DATA") /\ Polling(q, "DATA") => p = q

IInv ==
  /\ TypeOK /\ Shapes /\ LockAccounted /\ CallHolds /\ TaskHolds /\ AmcTogether
  /\ PscAlone /\ StartsFresh /\ DataPollAlone /\ DataGetSafe

----
\* Facts about the operators of the model.

\* The loop's next device: the smallest of a nonempty set is one of its members.
LEMMA MinIn ==
    ASSUME NEW S \in SUBSET Nat, S # {}
    PROVE  Min(S) \in S
  <1> DEFINE R == OpToRel(<, Nat)
  <1>1. \E x \in S : \A y \in S : ~(<<y, x>> \in R)
    <2> HIDE DEF R
    <2>1. IsWellFoundedOn(R, Nat)
      BY NatLessThanWellFounded DEF R
    <2>2. QED
      BY <2>1, WFMin
  <1>2. PICK x \in S : \A y \in S : ~(<<y, x>> \in R)
    BY <1>1
  <1>3. \A y \in S : x <= y
    <2>1. R = {ss \in Nat \X Nat : ss[1] < ss[2]}
      BY DEF OpToRel
    <2> HIDE DEF R
    <2> TAKE y \in S
    <2>2. y < x => <<y, x>> \in R
      BY <2>1
    <2>3. QED
      BY <1>2, <2>2
  <1>4. QED
    BY <1>3 DEF Min

LEMMA NextIn ==
    ASSUME Shapes, NEW p \in Procs, call[p].pc # "idle"
    PROVE  /\ Next1(p) \in call[p].todo /\ Next1(p) \in call[p].list
           /\ Next1(p) \in Device
           /\ Rest(p) \subseteq call[p].todo /\ Rest(p) \subseteq Device
           /\ Next1(p) \notin Rest(p)
  <1>1. call[p].todo \subseteq Device /\ call[p].todo # {} /\ call[p].todo \subseteq call[p].list
    BY DEF Shapes, Shape, Calls
  <1>2. Next1(p) \in call[p].todo
    BY <1>1, MinIn, FlashAssumption DEF Next1
  <1>3. QED
    BY <1>1, <1>2 DEF Rest

LEMMA IdleShape ==
    ASSUME NEW r \in Results, NEW f \in BOOLEAN, f => r # "OK"
    PROVE  Shape(Idle(r, f)) /\ Idle(r, f).pc = "idle"
  BY DEF Shape, Idle, Calls, Results, Steps, Kinds

\* The loop of p has moved on, or has ended at step `then`.
LEMMA AdvanceShape ==
    ASSUME NEW p \in Procs, NEW then \in {"check", "idle", "test"}, Shapes,
           call[p].pc \in {"lock", "start", "scan", "pscFlash"},
           call[p].pc = "lock" => then = "check",
           call[p].pc \in {"start", "pscFlash"} => then = "idle",
           call[p].pc = "scan" => then = "test" /\ call[p].kind \in {"GFX", "DATA"},
           call[p].pc = "start" => call[p].kind # "AMC",
           NEW o \in BOOLEAN, NEW c \in Calls, c = [call[p] EXCEPT !.ongoing = o]
    PROVE  Shape(Advance(p, then, c))
  <1>1. Shape(call[p]) /\ call[p] \in Calls
    BY DEF Shapes, Shape
  <1>2. /\ c.pc = call[p].pc /\ c.todo = call[p].todo /\ c.list = call[p].list
        /\ c.kind = call[p].kind /\ c.res = call[p].res /\ c.failed = call[p].failed
        /\ ~c.failed
    BY <1>1 DEF Shape, Calls
  <1>3. Rest(p) \subseteq c.todo /\ Rest(p) \subseteq Device
    BY <1>2, NextIn
  <1>4. CASE Rest(p) # {}
    <2>1. Advance(p, then, c) = [c EXCEPT !.todo = Rest(p)]
      BY <1>4 DEF Advance
    <2>2. [c EXCEPT !.todo = Rest(p)] \in Calls
      BY <1>3 DEF Calls
    <2>3. QED
      BY <1>1, <1>2, <1>3, <1>4, <2>1, <2>2 DEF Shape, Calls
  <1>5. CASE Rest(p) = {} /\ then = "idle"
    BY <1>5, IdleShape DEF Advance, Results
  <1>6. CASE Rest(p) = {} /\ then # "idle"
    <2>1. Advance(p, then, c) = [c EXCEPT !.todo = c.list, !.pc = then]
      BY <1>6 DEF Advance
    <2>2. [c EXCEPT !.todo = c.list, !.pc = then] \in Calls
      BY DEF Calls, Steps
    <2>3. c.list # {}
      BY <1>1, <1>2 DEF Shape
    <2>4. QED
      BY <1>1, <1>2, <1>6, <2>1, <2>2, <2>3 DEF Shape, Calls
  <1>7. QED
    BY <1>4, <1>5, <1>6

\* One call changes, all others stay.
LEMMA OneCall ==
    ASSUME call \in [Procs -> Calls], NEW p \in Procs, NEW c,
           call' = [call EXCEPT ![p] = c], Shapes, Shape(c)
    PROVE  /\ call' \in [Procs -> Calls] /\ Shapes'
           /\ call'[p] = c /\ \A q \in Procs \ {p} : call'[q] = call[q]
  <1>1. \A q \in Procs : call'[q] = IF q = p THEN c ELSE call[q]
    OBVIOUS
  <1>2. \A q \in Procs : Shape(call'[q])
    BY <1>1 DEF Shapes
  <1>3. c \in Calls
    BY DEF Shape
  <1>4. QED
    BY <1>1, <1>2, <1>3 DEF Shapes

----
\* The steps.  The lemmas are about what a step does to the locks and the tasks.

\* A call begins, moves on or returns while it holds no lock.
LEMMA QuietStep ==
    ASSUME IInv, NEW p \in Procs, NEW c,
           call' = [call EXCEPT ![p] = c], Shape(c),
           UNCHANGED <<holder, task, ended>>,
           call[p].pc \notin {"lock", "check", "start"},
           c.pc \in {"idle", "lock", "psc", "scan", "test", "get"},
           c.pc = "lock" => c.todo = c.list,
           c.pc \in {"scan", "test", "get"} /\ c.kind = "DATA" =>
             Polling(p, "DATA") \/ \A q \in Procs : ~Polling(q, "DATA"),
           c.pc = "get" /\ c.kind = "DATA" => task["DATA"][Min(c.todo)] \in Ready
    PROVE  IInv'
  <1>1. /\ call' \in [Procs -> Calls] /\ Shapes'
        /\ call'[p] = c /\ \A q \in Procs \ {p} : call'[q] = call[q]
    BY OneCall DEF IInv, TypeOK
  <1>2. TypeOK'
    BY <1>1 DEF IInv, TypeOK
  <1>3. LockAccounted'
    <2> SUFFICES ASSUME NEW d \in Device, holder[d] \notin {Nobody, "PSC"},
                        ~(holder[d] \in Kinds /\ task[holder[d]][d] = "flashing")
                 PROVE  /\ holder[d] \in Procs
                        /\ \/ call'[holder[d]].pc = "lock" /\ d \in call'[holder[d]].list \ call'[holder[d]].todo
                           \/ call'[holder[d]].pc \in {"check", "start"} /\ d \in call'[holder[d]].todo
      BY DEF LockAccounted
    <2>1. /\ holder[d] \in Procs
          /\ \/ call[holder[d]].pc = "lock" /\ d \in call[holder[d]].list \ call[holder[d]].todo
             \/ call[holder[d]].pc \in {"check", "start"} /\ d \in call[holder[d]].todo
      BY DEF IInv, LockAccounted
    <2>2. holder[d] # p
      BY <2>1
    <2>3. QED
      BY <1>1, <2>1, <2>2
  <1>4. CallHolds'
    <2> SUFFICES ASSUME NEW q \in Procs
                 PROVE  /\ call'[q].pc = "lock" => Held(call'[q].list \ call'[q].todo, q)
                        /\ call'[q].pc \in {"check", "start"} => Held(call'[q].todo, q)
                        /\ call'[q].pc = "pscFlash" =>
                             holder[Min(call'[q].todo)] = "PSC" /\ task["PSC"][Min(call'[q].todo)] # "flashing"
      BY DEF CallHolds, Held, Next1
    <2>1. CASE q = p
      BY <1>1, <2>1 DEF Held
    <2>2. CASE q # p
      BY <1>1, <2>2 DEF IInv, CallHolds, Next1
    <2>3. QED
      BY <2>1, <2>2
  <1>5. TaskHolds' /\ AmcTogether'
    BY DEF IInv, TaskHolds, AmcTogether
  <1>6. PscAlone'
    <2> SUFFICES ASSUME NEW q \in Procs, NEW r \in Procs, q # r,
                        call'[q].pc = "pscFlash", call'[r].pc = "pscFlash"
                 PROVE  Min(call'[q].todo) # Min(call'[r].todo)
      BY DEF PscAlone, Next1
    <2>1. q # p /\ r # p
      BY <1>1
    <2>2. QED
      BY <1>1, <2>1 DEF IInv, PscAlone, Next1
  <1>7. StartsFresh'
    <2> SUFFICES ASSUME NEW q \in Procs, call'[q].pc = "start", call'[q].kind \in {"GFX", "DATA"}
                 PROVE  \A d \in call'[q].todo : task[call'[q].kind][d] = "none"
      BY DEF StartsFresh, Valid
    <2>1. q # p
      BY <1>1
    <2>2. QED
      BY <1>1, <2>1 DEF IInv, StartsFresh, Valid
  <1>8. DataPollAlone'
    <2> SUFFICES ASSUME NEW q \in Procs, NEW r \in Procs, Polling(q, "DATA")', Polling(r, "DATA")'
                 PROVE  q = r
      BY DEF DataPollAlone
    <2>1. CASE q # p /\ r # p
      BY <1>1, <2>1 DEF IInv, DataPollAlone, Polling
    <2>2. CASE q = p /\ r # p
      BY <1>1, <2>2 DEF IInv, DataPollAlone, Polling
    <2>3. CASE q # p /\ r = p
      BY <1>1, <2>3 DEF IInv, DataPollAlone, Polling
    <2>4. QED
      BY <2>1, <2>2, <2>3
  <1>9. DataGetSafe'
    <2> SUFFICES ASSUME NEW q \in Procs, call'[q].pc = "get", call'[q].kind = "DATA"
                 PROVE  task["DATA"][Min(call'[q].todo)] \in Ready
      BY DEF DataGetSafe, Next1
    <2>1. CASE q = p
      BY <1>1, <2>1
    <2>2. CASE q # p
      BY <1>1, <2>2 DEF IInv, DataGetSafe, Next1
    <2>3. QED
      BY <2>1, <2>2
  <1>10. QED
    BY <1>1, <1>2, <1>3, <1>4, <1>5, <1>6, <1>7, <1>8, <1>9 DEF IInv

\* The locks that a call of one of the three loops holds.
Mine(p) == IF call[p].pc = "lock" THEN call[p].list \ call[p].todo ELSE call[p].todo

\* It holds them, and no others.
LEMMA MineExact ==
    ASSUME IInv, NEW p \in Procs, call[p].pc \in {"lock", "check", "start"}
    PROVE  Mine(p) \subseteq Device /\ \A d \in Device : holder[d] = p <=> d \in Mine(p)
  <1>1. Mine(p) \subseteq Device
    BY DEF IInv, Shapes, Shape, Calls, Mine
  <1>2. \A d \in Mine(p) : holder[d] = p
    BY DEF IInv, CallHolds, Held, Mine
  <1>3. ASSUME NEW d \in Device, holder[d] = p PROVE d \in Mine(p)
    <2>1. p \notin Kinds /\ p # Nobody /\ p # "PSC"
      BY FlashAssumption DEF Kinds
    <2>2. QED
      BY <1>3, <2>1 DEF IInv, LockAccounted, Mine
  <1>4. QED
    BY <1>1, <1>2, <1>3

\* A call that is refused gives back what it holds and returns.
LEMMA ReleaseStep ==
    ASSUME IInv, NEW p \in Procs, NEW r \in Results,
           call[p].pc \in {"lock", "check", "start"},
           Unlock(Mine(p)), Return(p, r), UNCHANGED <<task, ended>>
    PROVE  IInv'
  <1> DEFINE c == Idle(r, FALSE)
  <1>1. /\ call' \in [Procs -> Calls] /\ Shapes'
        /\ call'[p] = c /\ \A q \in Procs \ {p} : call'[q] = call[q]
    BY OneCall, IdleShape DEF IInv, TypeOK, Return
  <1>2. c.pc = "idle"
    BY DEF Idle
  <1> HIDE DEF c
  <1>3. \A d \in Device : holder'[d] = IF holder[d] = p THEN Nobody ELSE holder[d]
    BY MineExact DEF Unlock
  <1>4. p \notin Kinds /\ Nobody \notin Kinds /\ Nobody \notin Procs /\ "PSC" \in Kinds
    BY FlashAssumption DEF Kinds
  <1>5. TypeOK'
    BY <1>1 DEF IInv, TypeOK, Unlock
  <1>6. LockAccounted'
    <2> SUFFICES ASSUME NEW d \in Device, holder'[d] \notin {Nobody, "PSC"},
                        ~(holder'[d] \in Kinds /\ task[holder'[d]][d] = "flashing")
                 PROVE  /\ holder'[d] \in Procs
                        /\ \/ call'[holder'[d]].pc = "lock" /\ d \in call'[holder'[d]].list \ call'[holder'[d]].todo
                           \/ call'[holder'[d]].pc \in {"check", "start"} /\ d \in call'[holder'[d]].todo
      BY DEF LockAccounted
    <2>1. holder'[d] = holder[d] /\ holder[d] # p
      BY <1>3
    <2>2. /\ holder[d] \in Procs
          /\ \/ call[holder[d]].pc = "lock" /\ d \in call[holder[d]].list \ call[holder[d]].todo
             \/ call[holder[d]].pc \in {"check", "start"} /\ d \in call[holder[d]].todo
      BY <2>1 DEF IInv, LockAccounted
    <2>3. QED
      BY <1>1, <2>1, <2>2
  <1>7. CallHolds'
    <2> SUFFICES ASSUME NEW q \in Procs
                 PROVE  /\ call'[q].pc = "lock" => \A d \in call'[q].list \ call'[q].todo : holder'[d] = q
                        /\ call'[q].pc \in {"check", "start"} => \A d \in call'[q].todo : holder'[d] = q
                        /\ call'[q].pc = "pscFlash" =>
                             holder'[Min(call'[q].todo)] = "PSC" /\ task["PSC"][Min(call'[q].todo)] # "flashing"
      BY DEF CallHolds, Held, Next1
    <2>1. CASE q = p
      BY <1>1, <1>2, <2>1
    <2>2. CASE q # p
      <3>1. call'[q] = call[q]
        BY <1>1, <2>2
      <3>2. call[q].todo \subseteq Device /\ call[q].list \subseteq Device
        BY DEF IInv, Shapes, Shape, Calls
      <3>3. call[q].pc = "lock" => \A d \in call[q].list \ call[q].todo : holder'[d] = q
        BY <1>3, <2>2, <3>1, <3>2 DEF IInv, CallHolds, Held
      <3>4. call[q].pc \in {"check", "start"} => \A d \in call[q].todo : holder'[d] = q
        BY <1>3, <2>2, <3>1, <3>2 DEF IInv, CallHolds, Held
      <3>5. call[q].pc = "pscFlash" => Next1(q) \in Device
        BY NextIn DEF IInv
      <3>6. QED
        BY <1>3, <1>4, <3>1, <3>3, <3>4, <3>5 DEF IInv, CallHolds, Next1
    <2>3. QED
      BY <2>1, <2>2
  <1>8. TaskHolds' /\ AmcTogether'
    BY <1>3, <1>4 DEF IInv, TaskHolds, AmcTogether
  <1>9. PscAlone'
    BY <1>1, <1>2 DEF IInv, PscAlone, Next1
  <1>10. StartsFresh'
    BY <1>1, <1>2 DEF IInv, StartsFresh, Valid
  <1>11. DataPollAlone' /\ DataGetSafe'
    BY <1>1, <1>2 DEF IInv, DataPollAlone, DataGetSafe, Polling, Next1
  <1>12. QED
    BY <1>1, <1>5, <1>6, <1>7, <1>8, <1>9, <1>10, <1>11 DEF IInv

\* tryLockDevices takes a free device: it belongs to the call, and nothing else
\* changes hands.
LEMMA TakeStep ==
    ASSUME IInv, NEW p \in Procs, At(p, "lock"), holder[Next1(p)] = Nobody,
           holder' = [holder EXCEPT ![Next1(p)] = p],
           call' = [call EXCEPT ![p] = Advance(p, "check", @)],
           UNCHANGED <<task, ended>>
    PROVE  IInv'
  <1> DEFINE c == Advance(p, "check", call[p])
  <1>0. TypeOK /\ Shapes /\ call[p].pc = "lock" /\ call[p] \in Calls
    BY DEF IInv, At, Shapes, Shape
  <1>1. Shape(c)
    <2>1. call[p] = [call[p] EXCEPT !.ongoing = call[p].ongoing] /\ call[p].ongoing \in BOOLEAN
      BY <1>0 DEF Calls
    <2>2. QED
      BY <1>0, <2>1, AdvanceShape
  <1>2. /\ call' \in [Procs -> Calls] /\ Shapes'
        /\ call'[p] = c /\ \A q \in Procs \ {p} : call'[q] = call[q]
    BY <1>0, <1>1, OneCall DEF TypeOK
  <1>3. /\ c.list = call[p].list /\ c.kind = call[p].kind
        /\ \/ c.pc = "lock" /\ c.todo = Rest(p)
           \/ c.pc = "check" /\ c.todo = call[p].list /\ Rest(p) = {}
    BY <1>0 DEF Advance, Calls
  <1> HIDE DEF c
  <1>4. /\ Next1(p) \in Device /\ Next1(p) \in call[p].todo
        /\ call[p].todo = Rest(p) \cup {Next1(p)} /\ call[p].todo \subseteq call[p].list
        /\ call[p].list \subseteq Device
    <2>1. call[p].todo \subseteq call[p].list /\ call[p].list \subseteq Device
      BY <1>0 DEF Shapes, Shape, Calls
    <2>2. QED
      BY <1>0, <2>1, NextIn DEF Rest
  <1>5. \A d \in Device : holder'[d] = IF d = Next1(p) THEN p ELSE holder[d]
    BY <1>0, <1>4 DEF TypeOK
  <1>6. p \notin Kinds /\ p # Nobody /\ Nobody \notin Kinds /\ Nobody \notin Procs /\ "PSC" \in Kinds
    BY FlashAssumption DEF Kinds
  <1>7. TypeOK'
    BY <1>0, <1>2, <1>4 DEF TypeOK
  <1>8. LockAccounted'
    <2> SUFFICES ASSUME NEW d \in Device, holder'[d] \notin {Nobody, "PSC"},
                        ~(holder'[d] \in Kinds /\ task[holder'[d]][d] = "flashing")
                 PROVE  /\ holder'[d] \in Procs
                        /\ \/ call'[holder'[d]].pc = "lock" /\ d \in call'[holder'[d]].list \ call'[holder'[d]].todo
                           \/ call'[holder'[d]].pc \in {"check", "start"} /\ d \in call'[holder'[d]].todo
      BY DEF LockAccounted
    <2>1. CASE holder'[d] = p
      <3>1. d \in call[p].list \ Rest(p)
        <4>1. CASE d = Next1(p)
          BY <1>4, <4>1 DEF Rest
        <4>2. CASE d # Next1(p)
          <5>1. holder[d] = p
            BY <1>5, <2>1, <4>2
          <5>2. d \in call[p].list \ call[p].todo
            BY <1>0, <1>6, <5>1 DEF IInv, LockAccounted
          <5>3. QED
            BY <1>4, <5>2
        <4>3. QED
          BY <4>1, <4>2
      <3>2. QED
        BY <1>2, <1>3, <2>1, <3>1
    <2>2. CASE holder'[d] # p
      <3>1. holder'[d] = holder[d]
        BY <1>5, <2>2
      <3>2. /\ holder[d] \in Procs
            /\ \/ call[holder[d]].pc = "lock" /\ d \in call[holder[d]].list \ call[holder[d]].todo
               \/ call[holder[d]].pc \in {"check", "start"} /\ d \in call[holder[d]].todo
        BY <3>1 DEF IInv, LockAccounted
      <3>3. QED
        BY <1>2, <2>2, <3>1, <3>2
    <2>3. QED
      BY <2>1, <2>2
  <1>9. CallHolds'
    <2> SUFFICES ASSUME NEW q \in Procs
                 PROVE  /\ call'[q].pc = "lock" => \A d \in call'[q].list \ call'[q].todo : holder'[d] = q
                        /\ call'[q].pc \in {"check", "start"} => \A d \in call'[q].todo : holder'[d] = q
                        /\ call'[q].pc = "pscFlash" =>
                             holder'[Min(call'[q].todo)] = "PSC" /\ task["PSC"][Min(call'[q].todo)] # "flashing"
      BY DEF CallHolds, Held, Next1
    <2>1. CASE q = p
      <3>1. \A d \in call[p].list \ Rest(p) : holder'[d] = p
        BY <1>0, <1>4, <1>5 DEF IInv, CallHolds, Held
      <3>2. QED
        BY <1>2, <1>3, <1>4, <2>1, <3>1
    <2>2. CASE q # p
      <3>1. call'[q] = call[q]
        BY <1>2, <2>2
      <3>2. call[q].todo \subseteq Device /\ call[q].list \subseteq Device
        BY <1>0 DEF Shapes, Shape, Calls
      <3>3. call[q].pc = "lock" => \A d \in call[q].list \ call[q].todo : holder'[d] = q
        BY <1>5, <1>6, <3>2 DEF IInv, CallHolds, Held
      <3>4. call[q].pc \in {"check", "start"} => \A d \in call[q].todo : holder'[d] = q
        BY <1>5, <1>6, <3>2 DEF IInv, CallHolds, Held
      <3>5. call[q].pc = "pscFlash" => Next1(q) \in Device
        BY <1>0, NextIn
      <3>6. QED
        BY <1>5, <1>6, <3>1, <3>3, <3>4, <3>5 DEF IInv, CallHolds, Next1
    <2>3. QED
      BY <2>1, <2>2
  <1>10. TaskHolds' /\ AmcTogether'
    BY <1>5, <1>6 DEF IInv, TaskHolds, AmcTogether
  <1>11. PscAlone'
    BY <1>2, <1>3 DEF IInv, PscAlone, Next1
  <1>12. StartsFresh'
    BY <1>2, <1>3 DEF IInv, StartsFresh, Valid
  <1>13. DataPollAlone' /\ DataGetSafe'
    BY <1>2, <1>3 DEF IInv, DataPollAlone, DataGetSafe, Polling, Next1
  <1>14. QED
    BY <1>2, <1>7, <1>8, <1>9, <1>10, <1>11, <1>12, <1>13 DEF IInv

\* The check has found no task: the call keeps its locks and goes on to start.
LEMMA CheckedStep ==
    ASSUME IInv, NEW p \in Procs, At(p, "check"),
           ~(call[p].kind # "AMC" /\ \E d \in call[p].list : Valid(call[p].kind, d)),
           call' = [call EXCEPT ![p].pc = "start"],
           UNCHANGED <<holder, task, ended>>
    PROVE  IInv'
  <1> DEFINE c == [call[p] EXCEPT !.pc = "start"]
  <1>0. /\ TypeOK /\ Shapes /\ call[p].pc = "check" /\ call[p] \in Calls
        /\ Shape(call[p]) /\ call[p].todo = call[p].list
    BY DEF IInv, At, Shapes, Shape
  <1>1. c \in Calls /\ c.pc = "start" /\ c.todo = call[p].todo /\ c.list = call[p].list
        /\ c.kind = call[p].kind /\ c.failed = call[p].failed /\ c.res = call[p].res
    BY <1>0 DEF Calls, Steps
  <1> HIDE DEF c
  <1>2. Shape(c)
    BY <1>0, <1>1 DEF Shape
  <1>3. call' = [call EXCEPT ![p] = c]
    BY <1>0 DEF c, TypeOK
  <1>4. /\ call' \in [Procs -> Calls] /\ Shapes'
        /\ call'[p] = c /\ \A q \in Procs \ {p} : call'[q] = call[q]
    BY <1>0, <1>2, <1>3, OneCall DEF TypeOK
  <1>5. TypeOK'
    BY <1>0, <1>4 DEF TypeOK
  <1>6. LockAccounted'
    <2> SUFFICES ASSUME NEW d \in Device, holder[d] \in Procs,
                        \/ call[holder[d]].pc = "lock" /\ d \in call[holder[d]].list \ call[holder[d]].todo
                        \/ call[holder[d]].pc \in {"check", "start"} /\ d \in call[holder[d]].todo
                 PROVE  \/ call'[holder[d]].pc = "lock" /\ d \in call'[holder[d]].list \ call'[holder[d]].todo
                        \/ call'[holder[d]].pc \in {"check", "start"} /\ d \in call'[holder[d]].todo
      BY DEF IInv, LockAccounted
    <2>1. QED
      BY <1>0, <1>1, <1>4
  <1>7. CallHolds'
    BY <1>0, <1>1, <1>4 DEF IInv, CallHolds, Held, Next1
  <1>8. TaskHolds' /\ AmcTogether'
    BY DEF IInv, TaskHolds, AmcTogether
  <1>9. PscAlone'
    BY <1>1, <1>4 DEF IInv, PscAlone, Next1
  <1>10. StartsFresh'
    BY <1>0, <1>1, <1>4 DEF IInv, StartsFresh, Valid
  <1>11. DataPollAlone' /\ DataGetSafe'
    BY <1>1, <1>4 DEF IInv, DataPollAlone, DataGetSafe, Polling, Next1
  <1>12. QED
    BY <1>4, <1>5, <1>6, <1>7, <1>8, <1>9, <1>10, <1>11 DEF IInv

\* The call starts the task on its next device and hands the lock over to it.
LEMMA StartStep ==
    ASSUME IInv, NEW p \in Procs, At(p, "start"), call[p].kind # "AMC",
           ~Valid(call[p].kind, Next1(p)), StartTask(p, "idle"), UNCHANGED ended
    PROVE  IInv'
  <1> DEFINE c == Advance(p, "idle", call[p])
             d == Next1(p)
             k == call[p].kind
  <1>0. /\ TypeOK /\ Shapes /\ call[p].pc = "start" /\ call[p] \in Calls /\ Shape(call[p])
        /\ k \in {"GFX", "DATA"}
    BY DEF IInv, At, Shapes, Shape, Calls, Kinds
  <1>1. Shape(c)
    <2>1. call[p] = [call[p] EXCEPT !.ongoing = call[p].ongoing] /\ call[p].ongoing \in BOOLEAN
      BY <1>0 DEF Calls
    <2>2. QED
      BY <1>0, <2>1, AdvanceShape
  <1>2. /\ call' \in [Procs -> Calls] /\ Shapes'
        /\ call'[p] = c /\ \A q \in Procs \ {p} : call'[q] = call[q]
    BY <1>0, <1>1, OneCall DEF TypeOK, StartTask
  <1>3. \/ c.pc = "start" /\ c.todo = Rest(p) /\ c.kind = k
        \/ c.pc = "idle" /\ Rest(p) = {}
    BY <1>0 DEF Advance, Calls, Idle
  <1>4. /\ d \in Device /\ d \in call[p].todo
        /\ call[p].todo = Rest(p) \cup {d} /\ d \notin Rest(p)
        /\ Rest(p) \subseteq Device
    BY <1>0, NextIn DEF Rest
  <1>5. holder[d] = p /\ task[k][d] = "none"
    BY <1>0, <1>4 DEF IInv, CallHolds, Held, Valid
  <1>6. k \in Kinds /\ p \notin Kinds /\ p # Nobody /\ Nobody \notin Kinds /\ "PSC" \in Kinds /\ "AMC" \in Kinds
    BY <1>0, FlashAssumption DEF Kinds
  <1>7. /\ \A x \in Device : holder'[x] = IF x = d THEN k ELSE holder[x]
        /\ \A j \in Kinds, x \in Device :
             task'[j][x] = IF j = k /\ x = d THEN "flashing" ELSE task[j][x]
    BY <1>0, <1>4, <1>6 DEF StartTask, TypeOK
  <1>8. TypeOK'
    <2>1. holder' \in [Device -> Procs \cup Kinds \cup {Nobody}]
      BY <1>0, <1>4, <1>6 DEF StartTask, TypeOK
    <2>2. task' \in [Kinds -> [Device -> TaskStates]]
      BY <1>0, <1>4, <1>6 DEF StartTask, TypeOK, TaskStates
    <2>3. QED
      BY <1>0, <1>2, <2>1, <2>2 DEF TypeOK
  <1> HIDE DEF c, d, k
  <1>9. LockAccounted'
    <2> SUFFICES ASSUME NEW x \in Device, holder'[x] \notin {Nobody, "PSC"},
                        ~(holder'[x] \in Kinds /\ task'[holder'[x]][x] = "flashing")
                 PROVE  /\ holder'[x] \in Procs
                        /\ \/ call'[holder'[x]].pc = "lock" /\ x \in call'[holder'[x]].list \ call'[holder'[x]].todo
                           \/ call'[holder'[x]].pc \in {"check", "start"} /\ x \in call'[holder'[x]].todo
      BY DEF LockAccounted
    <2>1. x # d /\ holder'[x] = holder[x]
      BY <1>6, <1>7
    <2>2. /\ holder[x] \in Procs
          /\ \/ call[holder[x]].pc = "lock" /\ x \in call[holder[x]].list \ call[holder[x]].todo
             \/ call[holder[x]].pc \in {"check", "start"} /\ x \in call[holder[x]].todo
      BY <1>7, <2>1 DEF IInv, LockAccounted
    <2>3. CASE holder[x] = p
      <3>1. x \in Rest(p)
        BY <1>0, <1>4, <2>1, <2>2, <2>3
      <3>2. QED
        BY <1>2, <1>3, <2>1, <2>2, <2>3, <3>1
    <2>4. CASE holder[x] # p
      BY <1>2, <2>1, <2>2, <2>4
    <2>5. QED
      BY <2>3, <2>4
  <1>10. CallHolds'
    <2> SUFFICES ASSUME NEW q \in Procs
                 PROVE  /\ call'[q].pc = "lock" => \A x \in call'[q].list \ call'[q].todo : holder'[x] = q
                        /\ call'[q].pc \in {"check", "start"} => \A x \in call'[q].todo : holder'[x] = q
                        /\ call'[q].pc = "pscFlash" =>
                             /\ holder'[Min(call'[q].todo)] = "PSC"
                             /\ task'["PSC"][Min(call'[q].todo)] # "flashing"
      BY DEF CallHolds, Held, Next1
    <2>1. CASE q = p
      <3>1. \A x \in Rest(p) : holder'[x] = p
        BY <1>0, <1>4, <1>7 DEF IInv, CallHolds, Held
      <3>2. QED
        BY <1>2, <1>3, <2>1, <3>1
    <2>2. CASE q # p
      <3>1. call'[q] = call[q]
        BY <1>2, <2>2
      <3>2. call[q].todo \subseteq Device /\ call[q].list \subseteq Device
        BY <1>0 DEF Shapes, Shape, Calls
      <3>3. call[q].pc = "lock" => \A x \in call[q].list \ call[q].todo : holder'[x] = q
        BY <1>5, <1>7, <2>2, <3>2 DEF IInv, CallHolds, Held
      <3>4. call[q].pc \in {"check", "start"} => \A x \in call[q].todo : holder'[x] = q
        BY <1>5, <1>7, <2>2, <3>2 DEF IInv, CallHolds, Held
      <3>5. call[q].pc = "pscFlash" => Next1(q) \in Device
        BY <1>0, NextIn
      <3>6. ASSUME call[q].pc = "pscFlash"
            PROVE  holder'[Next1(q)] = "PSC" /\ task'["PSC"][Next1(q)] # "flashing"
        <4>1. holder[Next1(q)] = "PSC" /\ task["PSC"][Next1(q)] # "flashing"
          BY <3>6 DEF IInv, CallHolds
        <4>2. Next1(q) # d
          BY <1>5, <1>6, <4>1
        <4>3. QED
          BY <1>6, <1>7, <3>5, <3>6, <4>1, <4>2
      <3>7. QED
        BY <3>1, <3>3, <3>4, <3>6 DEF Next1
    <2>3. QED
      BY <2>1, <2>2
  <1>11. TaskHolds'
    BY <1>5, <1>6, <1>7 DEF IInv, TaskHolds
  <1>12. AmcTogether'
    BY <1>0, <1>6, <1>7 DEF IInv, AmcTogether
  <1>13. PscAlone'
    BY <1>2, <1>3 DEF IInv, PscAlone, Next1
  <1>14. StartsFresh'
    <2> SUFFICES ASSUME NEW q \in Procs, call'[q].pc = "start", call'[q].kind \in {"GFX", "DATA"},
                        NEW x \in call'[q].todo
                 PROVE  task'[call'[q].kind][x] = "none"
      BY DEF StartsFresh, Valid
    <2>1. CASE q = p
      <3>1. x \in Rest(p) /\ call'[q].kind = k
        BY <1>2, <1>3, <2>1
      <3>2. x \in Device /\ x # d /\ x \in call[p].todo
        BY <1>4, <3>1
      <3>3. task[k][x] = "none"
        BY <1>0, <3>2 DEF IInv, StartsFresh, Valid, k
      <3>4. QED
        BY <1>6, <1>7, <3>1, <3>2, <3>3
    <2>2. CASE q # p
      <3>1. call'[q] = call[q]
        BY <1>2, <2>2
      <3>2. x \in Device /\ call[q].kind \in Kinds
        BY <1>0, <3>1 DEF Shapes, Shape, Calls
      <3>3. holder[x] = q /\ task[call[q].kind][x] = "none"
        BY <3>1 DEF IInv, CallHolds, Held, StartsFresh, Valid
      <3>4. QED
        BY <1>5, <1>7, <2>2, <3>1, <3>2, <3>3
    <2>3. QED
      BY <2>1, <2>2
  <1>15. DataPollAlone'
    BY <1>2, <1>3 DEF IInv, DataPollAlone, Polling
  <1>16. DataGetSafe'
    <2> SUFFICES ASSUME NEW q \in Procs, call'[q].pc = "get", call'[q].kind = "DATA"
                 PROVE  task'["DATA"][Min(call'[q].todo)] \in Ready
      BY DEF DataGetSafe, Next1
    <2>1. q # p /\ call'[q] = call[q]
      BY <1>2, <1>3
    <2>2. Next1(q) \in Device /\ task["DATA"][Next1(q)] \in Ready
      BY <1>0, <2>1, NextIn DEF IInv, DataGetSafe
    <2>3. QED
      BY <1>5, <1>7, <2>1, <2>2 DEF Next1, Ready, Kinds
  <1>17. QED
    BY <1>2, <1>8, <1>9, <1>10, <1>11, <1>12, <1>13, <1>14, <1>15, <1>16 DEF IInv

\* flashAMCFirmware starts: the locks of all devices go over to the AMC task.
LEMMA StartAmcStep ==
    ASSUME IInv, NEW p \in Procs, At(p, "start"), call[p].kind = "AMC",
           ~\E d \in Device : Valid("AMC", d),
           task' = [task EXCEPT !["AMC"] = [d \in Device |-> "flashing"]],
           holder' = [d \in Device |-> "AMC"],
           Return(p, "OK"), UNCHANGED ended
    PROVE  IInv'
  <1> DEFINE c == Idle("OK", FALSE)
  <1>0. /\ TypeOK /\ Shapes /\ call[p].pc = "start" /\ call[p].todo = Device
        /\ \A x \in Device : holder[x] = p
    BY DEF IInv, At, Shapes, Shape, CallHolds, Held
  <1>1. /\ call' \in [Procs -> Calls] /\ Shapes'
        /\ call'[p] = c /\ \A q \in Procs \ {p} : call'[q] = call[q]
    BY <1>0, OneCall, IdleShape DEF TypeOK, Return, Results
  <1>2. c.pc = "idle"
    BY DEF Idle
  <1> HIDE DEF c
  <1>3. "AMC" \in Kinds /\ "PSC" \in Kinds /\ p \notin Kinds
    BY FlashAssumption DEF Kinds
  <1>4. /\ \A x \in Device : holder'[x] = "AMC"
        /\ \A j \in Kinds, x \in Device :
             task'[j][x] = IF j = "AMC" THEN "flashing" ELSE task[j][x]
    BY <1>0, <1>3 DEF TypeOK
  <1>5. TypeOK'
    <2>1. task' \in [Kinds -> [Device -> TaskStates]]
      BY <1>0, <1>3 DEF TypeOK, TaskStates
    <2>2. QED
      BY <1>0, <1>1, <1>3, <2>1 DEF TypeOK
  <1>6. LockAccounted'
    BY <1>3, <1>4 DEF LockAccounted
  <1>7. \A q \in Procs : call'[q].pc \notin {"check", "start", "pscFlash"}
    <2> SUFFICES ASSUME NEW q \in Procs, q # p, call[q].pc \in {"check", "start", "pscFlash"}
                 PROVE  FALSE
      BY <1>1, <1>2
    <2>1. Next1(q) \in call[q].todo /\ Next1(q) \in Device
      BY <1>0, NextIn
    <2>2. QED
      BY <1>0, <1>3, <2>1 DEF IInv, CallHolds, Held
  <1>8. CallHolds'
    <2> SUFFICES ASSUME NEW q \in Procs, call'[q].pc = "lock"
                 PROVE  \A x \in call'[q].list \ call'[q].todo : holder'[x] = q
      BY <1>7 DEF CallHolds, Held
    <2>1. q # p /\ call'[q] = call[q] /\ call[q].list \subseteq Device
      BY <1>0, <1>1, <1>2 DEF Shapes, Shape, Calls
    <2>2. \A x \in call[q].list \ call[q].todo : holder[x] = q
      BY <2>1 DEF IInv, CallHolds, Held
    <2>3. QED
      BY <1>0, <2>1, <2>2
  <1>9. TaskHolds'
    <2> SUFFICES ASSUME NEW j \in Kinds, NEW x \in Device, task'[j][x] = "flashing"
                 PROVE  j = "AMC"
      BY <1>4 DEF TaskHolds
    <2>1. QED
      BY <1>0, <1>3, <1>4 DEF IInv, TaskHolds
  <1>10. AmcTogether'
    BY <1>3, <1>4 DEF AmcTogether
  <1>11. PscAlone' /\ StartsFresh'
    BY <1>7 DEF PscAlone, StartsFresh
  <1>12. DataPollAlone'
    BY <1>1, <1>2 DEF IInv, DataPollAlone, Polling
  <1>13. DataGetSafe'
    <2> SUFFICES ASSUME NEW q \in Procs, call'[q].pc = "get", call'[q].kind = "DATA"
                 PROVE  task'["DATA"][Min(call'[q].todo)] \in Ready
      BY DEF DataGetSafe, Next1
    <2>1. q # p /\ call'[q] = call[q]
      BY <1>1, <1>2
    <2>2. Next1(q) \in Device /\ task["DATA"][Next1(q)] \in Ready
      BY <1>0, <2>1, NextIn DEF IInv, DataGetSafe
    <2>3. QED
      BY <1>4, <2>1, <2>2 DEF Next1, Kinds
  <1>14. QED
    BY <1>1, <1>5, <1>6, <1>8, <1>9, <1>10, <1>11, <1>12, <1>13 DEF IInv

\* runPscFwFlash takes the lock of a free device for the PSC operation.
LEMMA PscTakeStep ==
    ASSUME IInv, NEW p \in Procs, At(p, "psc"), holder[Next1(p)] = Nobody,
           holder' = [holder EXCEPT ![Next1(p)] = "PSC"],
           call' = [call EXCEPT ![p].pc = "pscFlash"],
           UNCHANGED <<task, ended>>
    PROVE  IInv'
  <1> DEFINE c == [call[p] EXCEPT !.pc = "pscFlash"]
             d == Next1(p)
  <1>0. /\ TypeOK /\ Shapes /\ call[p].pc = "psc" /\ call[p] \in Calls
        /\ Shape(call[p]) /\ call[p].kind = "PSC" /\ d \in Device
    <2>1. TypeOK /\ Shapes /\ call[p].pc = "psc" /\ call[p] \in Calls /\ Shape(call[p])
      BY DEF IInv, At, Shapes, Shape
    <2>2. QED
      BY <2>1, NextIn DEF Shape
  <1>1. c \in Calls /\ c.pc = "pscFlash" /\ c.todo = call[p].todo /\ c.list = call[p].list
        /\ c.kind = call[p].kind /\ c.failed = call[p].failed /\ c.res = call[p].res
    BY <1>0 DEF Calls, Steps
  <1> HIDE DEF c
  <1>2. Shape(c)
    BY <1>0, <1>1 DEF Shape
  <1>3. call' = [call EXCEPT ![p] = c]
    BY <1>0 DEF c, TypeOK
  <1>4. /\ call' \in [Procs -> Calls] /\ Shapes'
        /\ call'[p] = c /\ \A q \in Procs \ {p} : call'[q] = call[q]
    BY <1>0, <1>2, <1>3, OneCall DEF TypeOK
  <1>5. "PSC" \in Kinds /\ Nobody \notin Kinds /\ Nobody \notin Procs /\ \A q \in Procs : q \notin Kinds
    BY FlashAssumption DEF Kinds
  <1>6. \A x \in Device : holder'[x] = IF x = d THEN "PSC" ELSE holder[x]
    BY <1>0 DEF TypeOK
  <1>7. TypeOK'
    BY <1>0, <1>4, <1>5 DEF TypeOK
  <1>8. Min(c.todo) = d
    BY <1>1 DEF Next1
  <1>9. holder[d] = Nobody
    OBVIOUS
  <1> HIDE DEF d
  <1>10. LockAccounted'
    <2> SUFFICES ASSUME NEW x \in Device, holder'[x] \notin {Nobody, "PSC"},
                        ~(holder'[x] \in Kinds /\ task'[holder'[x]][x] = "flashing")
                 PROVE  /\ holder'[x] \in Procs
                        /\ \/ call'[holder'[x]].pc = "lock" /\ x \in call'[holder'[x]].list \ call'[holder'[x]].todo
                           \/ call'[holder'[x]].pc \in {"check", "start"} /\ x \in call'[holder'[x]].todo
      BY DEF LockAccounted
    <2>1. holder'[x] = holder[x] /\ x # d
      BY <1>6
    <2>2. /\ holder[x] \in Procs
          /\ \/ call[holder[x]].pc = "lock" /\ x \in call[holder[x]].list \ call[holder[x]].todo
             \/ call[holder[x]].pc \in {"check", "start"} /\ x \in call[holder[x]].todo
      BY <2>1 DEF IInv, LockAccounted
    <2>3. holder[x] # p
      BY <1>0, <2>2
    <2>4. QED
      BY <1>4, <2>1, <2>2, <2>3
  <1>11. CallHolds'
    <2> SUFFICES ASSUME NEW q \in Procs
                 PROVE  /\ call'[q].pc = "lock" => \A x \in call'[q].list \ call'[q].todo : holder'[x] = q
                        /\ call'[q].pc \in {"check", "start"} => \A x \in call'[q].todo : holder'[x] = q
                        /\ call'[q].pc = "pscFlash" =>
                             /\ holder'[Min(call'[q].todo)] = "PSC"
                             /\ task'["PSC"][Min(call'[q].todo)] # "flashing"
      BY DEF CallHolds, Held, Next1
    <2>1. CASE q = p
      <3>1. task["PSC"][d] # "flashing"
        BY <1>0, <1>5, <1>9 DEF IInv, TaskHolds
      <3>2. QED
        BY <1>0, <1>1, <1>4, <1>6, <1>8, <2>1, <3>1
    <2>2. CASE q # p
      <3>1. call'[q] = call[q]
        BY <1>4, <2>2
      <3>2. call[q].todo \subseteq Device /\ call[q].list \subseteq Device
        BY <1>0 DEF Shapes, Shape, Calls
      <3>3. call[q].pc = "lock" => \A x \in call[q].list \ call[q].todo : holder'[x] = q
        BY <1>5, <1>6, <1>9, <3>2 DEF IInv, CallHolds, Held
      <3>4. call[q].pc \in {"check", "start"} => \A x \in call[q].todo : holder'[x] = q
        BY <1>5, <1>6, <1>9, <3>2 DEF IInv, CallHolds, Held
      <3>5. ASSUME call[q].pc = "pscFlash"
            PROVE  holder'[Next1(q)] = "PSC" /\ task["PSC"][Next1(q)] # "flashing"
        <4>1. holder[Next1(q)] = "PSC" /\ task["PSC"][Next1(q)] # "flashing" /\ Next1(q) \in Device
          BY <1>0, <3>5, NextIn DEF IInv, CallHolds
        <4>2. QED
          BY <1>6, <4>1
      <3>6. QED
        BY <3>1, <3>3, <3>4, <3>5 DEF Next1
    <2>3. QED
      BY <2>1, <2>2
  <1>12. TaskHolds' /\ AmcTogether'
    BY <1>5, <1>6, <1>9 DEF IInv, TaskHolds, AmcTogether
  <1>13. PscAlone'
    <2> SUFFICES ASSUME NEW q \in Procs, NEW r \in Procs, q # r,
                        call'[q].pc = "pscFlash", call'[r].pc = "pscFlash"
                 PROVE  Min(call'[q].todo) # Min(call'[r].todo)
      BY DEF PscAlone, Next1
    <2>1. ASSUME NEW u \in Procs \ {p}, call'[u].pc = "pscFlash"
          PROVE  Min(call'[u].todo) # d
      <3>1. call'[u] = call[u] /\ holder[Next1(u)] = "PSC"
        BY <1>4, <2>1 DEF IInv, CallHolds
      <3>2. QED
        BY <1>5, <1>9, <3>1 DEF Next1
    <2>2. CASE q # p /\ r # p
      BY <1>4, <2>2 DEF IInv, PscAlone, Next1
    <2>3. CASE q = p \/ r = p
      BY <1>4, <1>8, <2>1, <2>3
    <2>4. QED
      BY <2>2, <2>3
  <1>14. StartsFresh'
    BY <1>1, <1>4 DEF IInv, StartsFresh, Valid
  <1>15. DataPollAlone' /\ DataGetSafe'
    BY <1>1, <1>4 DEF IInv, DataPollAlone, DataGetSafe, Polling, Next1
  <1>16. QED
    BY <1>4, <1>7, <1>10, <1>11, <1>12, <1>13, <1>14, <1>15 DEF IInv

\* flashPscFw starts the task; the lock is already the operation's.
LEMMA PscStartStep ==
    ASSUME IInv, NEW p \in Procs, At(p, "pscFlash"), ~Valid("PSC", Next1(p)),
           task' = [task EXCEPT !["PSC"][Next1(p)] = "flashing"],
           call' = [call EXCEPT ![p] = IF Rest(p) = {} THEN Advance(p, "idle", @)
                                       ELSE [@ EXCEPT !.todo = Rest(p), !.pc = "psc"]],
           UNCHANGED <<holder, ended>>
    PROVE  IInv'
  <1> DEFINE c == IF Rest(p) = {} THEN Advance(p, "idle", call[p])
                  ELSE [call[p] EXCEPT !.todo = Rest(p), !.pc = "psc"]
             d == Next1(p)
  <1>0. /\ TypeOK /\ Shapes /\ call[p].pc = "pscFlash" /\ call[p] \in Calls
        /\ Shape(call[p]) /\ call[p].kind = "PSC" /\ d \in Device
        /\ Rest(p) \subseteq call[p].todo /\ Rest(p) \subseteq Device
    <2>1. TypeOK /\ Shapes /\ call[p].pc = "pscFlash" /\ call[p] \in Calls /\ Shape(call[p])
      BY DEF IInv, At, Shapes, Shape
    <2>2. QED
      BY <2>1, NextIn DEF Shape
  <1>1. Shape(c) /\ c.pc \in {"idle", "psc"}
    <2>1. CASE Rest(p) = {}
      BY <2>1, IdleShape DEF Advance, Results
    <2>2. CASE Rest(p) # {}
      <3>1. c = [call[p] EXCEPT !.todo = Rest(p), !.pc = "psc"]
        BY <2>2
      <3>2. c \in Calls /\ c.pc = "psc" /\ c.todo = Rest(p) /\ c.list = call[p].list
            /\ c.kind = call[p].kind /\ c.failed = call[p].failed /\ c.res = call[p].res
        BY <1>0, <3>1 DEF Calls, Steps
      <3> HIDE DEF c
      <3>3. QED
        BY <1>0, <2>2, <3>2 DEF Shape
    <2>3. QED
      BY <2>1, <2>2
  <1>2. /\ call' \in [Procs -> Calls] /\ Shapes'
        /\ call'[p] = c /\ \A q \in Procs \ {p} : call'[q] = call[q]
    BY <1>0, <1>1, OneCall DEF TypeOK
  <1>3. "PSC" \in Kinds /\ "AMC" \in Kinds /\ "DATA" \in Kinds
    BY DEF Kinds
  <1>4. \A j \in Kinds, x \in Device :
          task'[j][x] = IF j = "PSC" /\ x = d THEN "flashing" ELSE task[j][x]
    BY <1>0, <1>3 DEF TypeOK
  <1>5. TypeOK'
    <2>1. task' \in [Kinds -> [Device -> TaskStates]]
      BY <1>0, <1>3 DEF TypeOK, TaskStates
    <2>2. QED
      BY <1>0, <1>2, <2>1 DEF TypeOK
  <1>6. holder[d] = "PSC"
    BY <1>0 DEF IInv, CallHolds
  <1> HIDE DEF c, d
  <1>7. LockAccounted'
    <2> SUFFICES ASSUME NEW x \in Device, holder'[x] \notin {Nobody, "PSC"},
                        ~(holder'[x] \in Kinds /\ task'[holder'[x]][x] = "flashing")
                 PROVE  /\ holder'[x] \in Procs
                        /\ \/ call'[holder'[x]].pc = "lock" /\ x \in call'[holder'[x]].list \ call'[holder'[x]].todo
                           \/ call'[holder'[x]].pc \in {"check", "start"} /\ x \in call'[holder'[x]].todo
      BY DEF LockAccounted
    <2>1. /\ holder[x] \in Procs
          /\ \/ call[holder[x]].pc = "lock" /\ x \in call[holder[x]].list \ call[holder[x]].todo
             \/ call[holder[x]].pc \in {"check", "start"} /\ x \in call[holder[x]].todo
      BY <1>4 DEF IInv, LockAccounted
    <2>2. holder[x] # p
      BY <1>0, <2>1
    <2>3. QED
      BY <1>2, <2>1, <2>2
  <1>8. CallHolds'
    <2> SUFFICES ASSUME NEW q \in Procs
                 PROVE  /\ call'[q].pc = "lock" => \A x \in call'[q].list \ call'[q].todo : holder'[x] = q
                        /\ call'[q].pc \in {"check", "start"} => \A x \in call'[q].todo : holder'[x] = q
                        /\ call'[q].pc = "pscFlash" =>
                             /\ holder'[Min(call'[q].todo)] = "PSC"
                             /\ task'["PSC"][Min(call'[q].todo)] # "flashing"
      BY DEF CallHolds, Held, Next1
    <2>1. CASE q = p
      BY <1>1, <1>2, <2>1
    <2>2. CASE q # p
      <3>1. call'[q] = call[q]
        BY <1>2, <2>2
      <3>2. ASSUME call[q].pc = "pscFlash"
            PROVE  holder[Next1(q)] = "PSC" /\ task'["PSC"][Next1(q)] # "flashing"
        <4>1. holder[Next1(q)] = "PSC" /\ task["PSC"][Next1(q)] # "flashing" /\ Next1(q) \in Device
          BY <1>0, <3>2, NextIn DEF IInv, CallHolds
        <4>2. Next1(q) # d
          BY <1>0, <2>2, <3>2 DEF IInv, PscAlone, d
        <4>3. QED
          BY <1>3, <1>4, <4>1, <4>2
      <3>3. QED
        BY <3>1, <3>2 DEF IInv, CallHolds, Held, Next1
    <2>3. QED
      BY <2>1, <2>2
  <1>9. TaskHolds'
    BY <1>4, <1>6 DEF IInv, TaskHolds
  <1>10. AmcTogether'
    BY <1>3, <1>4 DEF IInv, AmcTogether
  <1>11. PscAlone'
    BY <1>1, <1>2 DEF IInv, PscAlone, Next1
  <1>12. StartsFresh'
    <2> SUFFICES ASSUME NEW q \in Procs, call'[q].pc = "start", call'[q].kind \in {"GFX", "DATA"},
                        NEW x \in call'[q].todo
                 PROVE  task'[call'[q].kind][x] = "none"
      BY DEF StartsFresh, Valid
    <2>1. q # p /\ call'[q] = call[q]
      BY <1>1, <1>2
    <2>2. x \in Device /\ call[q].kind \in Kinds
      BY <1>0, <2>1 DEF Shapes, Shape, Calls
    <2>3. task[call[q].kind][x] = "none"
      BY <2>1 DEF IInv, StartsFresh, Valid
    <2>4. QED
      BY <1>4, <2>1, <2>2, <2>3
  <1>13. DataPollAlone'
    BY <1>1, <1>2 DEF IInv, DataPollAlone, Polling
  <1>14. DataGetSafe'
    <2> SUFFICES ASSUME NEW q \in Procs, call'[q].pc = "get", call'[q].kind = "DATA"
                 PROVE  task'["DATA"][Min(call'[q].todo)] \in Ready
      BY DEF DataGetSafe, Next1
    <2>1. q # p /\ call'[q] = call[q]
      BY <1>1, <1>2
    <2>2. Next1(q) \in Device /\ task["DATA"][Next1(q)] \in Ready
      BY <1>0, <2>1, NextIn DEF IInv, DataGetSafe
    <2>3. QED
      BY <1>3, <1>4, <2>1, <2>2 DEF Next1
  <1>15. QED
    BY <1>2, <1>5, <1>7, <1>8, <1>9, <1>10, <1>11, <1>12, <1>13, <1>14 DEF IInv

\* flashPscFw finds a task that is there and gives the lock back.
LEMMA PscBusyStep ==
    ASSUME IInv, NEW p \in Procs, At(p, "pscFlash"),
           Unlock({Next1(p)}), Return(p, "BUSY"), UNCHANGED <<task, ended>>
    PROVE  IInv'
  <1> DEFINE c == Idle("BUSY", FALSE)
             d == Next1(p)
  <1>0. /\ TypeOK /\ Shapes /\ call[p].pc = "pscFlash" /\ d \in Device
        /\ holder[d] = "PSC" /\ task["PSC"][d] # "flashing"
    <2>1. TypeOK /\ Shapes /\ call[p].pc = "pscFlash"
      BY DEF IInv, At
    <2>2. QED
      BY <2>1, NextIn DEF IInv, CallHolds
  <1>1. /\ call' \in [Procs -> Calls] /\ Shapes'
        /\ call'[p] = c /\ \A q \in Procs \ {p} : call'[q] = call[q]
    BY <1>0, OneCall, IdleShape DEF TypeOK, Return, Results
  <1>2. c.pc = "idle"
    BY DEF Idle
  <1>3. "PSC" \in Kinds /\ Nobody \notin Kinds /\ Nobody \notin Procs /\ \A q \in Procs : q \notin Kinds
    BY FlashAssumption DEF Kinds
  <1>4. \A x \in Device : holder'[x] = IF x = d THEN Nobody ELSE holder[x]
    BY DEF Unlock
  <1>5. TypeOK'
    BY <1>0, <1>1 DEF TypeOK, Unlock
  <1> HIDE DEF c
  <1>6. LockAccounted'
    <2> SUFFICES ASSUME NEW x \in Device, holder'[x] \notin {Nobody, "PSC"},
                        ~(holder'[x] \in Kinds /\ task'[holder'[x]][x] = "flashing")
                 PROVE  /\ holder'[x] \in Procs
                        /\ \/ call'[holder'[x]].pc = "lock" /\ x \in call'[holder'[x]].list \ call'[holder'[x]].todo
                           \/ call'[holder'[x]].pc \in {"check", "start"} /\ x \in call'[holder'[x]].todo
      BY DEF LockAccounted
    <2>1. x # d /\ holder'[x] = holder[x]
      BY <1>4
    <2>2. /\ holder[x] \in Procs
          /\ \/ call[holder[x]].pc = "lock" /\ x \in call[holder[x]].list \ call[holder[x]].todo
             \/ call[holder[x]].pc \in {"check", "start"} /\ x \in call[holder[x]].todo
      BY <2>1 DEF IInv, LockAccounted
    <2>3. holder[x] # p
      BY <1>0, <2>2
    <2>4. QED
      BY <1>1, <2>1, <2>2, <2>3
  <1>7. CallHolds'
    <2> SUFFICES ASSUME NEW q \in Procs
                 PROVE  /\ call'[q].pc = "lock" => \A x \in call'[q].list \ call'[q].todo : holder'[x] = q
                        /\ call'[q].pc \in {"check", "start"} => \A x \in call'[q].todo : holder'[x] = q
                        /\ call'[q].pc = "pscFlash" =>
                             /\ holder'[Min(call'[q].todo)] = "PSC"
                             /\ task'["PSC"][Min(call'[q].todo)] # "flashing"
      BY DEF CallHolds, Held, Next1
    <2>1. CASE q = p
      BY <1>1, <1>2, <2>1
    <2>2. CASE q # p
      <3>1. call'[q] = call[q]
        BY <1>1, <2>2
      <3>2. call[q].todo \subseteq Device /\ call[q].list \subseteq Device
        BY <1>0 DEF Shapes, Shape, Calls
      <3>3. q # "PSC"
        BY <1>3
      <3>4. call[q].pc = "lock" => \A x \in call[q].list \ call[q].todo : holder'[x] = q
        BY <1>0, <1>4, <3>2, <3>3 DEF IInv, CallHolds, Held
      <3>5. call[q].pc \in {"check", "start"} => \A x \in call[q].todo : holder'[x] = q
        BY <1>0, <1>4, <3>2, <3>3 DEF IInv, CallHolds, Held
      <3>6. ASSUME call[q].pc = "pscFlash"
            PROVE  holder'[Next1(q)] = "PSC" /\ task["PSC"][Next1(q)] # "flashing"
        <4>1. holder[Next1(q)] = "PSC" /\ task["PSC"][Next1(q)] # "flashing" /\ Next1(q) \in Device
          BY <1>0, <3>6, NextIn DEF IInv, CallHolds
        <4>2. Next1(q) # d
          BY <1>0, <2>2, <3>6 DEF IInv, PscAlone
        <4>3. QED
          BY <1>4, <4>1, <4>2
      <3>7. QED
        BY <3>1, <3>4, <3>5, <3>6 DEF Next1
    <2>3. QED
      BY <2>1, <2>2
  <1>8. TaskHolds' /\ AmcTogether'
    BY <1>0, <1>4 DEF IInv, TaskHolds, AmcTogether
  <1>9. PscAlone'
    BY <1>1, <1>2 DEF IInv, PscAlone, Next1
  <1>10. StartsFresh'
    BY <1>1, <1>2 DEF IInv, StartsFresh, Valid
  <1>11. DataPollAlone' /\ DataGetSafe'
    BY <1>1, <1>2 DEF IInv, DataPollAlone, DataGetSafe, Polling, Next1
  <1>12. QED
    BY <1>1, <1>5, <1>6, <1>7, <1>8, <1>9, <1>10, <1>11 DEF IInv

LEMMA SetTaskFacts ==
    ASSUME TypeOK, NEW k \in Kinds, NEW d \in Device, NEW s \in TaskStates, SetTask(k, d, s)
    PROVE  /\ task' \in [Kinds -> [Device -> TaskStates]]
           /\ d \in TaskDevices(k, d) /\ TaskDevices(k, d) \subseteq Device
           /\ \A j \in Kinds, x \in Device :
                task'[j][x] = IF j = k /\ x \in TaskDevices(k, d) THEN s ELSE task[j][x]
  <1> DEFINE f == [x \in Device |-> IF x \in TaskDevices(k, d) THEN s ELSE task[k][x]]
  <1>1. task' = [task EXCEPT ![k] = f] /\ task \in [Kinds -> [Device -> TaskStates]]
    BY DEF SetTask, TypeOK
  <1>2. f \in [Device -> TaskStates]
    BY <1>1
  <1>3. \A x \in Device : f[x] = IF x \in TaskDevices(k, d) THEN s ELSE task[k][x]
    OBVIOUS
  <1> HIDE DEF f
  <1>4. QED
    BY <1>1, <1>2, <1>3 DEF TaskDevices

\* The devices of one task are in one state.
LEMMA SameState ==
    ASSUME IInv, NEW k \in Kinds, NEW d \in Device
    PROVE  \A x \in TaskDevices(k, d) : x \in Device /\ task[k][x] = task[k][d]
  BY DEF IInv, AmcTogether, TaskDevices

\* A task goes on without touching any lock: it returns, or its result is taken.
LEMMA FinishedStep ==
    ASSUME IInv, NEW k \in Kinds, NEW d \in Device,
           NEW s \in {"none", "OK", "ERROR"}, SetTask(k, d, s), UNCHANGED holder,
           task[k][d] \notin {"none", "flashing"}
    PROVE  /\ task' \in [Kinds -> [Device -> TaskStates]]
           /\ \A j \in Kinds, x \in Device :
                /\ task'[j][x] = "flashing" <=> task[j][x] = "flashing"
                /\ task[j][x] = "none" => task'[j][x] = "none"
           /\ TaskHolds' /\ AmcTogether'
  <1>1. TypeOK /\ s \in TaskStates
    BY DEF IInv, TaskStates
  <1>2. /\ task' \in [Kinds -> [Device -> TaskStates]]
        /\ \A j \in Kinds, x \in Device :
             task'[j][x] = IF j = k /\ x \in TaskDevices(k, d) THEN s ELSE task[j][x]
    BY <1>1, SetTaskFacts
  <1>3. \A x \in TaskDevices(k, d) : task[k][x] = task[k][d]
    BY SameState
  <1>4. \A j \in Kinds, x \in Device :
          /\ task'[j][x] = "flashing" <=> task[j][x] = "flashing"
          /\ task[j][x] = "none" => task'[j][x] = "none"
    BY <1>2, <1>3
  <1>5. TaskHolds'
    BY <1>4 DEF IInv, TaskHolds
  <1>6. AmcTogether'
    BY <1>2 DEF IInv, AmcTogether, TaskDevices, Kinds
  <1>7. QED
    BY <1>2, <1>4, <1>5, <1>6

\* Collecting a result: the call returns it or goes on to the next device.
LEMMA CollectShape ==
    ASSUME IInv, NEW p \in Procs, call[p].pc \in {"test", "get"},
           NEW r \in {"OK", "ERROR", "ONGOING"}, Collect(p, r)
    PROVE  \E c : /\ call' = [call EXCEPT ![p] = c] /\ Shape(c)
                  /\ c.pc \in {"idle", "test"}
                  /\ c.pc = "test" => c.kind = call[p].kind
  <1> DEFINE res == IF call[p].kind \in {"PSC", "AMC"} \/ r # "OK" THEN r ELSE call[p].res
             stop == \/ Rest(p) = {}
                     \/ call[p].kind = "PSC" /\ r = "ERROR"
                     \/ call[p].kind = "GFX" /\ call[p].all /\ r # "OK"
             fail == call[p].failed \/ r = "ERROR"
             more == [call[p] EXCEPT !.pc = "test", !.todo = Rest(p), !.res = res,
                                     !.failed = fail]
  <1>0. call[p] \in Calls /\ Shape(call[p]) /\ Shapes
    BY DEF IInv, Shapes, Shape
  <1>1. call' = [call EXCEPT ![p] = IF stop THEN Idle(res, fail) ELSE more]
    BY DEF Collect
  <1>2. res \in Results /\ fail \in BOOLEAN /\ (fail => res # "OK")
    BY <1>0 DEF Shape, Calls, Results, Kinds
  <1>3. Shape(Idle(res, fail)) /\ Idle(res, fail).pc = "idle"
    <2> HIDE DEF res, fail
    <2> QED
      BY <1>2, IdleShape
  <1>4. ASSUME ~stop PROVE Shape(more) /\ more.pc = "test" /\ more.kind = call[p].kind
    <2>1. Rest(p) # {} /\ Rest(p) \subseteq call[p].todo /\ Rest(p) \subseteq Device
      BY <1>0, <1>4, NextIn
    <2>2. /\ more \in Calls /\ more.pc = "test" /\ more.todo = Rest(p)
          /\ more.list = call[p].list /\ more.kind = call[p].kind
          /\ more.res = res /\ more.failed = fail
      <3> HIDE DEF res, fail, stop
      <3> QED
        BY <1>0, <1>2, <2>1 DEF Calls, Steps
    <2>3. call[p].kind # "AMC"
      <3>1. ASSUME call[p].kind = "AMC" PROVE FALSE
        <4>1. call[p].todo = {Min(Device)}
          BY <1>0, <3>1 DEF Shape
        <4>2. Next1(p) = Min(Device)
          BY <1>0, <4>1, NextIn
        <4>3. QED
          BY <2>1, <4>1, <4>2 DEF Rest
      <3>2. QED
        BY <3>1
    <2>4. fail => call[p].kind \in {"GFX", "DATA"}
      BY <1>0, <1>4, <2>3 DEF Shape, Calls, Kinds
    <2> HIDE DEF more, fail, res, stop
    <2>5. QED
      BY <1>0, <1>2, <2>1, <2>2, <2>3, <2>4 DEF Shape
  <1> HIDE DEF more, fail, res, stop
  <1>5. QED
    BY <1>1, <1>3, <1>4

\* The task of kind k on d gives its lock back.
LEMMA TaskUnlockStep ==
    ASSUME IInv, NEW k \in Kinds, NEW d \in Device, TaskUnlock(k, d)
    PROVE  IInv'
  <1> DEFINE D == TaskDevices(k, d)
  <1>0. TypeOK /\ Shapes /\ UNCHANGED <<call, ended>> /\ task[k][d] = "flashing"
    BY DEF IInv, TaskUnlock
  <1>1. /\ task' \in [Kinds -> [Device -> TaskStates]]
        /\ d \in D /\ D \subseteq Device
        /\ \A j \in Kinds, x \in Device :
             task'[j][x] = IF j = k /\ x \in D THEN "ending" ELSE task[j][x]
    BY <1>0, SetTaskFacts DEF TaskUnlock, TaskStates
  <1>2. \A x \in D : task[k][x] = "flashing" /\ holder[x] = k
    <2>1. \A x \in D : x \in Device /\ task[k][x] = "flashing"
      BY <1>0, SameState
    <2>2. QED
      BY <2>1 DEF IInv, TaskHolds
  <1> HIDE DEF D
  <1>3. \A x \in Device : holder'[x] = IF x \in D THEN Nobody ELSE holder[x]
    BY DEF TaskUnlock, Unlock, D
  <1>4. "PSC" \in Kinds /\ "AMC" \in Kinds /\ Nobody \notin Kinds /\ \A q \in Procs : q \notin Kinds
    BY FlashAssumption DEF Kinds
  <1>5. TypeOK'
    <2>1. holder' \in [Device -> Procs \cup Kinds \cup {Nobody}]
      BY <1>0 DEF TypeOK, TaskUnlock, Unlock
    <2>2. QED
      BY <1>0, <1>1, <2>1 DEF TypeOK
  <1>6. LockAccounted'
    <2> SUFFICES ASSUME NEW x \in Device, holder'[x] \notin {Nobody, "PSC"},
                        ~(holder'[x] \in Kinds /\ task'[holder'[x]][x] = "flashing")
                 PROVE  /\ holder'[x] \in Procs
                        /\ \/ call'[holder'[x]].pc = "lock" /\ x \in call'[holder'[x]].list \ call'[holder'[x]].todo
                           \/ call'[holder'[x]].pc \in {"check", "start"} /\ x \in call'[holder'[x]].todo
      BY DEF LockAccounted
    <2>1. x \notin D /\ holder'[x] = holder[x]
      BY <1>3
    <2>2. /\ holder[x] \in Procs
          /\ \/ call[holder[x]].pc = "lock" /\ x \in call[holder[x]].list \ call[holder[x]].todo
             \/ call[holder[x]].pc \in {"check", "start"} /\ x \in call[holder[x]].todo
      BY <1>1, <2>1 DEF IInv, LockAccounted
    <2>3. QED
      BY <1>0, <2>1, <2>2
  <1>7. CallHolds'
    <2> SUFFICES ASSUME NEW q \in Procs
                 PROVE  /\ call'[q].pc = "lock" => \A x \in call'[q].list \ call'[q].todo : holder'[x] = q
                        /\ call'[q].pc \in {"check", "start"} => \A x \in call'[q].todo : holder'[x] = q
                        /\ call'[q].pc = "pscFlash" =>
                             /\ holder'[Min(call'[q].todo)] = "PSC"
                             /\ task'["PSC"][Min(call'[q].todo)] # "flashing"
      BY DEF CallHolds, Held, Next1
    <2>1. call'[q] = call[q] /\ call[q].todo \subseteq Device /\ call[q].list \subseteq Device
      BY <1>0 DEF Shapes, Shape, Calls
    <2>2. q # k
      BY <1>4
    <2>3. call[q].pc = "lock" => \A x \in call[q].list \ call[q].todo : holder'[x] = q
      BY <1>2, <1>3, <2>1, <2>2 DEF IInv, CallHolds, Held
    <2>4. call[q].pc \in {"check", "start"} => \A x \in call[q].todo : holder'[x] = q
      BY <1>2, <1>3, <2>1, <2>2 DEF IInv, CallHolds, Held
    <2>5. ASSUME call[q].pc = "pscFlash"
          PROVE  holder'[Next1(q)] = "PSC" /\ task'["PSC"][Next1(q)] # "flashing"
      <3>1. holder[Next1(q)] = "PSC" /\ task["PSC"][Next1(q)] # "flashing" /\ Next1(q) \in Device
        BY <1>0, <2>5, NextIn DEF IInv, CallHolds
      <3>2. Next1(q) \notin D
        BY <1>2, <3>1
      <3>3. QED
        BY <1>1, <1>3, <1>4, <3>1, <3>2
    <2>6. QED
      BY <2>1, <2>3, <2>4, <2>5 DEF Next1
  <1>8. TaskHolds'
    BY <1>1, <1>2, <1>3 DEF IInv, TaskHolds
  <1>9. AmcTogether'
    BY <1>1, <1>4 DEF IInv, AmcTogether, TaskDevices, D
  <1>10. PscAlone'
    BY <1>0 DEF IInv, PscAlone, Next1
  <1>11. StartsFresh'
    <2> SUFFICES ASSUME NEW q \in Procs, call[q].pc = "start", call[q].kind \in {"GFX", "DATA"},
                        NEW x \in call[q].todo
                 PROVE  task'[call[q].kind][x] = "none"
      BY <1>0 DEF StartsFresh, Valid
    <2>1. x \in Device /\ call[q].kind \in Kinds
      BY <1>0 DEF Shapes, Shape, Calls
    <2>2. task[call[q].kind][x] = "none"
      BY DEF IInv, StartsFresh, Valid
    <2>3. QED
      BY <1>1, <1>2, <2>1, <2>2
  <1>12. DataPollAlone'
    BY <1>0 DEF IInv, DataPollAlone, Polling
  <1>13. DataGetSafe'
    <2> SUFFICES ASSUME NEW q \in Procs, call[q].pc = "get", call[q].kind = "DATA"
                 PROVE  task'["DATA"][Next1(q)] \in Ready
      BY <1>0 DEF DataGetSafe, Next1
    <2>1. Next1(q) \in Device /\ task["DATA"][Next1(q)] \in Ready /\ "DATA" \in Kinds
      BY <1>0, NextIn DEF IInv, DataGetSafe, Kinds
    <2>2. QED
      BY <1>1, <1>2, <2>1 DEF Ready
  <1>14. Shapes'
    BY <1>0 DEF Shapes
  <1>15. QED
    BY <1>5, <1>6, <1>7, <1>8, <1>9, <1>10, <1>11, <1>12, <1>13, <1>14 DEF IInv

\* The locks of a step that leaves them alone and starts or ends no flash.
LEMMA LocksKept ==
    ASSUME IInv, NEW p \in Procs, NEW c, Shape(c),
           call' = [call EXCEPT ![p] = c], UNCHANGED holder,
           c = call[p] \/ /\ call[p].pc \notin {"lock", "check", "start", "pscFlash"}
                          /\ c.pc \in {"idle", "test"},
           \A j \in Kinds, x \in Device :
             /\ task'[j][x] = "flashing" <=> task[j][x] = "flashing"
             /\ task[j][x] = "none" => task'[j][x] = "none"
    PROVE  /\ Shapes' /\ call' \in [Procs -> Calls]
           /\ LockAccounted' /\ CallHolds' /\ PscAlone' /\ StartsFresh'
  <1>0. TypeOK /\ Shapes /\ "PSC" \in Kinds
    BY DEF IInv, Kinds
  <1>1. /\ call' \in [Procs -> Calls] /\ Shapes'
        /\ call'[p] = c /\ \A q \in Procs \ {p} : call'[q] = call[q]
    BY <1>0, OneCall DEF TypeOK
  <1>2. \A q \in Procs : call'[q] = call[q] \/ /\ call[q].pc \notin {"lock", "check", "start", "pscFlash"}
                                               /\ call'[q].pc \in {"idle", "test"}
    BY <1>1
  <1>3. LockAccounted'
    <2> SUFFICES ASSUME NEW x \in Device, holder'[x] \notin {Nobody, "PSC"},
                        ~(holder'[x] \in Kinds /\ task'[holder'[x]][x] = "flashing")
                 PROVE  /\ holder'[x] \in Procs
                        /\ \/ call'[holder'[x]].pc = "lock" /\ x \in call'[holder'[x]].list \ call'[holder'[x]].todo
                           \/ call'[holder'[x]].pc \in {"check", "start"} /\ x \in call'[holder'[x]].todo
      BY DEF LockAccounted
    <2>1. /\ holder[x] \in Procs
          /\ \/ call[holder[x]].pc = "lock" /\ x \in call[holder[x]].list \ call[holder[x]].todo
             \/ call[holder[x]].pc \in {"check", "start"} /\ x \in call[holder[x]].todo
      BY DEF IInv, LockAccounted
    <2>2. QED
      BY <1>2, <2>1
  <1>4. CallHolds'
    <2> SUFFICES ASSUME NEW q \in Procs
                 PROVE  /\ call'[q].pc = "lock" => \A x \in call'[q].list \ call'[q].todo : holder'[x] = q
                        /\ call'[q].pc \in {"check", "start"} => \A x \in call'[q].todo : holder'[x] = q
                        /\ call'[q].pc = "pscFlash" =>
                             /\ holder'[Min(call'[q].todo)] = "PSC"
                             /\ task'["PSC"][Min(call'[q].todo)] # "flashing"
      BY DEF CallHolds, Held, Next1
    <2>1. CASE call'[q] = call[q]
      <3>1. ASSUME call[q].pc = "pscFlash"
            PROVE  holder[Next1(q)] = "PSC" /\ task'["PSC"][Next1(q)] # "flashing"
        <4>1. holder[Next1(q)] = "PSC" /\ task["PSC"][Next1(q)] # "flashing" /\ Next1(q) \in Device
          BY <1>0, <3>1, NextIn DEF IInv, CallHolds
        <4>2. QED
          BY <1>0, <4>1
      <3>2. QED
        BY <2>1, <3>1 DEF IInv, CallHolds, Held, Next1
    <2>2. QED
      BY <1>2, <2>1
  <1>5. PscAlone'
    BY <1>2 DEF IInv, PscAlone, Next1
  <1>6. StartsFresh'
    <2> SUFFICES ASSUME NEW q \in Procs, call'[q].pc = "start", call'[q].kind \in {"GFX", "DATA"},
                        NEW x \in call'[q].todo
                 PROVE  task'[call'[q].kind][x] = "none"
      BY DEF StartsFresh, Valid
    <2>1. call'[q] = call[q]
      BY <1>2
    <2>2. x \in Device /\ call[q].kind \in Kinds
      BY <1>0, <2>1 DEF Shapes, Shape, Calls
    <2>3. task[call[q].kind][x] = "none"
      BY <2>1 DEF IInv, StartsFresh, Valid
    <2>4. QED
      BY <2>1, <2>2, <2>3
  <1>7. QED
    BY <1>1, <1>3, <1>4, <1>5, <1>6

\* The task returns its result.
LEMMA TaskReturnStep ==
    ASSUME IInv, NEW k \in Kinds, NEW d \in Device, TaskReturn(k, d)
    PROVE  IInv'
  <1>0. TypeOK /\ Shapes /\ task[k][d] = "ending" /\ UNCHANGED <<holder, call, ended>>
    BY DEF IInv, TaskReturn
  <1>1. PICK r \in Ready : SetTask(k, d, r)
    BY DEF TaskReturn
  <1>2. /\ task' \in [Kinds -> [Device -> TaskStates]]
        /\ \A j \in Kinds, x \in Device :
             /\ task'[j][x] = "flashing" <=> task[j][x] = "flashing"
             /\ task[j][x] = "none" => task'[j][x] = "none"
        /\ TaskHolds' /\ AmcTogether'
    BY <1>0, <1>1, FinishedStep DEF Ready
  <1>3. \A x \in Device : task["DATA"][x] \in Ready => task'["DATA"][x] \in Ready
    <2>1. r \in TaskStates /\ "DATA" \in Kinds
      BY <1>1 DEF Ready, TaskStates, Kinds
    <2>2. QED
      BY <1>0, <1>1, <2>1, SetTaskFacts
  <1>4. TypeOK'
    BY <1>0, <1>2 DEF TypeOK
  <1>5. LockAccounted'
    BY <1>0, <1>2 DEF IInv, LockAccounted
  <1>6. CallHolds'
    <2> SUFFICES ASSUME NEW q \in Procs, call[q].pc = "pscFlash"
                 PROVE  task'["PSC"][Next1(q)] # "flashing"
      BY <1>0 DEF IInv, CallHolds, Held, Next1
    <2>1. task["PSC"][Next1(q)] # "flashing" /\ Next1(q) \in Device /\ "PSC" \in Kinds
      BY <1>0, NextIn DEF IInv, CallHolds, Kinds
    <2>2. QED
      BY <1>2, <2>1
  <1>7. StartsFresh'
    <2> SUFFICES ASSUME NEW q \in Procs, call[q].pc = "start", call[q].kind \in {"GFX", "DATA"},
                        NEW x \in call[q].todo
                 PROVE  task'[call[q].kind][x] = "none"
      BY <1>0 DEF StartsFresh, Valid
    <2>1. x \in Device /\ call[q].kind \in Kinds
      BY <1>0 DEF Shapes, Shape, Calls
    <2>2. task[call[q].kind][x] = "none"
      BY DEF IInv, StartsFresh, Valid
    <2>3. QED
      BY <1>2, <2>1, <2>2
  <1>8. Shapes' /\ PscAlone' /\ DataPollAlone'
    BY <1>0 DEF IInv, Shapes, PscAlone, DataPollAlone, Polling, Next1
  <1>9. DataGetSafe'
    <2> SUFFICES ASSUME NEW q \in Procs, call[q].pc = "get", call[q].kind = "DATA"
                 PROVE  task'["DATA"][Next1(q)] \in Ready
      BY <1>0 DEF DataGetSafe, Next1
    <2>1. Next1(q) \in Device /\ task["DATA"][Next1(q)] \in Ready
      BY <1>0, NextIn DEF IInv, DataGetSafe
    <2>2. QED
      BY <1>3, <2>1
  <1>10. QED
    BY <1>2, <1>4, <1>5, <1>6, <1>7, <1>8, <1>9 DEF IInv

\* get() takes the result of a task.
LEMMA GetStep ==
    ASSUME IInv, NEW p \in Procs, At(p, "get"),
           task[call[p].kind][Next1(p)] \in Ready,
           SetTask(call[p].kind, Next1(p), "none"),
           Collect(p, task[call[p].kind][Next1(p)]), UNCHANGED <<holder, ended>>
    PROVE  IInv'
  <1> DEFINE k == call[p].kind
             d == Next1(p)
  <1>0. TypeOK /\ Shapes /\ call[p].pc = "get" /\ d \in Device /\ k \in Kinds /\ "DATA" \in Kinds
    <2>1. TypeOK /\ Shapes /\ call[p].pc = "get"
      BY DEF IInv, At
    <2>2. QED
      BY <2>1, NextIn DEF Shapes, Shape, Calls, Kinds
  <1>1. PICK c : /\ call' = [call EXCEPT ![p] = c] /\ Shape(c)
                 /\ c.pc \in {"idle", "test"}
                 /\ c.pc = "test" => c.kind = k
    BY <1>0, CollectShape DEF Ready
  <1>2. /\ task' \in [Kinds -> [Device -> TaskStates]]
        /\ \A j \in Kinds, x \in Device :
             /\ task'[j][x] = "flashing" <=> task[j][x] = "flashing"
             /\ task[j][x] = "none" => task'[j][x] = "none"
        /\ TaskHolds' /\ AmcTogether'
    BY <1>0, FinishedStep DEF Ready
  <1>3. \A j \in Kinds \ {k}, x \in Device : task'[j][x] = task[j][x]
    BY <1>0, SetTaskFacts DEF TaskStates
  <1>4. /\ call' \in [Procs -> Calls] /\ Shapes'
        /\ call'[p] = c /\ \A q \in Procs \ {p} : call'[q] = call[q]
    BY <1>0, <1>1, OneCall DEF TypeOK
  <1> HIDE DEF k, d
  <1>5. Shapes' /\ LockAccounted' /\ CallHolds' /\ PscAlone' /\ StartsFresh'
    BY <1>0, <1>1, <1>2, LocksKept
  <1>6. TypeOK'
    BY <1>0, <1>2, <1>4 DEF TypeOK
  <1>7. DataPollAlone'
    <2>1. \A q \in Procs : Polling(q, "DATA")' => Polling(q, "DATA")
      BY <1>0, <1>1, <1>4 DEF Polling, k
    <2>2. QED
      BY <2>1 DEF IInv, DataPollAlone
  <1>8. DataGetSafe'
    <2> SUFFICES ASSUME NEW q \in Procs, call'[q].pc = "get", call'[q].kind = "DATA"
                 PROVE  task'["DATA"][Min(call'[q].todo)] \in Ready
      BY DEF DataGetSafe, Next1
    <2>1. q # p /\ call'[q] = call[q]
      BY <1>1, <1>4
    <2>2. Next1(q) \in Device /\ task["DATA"][Next1(q)] \in Ready
      BY <1>0, <2>1, NextIn DEF IInv, DataGetSafe
    <2>3. k # "DATA"
      BY <1>0, <2>1 DEF IInv, DataPollAlone, Polling, k
    <2>4. QED
      BY <1>0, <1>3, <2>1, <2>2, <2>3 DEF Next1
  <1>9. QED
    BY <1>2, <1>5, <1>6, <1>7, <1>8 DEF IInv

----
\* The actions.

\* A call enters one of the loops with a nonempty list of devices.
LEMMA EnterStep ==
    ASSUME IInv, NEW p \in Procs, At(p, "idle"), NEW k \in Kinds, NEW all \in BOOLEAN,
           NEW S \in SUBSET Device, S # {}, NEW s \in {"lock", "psc", "scan", "test"},
           Enter(p, s, k, all, S), UNCHANGED <<holder, task, ended>>,
           s = "lock" => k # "PSC" /\ (k = "AMC" => S = Device),
           s = "psc" => k = "PSC", s = "scan" => k \in {"GFX", "DATA"},
           s \in {"scan", "test"} /\ k = "DATA" => \A q \in Procs : ~Polling(q, "DATA"),
           s = "test" /\ k = "AMC" => S = {Min(Device)}
    PROVE  IInv'
  <1> DEFINE c == [pc |-> s, kind |-> k, all |-> all, list |-> S, todo |-> S, res |-> "OK",
                   ongoing |-> FALSE, failed |-> FALSE]
  <1>1. call' = [call EXCEPT ![p] = c]
    BY DEF Enter
  <1>2. Shape(c)
    BY DEF Shape, Calls, Steps, Results
  <1>3. call[p].pc = "idle"
    BY DEF At
  <1>4. c.pc = s /\ c.kind = k /\ c.todo = S /\ c.list = S
    OBVIOUS
  <1> HIDE DEF c
  <1>5. QED
    BY <1>1, <1>2, <1>3, <1>4, QuietStep

LEMMA ListFacts ==
    ASSUME NEW k, NEW all \in BOOLEAN, NEW d \in Device
    PROVE  ListOf(k, all, d) \in SUBSET Device /\ ListOf(k, all, d) # {}
  BY FlashAssumption DEF ListOf

LEMMA RunStep ==
    ASSUME IInv, NEW p \in Procs, RunFirmwareFlash(p)
    PROVE  IInv'
  <1>1. PICK k \in Jobs, all \in BOOLEAN, d \in Device :
          CASE k = "GFX" -> RunGSCFirmwareFlash(p, all, d)
            [] k = "DATA" -> RunFwDataFlash(p, all, d)
            [] k = "PSC" -> RunPscFwFlash(p, all, d)
            [] k = "AMC" -> all /\ RunAMCFirmwareFlash(p)
    BY DEF RunFirmwareFlash
  <1>2. k \in Kinds /\ Device # {}
    BY FlashAssumption
  <1>3. CASE RunGSCFirmwareFlash(p, all, d)
    BY <1>3, ListFacts, EnterStep DEF RunGSCFirmwareFlash, Kinds
  <1>4. CASE RunFwDataFlash(p, all, d)
    BY <1>4, ListFacts, EnterStep DEF RunFwDataFlash, Kinds
  <1>5. CASE RunPscFwFlash(p, all, d)
    BY <1>5, ListFacts, EnterStep DEF RunPscFwFlash, Kinds
  <1>6. CASE RunAMCFirmwareFlash(p)
    BY <1>2, <1>6, EnterStep DEF RunAMCFirmwareFlash, Kinds
  <1>7. QED
    BY <1>1, <1>2, <1>3, <1>4, <1>5, <1>6 DEF Kinds

LEMMA ResultStep ==
    ASSUME IInv, NEW p \in Procs, GetFirmwareFlashResult(p)
    PROVE  IInv'
  <1>1. PICK k \in Jobs, all \in BOOLEAN, d \in Device :
          CASE k = "GFX" -> GetGSCFirmwareFlashResult(p, all, d)
            [] k = "DATA" -> GetFwDataFlashResult(p, all, d)
            [] k = "PSC" -> GetPscFwFlashResult(p, all, d)
            [] k = "AMC" -> all /\ GetAMCFirmwareFlashResult(p)
    BY DEF GetFirmwareFlashResult
  <1>2. k \in Kinds /\ Min(Device) \in Device
    BY FlashAssumption, MinIn
  <1>3. CASE GetGSCFirmwareFlashResult(p, all, d)
    BY <1>3, ListFacts, EnterStep DEF GetGSCFirmwareFlashResult, Kinds
  <1>4. CASE GetFwDataFlashResult(p, all, d)
    BY <1>4, ListFacts, EnterStep DEF GetFwDataFlashResult, Kinds
  <1>5. CASE GetPscFwFlashResult(p, all, d)
    BY <1>5, ListFacts, EnterStep DEF GetPscFwFlashResult, Kinds
  <1>6. CASE GetAMCFirmwareFlashResult(p)
    BY <1>2, <1>6, EnterStep DEF GetAMCFirmwareFlashResult, Kinds
  <1>7. QED
    BY <1>1, <1>2, <1>3, <1>4, <1>5, <1>6 DEF Kinds

\* The refusals of the locking loops release exactly what the call holds.
LEMMA RefusalReleasesMine ==
    ASSUME IInv, NEW p \in Procs
    PROVE  /\ LockNext(p) /\ holder[Next1(p)] # Nobody => Unlock(Mine(p)) /\ Return(p, "BUSY")
           /\ Check(p) /\ call'[p].pc # "start" => Unlock(Mine(p)) /\ Return(p, "BUSY")
           /\ At(p, "start") /\ call[p].kind = "AMC" /\ Unlock(Device) => Unlock(Mine(p))
           /\ At(p, "start") /\ Unlock(call[p].todo) => Unlock(Mine(p))
  <1>0. TypeOK /\ Shape(call[p])
    BY DEF IInv, Shapes
  <1>1. LockNext(p) /\ holder[Next1(p)] # Nobody => Unlock(Mine(p)) /\ Return(p, "BUSY")
    BY DEF LockNext, At, Mine
  <1>2. Check(p) /\ call'[p].pc # "start" => Unlock(Mine(p)) /\ Return(p, "BUSY")
    <2>1. call' = [call EXCEPT ![p].pc = "start"] => call'[p].pc = "start"
      BY <1>0 DEF Shape, Calls, TypeOK
    <2>2. QED
      BY <1>0, <2>1 DEF Check, At, Mine, Shape
  <1>3. At(p, "start") /\ call[p].kind = "AMC" /\ Unlock(Device) => Unlock(Mine(p))
    BY <1>0 DEF At, Mine, Shape
  <1>4. At(p, "start") /\ Unlock(call[p].todo) => Unlock(Mine(p))
    BY DEF At, Mine
  <1>5. QED
    BY <1>1, <1>2, <1>3, <1>4

LEMMA LockNextStep ==
    ASSUME IInv, NEW p \in Procs, LockNext(p)
    PROVE  IInv'
  <1>1. At(p, "lock") /\ call[p].pc = "lock" /\ UNCHANGED <<task, ended>>
    BY DEF LockNext, At
  <1>2. CASE holder[Next1(p)] = Nobody
    <2>1. /\ holder' = [holder EXCEPT ![Next1(p)] = p]
          /\ call' = [call EXCEPT ![p] = Advance(p, "check", @)]
      BY <1>2 DEF LockNext
    <2>2. QED
      BY <1>1, <1>2, <2>1, TakeStep
  <1>3. CASE holder[Next1(p)] # Nobody
    BY <1>1, <1>3, RefusalReleasesMine, ReleaseStep DEF Results
  <1>4. QED
    BY <1>2, <1>3

LEMMA CheckStep ==
    ASSUME IInv, NEW p \in Procs, Check(p)
    PROVE  IInv'
  <1>1. At(p, "check") /\ call[p].pc = "check" /\ UNCHANGED <<task, ended>>
    BY DEF Check, At
  <1>2. CASE call[p].kind # "AMC" /\ \E d \in call[p].list : Valid(call[p].kind, d)
    <2>1. Unlock(call[p].list) /\ Return(p, "BUSY")
      BY <1>2 DEF Check
    <2>2. Mine(p) = call[p].list
      BY <1>1 DEF Mine, IInv, Shapes, Shape
    <2>3. QED
      BY <1>1, <2>1, <2>2, ReleaseStep DEF Results
  <1>3. CASE ~(call[p].kind # "AMC" /\ \E d \in call[p].list : Valid(call[p].kind, d))
    <2>1. call' = [call EXCEPT ![p].pc = "start"] /\ UNCHANGED holder
      BY <1>3 DEF Check
    <2>2. QED
      BY <1>1, <1>3, <2>1, CheckedStep
  <1>4. QED
    BY <1>2, <1>3

LEMMA StartNextStep ==
    ASSUME IInv, NEW p \in Procs, StartNext(p)
    PROVE  IInv'
  <1>1. At(p, "start") /\ call[p].pc = "start" /\ call[p].kind # "AMC" /\ UNCHANGED ended
    BY DEF StartNext, At
  <1>2. CASE ~Valid(call[p].kind, Next1(p)) /\ StartTask(p, "idle")
    BY <1>1, <1>2, StartStep
  <1>3. CASE Unlock(call[p].todo) /\ Return(p, "ERROR") /\ UNCHANGED task
    BY <1>1, <1>3, RefusalReleasesMine, ReleaseStep DEF Results
  <1>4. QED
    BY <1>2, <1>3 DEF StartNext

LEMMA AmcStep ==
    ASSUME IInv, NEW p \in Procs, StartAmc(p)
    PROVE  IInv'
  <1>1. At(p, "start") /\ call[p].pc = "start" /\ call[p].kind = "AMC" /\ UNCHANGED ended
    BY DEF StartAmc, At
  <1>2. CASE \E d \in Device : Valid("AMC", d)
    <2>1. Unlock(Device) /\ Return(p, "BUSY") /\ UNCHANGED task
      BY <1>2 DEF StartAmc
    <2>2. QED
      BY <1>1, <2>1, RefusalReleasesMine, ReleaseStep DEF Results
  <1>3. CASE ~\E d \in Device : Valid("AMC", d)
    <2>1. /\ task' = [task EXCEPT !["AMC"] = [d \in Device |-> "flashing"]]
          /\ holder' = [d \in Device |-> "AMC"]
          /\ Return(p, "OK")
      BY <1>3 DEF StartAmc
    <2>2. QED
      BY <1>1, <1>3, <2>1, StartAmcStep
  <1>4. QED
    BY <1>2, <1>3

\* A call that holds no lock in its own name returns.
LEMMA ReturnStep ==
    ASSUME IInv, NEW p \in Procs, NEW r \in Results, Return(p, r),
           call[p].pc \notin {"lock", "check", "start"}, UNCHANGED <<holder, task, ended>>
    PROVE  IInv'
  <1>1. Shape(Idle(r, FALSE)) /\ Idle(r, FALSE).pc = "idle"
    BY IdleShape
  <1>2. call' = [call EXCEPT ![p] = Idle(r, FALSE)]
    BY DEF Return
  <1>3. QED
    BY <1>1, <1>2, QuietStep

LEMMA PscStep ==
    ASSUME IInv, NEW p \in Procs, PscLock(p) \/ PscFlash(p)
    PROVE  IInv'
  <1>1. CASE PscLock(p)
    <2>1. At(p, "psc") /\ call[p].pc = "psc" /\ UNCHANGED <<task, ended>>
      BY <1>1 DEF PscLock, At
    <2>2. CASE holder[Next1(p)] = Nobody
      <3>1. /\ holder' = [holder EXCEPT ![Next1(p)] = "PSC"]
            /\ call' = [call EXCEPT ![p].pc = "pscFlash"]
        BY <1>1, <2>2 DEF PscLock
      <3>2. QED
        BY <2>1, <2>2, <3>1, PscTakeStep
    <2>3. CASE holder[Next1(p)] # Nobody
      <3>1. Return(p, "BUSY") /\ UNCHANGED holder
        BY <1>1, <2>3 DEF PscLock
      <3>2. QED
        BY <2>1, <3>1, ReturnStep DEF Results
    <2>4. QED
      BY <2>2, <2>3
  <1>2. CASE PscFlash(p)
    <2>1. At(p, "pscFlash") /\ call[p].pc = "pscFlash" /\ UNCHANGED ended
      BY <1>2 DEF PscFlash, At
    <2>2. CASE Return(p, "ERROR") /\ UNCHANGED <<holder, task>>
      BY <2>1, <2>2, ReturnStep DEF Results
    <2>3. CASE Unlock({Next1(p)}) /\ Return(p, "BUSY") /\ UNCHANGED task
      BY <2>1, <2>3, PscBusyStep
    <2>4. CASE /\ ~Valid("PSC", Next1(p))
               /\ task' = [task EXCEPT !["PSC"][Next1(p)] = "flashing"] /\ UNCHANGED holder
               /\ call' = [call EXCEPT ![p] = IF Rest(p) = {} THEN Advance(p, "idle", @)
                                              ELSE [@ EXCEPT !.todo = Rest(p), !.pc = "psc"]]
      BY <2>1, <2>4, PscStartStep
    <2>5. QED
      BY <1>2, <2>2, <2>3, <2>4 DEF PscFlash
  <1>3. QED
    BY <1>1, <1>2

LEMMA ScanStep ==
    ASSUME IInv, NEW p \in Procs, Scan(p)
    PROVE  IInv'
  <1> DEFINE o == call[p].ongoing \/ task[call[p].kind][Next1(p)] \in {"flashing", "ending"}
             c == Advance(p, "test", [call[p] EXCEPT !.ongoing = o])
  <1>1. /\ call[p].pc = "scan" /\ UNCHANGED <<holder, task, ended>> /\ TypeOK /\ Shapes
        /\ call[p] \in Calls /\ call[p].kind \in {"GFX", "DATA"}
    BY DEF Scan, At, IInv, Shapes, Shape
  <1>2. CASE Rest(p) = {} /\ o
    <2>1. Return(p, "ONGOING")
      BY <1>2 DEF Scan
    <2>2. QED
      BY <1>1, <2>1, ReturnStep DEF Results
  <1>3. CASE ~(Rest(p) = {} /\ o)
    <2>1. call' = [call EXCEPT ![p] = c]
      BY <1>3 DEF Scan
    <2>2. [call[p] EXCEPT !.ongoing = o] \in Calls /\ o \in BOOLEAN
      BY <1>1 DEF Calls
    <2> HIDE DEF o
    <2>3. Shape(c)
      BY <1>1, <2>2, AdvanceShape
    <2>4. c.pc \in {"scan", "test"}
      BY <1>1, <2>2 DEF Advance, Calls
    <2>5. c.kind = "DATA" => Polling(p, "DATA")
      BY <1>1, <2>2 DEF Advance, Calls, Polling
    <2> HIDE DEF c
    <2>6. QED
      BY <1>1, <2>1, <2>3, <2>4, <2>5, QuietStep
  <1>4. QED
    BY <1>2, <1>3

LEMMA TestStep ==
    ASSUME IInv, NEW p \in Procs, Test(p)
    PROVE  IInv'
  <1> DEFINE s == task[call[p].kind][Next1(p)]
  <1>1. /\ call[p].pc = "test" /\ UNCHANGED <<holder, task, ended>> /\ TypeOK /\ Shapes
        /\ call[p] \in Calls /\ Shape(call[p])
    BY DEF Test, At, IInv, Shapes, Shape
  <1>2. CASE Return(p, "UNSUPPORTED")
    BY <1>1, <1>2, ReturnStep DEF Results
  <1>3. CASE s \in Ready /\ call' = [call EXCEPT ![p].pc = "get"]
    <2> DEFINE c == [call[p] EXCEPT !.pc = "get"]
    <2>1. c \in Calls /\ c.pc = "get" /\ c.todo = call[p].todo /\ c.list = call[p].list
          /\ c.kind = call[p].kind /\ c.failed = call[p].failed /\ c.res = call[p].res
      BY <1>1 DEF Calls, Steps
    <2>2. call' = [call EXCEPT ![p] = c]
      BY <1>1, <1>3 DEF TypeOK
    <2> HIDE DEF c
    <2>3. Shape(c)
      BY <1>1, <2>1 DEF Shape
    <2>4. c.kind = "DATA" => Polling(p, "DATA") /\ task["DATA"][Min(c.todo)] \in Ready
      BY <1>1, <1>3, <2>1 DEF Polling, Next1
    <2>5. QED
      BY <1>1, <2>1, <2>2, <2>3, <2>4, QuietStep
  <1>4. CASE Collect(p, IF s = "none" THEN "OK" ELSE "ONGOING")
    <2>1. PICK c : /\ call' = [call EXCEPT ![p] = c] /\ Shape(c)
                   /\ c.pc \in {"idle", "test"}
                   /\ c.pc = "test" => c.kind = call[p].kind
      <3>1. CASE s = "none"
        BY <1>1, <1>4, <3>1, CollectShape
      <3>2. CASE s # "none"
        BY <1>1, <1>4, <3>2, CollectShape
      <3>3. QED
        BY <3>1, <3>2
    <2>2. c.pc = "test" /\ c.kind = "DATA" => Polling(p, "DATA")
      BY <1>1, <2>1 DEF Polling
    <2>3. QED
      BY <1>1, <2>1, <2>2, QuietStep
  <1>5. QED
    BY <1>2, <1>3, <1>4 DEF Test

\* get() on a future without a state, and a reset, only end the process.
LEMMA EndStep ==
    ASSUME IInv, UNCHANGED <<holder, task, call>>, ended' \in {"no", "badGet", "reset"}
    PROVE  IInv'
  <1>1. TypeOK' /\ Shapes'
    BY DEF IInv, TypeOK, Shapes
  <1>2. LockAccounted' /\ CallHolds' /\ TaskHolds' /\ AmcTogether'
    BY DEF IInv, LockAccounted, CallHolds, Held, TaskHolds, AmcTogether, Next1
  <1>3. PscAlone' /\ StartsFresh' /\ DataPollAlone' /\ DataGetSafe'
    BY DEF IInv, PscAlone, StartsFresh, Valid, DataPollAlone, Polling, DataGetSafe, Next1
  <1>4. QED
    BY <1>1, <1>2, <1>3 DEF IInv

LEMMA TakeResultStep ==
    ASSUME IInv, NEW p \in Procs, Get(p)
    PROVE  IInv'
  <1>1. At(p, "get") /\ UNCHANGED holder
    BY DEF Get
  <1>2. CASE /\ task[call[p].kind][Next1(p)] \in Ready
             /\ SetTask(call[p].kind, Next1(p), "none")
             /\ Collect(p, task[call[p].kind][Next1(p)])
             /\ UNCHANGED ended
    BY <1>1, <1>2, GetStep
  <1>3. CASE ended' = "badGet" /\ UNCHANGED <<task, call>>
    BY <1>1, <1>3, EndStep
  <1>4. QED
    BY <1>2, <1>3 DEF Get

LEMMA IInvInit == Init => IInv
  <1> SUFFICES ASSUME Init PROVE IInv
    OBVIOUS
  <1> USE DEF Init
  <1>1. Shape(Idle("OK", FALSE)) /\ Idle("OK", FALSE).pc = "idle"
    BY IdleShape DEF Results
  <1>2. \A p \in Procs : call[p] = Idle("OK", FALSE)
    OBVIOUS
  <1>3. /\ \A k \in Kinds, d \in Device : task[k][d] = "none"
        /\ \A d \in Device : holder[d] = Nobody
    OBVIOUS
  <1>4. TypeOK
    <2>1. Idle("OK", FALSE) \in Calls
      BY <1>1 DEF Shape
    <2>2. QED
      BY <2>1 DEF TypeOK, TaskStates
  <1> HIDE DEF Init
  <1>5. Shapes /\ LockAccounted /\ TaskHolds
    BY <1>1, <1>2, <1>3 DEF Shapes, LockAccounted, TaskHolds
  <1>6. CallHolds /\ PscAlone /\ StartsFresh
    BY <1>1, <1>2 DEF CallHolds, PscAlone, StartsFresh
  <1>7. DataPollAlone /\ DataGetSafe
    BY <1>1, <1>2 DEF DataPollAlone, DataGetSafe, Polling
  <1>8. AmcTogether
    BY <1>3 DEF AmcTogether, Kinds
  <1>9. QED
    BY <1>4, <1>5, <1>6, <1>7, <1>8 DEF IInv

LEMMA IInvStep == IInv /\ [Next]_flashVars => IInv'
  <1> SUFFICES ASSUME IInv, [Next]_flashVars PROVE IInv'
    OBVIOUS
  <1>1. CASE \E p \in Clients : RunFirmwareFlash(p) \/ GetFirmwareFlashResult(p)
    BY <1>1, RunStep, ResultStep, FlashAssumption
  <1>2. CASE \E p \in Procs : CallStep(p)
    <2>1. PICK p \in Procs : CallStep(p)
      BY <1>2
    <2>2. QED
      BY <2>1, LockNextStep, CheckStep, StartNextStep, AmcStep, PscStep, ScanStep, TestStep,
         TakeResultStep DEF CallStep
  <1>3. CASE \E k \in Kinds, d \in Device : TaskStep(k, d)
    BY <1>3, TaskUnlockStep, TaskReturnStep DEF TaskStep
  <1>4. CASE \E d \in Device : ResetDevice(d)
    BY <1>4, EndStep DEF ResetDevice
  <1>5. CASE UNCHANGED flashVars
    BY <1>5, EndStep DEF flashVars, IInv, TypeOK
  <1>6. QED
    BY <1>1, <1>2, <1>3, <1>4, <1>5 DEF Next, Over

----
\* The theorems.

\* The inductive invariant holds in every state.
THEOREM Invariance == Spec => []IInv
  BY IInvInit, IInvStep, PTL DEF Spec

\* Locks, futures and calls keep their types, through every loop of every call.
THEOREM TypeCorrect == Spec => []TypeOK
  <1>1. IInv => TypeOK
    BY DEF IInv
  <1>2. QED
    BY <1>1, Invariance, PTL

\* Whatever is called on how many devices, a device has one firmware update at
\* a time: the task that flashes a device is the one its lock belongs to.
THEOREM SingleFlash == Spec => []OneFlashAtATime
  <1>1. IInv => OneFlashAtATime
    <2> SUFFICES ASSUME IInv, NEW d \in Device
                 PROVE  Cardinality({k \in Kinds : task[k][d] = "flashing"}) <= 1
      BY DEF OneFlashAtATime
    <2> DEFINE F == {k \in Kinds : task[k][d] = "flashing"}
    <2>1. F \subseteq {holder[d]}
      BY DEF IInv, TaskHolds
    <2>2. IsFiniteSet({holder[d]}) /\ Cardinality({holder[d]}) = 1
      BY FS_Singleton
    <2> HIDE DEF F
    <2>3. Cardinality(F) <= Cardinality({holder[d]})
      BY <2>1, <2>2, FS_Subset
    <2>4. QED
      BY <2>2, <2>3 DEF F
  <1>2. QED
    BY <1>1, Invariance, PTL

\* No call for one device, a group or all devices leaves a lock behind.
THEOREM LocksAreAccountedFor == Spec => []LockAccounted
  <1>1. IInv => LockAccounted
    BY DEF IInv
  <1>2. QED
    BY <1>1, Invariance, PTL

\* A GFX flash starts on all devices of its group or on none.
THEOREM GroupsStartWhole == Spec => []GfxStartsWhole
  <1>1. IInv => GfxStartsWhole
    BY DEF IInv, GfxStartsWhole, StartsFresh, CallHolds, Held
  <1>2. QED
    BY <1>1, Invariance, PTL

\* Two threads that ask for the result of a data flash never take it twice.
THEOREM DataResultTakenOnce == Spec => []DataGetSafe
  <1>1. IInv => DataGetSafe
    BY DEF IInv
  <1>2. QED
    BY <1>1, Invariance, PTL

\* A failure that a call has taken is never reported as success.
THEOREM FailuresAreReported == Spec => []FailureReported
  <1>1. IInv => FailureReported
    BY DEF IInv, Shapes, Shape, FailureReported
  <1>2. QED
    BY <1>1, Invariance, PTL

----
\* The flags are locks: the refinement of DeviceLocks.

\* What a lock looks like from outside.
LEMMA OwnerIs ==
    ASSUME NEW d \in Device
    PROVE  /\ Owner[d] = IF holder[d] \in Procs /\ call[holder[d]].pc = "lock" THEN Nobody ELSE holder[d]
           /\ Owner'[d] = IF holder'[d] \in Procs /\ call'[holder'[d]].pc = "lock" THEN Nobody ELSE holder'[d]
  BY DEF Owner

LEMMA OwnerSame ==
    ASSUME \A d \in Device : Owner'[d] = Owner[d]
    PROVE  UNCHANGED Owner
  BY DEF Owner

LEMMA OwnerGiven ==
    ASSUME NEW o, NEW S \in SUBSET Device,
           \A d \in Device : Owner'[d] = IF d \in S THEN o ELSE Owner[d]
    PROVE  Locks!Give(o, S)
  BY DEF Owner, Locks!Give

\* Steps of calls that hold no lock, and steps that keep their phase, are invisible.
LEMMA OwnerQuiet ==
    ASSUME IInv, UNCHANGED holder,
           \A q \in Procs : \/ call[q].pc \notin {"lock", "check", "start"}
                            \/ call'[q].pc = "lock" <=> call[q].pc = "lock"
    PROVE  UNCHANGED Owner
  <1> SUFFICES ASSUME NEW d \in Device PROVE Owner'[d] = Owner[d]
    BY OwnerSame
  <1>1. CASE holder[d] \in Procs
    <2>1. call[holder[d]].pc \in {"lock", "check", "start"}
      <3>1. holder[d] \notin Kinds /\ holder[d] # Nobody /\ holder[d] # "PSC"
        BY <1>1, FlashAssumption DEF Kinds
      <3>2. QED
        BY <3>1 DEF IInv, LockAccounted
    <2>2. QED
      BY <1>1, <2>1, OwnerIs
  <1>2. CASE holder[d] \notin Procs
    BY <1>2, OwnerIs
  <1>3. QED
    BY <1>1, <1>2

\* tryLockDevices: nothing is seen until the last device, then all at once.
LEMMA OwnerTake ==
    ASSUME IInv, NEW p \in Procs, At(p, "lock"), holder[Next1(p)] = Nobody,
           holder' = [holder EXCEPT ![Next1(p)] = p],
           call' = [call EXCEPT ![p] = Advance(p, "check", @)]
    PROVE  [Locks!Next]_Owner
  <1> DEFINE c == Advance(p, "check", call[p])
             d == Next1(p)
             L == call[p].list
  <1>0. /\ TypeOK /\ Shapes /\ call[p].pc = "lock" /\ call[p] \in Calls
        /\ L \in SUBSET Device /\ d \in Device /\ d \in L
        /\ call[p].todo = Rest(p) \cup {d} /\ call[p].todo \subseteq L
    <2>1. TypeOK /\ Shapes /\ call[p].pc = "lock" /\ call[p] \in Calls /\ L \in SUBSET Device
          /\ call[p].todo \subseteq L
      BY DEF IInv, At, Shapes, Shape, Calls
    <2>2. QED
      BY <2>1, NextIn DEF Rest
  <1>1. call'[p] = c /\ \A q \in Procs \ {p} : call'[q] = call[q]
    BY <1>0 DEF TypeOK
  <1>2. /\ Rest(p) # {} => c.pc = "lock"
        /\ Rest(p) = {} => c.pc = "check"
    BY <1>0 DEF Advance, Calls
  <1>3. \A x \in Device : holder'[x] = IF x = d THEN p ELSE holder[x]
    BY <1>0 DEF TypeOK
  <1>4. Nobody \notin Procs /\ p \notin Kinds
    BY FlashAssumption
  <1>5. holder[d] = Nobody
    OBVIOUS
  <1> HIDE DEF c, d, L
  <1>6. CASE Rest(p) # {}
    <2>1. \A x \in Device : Owner'[x] = Owner[x]
      <3> TAKE x \in Device
      <3>1. CASE x = d
        BY <1>1, <1>2, <1>3, <1>4, <1>5, <1>6, <3>1, OwnerIs
      <3>2. CASE x # d
        BY <1>0, <1>1, <1>2, <1>3, <1>6, <3>2, OwnerIs
      <3>3. QED
        BY <3>1, <3>2
    <2>2. QED
      BY <2>1, OwnerSame
  <1>7. CASE Rest(p) = {}
    <2>1. \A x \in L \ {d} : holder[x] = p
      BY <1>0, <1>7 DEF IInv, CallHolds, Held, L
    <2>2. \A x \in L : Owner[x] = Nobody /\ Owner'[x] = p
      <3> TAKE x \in L
      <3>0. x \in Device
        BY <1>0
      <3>1. CASE x = d
        BY <1>1, <1>2, <1>3, <1>4, <1>5, <1>7, <3>0, <3>1, OwnerIs
      <3>2. CASE x # d
        BY <1>0, <1>1, <1>2, <1>3, <1>7, <2>1, <3>0, <3>2, OwnerIs
      <3>3. QED
        BY <3>1, <3>2
    <2>3. ASSUME NEW x \in Device, x \notin L PROVE Owner'[x] = Owner[x]
      <3>1. x # d /\ holder'[x] = holder[x]
        BY <1>0, <1>3, <2>3
      <3>2. holder[x] # p
        <4>1. holder[x] = p => x \in Mine(p)
          BY <1>0, MineExact
        <4>2. QED
          BY <1>0, <2>3, <4>1 DEF Mine, L
      <3>3. QED
        BY <1>1, <3>1, <3>2, OwnerIs
    <2>4. Locks!Give(p, L)
      BY <1>0, <2>2, <2>3, OwnerGiven
    <2>5. Locks!Acquire(p, L)
      BY <2>2, <2>4 DEF Locks!Acquire, Locks!Owned
    <2>6. QED
      BY <1>0, <2>5 DEF Locks!Next, Locks!Owners
  <1>8. QED
    BY <1>6, <1>7

\* A refused call releases what it owns, which from outside is nothing while it
\* is still locking.
LEMMA OwnerRelease ==
    ASSUME IInv, NEW p \in Procs, call[p].pc \in {"lock", "check", "start"},
           Unlock(Mine(p)), NEW r, Return(p, r)
    PROVE  [Locks!Next]_Owner
  <1>0. call'[p].pc = "idle" /\ \A q \in Procs \ {p} : call'[q] = call[q]
    BY DEF IInv, TypeOK, Return, Idle
  <1>1. Mine(p) \in SUBSET Device /\ \A d \in Device : holder[d] = p <=> d \in Mine(p)
    BY MineExact
  <1>2. \A d \in Device : holder'[d] = IF d \in Mine(p) THEN Nobody ELSE holder[d]
    BY DEF Unlock
  <1>3. Nobody \notin Procs
    BY FlashAssumption
  <1> DEFINE M == Mine(p)
  <1> HIDE DEF M
  <1>4. \A d \in Device : Owner'[d] = IF d \in M THEN Nobody ELSE Owner[d]
    <2> TAKE d \in Device
    <2>1. CASE d \in M
      BY <1>2, <1>3, <2>1, OwnerIs DEF M
    <2>2. CASE d \notin M
      <3>1. holder'[d] = holder[d] /\ holder[d] # p
        BY <1>1, <1>2, <2>2 DEF M
      <3>2. QED
        BY <1>0, <2>2, <3>1, OwnerIs
    <2>3. QED
      BY <2>1, <2>2
  <1>5. CASE call[p].pc = "lock"
    <2>1. \A d \in M : Owner[d] = Nobody
      BY <1>1, <1>5, OwnerIs DEF M
    <2>2. QED
      BY <1>4, <2>1, OwnerSame
  <1>6. CASE call[p].pc # "lock"
    <2>1. \A d \in M : Owner[d] = p
      BY <1>1, <1>6, OwnerIs DEF M
    <2>2. M \in SUBSET Device
      BY <1>1 DEF M
    <2>3. Locks!Release(p, M)
      BY <1>4, <2>1, <2>2, OwnerGiven DEF Locks!Release, Locks!Owned
    <2>4. QED
      BY <2>2, <2>3 DEF Locks!Next, Locks!Owners
  <1>7. QED
    BY <1>5, <1>6

\* A call that owns the devices S hands them over to the operation it starts.
LEMMA OwnerHandOver ==
    ASSUME IInv, NEW p \in Procs, call[p].pc = "start", NEW k \in Kinds,
           NEW S \in SUBSET Device, S \subseteq call[p].todo,
           \A d \in Device : holder'[d] = IF d \in S THEN k ELSE holder[d],
           \A q \in Procs \ {p} : call'[q] = call[q], call'[p].pc # "lock"
    PROVE  Locks!Next
  <1>1. \A d \in S : holder[d] = p
    BY DEF IInv, CallHolds, Held
  <1>2. k \notin Procs
    BY FlashAssumption
  <1>3. \A d \in S : Owner[d] = p /\ Owner'[d] = k
    BY <1>1, <1>2, OwnerIs
  <1>4. ASSUME NEW d \in Device, d \notin S PROVE Owner'[d] = Owner[d]
    <2>1. holder'[d] = holder[d]
      BY <1>4
    <2>2. \A q \in Procs : call'[q].pc = "lock" <=> call[q].pc = "lock"
      OBVIOUS
    <2>3. QED
      BY <2>1, <2>2, OwnerIs
  <1>5. Locks!HandOver(p, k, S)
    BY <1>3, <1>4, OwnerGiven DEF Locks!HandOver, Locks!Owned
  <1>6. QED
    BY <1>5 DEF Locks!Next

\* An operation takes or gives back devices while no call changes its phase.
LEMMA OwnerOperation ==
    ASSUME IInv, NEW k \in Kinds, NEW S \in SUBSET Device,
           \A q \in Procs : \/ call'[q].pc = "lock" <=> call[q].pc = "lock"
                            \/ call[q].pc \notin {"lock", "check", "start"},
           \/ /\ \A d \in S : holder[d] = Nobody
              /\ \A d \in Device : holder'[d] = IF d \in S THEN k ELSE holder[d]
           \/ /\ \A d \in S : holder[d] = k
              /\ \A d \in Device : holder'[d] = IF d \in S THEN Nobody ELSE holder[d]
    PROVE  Locks!Next
  <1>1. k \notin Procs /\ Nobody \notin Procs
    BY FlashAssumption
  <1>2. ASSUME NEW d \in Device, d \notin S PROVE Owner'[d] = Owner[d]
    <2>1. holder'[d] = holder[d]
      BY <1>2
    <2>2. CASE holder[d] \in Procs
      <3>1. call[holder[d]].pc \in {"lock", "check", "start"}
        <4>1. holder[d] \notin Kinds /\ holder[d] # Nobody /\ holder[d] # "PSC"
          BY <2>2, FlashAssumption DEF Kinds
        <4>2. QED
          BY <4>1 DEF IInv, LockAccounted
      <3>2. QED
        BY <2>1, <2>2, <3>1, OwnerIs
    <2>3. CASE holder[d] \notin Procs
      BY <2>1, <2>3, OwnerIs
    <2>4. QED
      BY <2>2, <2>3
  <1>3. CASE /\ \A d \in S : holder[d] = Nobody
             /\ \A d \in Device : holder'[d] = IF d \in S THEN k ELSE holder[d]
    <2>1. \A d \in S : Owner[d] = Nobody /\ Owner'[d] = k
      BY <1>1, <1>3, OwnerIs
    <2>2. Locks!Acquire(k, S)
      BY <1>2, <2>1, OwnerGiven DEF Locks!Acquire, Locks!Owned
    <2>3. QED
      BY <2>2 DEF Locks!Next, Locks!Owners
  <1>4. CASE /\ \A d \in S : holder[d] = k
             /\ \A d \in Device : holder'[d] = IF d \in S THEN Nobody ELSE holder[d]
    <2>1. \A d \in S : Owner[d] = k /\ Owner'[d] = Nobody
      BY <1>1, <1>4, OwnerIs
    <2>2. Locks!Release(k, S)
      BY <1>2, <2>1, OwnerGiven DEF Locks!Release, Locks!Owned
    <2>3. QED
      BY <2>2 DEF Locks!Next, Locks!Owners
  <1>5. QED
    BY <1>3, <1>4

\* One call p has moved on and all others are where they were.
LEMMA OthersSame ==
    ASSUME TypeOK, NEW p \in Procs, NEW c, call' = [call EXCEPT ![p] = c]
    PROVE  call'[p] = c /\ \A q \in Procs \ {p} : call'[q] = call[q]
  BY DEF TypeOK

\* The steps of a call that change no lock.
LEMMA OwnerQuietCall ==
    ASSUME IInv, NEW p \in Procs, UNCHANGED holder,
           NEW c, call' = [call EXCEPT ![p] = c],
           \/ call[p].pc \notin {"lock", "check", "start"}
           \/ call[p].pc # "lock" /\ c.pc # "lock"
    PROVE  UNCHANGED Owner
  BY OthersSame, OwnerQuiet DEF IInv

LEMMA OwnerEnter ==
    ASSUME IInv, NEW p \in Procs, RunFirmwareFlash(p) \/ GetFirmwareFlashResult(p)
    PROVE  UNCHANGED Owner
  <1>1. UNCHANGED holder /\ call[p].pc = "idle" /\ \E c : call' = [call EXCEPT ![p] = c]
    <2>1. CASE RunFirmwareFlash(p)
      <3>1. PICK k \in Jobs, all \in BOOLEAN, d \in Device :
              CASE k = "GFX" -> RunGSCFirmwareFlash(p, all, d)
                [] k = "DATA" -> RunFwDataFlash(p, all, d)
                [] k = "PSC" -> RunPscFwFlash(p, all, d)
                [] k = "AMC" -> all /\ RunAMCFirmwareFlash(p)
        BY <2>1 DEF RunFirmwareFlash
      <3>2. k \in Kinds
        BY FlashAssumption
      <3>3. \/ RunGSCFirmwareFlash(p, all, d) \/ RunFwDataFlash(p, all, d)
            \/ RunPscFwFlash(p, all, d) \/ RunAMCFirmwareFlash(p)
        BY <3>1, <3>2 DEF Kinds
      <3>4. QED
        BY <3>3 DEF RunGSCFirmwareFlash, RunFwDataFlash, RunPscFwFlash, RunAMCFirmwareFlash, At, Enter
    <2>2. CASE GetFirmwareFlashResult(p)
      <3>1. PICK k \in Jobs, all \in BOOLEAN, d \in Device :
              CASE k = "GFX" -> GetGSCFirmwareFlashResult(p, all, d)
                [] k = "DATA" -> GetFwDataFlashResult(p, all, d)
                [] k = "PSC" -> GetPscFwFlashResult(p, all, d)
                [] k = "AMC" -> all /\ GetAMCFirmwareFlashResult(p)
        BY <2>2 DEF GetFirmwareFlashResult
      <3>2. k \in Kinds
        BY FlashAssumption
      <3>3. \/ GetGSCFirmwareFlashResult(p, all, d) \/ GetFwDataFlashResult(p, all, d)
            \/ GetPscFwFlashResult(p, all, d) \/ GetAMCFirmwareFlashResult(p)
        BY <3>1, <3>2 DEF Kinds
      <3>4. QED
        BY <3>3 DEF GetGSCFirmwareFlashResult, GetFwDataFlashResult, GetPscFwFlashResult,
                    GetAMCFirmwareFlashResult, At, Enter
    <2>3. QED
      BY <2>1, <2>2
  <1>2. QED
    BY <1>1, OwnerQuietCall

LEMMA OwnerLockNext ==
    ASSUME IInv, NEW p \in Procs, LockNext(p)
    PROVE  [Locks!Next]_Owner
  <1>1. At(p, "lock") /\ call[p].pc = "lock"
    BY DEF LockNext, At
  <1>2. CASE holder[Next1(p)] = Nobody
    <2>1. /\ holder' = [holder EXCEPT ![Next1(p)] = p]
          /\ call' = [call EXCEPT ![p] = Advance(p, "check", @)]
      BY <1>2 DEF LockNext
    <2>2. QED
      BY <1>1, <1>2, <2>1, OwnerTake
  <1>3. CASE holder[Next1(p)] # Nobody
    BY <1>1, <1>3, RefusalReleasesMine, OwnerRelease
  <1>4. QED
    BY <1>2, <1>3

LEMMA OwnerCheck ==
    ASSUME IInv, NEW p \in Procs, Check(p)
    PROVE  [Locks!Next]_Owner
  <1>1. At(p, "check") /\ call[p].pc = "check" /\ call[p].todo = call[p].list /\ TypeOK
    BY DEF Check, At, IInv, Shapes, Shape
  <1>2. CASE call[p].kind # "AMC" /\ \E d \in call[p].list : Valid(call[p].kind, d)
    <2>1. Unlock(Mine(p)) /\ Return(p, "BUSY")
      BY <1>1, <1>2 DEF Check, Mine
    <2>2. QED
      BY <1>1, <2>1, OwnerRelease
  <1>3. CASE ~(call[p].kind # "AMC" /\ \E d \in call[p].list : Valid(call[p].kind, d))
    <2> DEFINE c == [call[p] EXCEPT !.pc = "start"]
    <2>1. call' = [call EXCEPT ![p] = c] /\ UNCHANGED holder
      BY <1>1, <1>3 DEF Check, TypeOK
    <2>2. c.pc = "start"
      BY <1>1 DEF TypeOK, Calls
    <2> HIDE DEF c
    <2>3. QED
      BY <1>1, <2>1, <2>2, OwnerQuietCall
  <1>4. QED
    BY <1>2, <1>3

LEMMA OwnerStartNext ==
    ASSUME IInv, NEW p \in Procs, StartNext(p)
    PROVE  [Locks!Next]_Owner
  <1>1. At(p, "start") /\ call[p].pc = "start" /\ TypeOK /\ Shapes
    BY DEF StartNext, At, IInv
  <1>2. CASE StartTask(p, "idle")
    <2> DEFINE k == call[p].kind
               d == Next1(p)
    <2>1. k \in Kinds /\ d \in Device /\ d \in call[p].todo
      BY <1>1, NextIn DEF TypeOK, Calls
    <2>2. \A x \in Device : holder'[x] = IF x \in {d} THEN k ELSE holder[x]
      BY <1>1, <1>2, <2>1 DEF StartTask, TypeOK
    <2>3. call' = [call EXCEPT ![p] = Advance(p, "idle", call[p])]
      BY <1>2 DEF StartTask
    <2>4. Advance(p, "idle", call[p]).pc # "lock"
      BY <1>1 DEF Advance, Idle, TypeOK, Calls
    <2>5. call'[p].pc # "lock" /\ \A q \in Procs \ {p} : call'[q] = call[q]
      BY <1>1, <2>3, <2>4, OthersSame
    <2>6. {d} \in SUBSET Device /\ {d} \subseteq call[p].todo
      BY <2>1
    <2> HIDE DEF k, d
    <2>7. QED
      BY <1>1, <2>1, <2>2, <2>5, <2>6, OwnerHandOver
  <1>3. CASE Unlock(call[p].todo) /\ Return(p, "ERROR")
    BY <1>1, <1>3, RefusalReleasesMine, OwnerRelease
  <1>4. QED
    BY <1>2, <1>3 DEF StartNext

LEMMA OwnerAmc ==
    ASSUME IInv, NEW p \in Procs, StartAmc(p)
    PROVE  [Locks!Next]_Owner
  <1>1. At(p, "start") /\ call[p].pc = "start" /\ call[p].kind = "AMC" /\ TypeOK /\ call[p].todo = Device
    BY DEF StartAmc, At, IInv, Shapes, Shape
  <1>2. CASE Unlock(Device) /\ Return(p, "BUSY")
    BY <1>1, <1>2, RefusalReleasesMine, OwnerRelease
  <1>3. CASE holder' = [d \in Device |-> "AMC"] /\ Return(p, "OK")
    <2>1. call'[p].pc # "lock" /\ \A q \in Procs \ {p} : call'[q] = call[q]
      BY <1>1, <1>3, OthersSame DEF Return, Idle
    <2>2. \A x \in Device : holder'[x] = IF x \in Device THEN "AMC" ELSE holder[x]
      BY <1>3
    <2>3. "AMC" \in Kinds
      BY DEF Kinds
    <2>4. QED
      BY <1>1, <2>1, <2>2, <2>3, OwnerHandOver
  <1>4. QED
    BY <1>2, <1>3 DEF StartAmc

LEMMA OwnerPsc ==
    ASSUME IInv, NEW p \in Procs, PscLock(p) \/ PscFlash(p)
    PROVE  [Locks!Next]_Owner
  <1>1. /\ call[p].pc \in {"psc", "pscFlash"} /\ TypeOK /\ "PSC" \in Kinds
        /\ {Next1(p)} \in SUBSET Device /\ Next1(p) \in Device
    <2>1. call[p].pc \in {"psc", "pscFlash"} /\ TypeOK /\ Shapes
      BY DEF PscLock, PscFlash, At, IInv
    <2>2. QED
      BY <2>1, NextIn DEF Kinds
  <1>2. ASSUME \E c : call' = [call EXCEPT ![p] = c]
        PROVE  \A q \in Procs : \/ call'[q].pc = "lock" <=> call[q].pc = "lock"
                                \/ call[q].pc \notin {"lock", "check", "start"}
    BY <1>1, <1>2, OthersSame
  <1>3. CASE PscLock(p)
    <2>1. \E c : call' = [call EXCEPT ![p] = c]
      BY <1>1, <1>3 DEF PscLock, Return, TypeOK
    <2>2. CASE holder[Next1(p)] = Nobody
      <3>1. \A x \in Device : holder'[x] = IF x \in {Next1(p)} THEN "PSC" ELSE holder[x]
        BY <1>1, <1>3, <2>2 DEF PscLock, TypeOK
      <3>2. QED
        BY <1>1, <1>2, <2>1, <2>2, <3>1, OwnerOperation
    <2>3. CASE UNCHANGED holder
      BY <1>1, <2>1, <2>3, OwnerQuietCall
    <2>4. QED
      BY <1>3, <2>2, <2>3 DEF PscLock
  <1>4. CASE PscFlash(p)
    <2>1. \E c : call' = [call EXCEPT ![p] = c]
      BY <1>4 DEF PscFlash, Return
    <2>2. CASE Unlock({Next1(p)})
      <3>1. holder[Next1(p)] = "PSC"
        BY <1>4 DEF PscFlash, At, IInv, CallHolds
      <3>2. \A x \in Device : holder'[x] = IF x \in {Next1(p)} THEN Nobody ELSE holder[x]
        BY <2>2 DEF Unlock
      <3>3. QED
        BY <1>1, <1>2, <2>1, <3>1, <3>2, OwnerOperation
    <2>3. CASE UNCHANGED holder
      BY <1>1, <2>1, <2>3, OwnerQuietCall
    <2>4. QED
      BY <1>4, <2>2, <2>3 DEF PscFlash
  <1>5. QED
    BY <1>3, <1>4

LEMMA OwnerPoll ==
    ASSUME IInv, NEW p \in Procs, Scan(p) \/ Test(p) \/ Get(p)
    PROVE  UNCHANGED Owner
  <1>1. call[p].pc \in {"scan", "test", "get"} /\ UNCHANGED holder /\ TypeOK
    BY DEF Scan, Test, Get, At, IInv
  <1>2. (\E c : call' = [call EXCEPT ![p] = c]) \/ UNCHANGED call
    <2>1. CASE Scan(p)
      BY <2>1 DEF Scan, Return
    <2>2. CASE Test(p)
      BY <1>1, <2>2 DEF Test, Return, Collect, TypeOK
    <2>3. CASE Get(p)
      BY <2>3 DEF Get, Collect
    <2>4. QED
      BY <2>1, <2>2, <2>3
  <1>3. QED
    BY <1>1, <1>2, OwnerQuietCall, OwnerQuiet

LEMMA OwnerTask ==
    ASSUME IInv, NEW k \in Kinds, NEW d \in Device, TaskUnlock(k, d) \/ TaskReturn(k, d)
    PROVE  [Locks!Next]_Owner
  <1>1. UNCHANGED call
    BY DEF TaskUnlock, TaskReturn
  <1>2. CASE TaskUnlock(k, d)
    <2> DEFINE D == TaskDevices(k, d)
    <2>1. \A x \in D : x \in Device /\ task[k][x] = "flashing"
      BY <1>2, SameState DEF TaskUnlock
    <2>2. \A x \in D : holder[x] = k
      BY <2>1 DEF IInv, TaskHolds
    <2>3. \A x \in Device : holder'[x] = IF x \in D THEN Nobody ELSE holder[x]
      BY <1>2 DEF TaskUnlock, Unlock
    <2>4. D \in SUBSET Device
      BY <2>1
    <2> HIDE DEF D
    <2>5. QED
      BY <1>1, <2>2, <2>3, <2>4, OwnerOperation
  <1>3. CASE TaskReturn(k, d)
    BY <1>1, <1>3, OwnerQuiet DEF TaskReturn
  <1>4. QED
    BY <1>2, <1>3

\* Every step of the flashing code is a step of the locks, or leaves them alone.
LEMMA LocksStep == IInv /\ [Next]_flashVars => [Locks!Next]_Owner
  <1> SUFFICES ASSUME IInv, [Next]_flashVars PROVE [Locks!Next]_Owner
    OBVIOUS
  <1>1. CASE \E p \in Clients : RunFirmwareFlash(p) \/ GetFirmwareFlashResult(p)
    BY <1>1, OwnerEnter, FlashAssumption
  <1>2. CASE \E p \in Procs : CallStep(p)
    <2>1. PICK p \in Procs : CallStep(p)
      BY <1>2
    <2>2. QED
      BY <2>1, OwnerLockNext, OwnerCheck, OwnerStartNext, OwnerAmc, OwnerPsc, OwnerPoll DEF CallStep
  <1>3. CASE \E k \in Kinds, d \in Device : TaskStep(k, d)
    BY <1>3, OwnerTask DEF TaskStep
  <1>4. CASE \E d \in Device : ResetDevice(d)
    BY <1>4, OwnerQuiet DEF ResetDevice
  <1>5. CASE UNCHANGED flashVars
    BY <1>5, OwnerQuiet DEF flashVars
  <1>6. QED
    BY <1>1, <1>2, <1>3, <1>4, <1>5 DEF Next, Over

LEMMA LocksInit == Init => Locks!Init
  BY FlashAssumption DEF Init, Locks!Init, Owner

\* The flags of the devices, set one by one and cleared by anyone, are used as
\* all-or-nothing locks that only their owner releases.
THEOREM FlashImplementsLocks == Spec => ImplementsDeviceLocks
  BY LocksInit, LocksStep, Invariance, PTL DEF Spec, ImplementsDeviceLocks, Locks!Spec

====
