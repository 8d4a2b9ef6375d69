---- MODULE FirmwareFlash ----
(***************************************************************************)
(* Firmware flashing: core/src/firmware/firmware_manager.cpp with the      *)
(* per-device tasks of GPUDevice (GFX), FwDataMgmt (DATA), PscMgmt (PSC)   *)
(* and the one AMC task of the AMC manager.                                *)
(*                                                                         *)
(* A process is a thread that calls the manager.  The run and the result   *)
(* functions are loops over the devices of the call, one step per device,  *)
(* because other calls and the asynchronous tasks interleave with them.    *)
(* holder[d] is the operation lock of device d: the code keeps one flag,   *)
(* the model also remembers who set it.  task[k][d] is the std::future of  *)
(* kind k on device d; the AMC future stands at every device at once.      *)
(* A loop that only clears flags is one step with the test before it: a    *)
(* release commutes with every earlier step of another thread.             *)
(***************************************************************************)
EXTENDS Naturals, FiniteSets, FiniteSetsExt

CONSTANTS Device,   \* the device ids, numbers: getDeviceList is in id order
          Sibling,  \* [Device -> SUBSET Device], the build-in group of a device
          Pvc,      \* the devices of model PVC; the others are ATS-M
          Procs,    \* the threads that call the manager
          Clients,  \* those of them that call the API
          Jobs,     \* the kinds of flash the clients ask for
          Nobody

Kinds == {"GFX", "DATA", "PSC", "AMC"}

ASSUME FlashAssumption ==
  /\ Device \subseteq Nat /\ Device # {} /\ IsFiniteSet(Device)
  /\ Sibling \in [Device -> SUBSET Device] /\ Pvc \subseteq Device
  /\ \A d \in Device : d \in Sibling[d]
  /\ Jobs \subseteq Kinds /\ Clients \subseteq Procs
  /\ Nobody \notin Procs \cup Kinds /\ Procs \cap Kinds = {}

VARIABLES holder,    \* [Device -> Procs \cup Kinds \cup {Nobody}]
          task,      \* [Kinds -> [Device -> TaskStates]]
          call,      \* [Procs -> Calls], the call each thread is in
          ended      \* why the process is over, if it is

flashVars == <<holder, task, call, ended>>

\* "ending": the task has unlocked the device and has not returned yet.
TaskStates == {"none", "flashing", "ending", "OK", "ERROR"}
Ready == {"OK", "ERROR"}
Results == {"OK", "ERROR", "ONGOING", "BUSY", "UNSUPPORTED"}
Steps == {"idle", "lock", "check", "start", "psc", "pscFlash", "scan", "test", "get"}

Calls == [pc : Steps, kind : Kinds, all : BOOLEAN, list : SUBSET Device,
          todo : SUBSET Device, res : Results, ongoing : BOOLEAN, failed : BOOLEAN]

\* The types of the locks, the futures and the calls.
TypeOK ==
  /\ holder \in [Device -> Procs \cup Kinds \cup {Nobody}]
  /\ task \in [Kinds -> [Device -> TaskStates]]
  /\ call \in [Procs -> Calls]
  /\ ended \in {"no", "badGet", "reset"}

\* Between two calls a thread remembers the result of the last one.
Idle(r, failed) == [pc |-> "idle", kind |-> "GFX", all |-> FALSE, list |-> {}, todo |-> {},
                    res |-> r, ongoing |-> FALSE, failed |-> failed]

Init ==
  /\ holder = [d \in Device |-> Nobody]
  /\ task = [k \in Kinds |-> [d \in Device |-> "none"]]
  /\ call = [p \in Procs |-> Idle("OK", FALSE)]
  /\ ended = "no"

----
\* Helpers: one step of the call of p.

At(p, s) == call[p].pc = s /\ ended = "no"
Next1(p) == Min(call[p].todo)
Rest(p) == call[p].todo \ {Next1(p)}

\* The loop of p moves on; after the last device it goes to step `then`.
Advance(p, then, c) ==
  IF Rest(p) # {}
    THEN [c EXCEPT !.todo = Rest(p)]
    ELSE IF then = "idle" THEN Idle("OK", FALSE)
    ELSE [c EXCEPT !.todo = c.list, !.pc = then]

Return(p, r) == call' = [call EXCEPT ![p] = Idle(r, FALSE)]

Valid(k, d) == task[k][d] # "none"

\* DeviceManager::mutex, held throughout tryLockDevices.
DMFree == \A q \in Procs : call[q].pc # "lock"

\* Device::unlock clears the flag whoever set it.
Unlock(S) == holder' = [d \in Device |-> IF d \in S THEN Nobody ELSE holder[d]]

\* The devices of a call: all, the build-in group, or (PSC) the one device.
ListOf(k, all, d) == IF all THEN Device ELSE IF k = "PSC" THEN {d} ELSE Sibling[d]

Enter(p, s, k, all, S) ==
  call' = [call EXCEPT ![p] = [pc |-> s, kind |-> k, all |-> all, list |-> S,
                               todo |-> S, res |-> "OK", ongoing |-> FALSE,
                               failed |-> FALSE]]

----
\* runGSCFirmwareFlash, runFwDataFlash, runAMCFirmwareFlash, runPscFwFlash.

\* Validations that fail return before any change and are left out.
RunGSCFirmwareFlash(p, all, d) ==
  /\ At(p, "idle") /\ DMFree
  /\ Enter(p, "lock", "GFX", all, ListOf("GFX", all, d))
  /\ UNCHANGED <<holder, task, ended>>

\* Refused unless every device is an ATS-M.
RunFwDataFlash(p, all, d) ==
  /\ At(p, "idle") /\ DMFree
  /\ ListOf("DATA", all, d) \cap Pvc = {}
  /\ Enter(p, "lock", "DATA", all, ListOf("DATA", all, d))
  /\ UNCHANGED <<holder, task, ended>>

RunAMCFirmwareFlash(p) ==
  /\ At(p, "idle") /\ DMFree
  /\ Enter(p, "lock", "AMC", TRUE, Device)
  /\ UNCHANGED <<holder, task, ended>>

RunPscFwFlash(p, all, d) ==
  /\ At(p, "idle")
  /\ Enter(p, "psc", "PSC", all, ListOf("PSC", all, d))
  /\ UNCHANGED <<holder, task, ended>>

LockNextUndoAll(p) ==
  LET d == Next1(p) IN
  /\ At(p, "lock")
  /\ IF holder[d] = Nobody
       THEN /\ holder' = [holder EXCEPT ![d] = p]
            /\ call' = [call EXCEPT ![p] = Advance(p, "check", @)]
       ELSE Unlock(call[p].list) /\ Return(p, "BUSY")
  /\ UNCHANGED <<task, ended>>

\* tryLockDevices: all or nothing.
LockNext(p) ==
  LET d == Next1(p) IN
  /\ At(p, "lock")
  /\ IF holder[d] = Nobody
       THEN /\ holder' = [holder EXCEPT ![d] = p]
            /\ call' = [call EXCEPT ![p] = Advance(p, "check", @)]
       ELSE /\ Unlock(call[p].list \ call[p].todo)
            /\ Return(p, "BUSY")
  /\ UNCHANGED <<task, ended>>

CheckKeepLocks(p) ==
  LET c == call[p] IN
  /\ At(p, "check")
  /\ IF c.kind # "AMC" /\ \E d \in c.list : Valid(c.kind, d)
       THEN Return(p, "BUSY") /\ UNCHANGED holder
       ELSE call' = [call EXCEPT ![p].pc = "start"] /\ UNCHANGED holder
  /\ UNCHANGED <<task, ended>>

CheckFirstOnly(p) ==
  LET c == call[p] IN
  /\ At(p, "check")
  /\ IF c.kind # "AMC" /\ Valid(c.kind, Min(c.list))
       THEN DMFree /\ Unlock(c.list) /\ Return(p, "BUSY")
       ELSE call' = [call EXCEPT ![p].pc = "start"] /\ UNCHANGED holder
  /\ UNCHANGED <<task, ended>>

\* No device of the list may have an uncollected task of the kind (GFX, DATA).
Check(p) ==
  LET c == call[p] IN
  /\ At(p, "check")
  /\ IF c.kind # "AMC" /\ \E d \in c.list : Valid(c.kind, d)
       THEN DMFree /\ Unlock(c.list) /\ Return(p, "BUSY")
       ELSE call' = [call EXCEPT ![p].pc = "start"] /\ UNCHANGED holder
  /\ UNCHANGED <<task, ended>>

\* The start of the task on the next device hands the lock over to the task.
StartTask(p, then) ==
  LET c == call[p] IN
  /\ task' = [task EXCEPT ![c.kind][Next1(p)] = "flashing"]
  /\ holder' = [holder EXCEPT ![Next1(p)] = c.kind]
  /\ call' = [call EXCEPT ![p] = Advance(p, then, @)]

\* The first device that does not start stops the loop and its lock and those
\* of the devices after it are released.  flashFwData validates the image.
StartNext(p) ==
  LET c == call[p] IN
  /\ At(p, "start") /\ c.kind # "AMC"
  /\ \/ ~Valid(c.kind, Next1(p)) /\ StartTask(p, "idle")
     \/ /\ c.kind = "DATA" \/ Valid(c.kind, Next1(p))
        /\ DMFree /\ Unlock(c.todo) /\ Return(p, "ERROR") /\ UNCHANGED task
  /\ UNCHANGED ended

\* flashAMCFirmware: one future for all devices; a refusal calls the callback,
\* which unlocks every device.
StartAmc(p) ==
  /\ At(p, "start") /\ call[p].kind = "AMC"
  /\ IF \E d \in Device : Valid("AMC", d)
       THEN DMFree /\ Unlock(Device) /\ Return(p, "BUSY") /\ UNCHANGED task
       ELSE /\ task' = [task EXCEPT !["AMC"] = [d \in Device |-> "flashing"]]
            /\ holder' = [d \in Device |-> "AMC"]
            /\ Return(p, "OK")
  /\ UNCHANGED ended

PscLockIgnored(p) ==
  /\ At(p, "psc")
  /\ holder' = [holder EXCEPT ![Next1(p)] = "PSC"]
  /\ call' = [call EXCEPT ![p].pc = "pscFlash"]
  /\ UNCHANGED <<task, ended>>

\* runPscFwFlash locks, validates and starts device by device.
PscLock(p) ==
  LET d == Next1(p) IN
  /\ At(p, "psc")
  /\ IF holder[d] = Nobody
       THEN /\ holder' = [holder EXCEPT ![d] = "PSC"]
            /\ call' = [call EXCEPT ![p].pc = "pscFlash"]
       ELSE Return(p, "BUSY") /\ UNCHANGED holder
  /\ UNCHANGED <<task, ended>>

\* A device without PscMgmt, and an invalid image, return without unlocking; a
\* task that is running unlocks first.  (The IGSC library is taken as present.)
PscFlash(p) ==
  LET d == Next1(p) IN
  /\ At(p, "pscFlash")
  /\ \/ /\ d \notin Pvc \/ ~Valid("PSC", d)
        /\ Return(p, "ERROR") /\ UNCHANGED <<holder, task>>
     \/ /\ d \in Pvc /\ Valid("PSC", d)
        /\ Unlock({d}) /\ Return(p, "BUSY") /\ UNCHANGED task
     \/ /\ d \in Pvc /\ ~Valid("PSC", d)
        /\ task' = [task EXCEPT !["PSC"][d] = "flashing"] /\ UNCHANGED holder
        /\ call' = [call EXCEPT ![p] = IF Rest(p) = {} THEN Advance(p, "idle", @)
                                       ELSE [@ EXCEPT !.todo = Rest(p), !.pc = "psc"]]
  /\ UNCHANGED ended

----
\* The asynchronous task of kind k on device d.

TaskDevices(k, d) == IF k = "AMC" THEN Device ELSE {d}

SetTask(k, d, s) ==
  task' = [task EXCEPT ![k] = [x \in Device |-> IF x \in TaskDevices(k, d) THEN s ELSE @[x]]]

TaskUnlock(k, d) ==
  /\ task[k][d] = "flashing" /\ ended = "no"
  /\ k = "AMC" => DMFree
  /\ Unlock(TaskDevices(k, d))
  /\ SetTask(k, d, "ending")
  /\ UNCHANGED <<call, ended>>

TaskReturn(k, d) ==
  /\ task[k][d] = "ending" /\ ended = "no"
  /\ \E r \in Ready : SetTask(k, d, r)
  /\ UNCHANGED <<holder, call, ended>>

----
\* getGSCFirmwareFlashResult, getFwDataFlashResult, getAMCFirmwareFlashResult and
\* getPscFwFlashResult.

\* FirmwareManager::mtx, held throughout getFwDataFlashResult.
Polling(q, k) == call[q].pc \in {"scan", "test", "get"} /\ call[q].kind = k

GetGSCFirmwareFlashResult(p, all, d) ==
  /\ At(p, "idle")
  /\ Enter(p, "scan", "GFX", all, ListOf("GFX", all, d))
  /\ UNCHANGED <<holder, task, ended>>

GetFwDataFlashResult(p, all, d) ==
  /\ At(p, "idle") /\ \A q \in Procs : ~Polling(q, "DATA")
  /\ ListOf("DATA", all, d) \cap Pvc = {}
  /\ Enter(p, "scan", "DATA", all, ListOf("DATA", all, d))
  /\ UNCHANGED <<holder, task, ended>>

\* One future: the loop is over one device.
GetAMCFirmwareFlashResult(p) ==
  /\ At(p, "idle")
  /\ Enter(p, "test", "AMC", TRUE, {Min(Device)})
  /\ UNCHANGED <<holder, task, ended>>

GetPscFwFlashResult(p, all, d) ==
  /\ At(p, "idle")
  /\ Enter(p, "test", "PSC", all, ListOf("PSC", all, d))
  /\ UNCHANGED <<holder, task, ended>>

\* The first loop: while any device is at work the result is ONGOING.
Scan(p) ==
  LET c == call[p]
      o == c.ongoing \/ task[c.kind][Next1(p)] \in {"flashing", "ending"} IN
  /\ At(p, "scan")
  /\ IF Rest(p) = {} /\ o
       THEN Return(p, "ONGOING")
       ELSE call' = [call EXCEPT ![p] = Advance(p, "test", [@ EXCEPT !.ongoing = o])]
  /\ UNCHANGED <<holder, task, ended>>

CollectLast(p, r) ==
  LET c == call[p] IN
  call' = [call EXCEPT ![p] =
             IF Rest(p) = {} THEN Idle(r, c.failed \/ r = "ERROR")
             ELSE [c EXCEPT !.pc = "test", !.todo = Rest(p), !.res = r,
                            !.failed = @ \/ r = "ERROR"]]

\* Result r of the next device enters the result of the call: PSC keeps the
\* last one and stops at an error, GFX stops at a failure of a call for all.
Collect(p, r) ==
  LET c == call[p]
      res == IF c.kind \in {"PSC", "AMC"} \/ r # "OK" THEN r ELSE c.res
      stop == \/ Rest(p) = {}
              \/ c.kind = "PSC" /\ r = "ERROR"
              \/ c.kind = "GFX" /\ c.all /\ r # "OK" IN
  call' = [call EXCEPT ![p] =
             IF stop THEN Idle(res, c.failed \/ r = "ERROR")
             ELSE [c EXCEPT !.pc = "test", !.todo = Rest(p), !.res = res,
                            !.failed = @ \/ r = "ERROR"]]

\* valid() and wait_for(0), without the mutex of the task.
Test(p) ==
  LET c == call[p]
      s == task[c.kind][Next1(p)] IN
  /\ At(p, "test")
  /\ CASE c.kind = "PSC" /\ Next1(p) \notin Pvc -> Return(p, "UNSUPPORTED")
       [] OTHER ->
            IF s \in Ready THEN call' = [call EXCEPT ![p].pc = "get"]
            ELSE Collect(p, IF s = "none" THEN "OK" ELSE "ONGOING")
  /\ UNCHANGED <<holder, task, ended>>

\* get(): leaves the future without a state.  On a future without a state it
\* throws, on one that is not ready it blocks.
Get(p) ==
  LET c == call[p]
      s == task[c.kind][Next1(p)] IN
  /\ At(p, "get")
  /\ \/ /\ s \in Ready
        /\ SetTask(c.kind, Next1(p), "none")
        /\ Collect(p, s)
        /\ UNCHANGED ended
     \/ s = "none" /\ ended' = "badGet" /\ UNCHANGED <<task, call>>
  /\ UNCHANGED holder

----
\* xpumResetDevice (and xpumApplyPPR): the documentation asks that no other call
\* is in progress.  taskAMC is never assigned, so the test of
\* FirmwareManager::isUpgradingFw is always false.

ResetDevice(d) ==
  /\ \A p \in Procs : At(p, "idle")
  /\ ~Valid("GFX", d)
  /\ ended' = "reset"
  /\ UNCHANGED <<holder, task, call>>

----
\* xpumRunFirmwareFlash, for one device or for all (AMC: only for all).
RunFirmwareFlash(p) ==
  \E k \in Jobs, all \in BOOLEAN, d \in Device :
    CASE k = "GFX" -> RunGSCFirmwareFlash(p, all, d)
      [] k = "DATA" -> RunFwDataFlash(p, all, d)
      [] k = "PSC" -> RunPscFwFlash(p, all, d)
      [] k = "AMC" -> all /\ RunAMCFirmwareFlash(p)

\* xpumGetFirmwareFlashResult.
GetFirmwareFlashResult(p) ==
  \E k \in Jobs, all \in BOOLEAN, d \in Device :
    CASE k = "GFX" -> GetGSCFirmwareFlashResult(p, all, d)
      [] k = "DATA" -> GetFwDataFlashResult(p, all, d)
      [] k = "PSC" -> GetPscFwFlashResult(p, all, d)
      [] k = "AMC" -> all /\ GetAMCFirmwareFlashResult(p)

CallStep(p) ==
  \/ LockNext(p) \/ Check(p) \/ StartNext(p) \/ StartAmc(p)
  \/ PscLock(p) \/ PscFlash(p)
  \/ Scan(p) \/ Test(p) \/ Get(p)

TaskStep(k, d) == TaskUnlock(k, d) \/ TaskReturn(k, d)

\* The process has ended.
Over == ended # "no" /\ UNCHANGED flashVars

Next ==
  \/ \E p \in Clients : RunFirmwareFlash(p) \/ GetFirmwareFlashResult(p)
  \/ \E p \in Procs : CallStep(p)
  \/ \E k \in Kinds, d \in Device : TaskStep(k, d)
  \/ \E d \in Device : ResetDevice(d)
  \/ Over

Spec == Init /\ [][Next]_flashVars

----
\* The operation locks keep a device to one firmware update at a time, whatever
\* mix of calls for one device, for a group and for all devices is made.
OneFlashAtATime ==
  \A d \in Device : Cardinality({k \in Kinds : task[k][d] = "flashing"}) <= 1

\* Every held lock is accounted for: by the task that is flashing, or by a call
\* that has locked the device and has not started it yet.  A call that fails part
\* way ("some device fail to start, remember to unlock") leaves none behind.
LockAccounted ==
  \A d \in Device :
    \/ holder[d] \in {Nobody, "PSC"}
    \/ holder[d] \in Kinds /\ task[holder[d]][d] = "flashing"
    \/ /\ holder[d] \in Procs
       /\ LET c == call[holder[d]] IN
            \/ c.pc = "lock" /\ d \in c.list \ c.todo
            \/ c.pc \in {"check", "start"} /\ d \in c.todo

\* runGSCFirmwareFlash looks at every taskGSC under the locks and starts the
\* devices later: what it saw still holds, so a GFX flash never starts on part
\* of a group only.
GfxStartsWhole ==
  \A p \in Procs :
    call[p].pc = "start" /\ call[p].kind = "GFX" =>
      \A d \in call[p].todo : ~Valid("GFX", d) /\ holder[d] = p

\* getFwDataFlashResult holds the manager's mutex from valid() to get(), so two
\* threads that ask for the result never take it twice.
DataGetSafe ==
  \A p \in Procs :
    call[p].pc = "get" /\ call[p].kind = "DATA" => task["DATA"][Next1(p)] \in Ready

\* A result call that took the failure of a device, which no later call can see
\* any more, never reports success, whatever the other devices returned.
FailureReported ==
  \A p \in Procs : call[p].pc = "idle" /\ call[p].failed => call[p].res # "OK"

\* The owner of a device as the users of the locks see it: the locks that
\* tryLockDevices has set so far are nobody's until it has the last one.
Owner == [d \in Device |->
            IF holder[d] \in Procs /\ call[holder[d]].pc = "lock" THEN Nobody ELSE holder[d]]

Locks == INSTANCE DeviceLocks WITH Thread <- Procs, Operation <- Kinds, owner <- Owner

\* The flags are used as real locks: although tryLockDevices sets them one by one
\* and Device::unlock clears a flag whoever set it, every call takes all its
\* devices at once or none, and nothing releases a device it does not own.
ImplementsDeviceLocks == Locks!Spec

====
