---- MODULE FwCodeData ----
(***************************************************************************)
(* The GFX_CODE_DATA job, core/src/firmware/fwcodedata_mgmt.cpp with       *)
(* runFwCodeDataFlash and getFwCodeDataFlashResult of the manager.  Its    *)
(* asynchronous task is one more caller of FirmwareFlash: it runs a GFX    *)
(* flash, polls it, runs a GFX_DATA flash and polls that.  The task of     *)
(* device d is the process Worker[d].                                      *)
(*                                                                         *)
(* unpacked says whether there are images in the one directory all jobs    *)
(* unpack to.  isNeedUpdateData is the member of that name, which is never *)
(* cleared.                                                                *)
(***************************************************************************)
EXTENDS FirmwareFlash

CONSTANTS Worker,   \* [Device -> Procs], the thread of the task of a device
          MaxJobs   \* a bound on the jobs that are started

ASSUME CodeDataAssumption ==
  /\ MaxJobs \in Nat
  /\ Worker \in [Device -> Procs \ Clients]
  /\ \A d, e \in Device : Worker[d] = Worker[e] => d = e

VARIABLES cd,               \* [Device -> {"none", "running", "OK", "ERROR"}]
          stage,            \* [Device -> Stages], where the task is
          isNeedUpdateData, \* [Device -> BOOLEAN]
          unpacked,         \* BOOLEAN
          starter,          \* [Kinds -> [Device -> Procs \cup {Nobody}]]
          bad,              \* the processes one of whose flashes has failed
          jobs              \* the number of jobs started

jobVars == <<cd, stage, isNeedUpdateData, unpacked>>
vars == <<flashVars, jobVars, starter, bad, jobs>>

JobInit ==
  /\ Init
  /\ cd = [d \in Device |-> "none"]
  /\ stage = [d \in Device |-> "off"]
  /\ isNeedUpdateData = [d \in Device |-> FALSE]
  /\ unpacked = FALSE
  /\ starter = [k \in Kinds |-> [d \in Device |-> Nobody]]
  /\ bad = {}
  /\ jobs = 0

----
\* flashFwCodeData: starts the task unless one is there.  (Images that are not
\* valid return before any change.)
FlashFwCodeData(d) ==
  IF cd[d] # "none"
    THEN UNCHANGED <<cd, stage, isNeedUpdateData, starter, bad, jobs>>
    ELSE \E fits \in BOOLEAN :
           /\ jobs < MaxJobs /\ jobs' = jobs + 1
           /\ cd' = [cd EXCEPT ![d] = "running"]
           /\ stage' = [stage EXCEPT ![d] = "code"]
           /\ isNeedUpdateData' = [isNeedUpdateData EXCEPT ![d] = @ \/ fits]
           /\ bad' = bad \ {Worker[d]}
           /\ starter' = [k2 \in Kinds |-> [x \in Device |->
                IF starter[k2][x] = Worker[d] THEN Nobody ELSE starter[k2][x]]]

\* runFwCodeDataFlash: the directory is replaced before flashFwCodeData finds out
\* whether a job is running.
RunFwCodeDataFlash(c, d) ==
  /\ At(c, "idle") /\ d \notin Pvc
  /\ unpacked' = TRUE
  /\ FlashFwCodeData(d)
  /\ UNCHANGED flashVars

\* getFwCodeDataFlashResult, called by one poller: a finished result is taken,
\* otherwise the answer is ONGOING or OK.
GetFwCodeDataFlashResult(c, d) ==
  /\ At(c, "idle")
  /\ cd' = [cd EXCEPT ![d] = IF @ \in Ready THEN "none" ELSE @]
  /\ UNCHANGED <<flashVars, stage, isNeedUpdateData, unpacked, starter, bad, jobs>>

----
\* The asynchronous task of device d.

Go(d, s) ==
  /\ stage' = [stage EXCEPT ![d] = s]
  /\ UNCHANGED <<cd, isNeedUpdateData, unpacked>>

\* The directory is removed and the task returns r.
Finish(d, r) ==
  /\ unpacked' = FALSE
  /\ stage' = [stage EXCEPT ![d] = "off"]
  /\ cd' = [cd EXCEPT ![d] = r]
  /\ UNCHANGED <<flashVars, isNeedUpdateData>>

\* The GFX run reads the code image; the image may be missing or rejected.
CodeRun(d) ==
  /\ stage[d] = "code" /\ At(Worker[d], "idle")
  /\ \/ Finish(d, "ERROR")
     \/ /\ unpacked
        /\ RunGSCFirmwareFlash(Worker[d], FALSE, d) /\ Go(d, "codeStart")
  /\ UNCHANGED <<starter, bad, jobs>>

Started(d, at, next) ==
  /\ stage[d] = at /\ At(Worker[d], "idle")
  /\ IF call[Worker[d]].res = "OK" THEN UNCHANGED flashVars /\ Go(d, next) ELSE Finish(d, "ERROR")
  /\ UNCHANGED <<starter, bad, jobs>>

CodePoll(d) ==
  /\ stage[d] = "codePoll"
  /\ GetGSCFirmwareFlashResult(Worker[d], FALSE, d) /\ Go(d, "codeWait")
  /\ UNCHANGED <<starter, bad, jobs>>

CodePolledUnchecked(d) ==
  /\ stage[d] = "codeWait" /\ At(Worker[d], "idle")
  /\ LET r == call[Worker[d]].res IN
     \/ r = "ONGOING" /\ UNCHANGED flashVars /\ Go(d, "codePoll")
     \/ r # "ONGOING" /\ isNeedUpdateData[d] /\ UNCHANGED flashVars /\ Go(d, "data")
     \/ r # "ONGOING" /\ ~isNeedUpdateData[d] /\ Finish(d, r)
  /\ UNCHANGED <<starter, bad, jobs>>

CodePolled(d) ==
  /\ stage[d] = "codeWait" /\ At(Worker[d], "idle")
  /\ LET r == call[Worker[d]].res IN
     \/ r = "ONGOING" /\ UNCHANGED flashVars /\ Go(d, "codePoll")
     \/ r = "OK" /\ isNeedUpdateData[d] /\ UNCHANGED flashVars /\ Go(d, "data")
     \/ r # "ONGOING" /\ (r # "OK" \/ ~isNeedUpdateData[d]) /\ Finish(d, r)
  /\ UNCHANGED <<starter, bad, jobs>>

DataRun(d) ==
  /\ stage[d] = "data"
  /\ RunFwDataFlash(Worker[d], FALSE, d) /\ Go(d, "dataStart")
  /\ UNCHANGED <<starter, bad, jobs>>

DataPoll(d) ==
  /\ stage[d] = "dataPoll"
  /\ GetFwDataFlashResult(Worker[d], FALSE, d) /\ Go(d, "dataWait")
  /\ UNCHANGED <<starter, bad, jobs>>

DataPolledUntilError(d) ==
  /\ stage[d] = "dataWait" /\ At(Worker[d], "idle")
  /\ IF call[Worker[d]].res # "ERROR" THEN UNCHANGED flashVars /\ Go(d, "dataPoll")
     ELSE Finish(d, call[Worker[d]].res)
  /\ UNCHANGED <<starter, bad, jobs>>

DataPolled(d) ==
  /\ stage[d] = "dataWait" /\ At(Worker[d], "idle")
  /\ IF call[Worker[d]].res = "ONGOING" THEN UNCHANGED flashVars /\ Go(d, "dataPoll")
     ELSE Finish(d, call[Worker[d]].res)
  /\ UNCHANGED <<starter, bad, jobs>>

JobStep(d) ==
  \/ CodeRun(d) \/ Started(d, "codeStart", "codePoll") \/ CodePoll(d) \/ CodePolled(d)
  \/ DataRun(d) \/ Started(d, "dataStart", "dataPoll") \/ DataPoll(d) \/ DataPolled(d)

----
\* The steps of FirmwareFlash.  A flash remembers who started it; the data image
\* is read when the flash of a device starts.

Starts == \E k \in Kinds, x \in Device : task[k][x] # "flashing" /\ task'[k][x] = "flashing"

FlashCallStep(p) ==
  /\ CallStep(p)
  /\ starter' = [k \in Kinds |-> [x \in Device |->
       IF task[k][x] # "flashing" /\ task'[k][x] = "flashing" THEN p ELSE starter[k][x]]]
  /\ \A d \in Device : Worker[d] = p /\ call[p].kind = "DATA" /\ Starts => unpacked
  /\ UNCHANGED <<jobVars, bad, jobs>>

FlashTaskStep(k, x) ==
  /\ TaskStep(k, x)
  /\ bad' = IF task'[k][x] = "ERROR" THEN bad \cup {starter[k][x]} ELSE bad
  /\ UNCHANGED <<jobVars, starter, jobs>>

JobNext ==
  \/ \E c \in Clients, d \in Device :
       RunFwCodeDataFlash(c, d) \/ GetFwCodeDataFlashResult(c, d)
  \/ \E d \in Device : JobStep(d)
  \/ \E p \in Procs : FlashCallStep(p)
  \/ \E k \in Kinds, x \in Device : FlashTaskStep(k, x)

JobSpec == JobInit /\ [][JobNext]_vars

\* Threads run, the update library returns, and mutexes are granted.
JobFairness ==
  /\ \A d \in Device : SF_vars(FlashCallStep(Worker[d])) /\ SF_vars(JobStep(d))
  /\ \A k \in {"GFX", "DATA"}, x \in Device : WF_vars(FlashTaskStep(k, x))

JobFairSpec == JobSpec /\ JobFairness

----
\* A GFX_CODE_DATA job that reports OK has had no failing flash: the code and the
\* data images are on every device of the group ("Firmware flash successfully").
JobOkMeansFlashed == \A d \in Device : cd[d] = "OK" => Worker[d] \notin bad

\* Two jobs on the devices of one group do not wait for each other: every job
\* ends.
JobEnds == \A d \in Device : (cd[d] = "running") ~> (cd[d] # "running")
====
