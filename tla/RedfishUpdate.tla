--------------------------- MODULE RedfishUpdate ---------------------------
(***************************************************************************)
(* The AMC firmware update over Redfish: the flash task of the managers of *)
(* the five server makes uploads the image to the BMC over HTTP and polls  *)
(* the job the BMC makes of it.  "SMCV" stands for the Supermicro models   *)
(* that verify an image before its update is triggered, "SMC" for the      *)
(* others.                                                                 *)
(*                                                                         *)
(* The BMC is external: it runs one update at a time and refuses a second  *)
(* one (OemFirmwareAlreadyInUpdateMode).  A request may be lost, or its    *)
(* answer after the BMC has acted on it.                                   *)
(***************************************************************************)
EXTENDS Integers, Sequences, FiniteSets, FiniteSetsExt, SequencesExt

CONSTANTS
    Makes,          \* subset of {"SMCV", "SMC", "DELL", "HPE", "DNP", "FLORENCE"}
    NumGpus,
    UploadRetries,  \* retry = 3 of SMC's flash
    QueryFails,     \* 3, the failed queries HPE's loop bears
    MaxFlashes,     \* bound: flashes
    MaxLost         \* bound: requests that fail

VARIABLES
    make,   \* the server
    bmc,    \* the jobs of the BMC, in the order they were made
    flash,  \* the flash task
    lost

redfishVars == <<make, bmc, flash, lost>>

Targeted == make \in {"SMCV", "SMC"}
Targets == IF Targeted THEN 1..NumGpus ELSE {0}     \* 0: the one target of a server
NoJob == 0

RedfishInit ==
    /\ make \in Makes
    /\ bmc = <<>>
    /\ flash = [no |-> 0, at |-> "none", targets |-> <<>>, asked |-> {}, retry |-> 0,
                link |-> NoJob, fails |-> 0, state |-> "absent", result |-> "none"]
    /\ lost = 0

-----------------------------------------------------------------------------
(* The BMC.                                                                *)
Pending(n) == bmc[n].state \in {"New", "Running"}
BmcBusy == \E n \in DOMAIN bmc : Pending(n)

NewJob(kind) ==
    bmc' = Append(bmc, [kind |-> kind, flash |-> flash.no, state |-> "New", next |-> NoJob,
                        target |-> Head(flash.targets)])

JobStarts(n) ==
    /\ bmc[n].state = "New"
    /\ bmc' = [bmc EXCEPT ![n].state = "Running"]
    /\ UNCHANGED <<make, flash, lost>>

(* The task of an upload to a FLORENCE server completes when it has made a *)
(* job for the update itself, or without one.                              *)
JobEnds(n) ==
    /\ bmc[n].state = "Running"
    /\ \/ \E s \in {"Completed", "Exception"} : bmc' = [bmc EXCEPT ![n].state = s]
       \/ /\ bmc[n].kind = "task"
          /\ bmc' = Append([bmc EXCEPT ![n].state = "Completed", ![n].next = Len(bmc) + 1],
                           [bmc[n] EXCEPT !.kind = "update", !.state = "New"])
    /\ UNCHANGED <<make, flash, lost>>

(* UpdateService's Oem.Hpe.State *)
ServiceState ==
    IF bmc = <<>> THEN "Idle"
    ELSE CASE Last(bmc).state = "Completed" -> "Complete"
           [] Last(bmc).state = "Exception" -> "Error"
           [] OTHER -> "Updating"

Fault == lost < MaxLost /\ lost' = lost + 1

-----------------------------------------------------------------------------
(* flashAMCFirmware.  A make that asks the BMC first may be refused there; *)
(* an SMC GPU whose target cannot be looked up is left out.                *)
FlashStart(targets) ==
    /\ flash.at = "none" /\ flash.no < MaxFlashes
    /\ lost' = lost + Cardinality(Targets \ ToSet(targets)) /\ lost' <= MaxLost
    /\ flash' = [flash EXCEPT !.no = @ + 1, !.at = "upload", !.targets = targets, !.asked = ToSet(targets),
                              !.retry = UploadRetries, !.link = NoJob, !.fails = 0,
                              !.state = "absent"]
    /\ UNCHANGED <<make, bmc>>

FlashRejected ==
    /\ flash.at = "none" /\ flash.no < MaxFlashes
    /\ make \notin {"DNP", "FLORENCE"}
    /\ Fault
    /\ flash' = [flash EXCEPT !.no = @ + 1]
    /\ UNCHANGED <<make, bmc>>

(* The end of the task: param.callback() and its result *)
Ended(ok) == [flash EXCEPT !.at = "ready", !.result = IF ok THEN "OK" ELSE "ERROR"]

(* The next GPU of the loop, or its end *)
TargetDone ==
    IF Len(flash.targets) > 1
    THEN [flash EXCEPT !.at = "upload", !.targets = Tail(@)]
    ELSE [Ended(TRUE) EXCEPT !.targets = <<>>]

Uploaded ==
    [flash EXCEPT !.link = Len(bmc) + 1, !.retry = UploadRetries,
                  !.at = CASE make = "SMCV" -> "verify" [] make = "FLORENCE" -> "link"
                           [] OTHER -> "poll"]

UploadFailed ==
    IF Targeted /\ flash.retry > 0 THEN [flash EXCEPT !.retry = @ - 1] ELSE Ended(FALSE)

(* uploadImage: the BMC takes the image, whose answer may be lost, or not  *)
UploadImage ==
    /\ flash.at = "upload" /\ flash.targets # <<>>
    /\ UNCHANGED make
    /\ \/ /\ ~BmcBusy
          /\ NewJob(CASE make = "SMCV" -> "verify" [] make = "FLORENCE" -> "task"
                      [] OTHER -> "update")
          /\ \/ flash' = Uploaded /\ UNCHANGED lost
             \/ flash' = UploadFailed /\ Fault
       \/ /\ IF BmcBusy THEN UNCHANGED lost ELSE Fault
          /\ flash' = UploadFailed
          /\ UNCHANGED bmc

(* With no target at all the loop is not entered. *)
NoTarget ==
    /\ flash.at = "upload" /\ flash.targets = <<>>
    /\ flash' = Ended(TRUE)
    /\ UNCHANGED <<make, bmc, lost>>

Answered == UNCHANGED <<make, bmc, lost>>

(* A query that fails ends the flash; HPE has a query of its own. *)
QueryFailed ==
    /\ flash.at \in {"verify", "link", "poll"} /\ make # "HPE"
    /\ Fault
    /\ flash' = Ended(FALSE)
    /\ UNCHANGED <<make, bmc>>

(* imageVerifyResult *)
ImageVerifyResult ==
    /\ flash.at = "verify" /\ ~Pending(flash.link)
    /\ flash' = IF bmc[flash.link].state = "Completed"
                THEN [flash EXCEPT !.at = "trigger"] ELSE Ended(FALSE)
    /\ Answered

(* triggerUpdate *)
TriggerUpdate ==
    /\ flash.at = "trigger"
    /\ UNCHANGED make
    /\ \/ /\ ~BmcBusy /\ NewJob("update")
          /\ \/ flash' = [flash EXCEPT !.at = "poll", !.link = Len(bmc) + 1] /\ UNCHANGED lost
             \/ Fault /\ flash' = Ended(FALSE)
       \/ Fault /\ flash' = Ended(FALSE) /\ UNCHANGED bmc

GetJobLinkOfUpload ==
    /\ flash.at = "link" /\ ~Pending(flash.link)
    /\ flash' = IF bmc[flash.link].next # NoJob
                THEN [flash EXCEPT !.at = "poll"] ELSE Ended(FALSE)
    /\ Answered

(* getJobLink *)
GetJobLink ==
    /\ flash.at = "link" /\ ~Pending(flash.link)
    /\ flash' = IF bmc[flash.link].next # NoJob
                THEN [flash EXCEPT !.at = "poll", !.link = bmc[flash.link].next]
                ELSE Ended(FALSE)
    /\ Answered

(* getOneTaskUpdateResult, getUpdateResult, getTaskResult, getJobResult:   *)
(* for SMC a job that is not "Running" is over.                            *)
JobOver == IF Targeted THEN bmc[flash.link].state # "Running" ELSE ~Pending(flash.link)

PollJob ==
    /\ flash.at = "poll" /\ make # "HPE" /\ JobOver
    /\ flash' = IF bmc[flash.link].state = "Completed" THEN TargetDone ELSE Ended(FALSE)
    /\ Answered

(* The loop of HPE's task: obj keeps the answer of an earlier query when   *)
(* one fails, and an answer without a State counts as a failure that does  *)
(* not end the loop.                                                       *)
PollService ==
    /\ flash.at = "poll" /\ make = "HPE"
    /\ UNCHANGED <<make, bmc>>
    /\ \E answer \in {"failed", "absent", ServiceState} :
         LET failed == answer = "failed"
             state == IF failed THEN flash.state ELSE answer
             fails == flash.fails + (IF failed THEN 1 ELSE 0)
         IN  /\ IF answer = ServiceState THEN UNCHANGED lost ELSE Fault
             /\ flash' = CASE failed /\ fails > QueryFails -> Ended(FALSE)
                           [] ~(failed /\ fails > QueryFails) /\ state \in {"Complete", "Error", "Idle"} ->
                                Ended(state = "Complete")
                           [] OTHER -> [flash EXCEPT !.state = state,
                                                     !.fails = fails + (IF state = "absent" THEN 1 ELSE 0)]

(* getAMCFirmwareFlashResult of a task that is ready *)
FlashResult ==
    /\ flash.at = "ready"
    /\ flash' = [flash EXCEPT !.at = "none"]
    /\ UNCHANGED <<make, bmc, lost>>

-----------------------------------------------------------------------------
TargetLists ==
    {SetToSortSeq(T, <) : T \in {T \in SUBSET Targets : Targeted \/ T = Targets}}

RedfishNext ==
    \/ \E targets \in TargetLists : FlashStart(targets)
    \/ FlashRejected \/ UploadImage \/ NoTarget \/ QueryFailed \/ ImageVerifyResult
    \/ TriggerUpdate \/ GetJobLink \/ PollJob \/ PollService \/ FlashResult
    \/ \E n \in DOMAIN bmc : JobStarts(n) \/ JobEnds(n)

-----------------------------------------------------------------------------
(* A flash that reports OK has seen an update job of its own completed for *)
(* every target it took up, and leaves none of its jobs, nor one of an     *)
(* earlier flash that was given up, running in the BMC when the devices    *)
(* are unlocked: whatever was lost, verified, retried or refused.  (SMC's  *)
(* flash that could look up no target at all is OK about nothing.)         *)
RedfishOkMeansFlashed ==
    flash.at = "ready" /\ flash.result = "OK" /\ flash.asked # {} =>
        /\ \A t \in flash.asked : \E n \in DOMAIN bmc :
             /\ bmc[n].kind = "update" /\ bmc[n].state = "Completed"
             /\ bmc[n].flash = flash.no /\ bmc[n].target = t
        /\ ~BmcBusy

=============================================================================
