----------------------------- MODULE DeviceJobs -----------------------------
(***************************************************************************)
(* The operations on devices that run in threads of their own until they   *)
(* end: diagnostics, and the AMC updates over IPMI and over Redfish, of    *)
(* which a server has one.  They share neither state nor locks, so the     *)
(* clients of a behaviour call one of them.                                *)
(***************************************************************************)
EXTENDS DiagnosticManager, AmcUpdate, RedfishUpdate

VARIABLE family   \* the manager the clients of this behaviour call

jobVars == <<vars, amcVars, redfishVars, family>>

(* The cards and the server matter to the manager that updates them only.  *)
JobsInit ==
    /\ Init /\ AmcInit /\ RedfishInit
    /\ family \in {"diagnostics", "ipmi", "redfish"}
    /\ family # "ipmi" => \A c \in Card : chip[c].ver = "old"
    /\ family # "redfish" => make = CHOOSE m \in Makes : TRUE

(* An update that is over asks for nothing more. *)
Rest ==
    /\ \/ family = "ipmi" /\ upd.at = "done"
       \/ family = "redfish" /\ flash.at = "none" /\ flash.no = MaxFlashes
    /\ UNCHANGED jobVars

JobsNext ==
    \/ family = "diagnostics" /\ Next /\ UNCHANGED <<amcVars, redfishVars, family>>
    \/ family = "ipmi" /\ AmcNext /\ UNCHANGED <<vars, redfishVars, family>>
    \/ family = "redfish" /\ RedfishNext /\ UNCHANGED <<vars, amcVars, family>>
    \/ Rest

JobsSpec ==
    /\ JobsInit /\ [][JobsNext]_jobVars
    /\ DiagnosticFairness /\ AmcFairness

=============================================================================
