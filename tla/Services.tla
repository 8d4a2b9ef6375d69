------------------------------ MODULE Services ------------------------------
(***************************************************************************)
(* The managers of the core library that share neither state nor locks     *)
(* with the rest: virtual functions, raw data dumps and health.  Since     *)
(* they do not interact, the clients of a behaviour call one of them.      *)
(***************************************************************************)
EXTENDS VgpuManager, DumpManager, HealthManager

VARIABLE family   \* the manager the clients of this behaviour call

vars == <<vgpuVars, dumpVars, healthVars, family>>

Init ==
    /\ VgpuInit /\ DumpInit /\ HealthInit
    /\ family \in {"vgpu", "dump", "health"}

Next ==
    \/ family = "vgpu" /\ VgpuNext /\ UNCHANGED <<dumpVars, healthVars, family>>
    \/ family = "dump" /\ DumpNext /\ UNCHANGED <<vgpuVars, healthVars, family>>
    \/ family = "health" /\ HealthNext /\ UNCHANGED <<vgpuVars, dumpVars, family>>

Spec == Init /\ [][Next]_vars /\ DumpFairness

=============================================================================
