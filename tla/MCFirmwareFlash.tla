---- MODULE MCFirmwareFlash ----
(***************************************************************************)
(* Devices on cards of their own, and threads that are interchangeable.    *)
(***************************************************************************)
EXTENDS FirmwareFlash, TLC

Alone == [d \in Device |-> {d}]
Symmetry == Permutations(Clients)
====
