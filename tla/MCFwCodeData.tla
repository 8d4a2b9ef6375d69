---- MODULE MCFwCodeData ----
(***************************************************************************)
(* One card of one or two ATS-M devices, with the threads of their tasks.  *)
(***************************************************************************)
EXTENDS FwCodeData

CONSTANTS t1, t2

Card == [d \in Device |-> Device]
Threads == [d \in Device |-> IF d = 1 THEN t1 ELSE t2]
====
