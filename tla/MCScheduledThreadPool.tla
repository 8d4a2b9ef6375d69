------------------------ MODULE MCScheduledThreadPool ------------------------
(* One task that runs forever every clock unit and one that runs once, on   *)
(* two workers.                                                             *)
EXTENDS ScheduledThreadPool, TLC

CONSTANTS w1, w2, t1, t2

MCInterval == (t1 :> 1) @@ (t2 :> 2)
MCExeTime == (t1 :> -1) @@ (t2 :> 1)
====
