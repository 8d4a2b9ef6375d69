---- MODULE MCMonitorManager ----
(***************************************************************************)
(* An old and a new monitor task, and two sessions.  A reading has a       *)
(* device value, a tile value, neither, or two that differ.                *)
(***************************************************************************)
EXTENDS MonitorManager, TLC

Symmetry == Permutations(Writers) \cup Permutations(Session)
MCReadings ==
  {v \in {0, 1, Top} \X {0, 1, None} : v[1] # v[2]}
====
