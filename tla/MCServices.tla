----------------------------- MODULE MCServices -----------------------------
(* Two tiles with memory for one VF each (two with ECC); a GPU       *)
(* whose throttle and default values are apart.                            *)
EXTENDS Services, TLC

MCConf == [n \in 1..MaxVfs |->
    [lmem |-> 4 \div n, lmemEcc |-> 2 \div n, rest |-> 2 \div n]]

MCThrottle == [k \in Kind |-> 2]
MCShutdown == [k \in Kind |-> 3]
MCDefault == [k \in Kind |-> 1]

=============================================================================
