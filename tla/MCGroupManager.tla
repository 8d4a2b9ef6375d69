--------------------------- MODULE MCGroupManager ---------------------------
(* Machines for TLC.  a1 a2 and b1 b2 are the GPUs of two boards with two  *)
(* GPUs behind one switch (56C1 in pci.conf), s is a single-GPU card       *)
(* (56C0) and u a GPU that pci.conf does not list.                         *)
EXTENDS GroupManager, TLC

CONSTANTS a1, a2, b1, b2, s, u

MCBoard == [d \in {a1, a2, b1, b2, s, u} |->
    CASE d \in {a1, a2} -> "A" [] d \in {b1, b2} -> "B" [] d = s -> "S" [] d = u -> "U"]

MCConfGroup == [d \in {a1, a2, b1, b2, s, u} |->
    CASE d = s -> "no" [] d = u -> "none" [] OTHER -> "yes"]

(* Nearest bridge first: the two bridges of the GPU itself, the port of    *)
(* the board's switch it is wired to, the upstream port of that switch.    *)
Chain(own, switch, port) ==
    << [bus |-> own + 1, device |-> 1], [bus |-> own, device |-> 0],
       [bus |-> switch + 1, device |-> port], [bus |-> switch, device |-> 0] >>

MCPciePath == a1 :> Chain(13, 11, 8) @@ a2 :> Chain(16, 11, 9)
           @@ b1 :> Chain(23, 21, 8) @@ b2 :> Chain(26, 21, 9)
           @@ s  :> << [bus |-> 31, device |-> 1], [bus |-> 30, device |-> 0],
                       [bus |-> 0, device |-> 2] >>
           @@ u  :> << [bus |-> 41, device |-> 1], [bus |-> 40, device |-> 0],
                       [bus |-> 0, device |-> 3] >>
=============================================================================
