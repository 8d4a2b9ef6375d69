--------------------------- MODULE MCPolicyManager ---------------------------
(* Policies for TLC: the ones that are accepted, and one that is refused   *)
(* for each reason checkPolicyValidation has.                              *)
EXTENDS PolicyManager

P(type, cond, threshold, action, range) ==
    [type |-> type, cond |-> cond, threshold |-> threshold,
     action |-> action, range |-> range]

Refused == {P("none", "greater", 0, "null", NoRange),
            P("temp", "greater", 0, "reset", NoRange),
            P("temp", "equal", 0, "null", NoRange),
            P("temp", "occur", 0, "null", NoRange),
            P("ras", "occur", 0, "throttle", <<1, 2>>),
            P("temp", "greater", 1, "throttle", <<2, 1>>)}

MCPolicySet == {P("temp", "greater", 0, "throttle", <<1, 2>>),
                P("temp", "less", 1, "throttle", <<2, 3>>),
                P("ras", "occur", 0, "null", NoRange),
                P("throttle", "occur", 0, "null", NoRange),
                P("missing", "occur", 0, "null", NoRange)} \cup Refused
=============================================================================
