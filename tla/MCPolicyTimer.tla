---- MODULE MCPolicyTimer ----
EXTENDS PolicyTimer
====
