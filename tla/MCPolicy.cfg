SPECIFICATION Spec
CONSTANTS
    Device = {d1}
    Stranger = nobody
    Tiles = 2
    MaxValue = 1
    MaxTs = 2
    MaxPolicies = 2
    PolicySet <- MCPolicySet
    Sampled = {"temp", "ras"}
PROPERTY NoMissedAlarm
 
