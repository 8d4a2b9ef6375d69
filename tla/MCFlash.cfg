SPECIFICATION Spec
CONSTANTS
  Device = {1, 2}
  Sibling <- Alone
  Pvc = {1}
  Clients = {a, b}
  Procs = {a, b}
  Jobs = {"GFX", "PSC", "AMC"}
  Nobody = Nobody
INVARIANT OneFlashAtATime
INVARIANT LockAccounted
INVARIANT GfxStartsWhole
INVARIANT FailureReported
PROPERTY ImplementsDeviceLocks
SYMMETRY Symmetry
