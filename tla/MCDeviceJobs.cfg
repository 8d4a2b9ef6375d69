SPECIFICATION JobsSpec
CONSTANTS
  Device = {0, 1}
  Requests <- MCRequests
  HasPvc = TRUE
  MaxRuns = 2
  MaxStress = 1
  Failing = {"EXCLUSIVE", "SYSMAN", "LIGHT_CODEC", "XE_LINK", "ALL_TO_ALL"}
  None = None
  NumCards = 2
  Image = 3
  Block = 2
  Big = 2
  Small = 1
  BusRetries = 1
  SyncRetries = 1
  ReadyPolls = 2
  AskSize = {2}
  MaxFaults = 1
  Makes = {"SMCV", "SMC", "DELL", "HPE", "DNP", "FLORENCE"}
  NumGpus = 2
  UploadRetries = 1
  QueryFails = 1
  MaxFlashes = 2
  MaxLost = 2
 
 
INVARIANT PassMeansPassed
 
INVARIANT AmcInOrder
INVARIANT RedfishOkMeansFlashed
PROPERTY DiagEnds
PROPERTY AmcEnds
