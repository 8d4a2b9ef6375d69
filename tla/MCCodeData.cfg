SPECIFICATION JobFairSpec
CONSTANTS
  Device = {1, 2}
  Sibling <- Card
  Pvc = {}
  Clients = {client}
  Procs = {client, t1, t2}
  Worker <- Threads
  t1 = t1
  t2 = t2
  Jobs = {}
  Nobody = Nobody
  MaxJobs = 2
 
PROPERTY JobEnds
