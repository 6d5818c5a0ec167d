CONSTANTS
  cores = cores  mem = mem  gpu = gpu
  Workers = {w1, w2, w3}
  Pools = {cores, mem, gpu}
  Capacity <- MCCapacity
  Requests <- MCRequests
  MaxJobs = 2
SPECIFICATION Spec
INVARIANTS TypeOK NoLostGrant
PROPERTY EveryRequestGranted
