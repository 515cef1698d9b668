SPECIFICATION ReplicasSpec
CONSTANTS
  t1 = t1
  t2 = t2
  u1 = u1
  Inventory = Inventory
  Nobody = Nobody
  Txs = {t1, t2}
  Names = {1, 2}
  Codes = {1}
  Days = {1, 2}
  Weeks <- MCWeeks
  Workloads <- MCWorkloads
  MaxRequests = 4
  Replicas = {Inventory}
  Operators = {u1}
  MaxDrops = 1
  MaxAsks = 1
SYMMETRY Symmetry
CHECK_DEADLOCK FALSE
INVARIANT ReplicasTypeOK
INVARIANT InStep
INVARIANT NoGhostScope
INVARIANT WholeWeek
