SPECIFICATION Spec
CONSTANTS
  t1 = t1
  t2 = t2
  t3 = t3
  Nobody = Nobody
  Txs = {t1, t2, t3}
  Roles = {"operator", "support"}
  MaxFailed = 2
  Workloads <- MCWorkloads
  MaxRequests = 5
SYMMETRY Symmetry
CHECK_DEADLOCK FALSE
INVARIANT SessionsTypeOK
INVARIANT OneSuccessor
INVARIANT SweepReachesAll
INVARIANT LockoutCounts
