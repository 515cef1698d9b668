SPECIFICATION Spec
CONSTANTS
  h1 = h1
  h2 = h2
  h3 = h3
  p1 = p1
  p2 = p2
  Nobody = Nobody
  NoKey = NoKey
  Handlers = {h1, h2, h3}
  Pods = {p1, p2}
  PodOf <- MCPodOf
  Bodies = {"a", "b"}
  Workloads <- MCWorkloads
  Lease = 1
  Ttl = 2
  Threshold = 2
  Retries = 1
  MaxClock = 3
SYMMETRY Symmetry
CHECK_DEADLOCK FALSE
INVARIANT RequestsTypeOK
INVARIANT WorkIsRecorded
INVARIANT AnswersAgree
INVARIANT BreakerStops
