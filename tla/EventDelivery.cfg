SPECIFICATION DeliverySpec
CONSTANTS
  Keys = {k1, k2}
  Relays = {r1}
  Pods = {c1, c2}
  NoPod = NoPod
  BatchSize = 2
  MaxAttempts = 2
  MaxEvents = 2
  MaxFaults = 2
INVARIANT DeliveryTypeOK
INVARIANT NothingLost
PROPERTY ImplementsEventChannel
PROPERTY HandledWhileRunning
CHECK_DEADLOCK FALSE
