SPECIFICATION DeliverySpec
CONSTANTS
  Keys = {k1, k2}
  Relays = {r1}
  Pods = {c1}
  NoPod = NoPod
  BatchSize = 2
  MaxAttempts = 2
  MaxEvents = 2
  MaxFaults = 1
PROPERTY AllHandled
CHECK_DEADLOCK FALSE
