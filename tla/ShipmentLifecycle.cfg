SPECIFICATION LifecycleSpec
CONSTANTS
  Sessions = {t1, t2}
  MaxVersion = 11
  MaxParcels = 2
SYMMETRY Symmetry
INVARIANTS
  LifecycleTypeOK
  TrailIsPath
  OneFate
  AttemptsCounted
  ParcelsNumbered
PROPERTIES
  ImplementsShipmentStates
  StampsWrittenOnce
CHECK_DEADLOCK FALSE
