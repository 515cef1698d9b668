SPECIFICATION Spec
CONSTANTS
  Shipments = {s1, s2}
  Skus = {k1, k2}
  Warehouses = {w1}
  NoSite = NoSite
  MaxQty = 2
  MaxStock = 3
SYMMETRY Symmetry
INVARIANTS
  TypeOK
  ReservedIsHeld
  NothingOversold
  StockReconciles
PROPERTY HoldsAreFinal
CHECK_DEADLOCK FALSE
