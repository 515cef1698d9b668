SPECIFICATION ShopSpec
CONSTANTS
  Shipments = {1}
  Skus = {1, 2}
  Warehouses = {1}
  NoSite = NoSite
  MaxQty = 1
  MaxStock = 1
  Pods = {p1, p2, p3}
  NoShipment = NoShipment
  Order <- MCOrder
  Keyed = {1}
  Punctual = FALSE
  LossyConsumer = TRUE
  AcksLost = TRUE
  MaxByHand = 4
SYMMETRY PodSymmetry
INVARIANT StockFollowsShipment
CHECK_DEADLOCK FALSE
