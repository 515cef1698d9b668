SPECIFICATION ShopSpec
CONSTANTS
  Shipments = {1, 2}
  Skus = {1, 2}
  Warehouses = {1}
  NoSite = NoSite
  MaxQty = 1
  MaxStock = 2
  Pods = {p1, p2}
  NoShipment = NoShipment
  Order <- MCOrder
  Keyed = {1}
  Punctual = TRUE
  LossyConsumer = FALSE
  AcksLost = FALSE
  MaxByHand = 1
INVARIANT LiveStock
CHECK_DEADLOCK FALSE
