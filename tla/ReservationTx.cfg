SPECIFICATION TxSpec
CONSTANTS
  Shipments = {1, 2}
  Skus = {1, 2}
  Warehouses = {1}
  NoSite = NoSite
  MaxQty = 1
  MaxStock = 2
  Txs = {t1, t2}
  Nobody = Nobody
  Bodies <- MCBodies
  ItemId <- MCItemId
  MaxId = 99
SYMMETRY Symmetry
INVARIANTS
  TxTypeOK
  ConfirmedKept
  NoLostUpdate
  StillReclaimable
  NoDeadlock
PROPERTY ImplementsStockHolds
CHECK_DEADLOCK FALSE
