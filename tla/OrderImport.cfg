CONSTANTS
  oa = oa
  ob = ob
  i1 = i1
  i2 = i2
  Orders = {oa, ob}
  StoreOf <- TwoStores
  Components = {1, 2, 3}
  Skus = {1, 2}
  SkuOf <- Sku
  Content <- TwoOrders
  Batches <- BothWays
  Warehouses = {w}
  NoWarehouse = NoWarehouse
  ImportRequests = {i1, i2}
SPECIFICATION ImportFairSpec
INVARIANTS
  ImportedIsOneVersion
PROPERTIES
  OrderStands
  EveryImportEnds
CHECK_DEADLOCK FALSE
