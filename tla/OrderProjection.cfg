CONSTANTS
  oa = oa
  ob = ob
  ReadyOrders = {oa, ob}
  Parts = {1, 2}
  Trees <- TwoOrders
  LineOf <- OneLine
  Runs = {s1, s2, s3}
  Filters <- AllOrOne
  Parallel = 2
  Limit = 1
SPECIFICATION ProjSpec
SYMMETRY AnyRun
INVARIANTS
  TreesWhole
PROPERTIES
  FreshSyncCatchesUp
  IndexSpec
CHECK_DEADLOCK FALSE
