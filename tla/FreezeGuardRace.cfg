CONSTANTS
  Docs = {1}
  Requests = {p, q}
  Items = {1}
  Lots = {1}
  ItemOf <- OneItem
  MaxQty = 1
  MaxPosts = 2
  MaxLines = 2
SPECIFICATION Spec
SYMMETRY Parallel
PROPERTY FrozenStockStill
