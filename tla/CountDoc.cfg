CONSTANTS
  Docs = {d1, d2}
  Requests = {p, q}
  Items = {1}
  Lots = {1, 2}
  ItemOf <- OneItem
  MaxQty = 1
  MaxPosts = 2
  MaxLines = 2
SPECIFICATION Spec
SYMMETRY Alike
INVARIANTS
  CountedIsComplete
  OneActive
PROPERTIES
  PostMovesDiff
  EndedIsFinal
