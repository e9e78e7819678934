CONSTANTS
  Lots = {1, 2}
  ItemOf <- OneItem
  Orders = {o1}
  Tasks = {t1, t2}
  Stock0 = 2
  Requests = {p, q}
  None = None
SPECIFICATION Spec
SYMMETRY Alike
INVARIANTS
  ReturnedOnce
  NoOverReturn
PROPERTIES
  OwnLotsExact
CHECK_DEADLOCK FALSE
