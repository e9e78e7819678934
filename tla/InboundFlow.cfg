CONSTANTS
  Receipts = {ra, rb}
  Orders = {po}
  Purchases = {po}
  None = None
  Lines = {1, 2}
  Planned <- OneAndTwo
  Lots = {1, 2}
  Stock0 <- OneBefore
  Payloads <- SplitLine
  Requests = {p, q}
  PageLimit = 1
  MaxEvents = 3
SPECIFICATION Spec
SYMMETRY Alike
INVARIANTS
  EventsExplainStock
  CompletedIffReceived
  DoneOnce
  NothingSkipped
CHECK_DEADLOCK FALSE
