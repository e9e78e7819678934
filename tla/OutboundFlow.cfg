CONSTANTS
  ord = ord
  man = man
  Docs = {ord, man}
  RequestIds = {r1}
  None = None
  Packages = {1}
  Kind <- Kinds
  Lines = {1, 2}
  Want <- TwoAndOne
  Lots = {1, 2}
  Stock0 <- TwoEach
  Payloads <- Mixed
  Requests = {p, q}
  MaxEvents = 4
SPECIFICATION Spec
SYMMETRY Parallel
INVARIANTS
  EventsExplainStock
  NoOverSubmit
  HandedOverIffShipped
  HandoffIsCompletion
  ReversedOnce
CHECK_DEADLOCK FALSE
