CONSTANTS
  Requests = {p, q}
  Inputs <- Entered
  Policies <- Kinds
  MaxChanges = 2
  Legacy <- OldLot
SPECIFICATION Spec
SYMMETRY Alike
INVARIANTS
  OneLotPerKey
  LotFitsLine
PROPERTIES
  LotsStand
CHECK_DEADLOCK FALSE
