CONSTANTS
  Docs = {d1, d2}
  RequestIds = {r1, r2}
  None = None
  Packages = {1}
  MaxEvents = 2
  HandedOver = {d1}
  FactSyncs = {p, q}
  PageLimit = 1
  MaxFacts = 3
SPECIFICATION MCSpec
SYMMETRY Alike
INVARIANTS
  StatusesAgree
  CursorCovers
PROPERTIES
  ImportIsFinal
