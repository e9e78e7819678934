CONSTANTS
  s1 = s1
  s2 = s2
  t1 = t1
  t2 = t2
  t3 = t3
  Slots = {s1, s2}
  Txns = {t1, t2, t3}
  NoTxn = NoTxn
  order = order
  task = task
  OwnRef = OwnRef
  NoDoc = NoDoc
  Refs <- MCRefs
  Lines <- MCLines
  Keys <- MCKeys
  Docs = {task}
  SameCode <- MCSameCode
  Requests <- AllDocuments
SPECIFICATION FairSpec
INVARIANTS
  TypeOK
  BooksAgree
  AllOrNothing
PROPERTIES
  AbstractSpec
  EveryAttemptEnds
CHECK_DEADLOCK FALSE
