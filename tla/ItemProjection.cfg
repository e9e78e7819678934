SPECIFICATION ItemsFairSpec
CONSTANTS
  Resources <- TwoItemsOneUom
  Parent <- UomOfFirst
  Codes = {11, 12}
  MaxChanges = 3
  Scripts = {1}
  ResourceSyncs = {2}
  MaxFails = 1
  FeedLimit = 1
INVARIANTS
  CodesUnique
PROPERTIES
  FullSyncIsCurrent
  CatchesUp
