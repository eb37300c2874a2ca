CONSTANTS
  r1 = r1
  r2 = r2
  r3 = r3
  i1 = i1
  i2 = i2
  i3 = i3
  None = None
  Reqs <- MC3Reqs
  Ids <- MC3Ids
  Id <- MC3Id
  PromptLen <- MC3PromptLen
  MaxNew <- MC3MaxNew
  Priority <- MC3Priority
  Arrival <- MC3Arrival
  MaxNumSeqs = 2
  MaxBatchedTokens = 2
  TotalGpuBlocks = 3
  BlockSize = 2
  StopTokens = TRUE
  Shutdowns = TRUE
CHECK_DEADLOCK FALSE
SPECIFICATION FairEngineSpec
INVARIANTS
  ResourcesFollowRequests
  ClientInOrderUntilShort
PROPERTIES
  GenerateEnds
