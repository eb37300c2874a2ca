CONSTANTS
  r1 = r1
  r2 = r2
  r3 = r3
  i1 = i1
  i2 = i2
  i3 = i3
  None = None
  Reqs <- MCReqs
  Ids <- MCIds
  Id <- MCId
  PromptLen <- MCPromptLen
  MaxNew <- MCMaxNew
  Priority <- MCPriority
  Arrival <- MCArrival
  MaxNumSeqs = 2
  MaxBatchedTokens = 2
  TotalGpuBlocks = 2
  BlockSize = 2
  StopTokens = TRUE
  Shutdowns = FALSE
CHECK_DEADLOCK FALSE
SPECIFICATION EngineSpec
INVARIANTS
  ClientInOrder
