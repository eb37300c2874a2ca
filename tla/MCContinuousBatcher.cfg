CONSTANTS
  r1 = r1
  r2 = r2
  r3 = r3
  r4 = r4
  r5 = r5
  i1 = i1
  i2 = i2
  i4 = i4
  i5 = i5
  None = None
  Reqs <- MCReqs
  Ids <- MCIds
  Id <- MCId
  PromptLen <- MCPromptLen
  MaxNew <- MCMaxNew
  Priority <- MCPriority
  Arrival <- MCArrival
  MaxNumSeqs = 3
  MaxBatchedTokens = 2
SPECIFICATION Spec
INVARIANTS
  NeverPreempts
  MapNamesLiveRequests
PROPERTIES
  AdmissionOrder
