CONSTANTS
  s1 = s1
  s2 = s2
  stream1 = stream1
  stream2 = stream2
  SeqIds = {s1, s2}
  Tables <- MCTables
  Batches <- MCBatches
  BlockSize = 2
  MaxBatch = 2
  MaxBlocks = 2
  Streams = {stream1, stream2}
  Waits = TRUE
  WarpSize = 2
  BlockDim = 4
  MaxExponent = 4
  Power <- MCPower
  vocab_size = 5
  MaxLogit = 2
  DrawSteps = 6
  TopKs = {5}
  NormRows <- MCRows
  VecSize = 2
  MaxBlock = 4
  Tile = 2
  MaxLen = 5
  MaxScore = 2
  MaskedScores = FALSE
  StrayRows = FALSE
  Length = 4
  MaxWeight = 4
  Levels = {0, 7, 8, 15}
  GroupSize = 2
  BlockK = 2
  WordLevels = 4
  ZeroPoints = {0}
  RopeLaunches <- MCRopeLaunches
  Histograms <- MCHistograms
  target_bins = 3
  Divergences = {1, 2}
SYMMETRY Symmetry
SPECIFICATION AllSpec
CHECK_DEADLOCK FALSE
INVARIANTS
  KernelSeesItsBatch
  SampledAsDrawn
  RowNormalised
  
  
  RotatedOnce
  MassKept
