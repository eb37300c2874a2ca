CONSTANTS
  t1 = t1
  t2 = t2
  v1 = v1
  v2 = v2
  v3 = v3
  Threads = {t1, t2}
  Keys = {"k1", "k2"}
  Variants = {v1, v2, v3}
  NoVariant = NoVariant
  Latencies = {1, 2}
  Infinite = 9
  l1 = l1
  l2 = l2
  Loggers = {l1, l2}
  RunNames = {"run"}
  Seeds = {42}
  FileNames = {"a.csv"}
  Contents = {"x", "y"}
  MaxClock = 2
  MaxRuns = 2
  MaxArtifacts = 1
  NestedRuns = FALSE
  SameSecond = FALSE
  RepeatedNames = FALSE
  LateLogs = FALSE
  Texts <- MCTexts
  Normal <- MCNormal
  Inputs <- MCInputs
  u1 = u1
  u2 = u2
  Users = {u1, u2}
  Tags = {"a", "b"}
  MaxSections = 3
  MaxKernels = 2
  warmup_iters = 1
  profile_iters = 2
  gen_len = 2
  enable_sync = TRUE
  SharedTags = FALSE
  p1 = p1
  p2 = p2
  Profilers = {p1, p2}
  Commands <- MCCommands
  target_metrics <- MCTargetMetrics
  MaxProfiles = 2
  SharedDir = FALSE
  ShortRows = FALSE
  TokenSeqs <- MCTokenSeqs
  MaxSamples = 2
  CostSeqs <- MCCostSeqs
  Unit = 840
  MetricSets <- MCMetricSets
  MaxPoints = 3
  objectives <- MCObjectives
  Baselines <- MCBaselines
  Values = {10, 18, 22, 23}
  Workloads <- MCWorkloads
  threshold_pct = 10
  max_batch_size = 2
  max_token_budget = 3
SYMMETRY Symmetry
SPECIFICATION AllSpec
CHECK_DEADLOCK FALSE
INVARIANTS
  ElectsFastest
  OneTuningEach
  RunsOnRecord
  ResultMatchesManifest
  EachCallTimed
  ReportOfOwnRun
  ScoresConsistent
  FrontierExact
  GateEndsHonestly
