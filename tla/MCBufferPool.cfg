CONSTANTS
  t1 = t1
  t2 = t2
  d1 = d1
  p1 = p1
  p2 = p2
  p3 = p3
  NoPtr = NoPtr
  NoThread = NoThread
  Threads = {t1, t2, d1}
  Direct = {d1}
  Ptrs = {p1, p2}
  Sizes <- MCSizes
  Categories = {"WORKSPACE"}
  Threshold = 512
  max_cached_bytes = 512
  MaxPower = 1
SPECIFICATION FairPoolSpec
INVARIANTS
  PoolConsistent
PROPERTIES
  AcquireEnds
