CONSTANTS
  t1 = t1
  t2 = t2
  t3 = t3
  p1 = p1
  p2 = p2
  p3 = p3
  p4 = p4
  NoPtr = NoPtr
  Threads = {t1, t2, t3}
  Ptrs = {p1, p2, p3, p4}
  Sizes <- MCSizes
  Categories = {"WORKSPACE", "KV_CACHE"}
  Threshold = 768
SYMMETRY Symmetry
SPECIFICATION Spec
INVARIANTS
  AccountsExact
  
  OvershootBounded
