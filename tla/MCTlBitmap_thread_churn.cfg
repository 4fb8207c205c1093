CONSTANTS
  a1 = a1
  a2 = a2
  Threads = {t1, t2}
  Allocators = {a1}
  MaxThreads <- TwoRegions
  BlocksPerThread = 1
  WordBits = 1
  Memory <- Adjacent
  MaxAssigned = 4
  Nil = Nil
SPECIFICATION Spec
SYMMETRY Symmetry
INVARIANT RegionPerThread
