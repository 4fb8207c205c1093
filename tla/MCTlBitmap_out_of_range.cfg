CONSTANTS
  a1 = a1
  a2 = a2
  Threads = {t1, t2}
  Allocators = {a1, a2}
  MaxThreads <- OneAndTwo
  BlocksPerThread = 1
  WordBits = 2
  Memory <- Adjacent
  MaxAssigned = 3
  Nil = Nil
SPECIFICATION Spec
SYMMETRY Symmetry
INVARIANT RegionInRange
