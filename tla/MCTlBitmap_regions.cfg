CONSTANTS
  a1 = a1
  a2 = a2
  Threads = {t1, t2, t3}
  Allocators = {a1}
  MaxThreads <- TwoRegions
  BlocksPerThread = 1
  WordBits = 2
  Memory <- Adjacent
  MaxAssigned = 6
  Nil = Nil
SPECIFICATION Spec
SYMMETRY Symmetry
INVARIANTS
  RegionsSound
  EvenSharing
PROPERTY ImplementsBlockPool
