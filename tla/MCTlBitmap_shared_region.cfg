CONSTANTS
  a1 = a1
  a2 = a2
  Threads = {t1, t2}
  Allocators = {a1}
  MaxThreads <- OneRegion
  BlocksPerThread = 3
  WordBits = 2
  Memory <- Adjacent
  MaxAssigned = 2
  Nil = Nil
SPECIFICATION Spec
SYMMETRY Symmetry
INVARIANTS
  TypeOK
  RegionsSound
  FailureJustified
