CONSTANTS
  Threads = {t1, t2}
  Pools = {0, 1, 2, 3, 4}
  BlocksPerClass = 1
  Blocks <- ClassBlocks
  Home <- ClassOf
  Batch <- BatchOfOne
  Slot <- OneSlot
  Asks <- OneSizeEach
  Small = {t1}
  Large = {t2}
  Nil = Nil
SPECIFICATION Spec
SYMMETRY Symmetry
INVARIANTS
  LargeEnough
  BlocksConserved
