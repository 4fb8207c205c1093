CONSTANTS
  Threads = {t1, t2}
  Pools = {0, 1, 2, 3, 4}
  BlocksPerClass = 1
  Blocks <- ClassBlocks
  Home <- ClassOf
  Batch <- BatchOfOne
  Slot <- OneSlot
  Asks <- Mixed
  Small = {}
  Large = {t1, t2}
  Nil = Nil
SPECIFICATION Spec
SYMMETRY Symmetry
INVARIANT LargeEnough
