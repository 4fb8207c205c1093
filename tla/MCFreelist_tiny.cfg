CONSTANTS
  Threads = {t1}
  Blocks = {b1, b2}
  Overlap <- TinyBlocks
  Nil = Nil
  Wild = Wild
  MaxTag = 4
  MaxBatch = 2
SPECIFICATION Spec
INVARIANT FreeListIntact
