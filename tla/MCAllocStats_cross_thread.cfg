CONSTANTS
  Threads = {t1, t2}
  Pools = {p1}
  Blocks = {b1, b2}
  Home <- OnePool
  Batch <- BatchOfOne
  Slot <- OneSlot
  Nil = Nil
  MaxCount = 2
SPECIFICATION SSpec
SYMMETRY Symmetry
INVARIANT ReportsGenuine
