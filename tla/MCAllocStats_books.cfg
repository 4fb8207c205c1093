CONSTANTS
  Threads = {t1, t2}
  Pools = {p1}
  Blocks = {b1, b2, b3}
  Home <- OnePool
  Batch <- BatchOfOne
  Slot <- OneSlot
  Nil = Nil
  MaxCount = 3
SPECIFICATION SSpec
SYMMETRY Symmetry
INVARIANTS
  StatsBalance
  DetectorExact
