CONSTANTS
  p1 = p1
  p2 = p2
  b1 = b1
  Threads = {t1, t2}
  Pools = {p1, p2}
  Blocks = {b1, b2}
  Home <- TwoPools
  Batch <- BatchOfOne
  Slot <- OneSlot
  Nil = Nil
SPECIFICATION Spec
INVARIANT ServedFromOwnRegion
