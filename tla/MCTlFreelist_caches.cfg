CONSTANTS
  p1 = p1
  p2 = p2
  b1 = b1
  Threads = {t1, t2}
  Pools = {p1}
  Blocks = {b1, b2, b3, b4, b5, b6}
  Home <- OnePool
  Batch <- BatchOfTwo
  Slot <- OneSlot
  Nil = Nil
SPECIFICATION Spec
SYMMETRY Symmetry
INVARIANTS
  TypeOK
  SizeExact
  BlocksConserved
  FailureBound
PROPERTY ImplementsBlockPool
