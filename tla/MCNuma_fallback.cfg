CONSTANTS
  a1 = a1
  a2 = a2
  Allocators = {a1}
  NodeDirs = {0, 1, 2, 4}
  MAX_NODES = 16
  BlocksPerNode = 2
  Base <- ThreeNodes
  Cpus = {2}
  NodeOf <- Same
  PackageOf <- Same
  Threads = {t1, t2}
  Pools <- MCPools
  Blocks <- MCBlocks
  Home <- MCHome
  Batch <- BatchOfZero
  Slot <- MCSlot
  Nil = Nil
SPECIFICATION Spec
SYMMETRY Symmetry
INVARIANTS
  BlocksAtHome
  BlocksConserved
  FailureBound
PROPERTIES
  FallbackJustified
