CONSTANTS
  a1 = a1
  a2 = a2
  Allocators = {a1, a2}
  NodeDirs = {0, 1}
  MAX_NODES = 16
  BlocksPerNode = 1
  Base <- TwoByTwo
  Cpus = {0, 1}
  NodeOf <- Same
  PackageOf <- Same
  Threads = {t1, t2}
  Pools <- MCPools
  Blocks <- MCBlocks
  Home <- MCHome
  Batch <- BatchOfOne
  Slot <- MCSlot
  Nil = Nil
SPECIFICATION Spec
INVARIANT LiveMemoryOnly
