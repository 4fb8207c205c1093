CONSTANTS
  Threads = {t1, t2}
  Blocks = {b1, b2}
  Overlap <- WholeWords
  Nil = Nil
  Wild = Wild
  MaxTag = 6
  MaxBatch = 2
SPECIFICATION FairSpec
INVARIANTS
  TypeOK
  FreeListIntact
  BlocksPartitioned
  TagNamesHead
  CommitsFreshLink
  BatchSound
PROPERTIES
  ImplementsLifoPool
  CallsReturn
