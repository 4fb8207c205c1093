CONSTANTS
  Threads = {t1, t2, t3}
  BlockCount = 3
  WordBits = 2
SPECIFICATION Spec
SYMMETRY Symmetry
INVARIANTS
  TypeOK
  BitsMatchOwners
  SpareBitsReturned
  FailureJustified
PROPERTY ImplementsBlockPool
