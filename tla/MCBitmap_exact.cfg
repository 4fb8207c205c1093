CONSTANTS
  Threads = {t1, t2}
  BlockCount = 4
  WordBits = 2
SPECIFICATION FairSpec
INVARIANT FailureJustified
PROPERTY CallsReturn
