CONSTANTS
  Blocks = {b1, b2, b3}
  Ops = 4
  Nil = Nil
SPECIFICATION Spec
INVARIANT LeftoversLate
PROPERTIES
  Terminates
  KeepsContract
