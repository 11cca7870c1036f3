CONSTANTS
  Msg = {m1, m2, m3}
  NoCommand = NoCommand
  Window = 1
  MaxTime = 3
  MaxCopies = 2
SPECIFICATION Spec
SYMMETRY Symmetric
INVARIANTS AtMostOnce RefusedForCause AckHonest
