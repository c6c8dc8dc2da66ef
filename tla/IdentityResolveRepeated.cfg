CONSTANTS
  Signers = {a}
  Verifiers = {v}
  MaxTick = 1
  MaxRotations = 3
  MaxHistory = 5
  MaxSigs = 0
  Wired = TRUE
  InOrder = TRUE
  Redelivery = TRUE
  Loopback = FALSE
SPECIFICATION Spec
INVARIANTS ResolveCurrent
CHECK_DEADLOCK FALSE
