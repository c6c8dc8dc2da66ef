CONSTANTS
  Signers = {a}
  Verifiers = {v}
  MaxTick = 1
  MaxRotations = 2
  MaxHistory = 4
  MaxSigs = 0
  Wired = TRUE
  InOrder = TRUE
  Redelivery = FALSE
  Loopback = TRUE
SPECIFICATION Spec
INVARIANTS OwnKeysPrivate
CHECK_DEADLOCK FALSE
