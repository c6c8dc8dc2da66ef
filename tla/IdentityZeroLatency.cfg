CONSTANTS
  Signers = {a}
  Verifiers = {v}
  MaxTick = 1
  MaxRotations = 2
  MaxHistory = 4
  MaxSigs = 1
  Wired = TRUE
  InOrder = TRUE
  Redelivery = FALSE
  Loopback = FALSE
SPECIFICATION Spec
INVARIANTS ZeroLatencyVerifies
CHECK_DEADLOCK FALSE
