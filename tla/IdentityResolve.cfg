CONSTANTS
  Signers = {a}
  Verifiers = {v}
  MaxTick = 2
  MaxRotations = 3
  MaxHistory = 4
  MaxSigs = 1
  Wired = FALSE
  InOrder = FALSE
  Redelivery = FALSE
  Loopback = FALSE
SPECIFICATION Spec
INVARIANTS TypeOK HonestAudit OwnKeysPrivate ResolveCurrent
CHECK_DEADLOCK FALSE
