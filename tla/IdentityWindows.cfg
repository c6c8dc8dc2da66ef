CONSTANTS
  Signers = {a}
  Verifiers = {v}
  MaxTick = 2
  MaxRotations = 3
  MaxHistory = 4
  MaxSigs = 0
  Wired = FALSE
  InOrder = FALSE
  Redelivery = TRUE
  Loopback = TRUE
SPECIFICATION FairSpec
INVARIANTS IndInv KeysInTimeOrder VerdictsAreGenerational
PROPERTIES AuditStable ImplementsGenerations CatchesUp
CHECK_DEADLOCK FALSE
