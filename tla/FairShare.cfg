CONSTANTS
  Docs = {d1, d2, d3}
  NoDoc = NoDoc
  NoJob = NoJob
  MaxWorkers = 2
  MaxSize = 2
  MaxAttempts = 1
  MaxHandoffs = 1
  ClaimJump = 0
  MaxTroubles = 0
  Admissions <- PrimaryAndRecovery
SPECIFICATION ShareSpec
SYMMETRY DocSymmetry
INVARIANTS BypassBounded
PROPERTIES RecoveryShare
CHECK_DEADLOCK FALSE
