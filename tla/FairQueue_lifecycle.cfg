CONSTANTS
  Docs = {d1, d2}
  NoDoc = NoDoc
  NoJob = NoJob
  MaxWorkers = 2
  MaxSize = 2
  MaxAttempts = 2
  MaxHandoffs = 0
  ClaimJump = 1
  MaxTroubles = 1
  Admissions <- FreshOrResumed
SPECIFICATION FairSpec
INVARIANTS OneOwner OneTurnAtATime NothingLost
PROPERTIES ImplementsLifecycle EveryDocumentSettles
CHECK_DEADLOCK FALSE
