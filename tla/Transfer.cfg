SPECIFICATION FairSpec
CONSTANTS
  Full = 4
  MinSize = 2
  Gate = 2
  MaxAttempts = 2
  MaxHandoffs = 1
  MaxDeferrals = 1
  MaxTroubles = 2
INVARIANTS BytesInOrder NotFetchedAgain AttemptsPaid
PROPERTIES EveryDocumentEnds
