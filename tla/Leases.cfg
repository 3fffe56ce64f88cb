\* Two runtimes compete for one document, and every thread goes on.
SPECIFICATION FairSpec
CONSTANTS
  Document = {d1}
  Runtime = {r1, r2}
  Nobody = nobody
  Lease = 3
  Margin = 1
  MaxDelay = 1
  MaxAttempts = 2
  MaxTroubles = 1
INVARIANTS OneTransfer
PROPERTIES CompletionStands LastAttemptCounts EveryDocumentSettles
CHECK_DEADLOCK FALSE
