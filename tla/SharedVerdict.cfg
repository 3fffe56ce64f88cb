CONSTANTS
  r1 = r1
  r2 = r2
  q1 = q1
  Runtime = {r1, r2}
  Query = {q1}
  QueryOf <- MCQueryOf
  Nobody = Nobody
  Gone = Gone
  MaxSha = 2
  Thin = {}
  MaxTroubles = 2
SPECIFICATION FairSpec
INVARIANT NotPaidAgain
PROPERTY VerdictStands LeaseEnds
