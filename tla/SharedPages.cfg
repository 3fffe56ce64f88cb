CONSTANTS
  r1 = r1
  r2 = r2
  d1 = d1
  Runtime = {r1, r2}
  Doc = {d1}
  Nobody = Nobody
  Gone = Gone
  Pages = 3
  Listing <- MCListing
  Assigned <- MCAssigned
  Takeover <- MCTakeover
  Target = 1
  MaxTroubles = 1
SPECIFICATION PagesFairSpec
PROPERTY PageStands EveryPageIsSearched ApprovedIsSettled
