CONSTANTS
  page = page
  nav = nav
  lol = lol
  get = get
  ipfs = ipfs
  ad = ad
  h1 = h1
  h2 = h2
  Link = {page, nav, lol, get, ipfs, ad}
  Host = {h1, h2}
  HostOf <- MCHostOf
  Kind <- MCKind
  Offers <- MCOffers
  Blocked = {ad}
  Mirrors <- MCMirrors
  MaxPages = 8
  Budget = 2
  FailureLimit = 3
  MaxTurns = 2
  MaxTroubles = 1
SPECIFICATION Spec
INVARIANT OneTransferPerTurn
PROPERTY LimitedHostIsLeftAlone StoredEndsTheSearch
CHECK_DEADLOCK FALSE
