CONSTANTS
  Dirs <- TinyDirs
  Videos <- TinyVideos
  Rank <- TinyRank
  Title <- TinyTitle
  PageSize = 1
  Sids = {s1}
  CDSids = {s1}
  Requests = {r1}
  MaxRenewals = 1
SPECIFICATION Spec
INVARIANTS
  SteadyListingIsExact
  SteadyIdPlaysItsVideo
  ListingsCatchUp
CHECK_DEADLOCK FALSE
