CONSTANTS
  Dirs <- DeepDirs
  Videos <- DeepVideos
  Rank <- DeepRank
  Title <- DeepTitle
  Workers = 2
  Validating = TRUE
  MaxDepth = 0
  MaxScans = 2
SPECIFICATION FairSpec
INVARIANTS
  TypeOK
  EachVideoProbedOnce
  IndexCoherent
PROPERTIES
  OnlyCheckedVideosAppear
  IdsFollowTheFolder
  ScansEnd
  ReadersSeeWholeIndexes
