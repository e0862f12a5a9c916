CONSTANTS
  Dirs <- DeepDirs
  Videos <- DeepVideos
  Rank <- DeepRank
  Title <- DeepTitle
  Workers = 2
  Validating = TRUE
  MaxDepth = 0
  MaxScans = 1
SPECIFICATION Spec
INVARIANTS
  RejectedUnreachable
