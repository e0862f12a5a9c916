CONSTANTS
  Files = {f1}
  Versions = 4
  Stamp <- Stamps
  Headers <- HeadersFrom2
  Early <- EarlyFrom2
  Late <- LateIn3
  Levels = {"off", "container", "content"}
  MaxScans = 2
  MaxStarts = 2
SPECIFICATION Spec
INVARIANTS
  ContentLevelChecksContent
CHECK_DEADLOCK FALSE
