CONSTANTS
  NumTargets = 2
  Bursts = 1
  MaxTicks = 1
  MaxRescans = 1
  MaxErrors = 1
SPECIFICATION FairSpec
INVARIANTS
  TypeOK
  LoopsEndByStop
PROPERTIES
  SilentAfterStop
  InterruptEndsProgram
  FailureEndsProgram
  SearchesAreAnswered
CHECK_DEADLOCK FALSE
