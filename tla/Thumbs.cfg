CONSTANTS
  Videos = {v1}
  Versions = 3
  Stamp <- Stamps
  Requests = {r1, r2, r3}
  Workers = 2
SPECIFICATION FairSpec
INVARIANTS
  TypeOK
  MadeAtMostWorkersTimes
  PicturesAreWhole
  NeverOlderThanTheStamp
PROPERTIES
  EveryRequestIsAnswered
CHECK_DEADLOCK FALSE
