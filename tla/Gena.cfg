CONSTANTS
  Sids = {s1, s2}
  CDSids = {s1}
  Requests = {r1, r2}
  MaxRenewals = 1
SPECIFICATION FairSpec
INVARIANTS
  TypeOK
  SeqNamesOneEvent
  EventsFollowTheLibrary
  NobodyIsLeftBehind
  SeqHasNoGaps
PROPERTIES
  RescansFinish
CHECK_DEADLOCK FALSE
