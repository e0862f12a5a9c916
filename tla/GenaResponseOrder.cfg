CONSTANTS
  Sids = {s1}
  CDSids = {s1}
  Requests = {r1}
  MaxRenewals = 0
CHECK_DEADLOCK FALSE
SPECIFICATION Spec
INVARIANTS
  ResponsePrecedesInitialEvent
