SPECIFICATION LiveSpec
CONSTANTS
  Reqs = {r1, r2, r3}
  Links = {1, 2}
  CXLLink = 2
  Traffic = {"Default", "CXLcache"}
  reqQueueLimit = 2
  respQueueLimit = 2
  NoPort = NoPort
INVARIANTS ReservationsExact StalledIsPending
PROPERTY StalledIsRetried
PROPERTY EveryRequestAnswered
CHECK_DEADLOCK FALSE
