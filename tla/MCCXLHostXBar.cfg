SPECIFICATION LiveSpec
CONSTANTS
  Reqs = {r1, r2}
  Caches = {c1}
  Io = io
  HostLines = {h1}
  DevLines = {d1}
  Traffic <- MCTraffic
  None = None
INVARIANTS TypeOK WaitsOnce WaitersAreWoken RoutesKnown
PROPERTY EveryRequestServed
CHECK_DEADLOCK FALSE
