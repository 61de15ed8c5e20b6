SPECIFICATION LiveSpec
CONSTANTS
  Reqs = {r1, r2}
  Links = {2}
  CXLLink = 2
  Traffic = {"Default", "HostBiasCheck"}
  reqQueueLimit = 1
  respQueueLimit = 2
  NoPort = NoPort
PROPERTY StalledIsRetried
CHECK_DEADLOCK FALSE
