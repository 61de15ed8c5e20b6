SPECIFICATION LiveSpec
CONSTANTS
  Req = {q}
  Resp = {}
  NoPkt = NoPkt
  MaxQueueSize = 2
  MaxTLPs = 3
  IntMax = 7
  UInt64Max = 31
  MayRefuseFirst = FALSE
PROPERTY EveryPacketArrives
CHECK_DEADLOCK FALSE
