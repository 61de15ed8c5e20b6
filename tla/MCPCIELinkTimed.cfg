SPECIFICATION TimedSpec
CONSTANTS
  Req = {q}
  Resp = {}
  NoPkt = NoPkt
  MaxQueueSize = 2
  MaxTLPs = 3
  IntMax = 7
  UInt64Max = 31
  MayRefuseFirst = FALSE
  TLPTimes = {1, 4}
  DLLPTime = 1
  retryTime = 17
INVARIANT TimerExpiresLate
PROPERTY Spec
CHECK_DEADLOCK FALSE
