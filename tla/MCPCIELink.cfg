SPECIFICATION Spec
CONSTANTS
  Req = {q}
  Resp = {p}
  NoPkt = NoPkt
  MaxQueueSize = 2
  MaxTLPs = 3
  IntMax = 7
  UInt64Max = 31
  MayRefuseFirst = FALSE
INVARIANTS
  TypeOK
  InOrder
  NothingLost
  OnlyUnreceivedOnLink
  NoStrandedDevice
  WorkIsScheduled
  AckIsOnItsWay
PROPERTY ImplementsChannel
CHECK_DEADLOCK FALSE
