SPECIFICATION LiveSpec
CONSTANTS
  MaxReqs = 4
  MaxChunks = 3
  NoPacket = NoPacket
INVARIANTS TypeOK SentInOrder WorkIsScheduled
PROPERTY SentUnlessRefused
CHECK_DEADLOCK FALSE
