SPECIFICATION RootSpec
CONSTANTS
  Reqs = {r1, r2, r3}
  Links = {1, 2}
  CXLLink = 2
  Traffic = {"Default", "CXLcache", "HostBiasCheck", "CXLcacheH2DReq"}
  reqQueueLimit = 2
  respQueueLimit = 2
  NoPort = NoPort
  PAGE = 6
  IOPage = 2
  UINT16 = 3
  Dram <- MCDram
  DramBase = 1
  Hdm <- MCHdm
  CXLRegs = 4
  Plans <- MCPlans
SYMMETRY Symmetry
INVARIANTS TypeOK ReservationsCover RoutesKnown ResponsesGoHome
INVARIANTS StallHasCause
INVARIANTS DevicesReachable AnnouncedIsDecoded FixedAddressesDecode
PROPERTY ImplementsBridge
CHECK_DEADLOCK FALSE
