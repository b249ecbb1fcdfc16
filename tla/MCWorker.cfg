SPECIFICATION FairSpec
CONSTANTS
  Request <- TwoRequests
  NoMac = "none"
  BCAST_MAC = "bcast"
  RandomMac = "random"
  ZeroIP = "zero"
  LLMac = "SAME"
  DoPoison = TRUE
  Delay1 = 1
  Delay2 = 2
  Delay3 = 4
  MAX_REQUESTS = 4
  MAX_ERRORS = 1
  PipeSize = 2
  MaxTime = 5
INVARIANTS TypeOK NothingForgotten BroadcastOnlyAboutIntruder
PROPERTIES QueueDrains OrphanEnds
CHECK_DEADLOCK FALSE
