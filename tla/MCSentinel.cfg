SPECIFICATION FairSpec
CONSTANTS
  Packet <- MCPacket
  Blocked <- MCBlocked
  NoMac = "none"
  ZeroIP = "zero"
  MAX_ERRORS = 1
  PipeSize = 2
INVARIANTS Unprivileged JobsJustified PipeTellsTruth
PROPERTIES BlockedWriteEnds WorkerFollowsMain MainFollowsWorker
CHECK_DEADLOCK FALSE
