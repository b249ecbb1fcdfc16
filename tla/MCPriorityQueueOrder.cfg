SPECIFICATION Spec
CONSTANTS
  MaxJob = 6
  Job <- MCJob
  Key <- DistinctKey
  Undef = Undef
  InitCount = 2
  SizeBits = 4
INVARIANT FrontIsMax
CHECK_DEADLOCK FALSE
