SPECIFICATION CallSpec
CONSTANTS
  MaxJob = 6
  Job <- MCJob
  Key <- PairedKey
  Undef = Undef
  InitCount = 2
  SizeBits = 4
INVARIANTS EachJobOnce NoWildAccess LoopsMatchCalls
PROPERTIES OperationsEnd ImplementsJobPool
CHECK_DEADLOCK FALSE
