SPECIFICATION RateFairSpec
CONSTANTS
  IP = {a, b, z}
  Tombstone = z
  TIME_BASE = 2
  COUNT_LOW = 5
  COUNT_HIGH = 7
  COUNT_MAX = 8
  ENTRIES_MAX = 2
  MaxSleep = 2
  UintRange = 16
  Epoch = 3
  MaxTime = 8
  Polite = a
  Rate = 2
INVARIANTS CounterBounded TableBounded
  PoliteIsAnswered
PROPERTIES UpdateIsExact OversizeClears
