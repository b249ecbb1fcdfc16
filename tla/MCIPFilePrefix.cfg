SPECIFICATION Spec
CONSTANTS
  Digits <- MCDigits
  MaxMask = 2
  IntMax = 3
  LongMax = 7
  BufSize = 20
  Files <- RangedFiles
INVARIANT ExpansionIsTextual
CHECK_DEADLOCK FALSE
