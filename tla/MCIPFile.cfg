SPECIFICATION FairSpec
CONSTANTS
  Digits <- MCDigits
  MaxMask = 2
  IntMax = 3
  LongMax = 7
  BufSize = 20
  Files <- MCFiles
INVARIANTS ExactExpansion AllOrNothing BufferSuffices MaskIsPrefix
  LongOrUnterminated
PROPERTIES ImplementsLineFeed ReadingEnds
CHECK_DEADLOCK FALSE
