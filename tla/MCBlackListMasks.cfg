SPECIFICATION Spec
CONSTANTS
  m1 = m1
  m2 = m2
  Bits <- MCBits
  MAC = {m1, m2}
  NoMac = NoMac
  NoMask = NoMask
  RANDOM = RANDOM
  DefaultMac = m2
  Lines <- OddLines
  MaxLines = 2
INVARIANT EveryNetChecked
CHECK_DEADLOCK FALSE
