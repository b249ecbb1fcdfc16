SPECIFICATION Spec
CONSTANTS
  m1 = m1
  m2 = m2
  Bits <- MCBits
  MAC = {m1, m2}
  NoMac = NoMac
  NoMask = NoMask
  RANDOM = RANDOM
  DefaultMac = m2
  Lines <- AllLines
  MaxLines = 3
INVARIANTS TypeOK MostSpecificDecides OwnerIsSpared PoisonNamesOwner
  AnswersHaveReason
CHECK_DEADLOCK FALSE
