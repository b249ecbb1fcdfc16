SPECIFICATION Spec
CONSTANTS
  MacTexts <- MCMacTexts
  OtherTexts <- MCOtherTexts
  IfaceMac <- MCIfaceMac
  CommandLines <- MCCommandLines
  RandCount = 2
  Period = 2
  Octets = 4
  RandMax = 2
  MaxTime = 8
INVARIANTS AssertsHold MacsAsTold FewRandomMacs
PROPERTY WindowSlides
CHECK_DEADLOCK FALSE
