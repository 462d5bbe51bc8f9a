CONSTANTS
  Texts <- MCLongTexts
  MemSize = 4
  FirstCap = 1
  MaxSize = 15
  SizeMax = 63
  MaxOpens = 1
  MaxFails = 0
SPECIFICATION Spec
INVARIANT LineWithinMax
CHECK_DEADLOCK FALSE
