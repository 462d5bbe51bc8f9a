CONSTANTS
  Texts <- MCTexts
  MemSize = 2
  FirstCap = 1
  MaxSize = 63
  SizeMax = 63
  MaxOpens = 2
  MaxFails = 1
SPECIFICATION Spec
INVARIANT TypeOK
INVARIANT BufferIsFile
PROPERTY DeliversLines
PROPERTY ReadLineReturns
CHECK_DEADLOCK FALSE
