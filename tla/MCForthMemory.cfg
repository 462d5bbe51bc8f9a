CONSTANTS
  MemAddr = 16
  MemSize = 163
  RStkSize = 32
  WordMod = 512
  Counts <- MCCounts
  AllotCounts <- MCAllotCounts
  NameLens <- MCNameLens
SPECIFICATION Spec
INVARIANT TypeOK
INVARIANT InBounds
INVARIANT OneCellSlack
PROPERTY DictionaryGrows
CHECK_DEADLOCK FALSE
