CONSTANTS
  Texts <- MCTexts
  Calls <- MCCalls
  UPB = 3
  RingSize = 3
  MaxHeld = 1
  MaxMade = 1
  MaxLost = 1
SPECIFICATION Spec
INVARIANT TypeOK
INVARIANT InOrder
INVARIANT RingIsRecent
INVARIANT LinesCounted
INVARIANT AnswerIsNext
INVARIANT OnlyMatchesLeak
CHECK_DEADLOCK FALSE
