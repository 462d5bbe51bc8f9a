CONSTANTS
  BootTexts <- MCBootTexts
  Files <- MCFiles
  MacroTables <- MCNestedTables
  Chunk = 2
  NameMax = 3
  EvalSlots = 7
  Failing <- MCFailing
  MaxErrors = 1
SPECIFICATION Spec
INVARIANT TypeOK
INVARIANT EvalStackSound
INVARIANT PromptOnce
PROPERTY RunsTheWords
PROPERTY Terminates
CHECK_DEADLOCK FALSE
