CONSTANTS
  Programs <- MCPrograms
  Names <- MCNames
  RStkCells = 6
  PStkCells = 2
SPECIFICATION Spec
INVARIANT TypeOK
INVARIANT JumpsResolved
INVARIANT MarksMatchText
PROPERTY RunsTheText
CHECK_DEADLOCK FALSE
