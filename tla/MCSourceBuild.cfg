CONSTANTS
  Sources <- MCSources
  Margin = 3
SPECIFICATION Spec
INVARIANT TypeOK
INVARIANT LoadsTheSame
INVARIANT LiteralsAreText
PROPERTY BuildEnds
CHECK_DEADLOCK FALSE
