CONSTANTS
  io1 = io1
  io2 = io2
  plain = plain
  b1 = b1
  b2 = b2
  Objects <- MCObjects
  IOObjects <- MCIOObjects
  Blocks <- MCBlocks
  None = None
  Dead = Dead
  Junk = Junk
  ch1 = ch1
  ch2 = ch2
  Chars <- MCChars
  Size = 2
  Fds = {3}
SPECIFICATION Spec
SYMMETRY MCSymmetry
INVARIANT TypeOK
INVARIANT OneOwner
PROPERTY LostOnlyByMove
PROPERTY BuffersAreValues
CHECK_DEADLOCK FALSE
