SPECIFICATION Spec
CONSTANTS
  Alphabet <- MCAlphabet
  MaxLength = 4
PROPERTY CommentsDeleted
CHECK_DEADLOCK FALSE
