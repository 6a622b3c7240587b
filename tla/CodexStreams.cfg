SPECIFICATION Spec
CONSTANTS
  Pieces = {p, q}
  MaxItems = 2
  MaxDeltas = 2
CHECK_DEADLOCK FALSE
INVARIANTS
  TypeOK
  SameText
  SameVerdict
  ChatStreamIsWellFormed
  ChatStreamIsTheAnswer
