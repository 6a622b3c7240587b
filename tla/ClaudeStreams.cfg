SPECIFICATION Spec
CONSTANTS
  Pieces = {p, q}
  MaxBlocks = 3
  MaxDeltas = 2
CHECK_DEADLOCK FALSE
INVARIANTS
  TypeOK
  ChatStreamIsTheAnswer
  ResponsesStreamIsTheAnswer
