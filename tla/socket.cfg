SPECIFICATION Spec
CONSTANTS
  MaxSize = 15
  BufferSizes = {3, 4, 5, 6, 7, 20}
  Cut <- Pieces
  Uncut <- Heads
  MaxWire = 4
INVARIANTS
  TypeOK
  MessageDelivered
  ReadsToTheEnd
  AnswersInTurn
  KeptOpenAsAgreed
CHECK_DEADLOCK FALSE
