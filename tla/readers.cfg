SPECIFICATION Spec
CONSTANTS
  MaxSize = 15
  CutRequests <- RequestPieces
  UncutRequests <- Requests
  CutResponses <- ResponsePieces
  UncutResponses <- Responses
  Texts <- ShortTexts
INVARIANTS
  TypeOK
  TokenInBuffer
  ReportsTheMeaning
  AllIsReported
  DecodesTheNumber
  ChunkedOnceAndLast
CHECK_DEADLOCK FALSE
