SPECIFICATION Spec
CONSTANTS
  MaxInt = 37
  Century = 10
  Requests <- MCRequests
  Tree <- MCTree
  MaxLen = 5
  Now = 13
INVARIANTS
  SendsWhatIsAsked
  TellsTheTruth
PROPERTY
  AlwaysAnswered
CHECK_DEADLOCK FALSE
