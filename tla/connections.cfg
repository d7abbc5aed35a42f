SPECIFICATION FairSpec
CONSTANTS
  Conns = {1, 2}
  MaxTokens <- Sends
INVARIANTS
  TypeOK
  NeverOutOfOrder
  WholeBody
  OnlyBrokenPeers
PROPERTY AskedIsAnswered
