SPECIFICATION FairSpec
CONSTANTS
  Names = {in1, in2}
  Addrs = {a1, a2}
  NoAddr = NoAddr
  Worker = worker
  Helpers = {helper}
  Capacity = 2
  MaxLines = 3
INVARIANTS
  TypeOK
  InOrder
PROPERTIES
  DecidedIsAnswered
  ImplementsStart
