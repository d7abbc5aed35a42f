SPECIFICATION Spec
CONSTANTS
  Clients = {"a", "b"}
  Workers <- MCWorkers
  Jobs <- MCJobs
  NoJob = 0
  Definition <- MCDefinition
  MaxAttempts = 2
INVARIANTS
  BuiltAsDefined
  DeletedForGood
CHECK_DEADLOCK FALSE
