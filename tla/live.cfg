SPECIFICATION FairSpec
CONSTANTS
  Workers = {w1, w2}
  Pids = {p1, p2}
  Jobs = {j1, j2}
  Nobody = Nobody
  NoJob = NoJob
  NoPid = NoPid
  Reusable = {p1}
  LaunchMayFail = TRUE
INVARIANT OnlyRemovedKilled
PROPERTIES
  DeadWorkerMarked
  RequestCompletes
  SignalEndsService
