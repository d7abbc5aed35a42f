SPECIFICATION Spec
CONSTANTS
  Workers = {w1, w2, w3}
  Pids = {p1, p2, p3}
  Jobs = {j1, j2}
  Nobody = Nobody
  NoJob = NoJob
  NoPid = NoPid
  Reusable = {p1, p2, p3}
  LaunchMayFail = TRUE
SYMMETRY Symmetry
INVARIANTS
  TypeOK
  SweepValid
  NoLeakedChild
  StoppedIsDead
  NullProcFailed
  StopReapsAll
PROPERTIES
  PurgeComplete
  ImplementsRegistry
