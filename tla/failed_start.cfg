SPECIFICATION Spec
CONSTANTS
  Workers = {w1, w2}
  Pids = {p1, p2}
  Jobs = {j1}
  Nobody = Nobody
  NoJob = NoJob
  NoPid = NoPid
  Reusable = {}
  LaunchMayFail = FALSE
SYMMETRY Symmetry
INVARIANT FailedStartTerminated
