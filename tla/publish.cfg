CONSTANTS
  None = None
  UrlRuns = {u1}
  PlanRuns = {}
  SnapshotRuns = {}
  Requests = {c1, c2, c3, c4, c5}
  MaxFaults = 1
SPECIFICATION Spec
INVARIANTS OnlyReviewedWorkLeaves FailedBuildLeavesNothing
PROPERTIES ForkNeverRewinds
SYMMETRY CallSymmetry
CHECK_DEADLOCK FALSE
