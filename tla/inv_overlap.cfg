CONSTANTS
  None = None
  Starter = starter
  Roles = {"gatekeeper", "auditor"}
  Overlap = "all"
  MaxFaults = 1
  Reviewers = {r1}
  MaxRevisions = 2
SPECIFICATION Spec
INVARIANTS LoopsBounded GateOffersPassedPatch ClearedWithAuthority
CHECK_DEADLOCK FALSE
