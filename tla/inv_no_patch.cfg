CONSTANTS
  None = None
  Starter = starter
  Roles = {"gatekeeper", "auditor"}
  Overlap = "none"
  MaxFaults = 1
  Reviewers = {r1}
  MaxRevisions = 1
SPECIFICATION Spec
INVARIANT ValidatedHasPatch
CHECK_DEADLOCK FALSE
