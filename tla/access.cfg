CONSTANTS
  Users = {"u1"}
  Roles = {"gatekeeper", "auditor"}
  Hosts = {"h1", "h2"}
  Sends <- MCSends
  Requests = {q1, q2, q3}
  Limit = 2
  Window = 2
  None = None
  MaxTime = 3
  MaxRestarts = 1
SPECIFICATION Spec
INVARIANTS IdentityHolds
PROPERTIES ImplementsAdmission
SYMMETRY RequestSymmetry
CHECK_DEADLOCK FALSE
