CONSTANTS
  None = None
  Requests = {q1, q2, q3}
  Users = {ann}
  Issues = {i1}
  Keys = {k1, k2}
  Ops = {"create", "regenerate", "handoff"}
  MaxCommits = 2
  MaxRestarts = 1
  MaxStoreFaults = 1
SPECIFICATION Spec
INVARIANTS OnePlanPerIssue JobsMatchPlans EvidenceMatchesResult HandoffIsCoherent
PROPERTIES ImplementsPreview
SYMMETRY NameSymmetry
CHECK_DEADLOCK FALSE
