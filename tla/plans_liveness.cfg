CONSTANTS
  None = None
  Requests = {q1, q2}
  Users = {ann}
  Issues = {i1, i2}
  Keys = {k1}
  Ops = {"create", "regenerate"}
  MaxCommits = 1
  MaxRestarts = 1
  MaxStoreFaults = 0
SPECIFICATION FairSpec
PROPERTIES ActivePlansSettle RequestsAreAnswered
CHECK_DEADLOCK FALSE
