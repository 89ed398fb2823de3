CONSTANTS
  None = None
  Starter = starter
  Roles = {"gatekeeper", "auditor"}
  Overlap = "none"
  MaxFaults = 1
  Reviewers = {r1, r2, r3}
  MaxRevisions = 1
SPECIFICATION FairSpec
INVARIANTS ValidatedMeansReviewed RecordsAgree NoPhantomDecisions
PROPERTIES RulingEndsRun InvocationsReturn ImplementsLifecycle
CHECK_DEADLOCK FALSE
