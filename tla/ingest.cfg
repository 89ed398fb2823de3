CONSTANTS
  PerPage = 1
  MaxPages = 2
  MaxRetries = 1
  None = None
  Dirs = {"d1"}
  Edited = {"issue_comments"}
  Tagged = {"issue_comments"}
  Secret = {2}
  Mentions = {2}
  Torn = Torn
  MaxItems = 3
  MaxHead = 2
  MaxJobs = 3
SPECIFICATION Spec
INVARIANTS WalkIsComplete LoadableIsWhole ArchivedBeforeUsed
PROPERTIES IngestEnds
CHECK_DEADLOCK FALSE
