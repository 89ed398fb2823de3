CONSTANTS
  None = None
  Runs = {a, b}
  Watched = {a}
  Commits = {c1}
  Splits = {"s100", "s200"}
  Dims = {256, 1536}
  MaxRestarts = 1
SPECIFICATION FairSpec
INVARIANTS AcceptedIsVisible SearchIsSound
PROPERTIES RefreshingPageSettles
CHECK_DEADLOCK FALSE
