CONSTANTS
  Paths <- MCPaths
  Lines = {"x", "y", "z", "s", "nul"}
  Base <- MCBase
  UnsafePaths = {"../x"}
  Unreadable = {"bin"}
  Ignored = {"ignored"}
  SecretLines = {"s"}
  BinaryPaths = {}
  BinaryLines = {"nul"}
  Missing = Missing
  NoText = ""
  MaxFiles = 1
  Runs = {"r1", "r2"}
  Modes <- MCModes
  Provider <- MCProvider
  Allowed <- MCAllowed
  EvidencePaths <- MCEvidence
  Plans <- MCPlansOf
  MaxRevisions = 1
  MaxFaults = 1
  MaxResumes = 1
SPECIFICATION Spec
INVARIANTS PatchIsThePlan NothingLeftBehind JudgedAsItStands EveryAnswerIsPaid RecordedIsOnDisk
CHECK_DEADLOCK FALSE
