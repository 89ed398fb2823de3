CONSTANTS
  PerPage = 3
  Screen = 2
  Reach = 2
  NoCursor = NoCursor
  MaxLines = 2
  HardSlice = 2
  NoParent = NoParent
  Plain = Plain
  Dashes = Dashes
  Pluses = Pluses
  Blank = Blank
  InputTokens = 2
  BatchTokens = 5
  BatchSize = 3
  Pending = Pending
  IssueLists <- MCIssueLists
  PythonFiles <- MCPythonFiles
  MarkdownFiles <- MCMarkdownFiles
  Changes <- MCChanges
  Texts <- MCTexts
SPECIFICATION AlgorithmsSpec
INVARIANTS PagesShowEveryIssue ChunksFollowStructure DiffShowsBothVersions EveryTokenIsPooledOnce
CHECK_DEADLOCK FALSE
