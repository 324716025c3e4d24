SPECIFICATION Spec
CONSTANTS
  None = None
  MaxChanges = 2
  Servers <- MCServers
  Peer <- MCPeer
  Interactive = {"tui", "kittytui"}
  Claude = {"claude"}
  Terminal = {"tui", "kittytui", "v1server", "claude"}
  Konsole = {"tui", "kittytui", "v1server", "claude"}
  Kitty <- MCKitty
  KittySocket = "k"
  MaxScans = 3
  Instances = {"i", "j"}
  PidOf <- MCPidOf
  Path <- MCPath
  MaxSamples = 2
  Listening = {"l", "k", "o"}
  Outward = {"o"}
  Likely = {"v1server", "stdio"}
  Stdio = {"stdio"}
  Passwords = {"stdio"}
  Launchers = {"launcher"}
  MaxAncestryDepth = 3
  NoFile = NoFile
  MaxEdits = 3
  Texts <- MCTexts
  MaxFrame = 2
  Marked = 2
  ClaudeProgram = {"claude"}
  Sessions = {1, 2, 3}
  PageSize = 1
  MaxUpdates = 2
  NoPath = NoPath
  Dashed = {"-s", "--session=b", "-c", "--model", "--flag"}
  SessionOption = {"-s"}
  InlineSession = {"--session=b"}
  ContinueOption = {"-c"}
  ValueOption = {"--model"}
  Mini = "mini"
  Commands = {"run"}
  Words = {"dir"}
  SessionOf <- MCSessionOf
  NoName = NoName
  MaxArguments = 5
CHECK_DEADLOCK FALSE
INVARIANTS
  Correlated
  MemoryOwn
  ScanSound
  FilesWhole
  PiecesFaithful
PROPERTIES
  DetachedLate
