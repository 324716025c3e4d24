SPECIFICATION PromptSpec
CONSTANTS
  s1 = s1
  s2 = s2
  p1 = p1
  q1 = q1
  None = None
  Sessions = {s1, s2}
  Permissions = {}
  Questions = {}
  Protocol = "v2"
  InitialServers <- BusyRoot
  ServerOperations = {"create", "status", "retry", "delete", "fail"}
  JournalCapacity = 1
  MaxOperations = 2
  MaxBreaks = 1
  MaxFailures = 1
  MaxResyncs = 0
INVARIANTS
  TypeOK
PROPERTIES
  ServedConverges
  JournalWins
