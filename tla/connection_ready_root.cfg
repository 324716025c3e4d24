SPECIFICATION Spec
CONSTANTS
  s1 = s1
  s2 = s2
  p1 = p1
  q1 = q1
  None = None
  Sessions = {s1}
  Permissions = {}
  Questions = {}
  Protocol = "v1"
  InitialServers <- BusyRoot
  ServerOperations = {"status", "delete"}
  JournalCapacity = 2
  MaxOperations = 2
  MaxBreaks = 0
  MaxFailures = 0
  MaxResyncs = 0
INVARIANTS
  ReadyNamesRoot
