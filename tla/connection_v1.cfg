SPECIFICATION Spec
CONSTANTS
  s1 = s1
  s2 = s2
  p1 = p1
  q1 = q1
  None = None
  Sessions = {s1, s2}
  Permissions = {p1}
  Questions = {}
  Protocol = "v1"
  InitialServers <- RootAndChild
  ServerOperations = {"status", "ask", "delete", "chatter"}
  JournalCapacity = 2
  MaxOperations = 2
  MaxBreaks = 1
  MaxFailures = 0
  MaxResyncs = 1
INVARIANTS
  ArmsSettled
  IndexCoherent
  RequestsAnnouncedOnce
  SnapshotFollows
PROPERTIES
  NoArmLost
  ReadyOnlyAfterBusy
  JournalWins
