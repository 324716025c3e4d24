SPECIFICATION FairSpec
CONSTANTS
  None = None
  Pids = {1, 2}
  SessionIds = {"s", "t"}
  MaxStarts = 2
  InitialMarker <- OneBusy
  QueueCapacity = 1
  MaxChanges = 3
  MaxFailures = 1
INVARIANTS
  RowsOnePerProcess
  RowsFollow
  NothingOwed
  DismissalHolds
PROPERTIES
  ReadyEarned
  RemovedWithCause
  DashboardConverges
