SPECIFICATION Spec
CONSTANTS
  None = None
  MaxChanges = 1
  MaxAttempts = 2
  MaxDatagrams = 2
  MaxKeys = 2
  MaxFaults = 2
INVARIANTS
  LeavesNothing
  TerminalRestored
PROPERTIES
  KeepsPromise
  NeverStuck
