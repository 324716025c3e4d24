SPECIFICATION Spec
CONSTANTS
  a = a
  b = b
  m = m
  None = None
  Instances = {a, b}
  Managed = {}
  EndpointOf <- OneEndpoint
  InitialWorld <- OneUp
  Slow = TRUE
  Faults = {"setup", "procfs", "managed"}
  Settlings = 1
  QueueCapacity = 1
  MaxChanges = 2
  MaxFailures = 2
  MaxBreaks = 0
  MaxRequests = 0
INVARIANTS
  OutputUnambiguous
