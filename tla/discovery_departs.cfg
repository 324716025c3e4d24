SPECIFICATION UnreadSpec
CONSTANTS
  a = a
  b = b
  m = m
  None = None
  Instances = {a}
  Managed = {}
  EndpointOf <- OneEndpoint
  InitialWorld <- OneUp
  Slow = FALSE
  Faults = {"procfs"}
  Settlings = 2
  QueueCapacity = 1
  MaxChanges = 1
  MaxFailures = 1
  MaxBreaks = 1
  MaxRequests = 0
PROPERTIES
  ReconnectsVerified
  ReadConverges
  ShutdownCompletes
