SPECIFICATION FairSpec
CONSTANTS
  a = a
  b = b
  m = m
  None = None
  Instances = {a, m}
  Managed = {m}
  EndpointOf <- OneEndpoint
  InitialWorld <- AllUp
  Slow = FALSE
  Faults = {"procfs", "managed", "gate"}
  Settlings = 1
  QueueCapacity = 1
  MaxChanges = 1
  MaxFailures = 1
  MaxBreaks = 0
  MaxRequests = 1
PROPERTIES
  SteadyNeverRemoved
  MonitorConverges
