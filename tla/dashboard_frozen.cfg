SPECIFICATION Spec
CONSTANTS
  None = None
  q1 = q1
  Sessions = {1, 2, 3}
  Tuis = {11, 12}
  Places = {"here"}
  Requests = {q1}
  Instances = {1, 2}
  V2 = {2}
  EndpointOf <- MCEndpointOf
  Projections <- MCProjections
  Samples <- MCSamples
  MaxTime = 1
  MaxEvents = 7
CHECK_DEADLOCK FALSE
PROPERTIES
  CountersFreeze
