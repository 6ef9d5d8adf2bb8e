SPECIFICATION FairSpec
CONSTANTS
  None = None
  g1 = g1
  g2 = g2
  q1 = q1
  q2 = q2
  q3 = q3
  acme = acme
  blue = blue
  Gateways = {g1, g2}
  Requests = {q1, q2, q3}
  Calls <- MCCalls
  Deployments <- MCDeployments
  Cost = 2
  Capacity <- MCCapacity
  Rate <- MCRate
  MaxForward <- MCMaxForward
  IdleLimit = 2
INVARIANT GrantsAreEarned
PROPERTIES
  ImplementsBucket
  OnlySuccessDelays
CHECK_DEADLOCK FALSE
