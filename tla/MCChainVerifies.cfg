SPECIFICATION Spec
CONSTANTS
  Genesis = Genesis
  Requests = {q1, q2, q3}
  EventIds = {1, 2, 3}
  Deliverables = {d1, d2}
  Exactness = {TRUE}
  MaxClock = 3
  HealthLimit = 2
SYMMETRY Symmetry
INVARIANT ChainVerifies
CHECK_DEADLOCK FALSE
