SPECIFICATION Spec
CONSTANTS
  Genesis = Genesis
  Requests = {q1, q2, q3}
  EventIds = {1, 2, 3}
  Deliverables = {d1, d2}
  Exactness = {TRUE, FALSE}
  MaxClock = 3
  HealthLimit = 2
SYMMETRY Symmetry
INVARIANTS
  TypeOK
  SerialChainVerifies
  ChainsDescend
  FilteredChainNeedsPrefix
PROPERTY BrokenStaysBroken
CHECK_DEADLOCK FALSE
