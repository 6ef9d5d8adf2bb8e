SPECIFICATION EvidenceSpec
CONSTANTS
  None = None
  d1 = d1
  b1 = b1
  b2 = b2
  plain = plain
  Requests = {q1}
  DeliverableIds = {d1}
  BundleIds = {b1, b2}
  Keys = {k1}
  Spellings = {plain, other}
  Calls <- MCCalls
  EvidenceRequests = {e1}
  EvidenceIds = {v1}
  EvidenceCalls <- MCEvidenceCalls
  MaxOrphans = 0
ACTION_CONSTRAINT MCBounds
INVARIANTS
  EvidenceIsWhole
  RevocationsAreRespected
