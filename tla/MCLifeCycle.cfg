SPECIFICATION Spec
CONSTANTS
  None = None
  d1 = d1
  plain = plain
  Requests = {q1, q2}
  DeliverableIds = {d1, d2}
  BundleIds = {b1}
  Keys = {k1}
  Spellings = {plain, other}
  Calls <- LifeCycleCalls
SYMMETRY Symmetry
INVARIANTS
  RecordsSayFinal
  StoredAnswersHold
  OkAnswersAreTrue
  LateRetriesAreSilent
