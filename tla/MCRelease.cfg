SPECIFICATION Spec
CONSTANTS
  None = None
  d1 = d1
  plain = plain
  Requests = {q1, q2}
  DeliverableIds = {d1}
  BundleIds = {b1}
  Keys = {k1}
  Spellings = {plain, other}
  Calls <- ReleaseCalls
ACTION_CONSTRAINT MCBounds
SYMMETRY Symmetry
INVARIANTS
  TypeOK
  BundlesAreWhole
  RevokedStaysOut
  OneRevocation
  LogIsTrue
PROPERTY ReleasesStay
