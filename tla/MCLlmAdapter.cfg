SPECIFICATION Spec
CONSTANTS
  None = None
  Service = Service
  t1 = t1
  t2 = t2
  q1 = q1
  q2 = q2
  s1 = s1
  Tenants = {t1, t2}
  DirectTypes = {"zip"}
  OldKeyDropped = FALSE
  Imported <- MCImported
  Scenarios <- MCScenarios
  Bodies = {1, 2}
  StageRuns = {s1}
INVARIANTS
  AnswersStayTrue
  LedgerIsEvidence
CHECK_DEADLOCK FALSE
