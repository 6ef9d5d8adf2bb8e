SPECIFICATION FairSpec
CONSTANTS
  None = None
  g1 = g1
  g2 = g2
  q1 = q1
  q2 = q2
  m1 = m1
  m2 = m2
  refA = refA
  refB = refB
  Gateways = {g1, g2}
  Manifests = {m1, m2}
  Requests = {q1, q2}
  Home <- MCHome
  Envs <- AllEnvs
  KmsRefs = {refA, refB}
  Ttl = 1
  MaxStarts <- MCMaxStarts
  Successors <- MCSuccessors
  Deployments <- MCDeployments
INVARIANTS
  LedgerSuffices
  KeySetsVerify
PROPERTY RetiredKeysFade
CHECK_DEADLOCK FALSE
