SPECIFICATION Spec
CONSTANTS
  None = None
  d1 = d1
  p1 = p1
  t1 = t1
  e1 = e1
  bad = bad
  junk = junk
  Workers = {w1, w2}
  PipelineRuns = {r1, r2}
  Docpacks = {d1}
  Prompts = {p1}
  Toolchains = {t1}
  Params = {0}
  Jobs <- PromptedJobs
  NumStages = 2
  UsesPrompt <- AllUsePrompt
  Outputs = {o1, o2}
  Unusable = {junk}
  Errors = {e1}
  InputError = e1
  Handler <- MCHandler
SYMMETRY Symmetry
INVARIANTS
  TypeOK
  CacheHasLineage
  SuccessIsMemoized
  FailClosedEmitsNothing
  OneOwner
  OutputsFollow
PROPERTIES
  MissingIsCallerSupplied
  FinalRowsStay
  ImplementsPipeline
