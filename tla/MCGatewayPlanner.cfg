SPECIFICATION MCSpec
CONSTANTS
  None = None
  d1 = d1
  p1 = p1
  told = told
  tnew = tnew
  o1 = o1
  o2 = o2
  e1 = e1
  r1 = r1
  r2 = r2
  pipeline = pipeline
  docx = docx
  lost = lost
  record = record
  Workers = {w1}
  PipelineRuns = {r1, r2}
  Docpacks = {d1}
  Prompts = {p1}
  Toolchains = {told, tnew}
  Params = {0}
  Jobs <- MCJobs
  NumStages = 2
  UsesPrompt <- AllUsePrompt
  Outputs = {o1, o2}
  Unusable = {}
  Errors = {e1}
  InputError = e1
  Handler <- MCHandler
  Requests <- MCGatewayRequests
  DiffPairs <- MCPairs
  Deliverables = {}
  Documents = {docx, record}
PROPERTY AffectedAreFound
CHECK_DEADLOCK FALSE
