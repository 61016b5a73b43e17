SPECIFICATION ResetSpec
CONSTANTS
  a = a
  Key = {a}
  Graphs <- RegistryGraphs
  Token = {t}
  NoToken = NoToken
  NoKey = NoKey
  MaxJobs = 1
  MaxRuns = 2
  MaxRunId = 3
  MaxResets = 1
INVARIANT
  OutputsBelongToTheirRun
CHECK_DEADLOCK FALSE
