SPECIFICATION Spec
CONSTANTS
  a = a
  Key = {a}
  Graphs <- RegistryGraphs
  Token = {t}
  NoToken = NoToken
  NoKey = NoKey
  MaxJobs = 1
  MaxRuns = 2
  MaxRunId = 3
  MaxResets = 0
INVARIANTS
  OneDriver
  OutputsBelongToTheirRun
PROPERTIES
  KeepsContract
CHECK_DEADLOCK FALSE
