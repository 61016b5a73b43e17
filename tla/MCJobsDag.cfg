SPECIFICATION FairSpec
CONSTANTS
  a = a
  b = b
  c = c
  Key = {a, b, c}
  Graphs <- DagGraphs
  Token = {}
  NoToken = NoToken
  NoKey = NoKey
  MaxJobs = 1
  MaxRuns = 1
  MaxRunId = 1
  MaxResets = 0
INVARIANTS
  OutcomesJustified
  ResultAccounted
  NoOrphanTask
PROPERTIES
  NoStartAfterCancel
  SchedulerAdvances
  RunsTerminate
CHECK_DEADLOCK FALSE
