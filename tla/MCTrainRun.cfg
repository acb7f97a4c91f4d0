SPECIFICATION FairSpec
CONSTANTS
  r1 = r1
  r2 = r2
  p1 = p1
  p2 = p2
  p3 = p3
  A = A
  B = B
  slow = slow
  fast = fast
  NoPath = NoPath
  Runs <- MCRuns
  Paths <- MCPaths
  Inputs <- MCInputs
  Rates <- MCRates
  Count <- MCCount
  Options <- MCOptions
INVARIANTS
  TrainedInOrder
  OutcomesAreExact
  MetricsAreExact
  StopIsPrompt
PROPERTY
  CompleteFilesAreKept
  RunsEnd
CHECK_DEADLOCK FALSE
