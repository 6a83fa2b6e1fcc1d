CONSTANTS
  Jobs = {j1, j2}
  Runners = {d1, d2, l}
  LegacyRunners = {l}
  MaxRetries = 2
  Limit = 2
  FirstCounts = {0, 3}
  MaxDisruptions = 2
SPECIFICATION Spec
INVARIANTS
  IInv
  OneRunnerPerJob
  RetriesUsedUp
PROPERTIES
  SettledJobsStayPut
  JobsSettle
CHECK_DEADLOCK FALSE
