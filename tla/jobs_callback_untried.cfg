CONSTANTS
  Jobs = {j1}
  Runners = {d1, l}
  LegacyRunners = {l}
  MaxRetries = 2
  Limit = 2
  FirstCounts = {0}
  MaxDisruptions = 0
SPECIFICATION Spec
INVARIANTS
  CallbacksAreTried
CHECK_DEADLOCK FALSE
