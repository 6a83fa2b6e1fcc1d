CONSTANTS
  Messages = {m1, m2}
  Pollers = {p1, p2}
  Group <- OneGroup
  Brought <- OneBrought
  Jobs = {j1}
  Runners = {d}
  LegacyRunners = {}
  MaxRetries = 2
  Limit = 2
  FirstCounts = {0, 1}
  MaxDisruptions = 1
  MaxFaults = 1
SPECIFICATION QSpec
SYMMETRY QueueSymmetry
INVARIANTS
  QInv
  NoMessageLost
  FirstTriesInOrder
PROPERTY TableSpec
CHECK_DEADLOCK FALSE
