CONSTANTS
  aKey = aKey
  NoKey = NoKey
  N = 3
  Group <- TwoGroups
  Key <- SomeKeys
  Target <- Targets
  Malformed = {3}
  Pollers = {p1, p2}
  MaxCopies = 2
  MaxWindows = 1
SPECIFICATION BridgeSpec
SYMMETRY BridgeSymmetry
INVARIANTS
  IInv
  NothingLost
  KeyedOnce
  OnceUnlessTroubled
  FirstTriesInOrder
CHECK_DEADLOCK FALSE
