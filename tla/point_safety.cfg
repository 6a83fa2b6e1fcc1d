CONSTANTS
  Requests = {l1, l2, r1, r2, r3}
  Seed = {l1, l2}
  Users = {u}
  Amounts = {1, 2}
  Keys = {k}
  NoKey = NoKey
  Refs = {ref}
SPECIFICATION Spec
SYMMETRY CallSymmetry
INVARIANTS
  IInv
  LotsBalance
  DebitsExact
  KeyTakesEffectOnce
  FifoConsumption
  LocksOfOpenCalls
PROPERTIES
  ImplementsWallet
  LotsOnlyShrink
CHECK_DEADLOCK FALSE
