CONSTANTS
  Calls = {c1, c2, c3}
  Seed = {s}
  Users = {u}
  Totals = {0, 1, 2}
  ClientKeys = {k}
  NoKey = NoKey
  ClientRefs = {ref}
  OwnRef = OwnRef
SPECIFICATION Spec
INVARIANTS
  IInv
  PaidMeansDebited
  RefundedMeansCredited
  RefundOnce
  PointsAccounted
PROPERTIES
  OrdersOnlyAdvance
  CallsEnd
CHECK_DEADLOCK FALSE
