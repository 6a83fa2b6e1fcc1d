CONSTANTS
  Calls = {c1, c2, c3}
  Seed = {s}
  Users = {u}
  Totals = {1}
  ClientKeys = {k, NoKey}
  NoKey = NoKey
  ClientRefs = {ref}
  OwnRef = OwnRef
SPECIFICATION Spec
INVARIANT RefundOnce
CHECK_DEADLOCK FALSE
