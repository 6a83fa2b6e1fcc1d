CONSTANTS
  Calls = {c1, c2}
  Seed = {s}
  Users = {u}
  Totals = {1}
  ClientKeys = {k}
  NoKey = NoKey
  ClientRefs = {ref}
  OwnRef = OwnRef
SPECIFICATION Spec
INVARIANT OneTransaction
CHECK_DEADLOCK FALSE
