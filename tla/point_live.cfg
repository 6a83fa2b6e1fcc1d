CONSTANTS
  Requests = {l1, l2, r1, r2}
  Seed = {l1, l2}
  Users = {u, v}
  Amounts = {0, 1}
  Keys = {k}
  NoKey = NoKey
  Refs = {ref}
SPECIFICATION Spec
PROPERTIES
  WalletAnswers
CHECK_DEADLOCK FALSE
