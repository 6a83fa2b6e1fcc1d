CONSTANTS
  Users = {u1, u2}
  Addresses = {e1, e2, blank}
  Accounts = {g}
  Provider <- OneProvider
  Codes = {k1, k2}
  Sessions = {s1}
  Calls = {c1, c2, c3}
  Reports <- AnyAddress
  Blank = blank
SPECIFICATION AuthSpec
SYMMETRY AuthSymmetry
INVARIANTS
  IInv
  SessionsSpendTheirCode
  IdentityIsStable
CHECK_DEADLOCK FALSE
