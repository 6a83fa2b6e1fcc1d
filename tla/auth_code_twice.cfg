CONSTANTS
  Users = {u1, u2}
  Addresses = {e1, blank}
  Accounts = {g}
  Provider <- OneProvider
  Codes = {k1}
  Sessions = {s1, s2}
  Calls = {c1, c2}
  Reports <- AnyAddress
  Blank = blank
SPECIFICATION AuthSpec
SYMMETRY AuthSymmetry
INVARIANT OneSessionPerCode
CHECK_DEADLOCK FALSE
