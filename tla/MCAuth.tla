------------------------------- MODULE MCAuth -------------------------------
(* AuthService for TLC: accounts at one provider, which may report any     *)
(* address.                                                                *)
EXTENDS AuthServiceProps, TLC

OneProvider == [a \in Accounts |-> "google"]
AnyAddress  == [a \in Accounts |-> Addresses \ {Blank}]

AuthSymmetry ==
  Permutations(Users) \cup Permutations(Codes) \cup Permutations(Sessions)
    \cup Permutations(Calls) \cup Permutations(Addresses \ {Blank})
=============================================================================
