--------------------------- MODULE WalletRequests ---------------------------
(***************************************************************************)
(* The vocabulary shared by the wallet modules: what a call of             *)
(* PointService.creditWallet or PointService.debitWallet carries.          *)
(***************************************************************************)
EXTENDS Integers, FiniteSets, Functions

CONSTANTS
  Requests,   \* identities of wallet calls; a retry is a call of its own
  Seed,       \* credits that were committed before the behaviour begins
  Users,      \* owners of wallets
  Amounts,    \* amounts a caller may ask for, 0 among them
  Keys,       \* idempotency keys (the pair app id, key)
  NoKey,      \* the caller sent no idempotency key
  Refs        \* the reference (refType, refId) a call is made for

ASSUME WalletAssumption ==
  /\ IsFiniteSet(Requests)
  /\ Seed \subseteq Requests
  /\ Users # {} /\ Refs # {}
  /\ Amounts \subseteq Nat /\ Amounts \ {0} # {}
  /\ NoKey \notin Keys

(***************************************************************************)
(* The arguments of a call.  The reason is one of the things `ref' tells   *)
(* apart: callers choose both freely.  The expiry date of a credit is      *)
(* stored with its lot and read by no debit, so it is left out.            *)
(***************************************************************************)
Args == [op      : {"credit", "debit"},
         user    : Users,
         amount  : Amounts,
         key     : Keys \cup {NoKey},
         ref     : Refs]

(* What the seed credits carried.                                          *)
SeedArgs == {a \in Args : a.op = "credit" /\ a.amount > 0 /\ a.key = NoKey}

(* Placeholder for the arguments of a call not yet made.                   *)
Blank == CHOOSE a \in SeedArgs : TRUE

InitialArgs == {f \in [Requests -> SeedArgs] :
                  \A r \in Requests \ Seed : f[r] = Blank}

(***************************************************************************)
(* hashRequest is applied to {amount, userId, reason, refType, refId}: the *)
(* operation is not part of what it tells apart.                           *)
(***************************************************************************)
RequestHash(a) == <<a.amount, a.user, a.ref>>
=============================================================================
