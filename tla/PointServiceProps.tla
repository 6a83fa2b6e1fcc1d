-------------------------- MODULE PointServiceProps --------------------------
(***************************************************************************)
(* What PointService must keep.                                            *)
(***************************************************************************)
EXTENDS PointService

(***************************************************************************)
(* Every variable holds a value of its type: no remaining_amount and no    *)
(* balance_snapshot is ever negative.                                      *)
(***************************************************************************)
LotTypes ==
  /\ pc \in [Requests -> Pc]
  /\ args \in [Requests -> Args]
  /\ todo \in [Requests -> SUBSET Requests]
  /\ held \in [Requests -> SUBSET Requests]
  /\ seen \in [Requests -> [Requests -> Nat]]
  /\ left \in [Requests -> Nat]
  /\ taken \in [Requests -> [Requests -> Nat]]
  /\ now \in Nat
  /\ createdAt \in [Requests -> Nat]
  /\ lots \in SUBSET Requests
  /\ remaining \in [Requests -> Nat]
  /\ spent \in [Requests -> Nat]
  /\ lotLock \in [Requests -> Requests \cup {NoOne}]
  /\ keyRow \in [Keys -> Requests \cup {NoOne}]
  /\ keyLock \in [Keys -> Requests \cup {NoOne}]

TypeOK ==
  /\ LotTypes
  /\ balance \in [Requests -> Nat]
  /\ snapshot \in [Requests -> Nat]

(***************************************************************************)
(* Points are neither made nor lost: what remains of a lot and what the    *)
(* ledger says was debited from it add up to its initial amount, whatever  *)
(* debits run concurrently on stale balances (point.service.ts:206-260).   *)
(***************************************************************************)
LotsBalance ==
  \A l \in lots : remaining[l] + spent[l] = args[l].amount

(***************************************************************************)
(* A debit is all or nothing: the committed entries of a debit add up to   *)
(* the amount it was asked for, and every debited point of a lot belongs   *)
(* to a committed debit (point.service.ts:262-267).                        *)
(***************************************************************************)
DebitsExact ==
  /\ \A r \in Done : args[r].op = "debit" =>
       SumFunctionOnSet(taken[r], Requests) = args[r].amount
  /\ \A l \in lots :
       spent[l] = SumFunctionOnSet([r \in Done |-> taken[r][l]], Done)

(***************************************************************************)
(* An idempotency key takes effect once: no two committed calls carry the  *)
(* same key, although the key is looked up before the transaction starts   *)
(* (point.service.ts:184-202, idempotency-key.entity.ts:15).               *)
(***************************************************************************)
KeyTakesEffectOnce ==
  \A r, s \in Done : args[r].key # NoKey /\ args[r].key = args[s].key => r = s

(***************************************************************************)
(* First in, first out: a committed debit took points of a lot only after  *)
(* it had used up every older lot that its SELECT returned                 *)
(* (point.service.ts:225-260, wallet-lot.repository.ts:54-63).  Older is   *)
(* what was created before, in the code and in DATABASE_SCHEMA.md:187: a   *)
(* lot that expires earlier is not preferred, as README.md:119 says.       *)
(***************************************************************************)
FifoConsumption ==
  \A r \in Done : \A l, m \in held[r] :
    createdAt[l] < createdAt[m] /\ taken[r][m] > 0 => remaining[l] = 0

(***************************************************************************)
(* A call that is over holds no lock, and an open one holds exactly the    *)
(* rows its SELECT returned: a lock leaked by a failed call would block    *)
(* the user's wallet for ever (point.service.ts:286-294).                  *)
(***************************************************************************)
LocksOfOpenCalls ==
  /\ \A l \in Requests : lotLock[l] # NoOne =>
       pc[lotLock[l]] \in Open /\ l \in held[lotLock[l]]
  /\ \A k \in Keys : keyLock[k] # NoOne =>
       pc[keyLock[k]] = "commit" /\ args[keyLock[k]].key = k

(***************************************************************************)
(* A committed row of a lot never gains points and never disappears, and   *)
(* the ledger only grows: refunds and credits insert lots of their own.    *)
(***************************************************************************)
LotsOnlyShrink ==
  [][ /\ lots \subseteq lots'
      /\ \A l \in lots : /\ remaining'[l] <= remaining[l]
                         /\ spent'[l] >= spent[l] ]_vars

(***************************************************************************)
(* PointService implements Wallet.                                         *)
(***************************************************************************)
AbstractStatus ==
  [r \in Requests |->
     CASE pc[r] = "idle" -> "idle"
       [] pc[r] = "done" -> "applied"
       [] pc[r] \in {"replayed", "failed"} -> pc[r]
       [] OTHER -> "pending"]

W == INSTANCE Wallet WITH status  <- AbstractStatus,
                          balance <- [u \in Users |-> Balance(u)]

ImplementsWallet == W!SafeSpec

(***************************************************************************)
(* ... and every call that is made is answered: the waits for lot locks    *)
(* and for keys never close a circle, because lots are locked oldest first *)
(* and the key comes last (point.service.ts:206-281).                      *)
(***************************************************************************)
WalletAnswers == W!Spec

-----------------------------------------------------------------------------
(* The inductive invariant.  LotsInv is behind LotsBalance,                *)
(* KeyTakesEffectOnce and FifoConsumption.                                 *)

(* Only a debit locks lots, and only from its SELECT on.                   *)
HeldSinceSelect ==
  \A r \in Requests :
    /\ pc[r] \notin {"lots", "save", "commit", "done"} => held[r] = {}
    /\ args[r].op = "credit" => pc[r] # "lots" /\ held[r] = {}

(* What was read under a lock stays true while the lock is held.           *)
ReadsStayTrue ==
  \A r \in Requests : pc[r] \in {"lots", "save", "commit"} =>
    \A l \in held[r] : lotLock[l] = r /\ seen[r][l] = remaining[l]

(* Only committed lots are locked, and only committed calls made them.     *)
LotsCommitted ==
  /\ \A l \in lots : pc[l] = "done"
  /\ \A r \in Requests : todo[r] \subseteq lots /\ held[r] \subseteq lots

(* Nothing is taken before all lots are locked, nor but from a locked lot, *)
(* nor more than it has.                                                   *)
TakenWithinSeen ==
  \A r, l \in Requests :
    /\ taken[r][l] <= seen[r][l]
    /\ taken[r][l] > 0 => l \in held[r] /\ todo[r] = {}

NothingSpentOfNewLots == \A l \in Requests \ lots : spent[l] = 0

(* While something is left to take, every lot touched was used up; and no  *)
(* lot is touched before the older ones are used up.                       *)
OlderUsedUp ==
  \A r \in Requests :
    /\ left[r] > 0 /\ pc[r] = "lots" =>
         \A l \in held[r] : taken[r][l] > 0 => taken[r][l] = seen[r][l]
    /\ \A l, m \in held[r] :
         createdAt[l] < createdAt[m] /\ taken[r][m] > 0
           => taken[r][l] = seen[r][l]

(* A key row and a committed call that carries the key go together, and a  *)
(* call about to commit owns its key.                                      *)
KeyOwners ==
  /\ \A k \in Keys : keyRow[k] # NoOne =>
       pc[keyRow[k]] = "done" /\ args[keyRow[k]].key = k
  /\ \A r \in Done : args[r].key # NoKey => keyRow[args[r].key] = r
  /\ \A r \in Requests : pc[r] = "commit" /\ args[r].key # NoKey =>
       keyLock[args[r].key] = r /\ keyRow[args[r].key] = NoOne

LotsInv ==
  /\ LotTypes
  /\ LotsBalance
  /\ LocksOfOpenCalls
  /\ HeldSinceSelect
  /\ ReadsStayTrue
  /\ LotsCommitted
  /\ TakenWithinSeen
  /\ NothingSpentOfNewLots
  /\ OlderUsedUp
  /\ FifoConsumption
  /\ KeyOwners

(* SumsInv is behind DebitsExact and the refinement of Wallet.             *)

(* A call without a positive amount gets no transaction.                   *)
OpenIsPositive == \A r \in Requests : pc[r] \in Open => args[r].amount > 0

(* A call selects and locks lots of its own user only.                     *)
OwnLots ==
  \A r \in Requests :
    /\ pc[r] # "lots" => todo[r] = {}
    /\ \A l \in todo[r] \cup held[r] : args[l].user = args[r].user

(* What a debit has taken and what it has left to take are its amount.     *)
TakenSoFar ==
  \A r \in Requests :
    args[r].op = "debit" /\ pc[r] \in {"lots", "save", "commit", "done"} =>
      /\ SumFunctionOnSet(taken[r], Requests) + left[r] = args[r].amount
      /\ pc[r] # "lots" => left[r] = 0

(* The amounts of the committed calls of one kind of a user.               *)
Moved(u, op) ==
  SumFunctionOnSet([r \in Requests |-> args[r].amount],
                   {r \in Done : args[r].op = op /\ args[r].user = u})

(* The lots of a user hold what was credited and not debited.              *)
LotsMatchLedger ==
  \A u \in Users : Balance(u) + Moved(u, "debit") = Moved(u, "credit")

SumsInv ==
  /\ OpenIsPositive
  /\ OwnLots
  /\ TakenSoFar
  /\ DebitsExact
  /\ LotsMatchLedger

(* SnapshotsInv is behind TypeOK.  What a debit has written last into its  *)
(* ledger is the balance it read less what it has taken; it goes on only   *)
(* if that balance covers it.                                              *)
SnapshotsTell ==
  \A r \in Requests :
    args[r].op = "debit" /\ pc[r] \in {"lots", "save", "commit"} =>
      /\ snapshot[r] + args[r].amount = balance[r] + left[r]
      /\ balance[r] >= args[r].amount

SnapshotsInv == TypeOK /\ SnapshotsTell

IInv == LotsInv /\ SumsInv /\ SnapshotsInv
=============================================================================
