---------------------------- MODULE OrderService ----------------------------
(***************************************************************************)
(* OrderService.createOrder and refundOrder over the wallet.  A call opens *)
(* a transaction of its own, has the wallet debited or credited (which     *)
(* runs in a second transaction, on a second connection, and commits by    *)
(* itself), then writes the order's status and commits.  The order row is  *)
(* seen by others from that last commit on, so PENDING is never seen.      *)
(*                                                                         *)
(* An order is named by the call that creates it, and a call of the wallet *)
(* by the call of this service that makes it: each makes at most one.      *)
(***************************************************************************)
EXTENDS Integers, FiniteSets, Functions

CONSTANTS
  Calls,       \* API calls: POST /v1/orders and POST /v1/orders/:id/refund
  Seed,        \* credits committed before the behaviour begins
  Users,
  Totals,      \* price * quantity; 0 for a product that costs nothing
  ClientKeys,  \* what a caller may put in idempotency_key; NoKey to omit it
  NoKey,
  ClientRefs,  \* what a caller may put in ref_type, ref_id of a refund
  OwnRef       \* ('order', order id): the reference of a debit

ASSUME OrderAssumption ==
  /\ IsFiniteSet(Calls) /\ IsFiniteSet(Seed) /\ Calls \cap Seed = {}
  /\ Users # {} /\ ClientKeys # {}
  /\ Totals \subseteq Nat /\ Totals \ {0} # {}
  /\ NoKey \notin (Calls \X {"debit", "refund"})

VARIABLES
  pc,       \* where each call stands
  req,      \* what it was asked
  orders,   \* committed status of the order each call creates
  wArgs, wStatus, wBalance,  \* the wallet
  lost      \* history: calls whose transaction ended without a commit after
            \* the wallet had committed on their behalf

wallet == <<wArgs, wStatus, wBalance>>
vars   == <<pc, req, orders, wallet, lost>>

(* The keys this service makes up: order:<id>:debit and order:<id>:refund. *)
WalletKeys == Calls \X {"debit", "refund"}

W == INSTANCE Wallet WITH
       Requests <- Calls \cup Seed, Amounts <- Totals, Keys <- WalletKeys,
       Refs <- ClientRefs \cup {OwnRef},
       args <- wArgs, status <- wStatus, balance <- wBalance

(* `order' and `ref' matter to refunds; a new order is its own.            *)
Reqs == [kind : {"create", "refund"}, user : Users, total : Totals,
         key : ClientKeys, order : Calls, ref : ClientRefs \cup {OwnRef}]

(* `failed': a check refused the call, or its transaction was rolled back;  *)
(* `unsure': no answer, or an error after the commit.                       *)
Pc == {"idle", "begun", "wallet", "done", "failed", "unsure"}

Ended == {"done", "failed", "unsure"}

(* findById on the pool: an order as other transactions see it.            *)
Visible(o) == orders[o] # "none"

(* Placeholder for what a call not yet made is asked.                      *)
Unasked(c) ==
  [kind |-> "create", user |-> CHOOSE u \in Users : TRUE,
   total |-> CHOOSE t \in Totals : TRUE,
   key |-> CHOOSE k \in ClientKeys : TRUE, order |-> c, ref |-> OwnRef]

Init ==
  /\ W!Init
  /\ pc = [c \in Calls |-> "idle"]
  /\ req = [c \in Calls |-> Unasked(c)]
  /\ orders = [c \in Calls |-> "none"]
  /\ lost = {}

-----------------------------------------------------------------------------

Goto(c, from, to) ==
  /\ pc[c] = from
  /\ pc' = [pc EXCEPT ![c] = to]

Asked(c, q) == req' = [req EXCEPT ![c] = q]

(* createOrder: the product is read and the total computed, BEGIN, and the *)
(* order is inserted with status PENDING.                                  *)
CreateOrder(c, q) ==
  /\ q.kind = "create" /\ q.order = c /\ q.ref = OwnRef
  /\ Goto(c, "idle", "begun")
  /\ Asked(c, q)
  /\ UNCHANGED <<orders, wallet, lost>>

(* refundOrder: the order is read outside the transaction; it must be PAID *)
(* and its total positive.  The controller never passes a partial amount.  *)
RefundableDirty(o) == pc[o] # "idle"        \* mutant: order not yet committed
Refundable(o) == orders[o] = "PAID" /\ req[o].total > 0

RefundOrder(c, q) ==
  /\ q.kind = "refund" /\ Refundable(q.order)
  /\ q.user = req[q.order].user /\ q.total = req[q.order].total
  /\ Goto(c, "idle", "begun")
  /\ Asked(c, q)
  /\ UNCHANGED <<orders, wallet, lost>>

(* A check before the transaction fails: quantity, product, order not      *)
(* found, order not PAID.  Some check can always fail, whatever is stored. *)
Refuse(c) ==
  /\ Goto(c, "idle", "failed")
  /\ UNCHANGED <<req, orders, wallet, lost>>

(* The key of the wallet call is derived from the order's id, provided the *)
(* caller sent a key at all; the caller's key itself is not passed on.     *)
WalletKeyOfCall(c) ==                       \* mutant: a key per refund call
  IF req[c].key = NoKey THEN NoKey ELSE <<c, "refund">>
WalletKey(c) ==
  IF req[c].key = NoKey THEN NoKey
  ELSE IF req[c].kind = "create" THEN <<c, "debit">>
  ELSE <<req[c].order, "refund">>

WalletArgs(c) ==
  [op      |-> IF req[c].kind = "create" THEN "debit" ELSE "credit",
   user    |-> req[c].user,
   amount  |-> req[c].total,
   key     |-> WalletKey(c),
   ref     |-> req[c].ref]

CallWallet(c) ==
  /\ Goto(c, "begun", "wallet")
  /\ W!Call(c, WalletArgs(c))
  /\ UNCHANGED <<req, orders, lost>>

(* The wallet answers in its own transaction.                              *)
WalletAnswers(c) ==
  /\ W!Answer(c)
  /\ UNCHANGED <<pc, req, orders, lost>>

(* The await on the wallet came back without an error.                     *)
WalletSucceededUnawaited(c) ==              \* mutant: missing await
  wStatus[c] \in {"pending", "applied", "replayed"}
WalletSucceededAtFirst(c) ==                \* mutant: replays not accepted
  wStatus[c] = "applied"
WalletSucceeded(c) == wStatus[c] \in {"applied", "replayed"}

(* updateStatus writes unconditionally, then COMMIT; the order is read     *)
(* again for the answer, and that may fail.                                *)
CommitOrder(c) ==
  /\ WalletSucceeded(c)
  /\ \E p \in {"done", "unsure"} : Goto(c, "wallet", p)
  /\ orders' = [orders EXCEPT ![req[c].order] =
                  IF req[c].kind = "create" THEN "PAID" ELSE "REFUNDED"]
  /\ UNCHANGED <<req, wallet, lost>>

(* The transaction ends without a commit.                                 *)
Lose(c) == lost' = IF wStatus[c] = "applied" THEN lost \cup {c} ELSE lost

(* The await threw, on the wallet's error.                                 *)
WalletThrewOrSlow(c) ==                     \* mutant: a timeout on the await
  wStatus[c] \in {"pending", "failed"}
WalletThrew(c) == wStatus[c] = "failed"

(* The catch: ROLLBACK, and the error is passed on to the caller.  The     *)
(* wallet threw, or it has committed and updateStatus or COMMIT failed.    *)
RollbackOrder(c) ==
  /\ WalletThrew(c) \/ WalletSucceeded(c)
  /\ Goto(c, "wallet", "failed")
  /\ Lose(c)
  /\ UNCHANGED <<req, orders, wallet>>

(* The process, or the connection of the order's transaction, is lost.     *)
(* What the wallet has committed stays; what it has not is rolled back.    *)
Crash(c) ==
  /\ \E p \in {"begun", "wallet"} : Goto(c, p, "unsure")
  /\ IF wStatus[c] = "pending" THEN W!Fail(c) ELSE UNCHANGED wallet
  /\ Lose(c)
  /\ UNCHANGED <<req, orders>>

Step(c) ==
  CallWallet(c) \/ CommitOrder(c) \/ RollbackOrder(c) \/ WalletAnswers(c)

Next ==
  \E c \in Calls :
    \/ Step(c)
    \/ Crash(c)
    \/ Refuse(c)
    \/ \E q \in Reqs : CreateOrder(c, q) \/ RefundOrder(c, q)

(* A call that has begun goes on, and so does the wallet.                  *)
Fairness == \A c \in Calls : WF_vars(Step(c))

Spec == Init /\ [][Next]_vars /\ Fairness
=============================================================================
