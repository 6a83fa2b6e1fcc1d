-------------------------- MODULE OrderServiceProps --------------------------
(***************************************************************************)
(* What OrderService keeps between its two transactions.                   *)
(***************************************************************************)
EXTENDS OrderService

(* Every variable holds a value of its type.                               *)
TypeOK ==
  /\ pc \in [Calls -> Pc]
  /\ req \in [Calls -> Reqs]
  /\ orders \in [Calls -> {"none", "PAID", "REFUNDED"}]
  /\ lost \subseteq Calls
  /\ W!TypeOK

(* The wallet credits committed on behalf of refunds of an order.          *)
RefundCredits(o) ==
  {c \in Calls : /\ req[c].kind = "refund" /\ req[c].order = o
                 /\ wStatus[c] = "applied"}

(***************************************************************************)
(* An order others can see was paid for: the wallet of its user was        *)
(* debited by its total in a transaction of its own, before the order's    *)
(* transaction committed (order.service.ts:140-155).                       *)
(***************************************************************************)
PaidMeansDebited ==
  \A o \in Calls : Visible(o) =>
    /\ wStatus[o] = "applied"
    /\ wArgs[o].op = "debit"
    /\ wArgs[o].user = req[o].user /\ wArgs[o].amount = req[o].total

(***************************************************************************)
(* A REFUNDED order was credited back in full, if need be by an earlier    *)
(* attempt whose answer the last one was given (order.service.ts:231-253). *)
(***************************************************************************)
RefundedMeansCredited ==
  \A o \in Calls : orders[o] = "REFUNDED" =>
    \E c \in RefundCredits(o) : /\ wArgs[c].user = req[o].user
                                /\ wArgs[c].amount = req[o].total

(***************************************************************************)
(* An order is credited back at most once, although any number of refunds  *)
(* may read it as PAID before the first one commits, and crashed ones are  *)
(* retried (order.service.ts:187-198, :227-229).                           *)
(***************************************************************************)
RefundOnce == \A o \in Calls : Cardinality(RefundCredits(o)) <= 1

(***************************************************************************)
(* No order and no refund makes points or loses track of them: what a user *)
(* has and what the wallet took for orders not credited back is what was   *)
(* deposited.  What it took is the price of an order others can see, or of *)
(* one whose call still has to commit, or is stranded: taken for an order  *)
(* whose transaction failed after the wallet's had committed.  No other    *)
(* way to end a call leaves points behind (order.service.ts:109-170,       *)
(* :206-268).                                                              *)
(***************************************************************************)
Buys(u) == {o \in Calls : req[o].kind = "create" /\ req[o].user = u}

Charged(u) == {o \in Buys(u) : Visible(o) /\ RefundCredits(o) = {}}

UnderWay(u) == {o \in Buys(u) : pc[o] = "wallet" /\ wStatus[o] = "applied"}

Stranded(u) == Buys(u) \cap lost

Taken(u) == Charged(u) \cup UnderWay(u) \cup Stranded(u)

Deposits(u) ==
  SumFunctionOnSet([s \in Seed |-> wArgs[s].amount],
                   {s \in Seed : wArgs[s].user = u})

Total == [o \in Calls |-> req[o].total]

PointsAccounted ==
  \A u \in Users :
    wBalance[u] + SumFunctionOnSet(Total, Taken(u)) = Deposits(u)

(***************************************************************************)
(* Without keys a retried refund may credit an order again, and the sum    *)
(* above is too large; it is never too small: with or without keys, every  *)
(* point a user misses is accounted for as above, as the price of an order *)
(* or as stranded (order.service.ts:109-170, :227-236).                    *)
(***************************************************************************)
NoPointsLost ==
  \A u \in Users :
    wBalance[u] + SumFunctionOnSet(Total, Taken(u)) >= Deposits(u)

(***************************************************************************)
(* An order's status moves from PAID to REFUNDED and never back, although  *)
(* updateStatus writes it without a look at what is there                  *)
(* (order.repository.ts:61-69).                                            *)
(***************************************************************************)
OrdersOnlyAdvance ==
  [][ \A o \in Calls :
        orders'[o] # orders[o] =>
          <<orders[o], orders'[o]>> \in {<<"none", "PAID">>,
                                         <<"PAID", "REFUNDED">>} ]_vars

(***************************************************************************)
(* Every call that has begun ends: the wallet answers, and each answer it  *)
(* may give is handled (order.service.ts:114-170).                         *)
(***************************************************************************)
CallsEnd == \A c \in Calls : pc[c] = "begun" ~> pc[c] \in Ended

-----------------------------------------------------------------------------
(* The inductive invariant behind the safety properties.                   *)

(* The wallet is called from one place only, for what was asked, and its   *)
(* answer is waited for.                                                   *)
WalletCalledOnce ==
  \A c \in Calls :
    /\ pc[c] \in {"idle", "begun"} => wStatus[c] = "idle"
    /\ pc[c] = "wallet" => wStatus[c] # "idle"
    /\ wStatus[c] = "pending" => pc[c] = "wallet"
    /\ wStatus[c] # "idle" => wArgs[c] = WalletArgs(c)

(* A call that creates an order is named as its order; one that refunds an *)
(* order asks for what the order was about.                                *)
RequestsMatchOrders ==
  \A c \in Calls :
    /\ req[c].kind = "create" => req[c].order = c
    /\ req[c].kind = "refund" =>
         /\ pc[c] # "idle" /\ Visible(req[c].order)
         /\ req[c].user = req[req[c].order].user
         /\ req[c].total = req[req[c].order].total

(* An order is visible only once the call that creates it has committed,   *)
(* and from then on.                                                       *)
OrdersOfCommitted ==
  \A o \in Calls :
    /\ Visible(o) => req[o].kind = "create" /\ pc[o] \in {"done", "unsure"}
    /\ pc[o] = "done" => Visible(req[o].order)

(* A call that ended without its order's commit moved points only if the   *)
(* wallet had committed before; a lost order is never seen.                *)
LostAfterWallet ==
  \A c \in Calls :
    /\ c \in lost =>
         /\ wStatus[c] = "applied" /\ pc[c] \in {"failed", "unsure"}
         /\ req[c].kind = "create" => ~ Visible(c)
    /\ wStatus[c] = "applied" /\ pc[c] \in {"failed", "unsure"} /\ c \notin lost
         => pc[c] = "unsure" /\ Visible(req[c].order)

(* The wallet's keys take effect once, a seed is a credit without one, and *)
(* a replayed call has the answer of one that carries its key.             *)
WalletKeysOnce ==
  /\ \A r, s \in W!Applied :
       wArgs[r].key # NoKey /\ wArgs[r].key = wArgs[s].key => r = s
  /\ \A r \in Seed : /\ wStatus[r] = "applied"
                      /\ wArgs[r].op = "credit" /\ wArgs[r].key = NoKey
  /\ \A c \in Calls : wStatus[c] = "replayed" =>
       /\ wArgs[c].key # NoKey
       /\ \E o \in W!Applied : wArgs[o].key = wArgs[c].key

OrdersInv ==
  /\ TypeOK
  /\ WalletCalledOnce
  /\ RequestsMatchOrders
  /\ OrdersOfCommitted
  /\ WalletKeysOnce
  /\ PaidMeansDebited
  /\ RefundedMeansCredited
  /\ LostAfterWallet

(* The amounts of the wallet calls of one kind that took effect for a user.*)
Amount == [r \in Calls \cup Seed |-> wArgs[r].amount]

Movers(u, op) == {r \in W!Applied : wArgs[r].op = op /\ wArgs[r].user = u}

Moved(u, op) == SumFunctionOnSet(Amount, Movers(u, op))

(* The wallet keeps the balance of what it was told to move.               *)
WalletAddsUp ==
  \A u \in Users : wBalance[u] + Moved(u, "debit") = Moved(u, "credit")

IInv == OrdersInv /\ WalletAddsUp

-----------------------------------------------------------------------------
(* Claims of the comments and documents, compared with the code.           *)

(***************************************************************************)
(* order.service.ts:135: `This debit happens in the same transaction' as   *)
(* the order; DATABASE_SCHEMA.md:274, architecture.md:60 say the same.     *)
(* When a call to create an order is over and points were taken for it,    *)
(* the order is there.                                                     *)
(***************************************************************************)
OneTransaction ==
  \A o \in Calls :
    req[o].kind = "create" /\ pc[o] \in Ended /\ wStatus[o] = "applied"
      => Visible(o)
=============================================================================
