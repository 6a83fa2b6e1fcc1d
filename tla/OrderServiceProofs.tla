------------------------- MODULE OrderServiceProofs -------------------------
(***************************************************************************)
(* Proofs that orders and the wallet agree, for any number of calls,       *)
(* users, totals and keys.                                                 *)
(***************************************************************************)
EXTENDS OrderServiceProps, SumTheorems

USE OrderAssumption

LEMMA BlankType == W!SeedArgs # {} /\ W!Blank \in W!SeedArgs
<1>1. PICK u \in Users, t \in Totals \ {0} : TRUE
  OBVIOUS
<1>2. [op |-> "credit", user |-> u, amount |-> t, key |-> NoKey, ref |-> OwnRef]
        \in W!SeedArgs
  BY <1>1 DEF W!SeedArgs, W!Args
<1>. QED
  BY <1>2 DEF W!Blank

LEMMA UnaskedType ==
  ASSUME NEW c \in Calls
  PROVE  Unasked(c) \in Reqs /\ Unasked(c).kind = "create" /\ Unasked(c).order = c
<1>1. Totals # {}
  OBVIOUS
<1>. QED
  BY <1>1 DEF Unasked, Reqs

LEMMA WalletSum ==
  ASSUME NEW f, NEW S
  PROVE  W!SumFunctionOnSet(f, S) = SumFunctionOnSet(f, S)
  BY DEF W!SumFunctionOnSet, W!FoldFunctionOnSet, W!MapThenFoldSet,
         SumFunctionOnSet, FoldFunctionOnSet, MapThenFoldSet

(* The wallet is called with arguments of its kind, and with a key that    *)
(* tells what it was made for.                                             *)
LEMMA WalletArgsType ==
  ASSUME NEW c \in Calls, req[c] \in Reqs
  PROVE  WalletArgs(c) \in W!Args
<1>1. WalletKey(c) \in WalletKeys \cup {NoKey}
  BY DEF WalletKey, WalletKeys, Reqs
<1>. QED
  BY <1>1 DEF WalletArgs, W!Args, Reqs

LEMMA KeysTell ==
  ASSUME NEW c \in Calls, NEW d \in Calls, req[c] \in Reqs, req[d] \in Reqs,
         WalletKey(c) # NoKey, WalletKey(c) = WalletKey(d)
  PROVE  \/ req[c].kind = "create" /\ req[d].kind = "create" /\ c = d
         \/ /\ req[c].kind = "refund" /\ req[d].kind = "refund"
            /\ req[c].order = req[d].order
  BY DEF WalletKey, Reqs

-----------------------------------------------------------------------------

LEMMA InitOrdersInv == Init => OrdersInv
<1>. SUFFICES ASSUME Init PROVE OrdersInv
  OBVIOUS
<1>. USE DEF Init, W!Init
<1>1. \A r \in Calls \cup Seed : wArgs[r] \in W!SeedArgs
  BY BlankType DEF W!InitialArgs
<1>2. TypeOK
  <2>1. wArgs \in [Calls \cup Seed -> W!Args]
    BY <1>1 DEF W!InitialArgs, W!SeedArgs
  <2>2. wStatus \in [Calls \cup Seed -> W!Status]
    BY DEF W!Status
  <2>3. req \in [Calls -> Reqs]
    BY UnaskedType
  <2>4. wBalance \in [Users -> Nat]
    <3>. DEFINE f == [r \in Seed |-> wArgs[r].amount]
    <3>1. \A r \in Seed : f[r] \in Nat
      BY <2>1 DEF W!Args
    <3>2. ASSUME NEW S \in SUBSET Seed
          PROVE  W!SumFunctionOnSet(f, S) \in Nat
      <4>1. IsFiniteSet(S)
        BY FS_Subset
      <4>. HIDE DEF f
      <4>. QED
        BY <3>1, <4>1, SumNat, WalletSum
    <3>. QED
      BY <3>2
  <2>. QED
    BY <2>1, <2>2, <2>3, <2>4 DEF TypeOK, W!TypeOK, Pc
<1>3. \A c \in Calls : wStatus[c] = "idle"
  OBVIOUS
<1>4. WalletCalledOnce /\ LostAfterWallet
  BY <1>3 DEF WalletCalledOnce, LostAfterWallet, Visible
<1>5. RequestsMatchOrders
  BY UnaskedType DEF RequestsMatchOrders
<1>6. OrdersOfCommitted /\ PaidMeansDebited /\ RefundedMeansCredited
  BY DEF OrdersOfCommitted, PaidMeansDebited, RefundedMeansCredited, Visible
<1>7. WalletKeysOnce
  BY <1>1, <1>3 DEF WalletKeysOnce, W!Applied, W!SeedArgs
<1>. QED
  BY <1>2, <1>4, <1>5, <1>6, <1>7 DEF OrdersInv

-----------------------------------------------------------------------------

(* A call begins: its request is what it is, and no order and no wallet    *)
(* call is touched.                                                        *)
LEMMA BeginStep ==
  ASSUME OrdersInv, NEW c \in Calls, NEW q \in Reqs,
         Goto(c, "idle", "begun"), Asked(c, q), UNCHANGED <<orders, wallet, lost>>,
         q.kind = "create" => q.order = c,
         q.kind = "refund" => /\ Visible(q.order)
                              /\ q.user = req[q.order].user
                              /\ q.total = req[q.order].total
  PROVE  OrdersInv'
<1>. USE DEF OrdersInv, TypeOK, W!TypeOK, Goto, Asked, wallet
<1>1. ~ Visible(c) /\ wStatus[c] = "idle"
  BY DEF OrdersOfCommitted, WalletCalledOnce
<1>2. /\ req'[c] = q /\ pc'[c] = "begun"
      /\ \A d \in Calls : d # c => req'[d] = req[d] /\ pc'[d] = pc[d]
  OBVIOUS
<1>3. TypeOK'
  BY DEF Pc
<1>4. WalletCalledOnce'
  BY <1>1, <1>2 DEF WalletCalledOnce, WalletArgs, WalletKey
<1>9. LostAfterWallet'
  BY <1>1, <1>2 DEF LostAfterWallet, Visible
<1>5. RequestsMatchOrders'
  <2>. SUFFICES ASSUME NEW d \in Calls
                PROVE  /\ req'[d].kind = "create" => req'[d].order = d
                       /\ req'[d].kind = "refund" =>
                            /\ pc'[d] # "idle" /\ orders[req'[d].order] # "none"
                            /\ req'[d].user = req'[req'[d].order].user
                            /\ req'[d].total = req'[req'[d].order].total
    BY DEF RequestsMatchOrders, Visible
  <2>1. \A o \in Calls : orders[o] # "none" => req'[o] = req[o]
    BY <1>1, <1>2 DEF Visible
  <2>2. \A e \in Reqs : e.order \in Calls
    BY DEF Reqs
  <2>3. CASE d = c
    BY <2>1, <2>2, <2>3, <1>2 DEF Visible
  <2>4. CASE d # c
    BY <2>1, <2>2, <2>4, <1>2 DEF Visible, RequestsMatchOrders
  <2>. QED
    BY <2>3, <2>4
<1>6. OrdersOfCommitted' /\ PaidMeansDebited'
  BY <1>1, <1>2 DEF OrdersOfCommitted, PaidMeansDebited, Visible
<1>7. RefundedMeansCredited'
  <2>. SUFFICES ASSUME NEW o \in Calls, orders[o] = "REFUNDED"
                PROVE  \E d \in RefundCredits(o)' : /\ wArgs[d].user = req'[o].user
                                                    /\ wArgs[d].amount = req'[o].total
    BY DEF RefundedMeansCredited
  <2>1. PICK d \in RefundCredits(o) : /\ wArgs[d].user = req[o].user
                                      /\ wArgs[d].amount = req[o].total
    BY DEF RefundedMeansCredited
  <2>2. d # c /\ o # c
    BY <1>1, <2>1 DEF RefundCredits, Visible
  <2>3. d \in RefundCredits(o)'
    BY <2>1, <2>2, <1>2 DEF RefundCredits
  <2>. QED
    BY <2>1, <2>2, <2>3, <1>2
<1>8. WalletKeysOnce'
  BY DEF WalletKeysOnce, W!Applied
<1>. QED
  BY <1>3, <1>4, <1>5, <1>6, <1>7, <1>8, <1>9

LEMMA RefuseStep ==
  ASSUME OrdersInv, NEW c \in Calls, Refuse(c)
  PROVE  OrdersInv'
<1>. USE DEF OrdersInv, TypeOK, W!TypeOK, Refuse, Goto, wallet
<1>1. wStatus[c] = "idle" /\ ~ Visible(c)
  BY DEF OrdersOfCommitted, WalletCalledOnce
<1>2. TypeOK'
  BY DEF Pc
<1>3. WalletCalledOnce' /\ LostAfterWallet'
  BY <1>1 DEF WalletCalledOnce, LostAfterWallet, WalletArgs, WalletKey, Visible
<1>4. RequestsMatchOrders' /\ OrdersOfCommitted' /\ PaidMeansDebited'
  BY <1>1 DEF RequestsMatchOrders, OrdersOfCommitted, PaidMeansDebited, Visible
<1>5. RefundedMeansCredited' /\ WalletKeysOnce'
  BY DEF RefundedMeansCredited, RefundCredits, WalletKeysOnce, W!Applied
<1>. QED
  BY <1>2, <1>3, <1>4, <1>5

LEMMA CallWalletStep ==
  ASSUME OrdersInv, NEW c \in Calls, CallWallet(c)
  PROVE  OrdersInv'
<1>. USE DEF OrdersInv, TypeOK, W!TypeOK, CallWallet, Goto, W!Call
<1>1. wStatus[c] = "idle" /\ ~ Visible(c)
  BY DEF OrdersOfCommitted, WalletCalledOnce
<1>2. /\ wStatus'[c] = "pending" /\ wArgs'[c] = WalletArgs(c) /\ pc'[c] = "wallet"
      /\ \A d \in Calls \cup Seed : d # c => /\ wStatus'[d] = wStatus[d]
                                             /\ wArgs'[d] = wArgs[d]
      /\ \A d \in Calls : d # c => pc'[d] = pc[d]
      /\ UNCHANGED <<req, orders, lost>>
  OBVIOUS
<1>3. TypeOK'
  BY WalletArgsType DEF Pc, W!Status
<1>4. WalletCalledOnce' /\ LostAfterWallet'
  BY <1>1, <1>2 DEF WalletCalledOnce, LostAfterWallet, WalletArgs, WalletKey, Visible
<1>5. RequestsMatchOrders' /\ OrdersOfCommitted' /\ PaidMeansDebited'
  BY <1>1, <1>2 DEF RequestsMatchOrders, OrdersOfCommitted, PaidMeansDebited, Visible
<1>6. W!Applied' = W!Applied /\ c \notin W!Applied
  BY <1>1, <1>2 DEF W!Applied
<1>7. RefundedMeansCredited'
  <2>1. \A o \in Calls : RefundCredits(o)' = RefundCredits(o) /\ c \notin RefundCredits(o)
    BY <1>1, <1>2 DEF RefundCredits
  <2>2. \A o \in Calls : RefundCredits(o) \subseteq Calls
    BY DEF RefundCredits
  <2>. QED
    BY <2>1, <2>2, <1>2 DEF RefundedMeansCredited
<1>8. WalletKeysOnce'
  <2>1. c \notin Seed
    OBVIOUS
  <2>2. \A r \in W!Applied : wArgs'[r] = wArgs[r]
    BY <1>2, <1>6 DEF W!Applied
  <2>. QED
    BY <2>1, <2>2, <1>2, <1>6 DEF WalletKeysOnce
<1>. QED
  BY <1>3, <1>4, <1>5, <1>7, <1>8

(* The wallet's answer, whatever it is, ends a pending call; it is applied *)
(* under a key that was not used, or replayed under one that was.          *)
LEMMA AnswerIs ==
  ASSUME NEW c \in Calls, W!Answer(c)
  PROVE  /\ wStatus[c] = "pending" /\ wArgs' = wArgs
         /\ \E s \in {"applied", "replayed", "failed"} :
              /\ wStatus' = [wStatus EXCEPT ![c] = s]
              /\ s = "applied" => W!KeyUnused(wArgs[c].key)
              /\ s = "replayed" => /\ wArgs[c].key # NoKey
                                   /\ \E o \in W!Applied : wArgs[o].key = wArgs[c].key
  BY DEF W!Answer, W!ApplyCredit, W!ApplyDebit, W!Replay, W!Fail, W!Finish

LEMMA AnswerBalance ==
  ASSUME TypeOK, NEW c \in Calls, W!Answer(c)
  PROVE  wBalance' \in [Users -> Nat]
<1>1. /\ wBalance \in [Users -> Nat]
      /\ wArgs[c].user \in Users /\ wArgs[c].amount \in Nat
  BY DEF TypeOK, W!TypeOK, W!Args
<1>2. CASE W!ApplyCredit(c)
  BY <1>1, <1>2 DEF W!ApplyCredit
<1>3. CASE W!ApplyDebit(c)
  <2>1. wBalance[wArgs[c].user] - wArgs[c].amount \in Nat
    BY <1>1, <1>3 DEF W!ApplyDebit
  <2>. QED
    BY <1>1, <1>3, <2>1 DEF W!ApplyDebit
<1>4. CASE W!Replay(c) \/ W!Fail(c)
  BY <1>1, <1>4 DEF W!Replay, W!Fail
<1>. QED
  BY <1>2, <1>3, <1>4 DEF W!Answer

LEMMA AnswerStep ==
  ASSUME OrdersInv, NEW c \in Calls, WalletAnswers(c)
  PROVE  OrdersInv'
<1>. USE DEF OrdersInv, TypeOK, W!TypeOK
<1>1. PICK s \in {"applied", "replayed", "failed"} :
        /\ wStatus[c] = "pending" /\ wArgs' = wArgs
        /\ wStatus' = [wStatus EXCEPT ![c] = s]
        /\ s = "applied" => W!KeyUnused(wArgs[c].key)
        /\ s = "replayed" => /\ wArgs[c].key # NoKey
                             /\ \E o \in W!Applied : wArgs[o].key = wArgs[c].key
  BY AnswerIs DEF WalletAnswers
<1>2. UNCHANGED <<pc, req, orders, lost>>
  BY DEF WalletAnswers
<1>3. /\ wStatus'[c] = s
      /\ \A d \in Calls \cup Seed : d # c => wStatus'[d] = wStatus[d]
  BY <1>1
<1>4. ~ Visible(c)
  BY <1>1 DEF PaidMeansDebited
<1>5. TypeOK'
  <2>1. wBalance' \in [Users -> Nat]
    BY AnswerBalance DEF WalletAnswers
  <2>. QED
    BY <1>1, <1>2, <2>1 DEF W!Status
<1>6. WalletCalledOnce'
  BY <1>1, <1>2, <1>3 DEF WalletCalledOnce, WalletArgs, WalletKey
<1>11. LostAfterWallet'
  <2>1. pc[c] = "wallet"
    BY <1>1 DEF WalletCalledOnce
  <2>. QED
    BY <2>1, <1>1, <1>2, <1>3 DEF LostAfterWallet, Visible
<1>7. RequestsMatchOrders' /\ OrdersOfCommitted' /\ PaidMeansDebited'
  BY <1>1, <1>2, <1>3, <1>4 DEF RequestsMatchOrders, OrdersOfCommitted,
                                PaidMeansDebited, Visible
<1>8. /\ W!Applied \subseteq W!Applied'
      /\ s = "applied" => W!Applied' = W!Applied \cup {c}
      /\ s # "applied" => W!Applied' = W!Applied
      /\ W!Applied \subseteq Calls \cup Seed
  BY <1>1, <1>3 DEF W!Applied
<1>9. RefundedMeansCredited'
  <2>1. \A o \in Calls : RefundCredits(o) \subseteq RefundCredits(o)'
    BY <1>1, <1>2, <1>3 DEF RefundCredits
  <2>. QED
    BY <2>1, <1>1, <1>2 DEF RefundedMeansCredited
<1>10. WalletKeysOnce'
  <2>1. \A r, t \in W!Applied' :
          wArgs[r].key # NoKey /\ wArgs[r].key = wArgs[t].key => r = t
    <3>1. CASE s = "applied"
      BY <3>1, <1>1, <1>8 DEF WalletKeysOnce, W!KeyUnused
    <3>2. CASE s # "applied"
      BY <3>2, <1>8 DEF WalletKeysOnce
    <3>. QED
      BY <3>1, <3>2
  <2>2. \A r \in Seed : wStatus'[r] = "applied" /\ wArgs'[r].key = NoKey
    BY <1>1, <1>3 DEF WalletKeysOnce
  <2>3. ASSUME NEW d \in Calls, wStatus'[d] = "replayed"
        PROVE  wArgs[d].key # NoKey /\ \E o \in W!Applied' : wArgs[o].key = wArgs[d].key
    <3>1. CASE d = c
      BY <3>1, <2>3, <1>1, <1>3, <1>8
    <3>2. CASE d # c
      BY <3>2, <2>3, <1>3, <1>8 DEF WalletKeysOnce
    <3>. QED
      BY <3>1, <3>2
  <2>. QED
    BY <2>1, <2>2, <2>3, <1>1 DEF WalletKeysOnce
<1>. QED
  BY <1>5, <1>6, <1>7, <1>9, <1>10, <1>11

(* A call whose wallet call has succeeded owes its success to one that was *)
(* applied: itself, or, for a refund, another refund of the same order.    *)
LEMMA SuccessIsApplied ==
  ASSUME OrdersInv, NEW c \in Calls, WalletSucceeded(c)
  PROVE  /\ req[c].kind = "create" => wStatus[c] = "applied"
         /\ req[c].kind = "refund" =>
              \E d \in RefundCredits(req[c].order) :
                /\ wArgs[d].user = req[req[c].order].user
                /\ wArgs[d].amount = req[req[c].order].total
<1>. USE DEF OrdersInv, TypeOK, W!TypeOK
<1>1. wArgs[c] = WalletArgs(c) /\ wArgs[c].key = WalletKey(c)
  BY DEF WalletSucceeded, WalletCalledOnce, WalletArgs
<1>2. CASE wStatus[c] = "applied"
  <2>. SUFFICES ASSUME req[c].kind = "refund"
                PROVE  /\ c \in RefundCredits(req[c].order)
                       /\ wArgs[c].user = req[req[c].order].user
                       /\ wArgs[c].amount = req[req[c].order].total
    BY <1>2
  <2>. QED
    BY <1>1, <1>2 DEF RefundCredits, RequestsMatchOrders, WalletArgs
<1>3. CASE wStatus[c] = "replayed"
  <2>1. PICK o \in W!Applied : wArgs[o].key = wArgs[c].key
    BY <1>3 DEF WalletKeysOnce
  <2>2. wArgs[c].key # NoKey
    BY <1>3 DEF WalletKeysOnce
  <2>3. o \in Calls /\ wStatus[o] = "applied"
    BY <2>1, <2>2 DEF WalletKeysOnce, W!Applied
  <2>4. wArgs[o] = WalletArgs(o) /\ wArgs[o].key = WalletKey(o)
    BY <2>3 DEF WalletCalledOnce, WalletArgs
  <2>5. \/ req[c].kind = "create" /\ c = o
        \/ /\ req[c].kind = "refund" /\ req[o].kind = "refund"
           /\ req[c].order = req[o].order
    BY <1>1, <2>1, <2>2, <2>3, <2>4, KeysTell
  <2>6. c # o
    BY <1>3, <2>3
  <2>7. req[c].kind = "refund" /\ o \in RefundCredits(req[c].order)
    BY <2>3, <2>5, <2>6 DEF RefundCredits
  <2>8. /\ wArgs[o].user = req[req[c].order].user
        /\ wArgs[o].amount = req[req[c].order].total
    BY <2>3, <2>4, <2>5, <2>6 DEF RequestsMatchOrders, WalletArgs
  <2>. QED
    BY <2>7, <2>8
<1>. QED
  BY <1>2, <1>3 DEF WalletSucceeded

LEMMA CommitStep ==
  ASSUME OrdersInv, NEW c \in Calls, CommitOrder(c)
  PROVE  OrdersInv'
<1>. USE DEF OrdersInv, TypeOK, W!TypeOK, wallet
<1>1. /\ WalletSucceeded(c) /\ pc[c] = "wallet" /\ req[c] \in Reqs
      /\ pc' \in [Calls -> Pc] /\ pc'[c] \in {"done", "unsure"}
      /\ \A d \in Calls : d # c => pc'[d] = pc[d]
      /\ UNCHANGED <<req, wArgs, wStatus, wBalance, lost>>
  BY DEF CommitOrder, Goto, Pc
<1>2. /\ req[c].order \in Calls
      /\ \/ /\ req[c].kind = "create" /\ req[c].order = c
            /\ orders' = [orders EXCEPT ![c] = "PAID"]
         \/ /\ req[c].kind = "refund" /\ Visible(req[c].order)
            /\ orders' = [orders EXCEPT ![req[c].order] = "REFUNDED"]
  BY <1>1 DEF CommitOrder, Reqs, RequestsMatchOrders
<1>3. TypeOK'
  BY <1>1, <1>2
<1>4. WalletCalledOnce'
  BY <1>1 DEF WalletCalledOnce, WalletArgs, WalletKey, WalletSucceeded
<1>5. \A o \in Calls : /\ Visible(o) => Visible(o)'
                       /\ Visible(o)' =>
                            Visible(o) \/ (req[c].kind = "create" /\ o = c)
  BY <1>2 DEF Visible
<1>6. RequestsMatchOrders'
  <2>1. \A e \in Reqs : e.order \in Calls
    BY DEF Reqs
  <2>. QED
    BY <2>1, <1>1, <1>5 DEF RequestsMatchOrders
<1>7. OrdersOfCommitted'
  <2>1. \A e \in Reqs : e.order \in Calls
    BY DEF Reqs
  <2>2. Visible(req[c].order)'
    BY <1>1, <1>2 DEF Visible
  <2>3. ASSUME NEW o \in Calls
        PROVE  /\ Visible(o)' => req'[o].kind = "create" /\ pc'[o] \in {"done", "unsure"}
               /\ pc'[o] = "done" => orders'[req'[o].order] # "none"
    <3>1. CASE o = c
      BY <1>1, <1>5, <2>2, <3>1 DEF OrdersOfCommitted, Visible
    <3>2. CASE o # c
      BY <1>1, <1>5, <2>1, <3>2 DEF OrdersOfCommitted, Visible
    <3>. QED
      BY <3>1, <3>2
  <2>. QED
    BY <2>3 DEF OrdersOfCommitted, Visible
<1>8. PaidMeansDebited'
  <2>1. req[c].kind = "create" =>
          /\ wStatus[c] = "applied" /\ wArgs[c].op = "debit"
          /\ wArgs[c].user = req[c].user /\ wArgs[c].amount = req[c].total
    BY <1>1, SuccessIsApplied DEF WalletCalledOnce, WalletArgs
  <2>. QED
    BY <2>1, <1>1, <1>5 DEF PaidMeansDebited
<1>9. RefundedMeansCredited'
  <2>1. \A o \in Calls : RefundCredits(o)' = RefundCredits(o)
    BY <1>1 DEF RefundCredits
  <2>2. \A o \in Calls : orders'[o] = "REFUNDED" =>
          \/ orders[o] = "REFUNDED"
          \/ req[c].kind = "refund" /\ o = req[c].order
    BY <1>2
  <2>. QED
    BY <2>1, <2>2, <1>1, SuccessIsApplied DEF RefundedMeansCredited
<1>10. WalletKeysOnce'
  BY <1>1 DEF WalletKeysOnce, W!Applied
<1>11. LostAfterWallet'
  <2>1. c \notin lost
    BY <1>1 DEF LostAfterWallet
  <2>2. Visible(req[c].order)'
    BY <1>1, <1>2 DEF Visible
  <2>3. \A e \in Reqs : e.order \in Calls
    BY DEF Reqs
  <2>4. ASSUME NEW d \in Calls, d \in lost, req[d].kind = "create"
        PROVE  ~ Visible(d)'
    BY <1>1, <1>5, <2>1, <2>4 DEF LostAfterWallet
  <2>5. ASSUME NEW d \in Calls, wStatus[d] = "applied",
               pc'[d] \in {"failed", "unsure"}, d \notin lost
        PROVE  pc'[d] = "unsure" /\ Visible(req[d].order)'
    <3>1. CASE d = c
      BY <1>1, <2>2, <2>5, <3>1
    <3>2. CASE d # c
      BY <1>1, <1>5, <2>3, <2>5, <3>2 DEF LostAfterWallet
    <3>. QED
      BY <3>1, <3>2
  <2>6. \A d \in lost : wStatus[d] = "applied" /\ pc'[d] \in {"failed", "unsure"}
    BY <1>1, <2>1 DEF LostAfterWallet
  <2>. QED
    BY <1>1, <2>4, <2>5, <2>6 DEF LostAfterWallet, Visible
<1>. QED
  BY <1>3, <1>4, <1>6, <1>7, <1>8, <1>9, <1>10, <1>11

(* A rollback loses what the wallet has committed, and no more.            *)
LEMMA RollbackStep ==
  ASSUME OrdersInv, NEW c \in Calls, RollbackOrder(c)
  PROVE  OrdersInv'
<1>. USE DEF OrdersInv, TypeOK, W!TypeOK, RollbackOrder, Goto, wallet
<1>1. /\ pc[c] = "wallet" /\ wStatus[c] \in {"applied", "replayed", "failed"}
      /\ ~ (req[c].kind = "create" /\ Visible(c))
  BY DEF WalletThrew, WalletSucceeded, OrdersOfCommitted
<1>2. /\ pc'[c] = "failed" /\ \A d \in Calls : d # c => pc'[d] = pc[d]
      /\ UNCHANGED <<req, orders, wArgs, wStatus, wBalance>>
      /\ lost' = IF wStatus[c] = "applied" THEN lost \cup {c} ELSE lost
  BY DEF Lose
<1>3. TypeOK'
  BY <1>2 DEF Pc
<1>4. WalletCalledOnce'
  BY <1>1, <1>2 DEF WalletCalledOnce, WalletArgs, WalletKey
<1>5. LostAfterWallet'
  BY <1>1, <1>2 DEF LostAfterWallet, Visible
<1>6. RequestsMatchOrders' /\ PaidMeansDebited'
  BY <1>1, <1>2 DEF RequestsMatchOrders, PaidMeansDebited, Visible
<1>7. OrdersOfCommitted'
  BY <1>1, <1>2 DEF OrdersOfCommitted, Visible
<1>8. RefundedMeansCredited' /\ WalletKeysOnce'
  BY <1>2 DEF RefundedMeansCredited, RefundCredits, WalletKeysOnce, W!Applied
<1>. QED
  BY <1>3, <1>4, <1>5, <1>6, <1>7, <1>8

(* A stop undoes what the wallet has not committed, and nothing else.      *)
LEMMA CrashStep ==
  ASSUME OrdersInv, NEW c \in Calls, Crash(c)
  PROVE  OrdersInv'
<1>. USE DEF OrdersInv, TypeOK, W!TypeOK
<1>1. /\ pc[c] \in {"begun", "wallet"} /\ pc' = [pc EXCEPT ![c] = "unsure"]
      /\ UNCHANGED <<req, orders, wArgs, wBalance>>
      /\ \/ wStatus[c] = "pending" /\ wStatus' = [wStatus EXCEPT ![c] = "failed"]
         \/ wStatus[c] # "pending" /\ wStatus' = wStatus
      /\ lost' = IF wStatus[c] = "applied" THEN lost \cup {c} ELSE lost
  BY DEF Lose, Crash, Goto, W!Fail, W!Finish, wallet
<1>2. TypeOK'
  BY <1>1 DEF Pc, W!Status
<1>3. /\ \A d \in Calls \cup Seed :
           /\ wStatus'[d] = "applied" <=> wStatus[d] = "applied"
           /\ wStatus'[d] = "replayed" <=> wStatus[d] = "replayed"
           /\ wStatus'[d] = "idle" <=> wStatus[d] = "idle"
           /\ wStatus'[d] = wStatus[d] \/ wStatus'[d] = "failed"
      /\ wStatus'[c] # "pending" /\ pc'[c] = "unsure"
      /\ \A d \in Calls : d # c => pc'[d] = pc[d] /\ wStatus'[d] = wStatus[d]
  BY <1>1
<1>4. WalletCalledOnce'
  BY <1>1, <1>3 DEF WalletCalledOnce, WalletArgs, WalletKey
<1>8. LostAfterWallet'
  <2>1. ~ (req[c].kind = "create" /\ Visible(c))
    BY <1>1 DEF OrdersOfCommitted
  <2>. QED
    BY <1>1, <1>3, <2>1 DEF LostAfterWallet, Visible
<1>5. RequestsMatchOrders' /\ OrdersOfCommitted' /\ PaidMeansDebited'
  BY <1>1, <1>3 DEF RequestsMatchOrders, OrdersOfCommitted, PaidMeansDebited,
                    Visible
<1>6. W!Applied' = W!Applied /\ \A o \in Calls : RefundCredits(o)' = RefundCredits(o)
  BY <1>1, <1>3 DEF W!Applied, RefundCredits
<1>7. RefundedMeansCredited' /\ WalletKeysOnce'
  BY <1>1, <1>3, <1>6 DEF RefundedMeansCredited, WalletKeysOnce
<1>. QED
  BY <1>2, <1>4, <1>5, <1>7, <1>8

LEMMA NextOrdersInv == OrdersInv /\ [Next]_vars => OrdersInv'
<1>. SUFFICES ASSUME OrdersInv, [Next]_vars PROVE OrdersInv'
  OBVIOUS
<1>1. ASSUME NEW c \in Calls, Step(c) PROVE OrdersInv'
  BY <1>1, CallWalletStep, CommitStep, RollbackStep, AnswerStep DEF Step
<1>2. ASSUME NEW c \in Calls, Crash(c) \/ Refuse(c) PROVE OrdersInv'
  BY <1>2, CrashStep, RefuseStep
<1>3. ASSUME NEW c \in Calls, NEW q \in Reqs, CreateOrder(c, q) PROVE OrdersInv'
  BY <1>3, BeginStep DEF CreateOrder
<1>4. ASSUME NEW c \in Calls, NEW q \in Reqs, RefundOrder(c, q) PROVE OrdersInv'
  BY <1>4, BeginStep DEF RefundOrder, Refundable, Visible
<1>5. CASE UNCHANGED vars
  BY <1>5 DEF OrdersInv, vars, wallet, TypeOK, W!TypeOK, WalletCalledOnce, WalletArgs,
              WalletKey, RequestsMatchOrders, OrdersOfCommitted, Visible,
              WalletKeysOnce, W!Applied, PaidMeansDebited,
              RefundedMeansCredited, RefundCredits, LostAfterWallet
<1>. QED
  BY <1>1, <1>2, <1>3, <1>4, <1>5 DEF Next

-----------------------------------------------------------------------------

-----------------------------------------------------------------------------
(***************************************************************************)
(* The wallet's balances are the sums of what took effect.                 *)
(***************************************************************************)

LEMMA MoversAre ==
  ASSUME TypeOK, NEW u \in Users, NEW op
  PROVE  /\ IsFiniteSet(Movers(u, op)) /\ Movers(u, op) \subseteq Calls \cup Seed
         /\ \A r \in Calls \cup Seed : Amount[r] = wArgs[r].amount /\ Amount[r] \in Nat
         /\ Moved(u, op) \in Nat
<1>1. IsFiniteSet(Calls \cup Seed)
  BY FS_Union
<1>2. Movers(u, op) \subseteq Calls \cup Seed
  BY DEF Movers, W!Applied
<1>3. IsFiniteSet(Movers(u, op))
  BY <1>1, <1>2, FS_Subset
<1>4. \A r \in Calls \cup Seed : Amount[r] = wArgs[r].amount /\ Amount[r] \in Nat
  BY DEF Amount, TypeOK, W!TypeOK, W!Args
<1>5. Moved(u, op) \in Nat
  BY <1>2, <1>3, <1>4, SumNat DEF Moved
<1>. QED
  BY <1>2, <1>3, <1>4, <1>5

(* What a sum is after a step that leaves what is summed alone.            *)
LEMMA MovedSame ==
  ASSUME TypeOK, NEW u \in Users, NEW op,
         Movers(u, op)' = Movers(u, op),
         \A r \in Movers(u, op) : wArgs'[r] = wArgs[r]
  PROVE  Moved(u, op)' = Moved(u, op)
<1>1. \A r \in Movers(u, op) : r \in Calls \cup Seed /\ Amount[r] \in Int
  BY MoversAre
<1>2. \A r \in Movers(u, op) : Amount'[r] = Amount[r]
  BY <1>1 DEF Amount
<1>3. SumFunctionOnSet(Amount', Movers(u, op)) = SumFunctionOnSet(Amount, Movers(u, op))
  BY <1>1, <1>2, MoversAre, SumEqual
<1>. QED
  BY <1>3 DEF Moved

LEMMA MovedMore ==
  ASSUME TypeOK, NEW u \in Users, NEW op, NEW c \in Calls, wArgs' = wArgs,
         c \notin Movers(u, op), Movers(u, op)' = Movers(u, op) \cup {c}
  PROVE  Moved(u, op)' = Moved(u, op) + wArgs[c].amount
<1>1. Amount' = Amount
  BY DEF Amount
<1>2. \A r \in Movers(u, op) \cup {c} : Amount[r] \in Int
  BY MoversAre
<1>3. SumFunctionOnSet(Amount, Movers(u, op) \cup {c})
        = SumFunctionOnSet(Amount, Movers(u, op)) + Amount[c]
  BY <1>2, MoversAre, SumAdd
<1>4. Amount[c] = wArgs[c].amount
  BY MoversAre
<1>. QED
  BY <1>1, <1>3, <1>4 DEF Moved

(* Calls that did not take effect move nothing.                            *)
LEMMA QuietWallet ==
  ASSUME OrdersInv, WalletAddsUp, wBalance' = wBalance, W!Applied' = W!Applied,
         \A r \in W!Applied : wArgs'[r] = wArgs[r]
  PROVE  WalletAddsUp'
<1>1. \A u \in Users : \A op : /\ Movers(u, op)' = Movers(u, op)
                               /\ \A r \in Movers(u, op) : wArgs'[r] = wArgs[r]
  BY DEF Movers
<1>2. \A u \in Users : /\ Moved(u, "debit")' = Moved(u, "debit")
                       /\ Moved(u, "credit")' = Moved(u, "credit")
  BY <1>1, MovedSame DEF OrdersInv
<1>. QED
  BY <1>2 DEF WalletAddsUp

(* One that does moves its amount on the side it is for.                   *)
LEMMA AppliedMoves ==
  ASSUME OrdersInv, NEW c \in Calls, wStatus[c] = "pending", wArgs' = wArgs,
         wStatus' = [wStatus EXCEPT ![c] = "applied"], NEW u \in Users, NEW op
  PROVE  Moved(u, op)' =
           IF wArgs[c].op = op /\ wArgs[c].user = u
           THEN Moved(u, op) + wArgs[c].amount ELSE Moved(u, op)
<1>. USE DEF OrdersInv, TypeOK, W!TypeOK
<1>1. W!Applied' = W!Applied \cup {c} /\ c \notin W!Applied
  BY DEF W!Applied
<1>2. CASE wArgs[c].op = op /\ wArgs[c].user = u
  <2>1. c \notin Movers(u, op) /\ Movers(u, op)' = Movers(u, op) \cup {c}
    BY <1>1, <1>2 DEF Movers
  <2>. QED
    BY <1>2, <2>1, MovedMore
<1>3. CASE ~ (wArgs[c].op = op /\ wArgs[c].user = u)
  <2>1. Movers(u, op)' = Movers(u, op)
    BY <1>1, <1>3 DEF Movers
  <2>. QED
    BY <1>3, <2>1, MovedSame
<1>. QED
  BY <1>2, <1>3

LEMMA AnswerAddsUp ==
  ASSUME OrdersInv, WalletAddsUp, NEW c \in Calls, WalletAnswers(c)
  PROVE  WalletAddsUp'
<1>1. W!Answer(c)
  BY DEF WalletAnswers
<1>2. CASE W!Replay(c) \/ W!Fail(c)
  <2>1. /\ wArgs' = wArgs /\ wBalance' = wBalance /\ wStatus[c] = "pending"
        /\ \E s \in {"replayed", "failed"} : wStatus' = [wStatus EXCEPT ![c] = s]
    BY <1>2 DEF W!Replay, W!Fail, W!Finish
  <2>2. W!Applied' = W!Applied
    BY <2>1 DEF W!Applied, OrdersInv, TypeOK, W!TypeOK
  <2>. QED
    BY <2>1, <2>2, QuietWallet
<1>3. ASSUME W!ApplyCredit(c) \/ W!ApplyDebit(c), NEW u \in Users
      PROVE  wBalance'[u] + Moved(u, "debit")' = Moved(u, "credit")'
  <2>1. /\ wStatus[c] = "pending" /\ wArgs' = wArgs
        /\ wStatus' = [wStatus EXCEPT ![c] = "applied"]
    BY <1>3 DEF W!ApplyCredit, W!ApplyDebit, W!Finish
  <2>2. \A op : Moved(u, op)' =
                  IF wArgs[c].op = op /\ wArgs[c].user = u
                  THEN Moved(u, op) + wArgs[c].amount ELSE Moved(u, op)
    BY <2>1, AppliedMoves
  <2>3. wBalance'[u] =
          IF wArgs[c].user # u THEN wBalance[u]
          ELSE IF wArgs[c].op = "credit" THEN wBalance[u] + wArgs[c].amount
          ELSE wBalance[u] - wArgs[c].amount
    BY <1>3 DEF W!ApplyCredit, W!ApplyDebit, OrdersInv, TypeOK, W!TypeOK
  <2>4. /\ wBalance[u] + Moved(u, "debit") = Moved(u, "credit")
        /\ wBalance[u] \in Nat /\ wArgs[c].amount \in Nat
        /\ wArgs[c].op \in {"credit", "debit"}
        /\ Moved(u, "debit") \in Nat /\ Moved(u, "credit") \in Nat
    BY MoversAre DEF WalletAddsUp, OrdersInv, TypeOK, W!TypeOK, W!Args
  <2>. HIDE DEF Moved
  <2>. QED
    BY <2>2, <2>3, <2>4
<1>. QED
  BY <1>1, <1>2, <1>3 DEF W!Answer, WalletAddsUp

(* At first only the seeds have taken effect, and each is a credit.        *)
LEMMA InitMovers ==
  ASSUME Init, NEW u \in Users
  PROVE  /\ Movers(u, "debit") = {}
         /\ Movers(u, "credit") = {s \in Seed : wArgs[s].user = u}
<1>1. \A s \in Calls \cup Seed : wArgs[s].op = "credit"
  BY BlankType DEF Init, W!Init, W!InitialArgs, W!SeedArgs
<1>2. W!Applied = Seed
  BY DEF W!Applied, Init, W!Init
<1>. QED
  BY <1>1, <1>2 DEF Movers

LEMMA InitAddsUp == Init => WalletAddsUp
<1>. SUFFICES ASSUME Init, NEW u \in Users
              PROVE  wBalance[u] + Moved(u, "debit") = Moved(u, "credit")
  BY DEF WalletAddsUp
<1>. DEFINE S == {s \in Seed : wArgs[s].user = u}
            f == [s \in Seed |-> wArgs[s].amount]
<1>1. TypeOK
  BY InitOrdersInv DEF OrdersInv
<1>2. wBalance[u] = W!SumFunctionOnSet(f, S)
  BY DEF Init, W!Init
<1>3. Moved(u, "debit") = 0 /\ Moved(u, "credit") = SumFunctionOnSet(Amount, S)
  BY InitMovers, SumEmpty DEF Moved
<1>4. SumFunctionOnSet(f, S) = SumFunctionOnSet(Amount, S)
  <2>1. IsFiniteSet(S)
    BY FS_Subset
  <2>2. \A s \in S : Amount[s] \in Int /\ f[s] = Amount[s]
    BY <1>1, MoversAre
  <2>. HIDE DEF S, f
  <2>. QED
    BY <2>1, <2>2, SumEqual
<1>5. Moved(u, "credit") \in Nat
  BY <1>1, MoversAre
<1>. HIDE DEF S, f
<1>. QED
  BY <1>2, <1>3, <1>4, <1>5, WalletSum

LEMMA NextAddsUp == OrdersInv /\ WalletAddsUp /\ [Next]_vars => WalletAddsUp'
<1>. SUFFICES ASSUME OrdersInv, WalletAddsUp, [Next]_vars PROVE WalletAddsUp'
  OBVIOUS
<1>1. ASSUME UNCHANGED wallet PROVE WalletAddsUp'
  BY <1>1, QuietWallet DEF wallet, W!Applied
<1>2. ASSUME NEW c \in Calls, CallWallet(c) PROVE WalletAddsUp'
  <2>1. /\ wBalance' = wBalance /\ wStatus[c] = "idle"
        /\ wStatus' = [wStatus EXCEPT ![c] = "pending"]
        /\ wArgs' = [wArgs EXCEPT ![c] = WalletArgs(c)]
    BY <1>2 DEF CallWallet, W!Call
  <2>2. W!Applied' = W!Applied /\ c \notin W!Applied
    BY <2>1 DEF W!Applied, OrdersInv, TypeOK, W!TypeOK
  <2>3. \A r \in W!Applied : wArgs'[r] = wArgs[r]
    BY <2>1, <2>2 DEF W!Applied, OrdersInv, TypeOK, W!TypeOK
  <2>. QED
    BY <2>1, <2>2, <2>3, QuietWallet
<1>3. ASSUME NEW c \in Calls, Crash(c) PROVE WalletAddsUp'
  <2>1. CASE UNCHANGED wallet
    BY <1>1, <2>1
  <2>2. CASE wStatus[c] = "pending" /\ W!Fail(c)
    <3>1. /\ wArgs' = wArgs /\ wBalance' = wBalance
          /\ wStatus' = [wStatus EXCEPT ![c] = "failed"]
      BY <2>2 DEF W!Fail, W!Finish
    <3>2. W!Applied' = W!Applied
      BY <2>2, <3>1 DEF W!Applied, OrdersInv, TypeOK, W!TypeOK
    <3>. QED
      BY <3>1, <3>2, QuietWallet
  <2>. QED
    BY <1>3, <2>1, <2>2 DEF Crash
<1>4. ASSUME NEW c \in Calls, WalletAnswers(c) PROVE WalletAddsUp'
  BY <1>4, AnswerAddsUp
<1>5. ASSUME NEW c \in Calls,
             \/ CommitOrder(c) \/ RollbackOrder(c) \/ Refuse(c)
             \/ \E q \in Reqs : CreateOrder(c, q) \/ RefundOrder(c, q)
      PROVE  UNCHANGED wallet
  BY <1>5 DEF CommitOrder, RollbackOrder, Refuse, CreateOrder, RefundOrder
<1>6. CASE UNCHANGED vars
  BY <1>1, <1>6 DEF vars
<1>. QED
  BY <1>1, <1>2, <1>3, <1>4, <1>5, <1>6 DEF Next, Step

LEMMA InitIInv == Init => IInv
  BY InitOrdersInv, InitAddsUp DEF IInv

LEMMA NextIInv == IInv /\ [Next]_vars => IInv'
  BY NextOrdersInv, NextAddsUp DEF IInv

-----------------------------------------------------------------------------

(* The inductive invariant, for any calls, users, totals and keys.         *)
THEOREM Invariance == Spec => []IInv
  BY InitIInv, NextIInv, PTL DEF Spec

(* Every variable keeps its type; the wallet never holds less than nothing.*)
THEOREM TypeCorrect == Spec => []TypeOK
<1>1. IInv => TypeOK
  BY DEF IInv, OrdersInv
<1>. QED
  BY <1>1, Invariance, PTL

(* Orders use the wallet as it is promised, and no other way: each of their*)
(* steps, a crash included, is one of the wallet's or leaves it alone      *)
(* (order.service.ts:121-138, :219-236).                                   *)
THEOREM WalletUsed == Spec => W!SafeSpec
<1>1. Init => W!Init
  BY DEF Init
<1>2. IInv /\ [Next]_vars => [W!Next]_(W!vars)
  <2>. SUFFICES ASSUME IInv, [Next]_vars, wArgs' # wArgs \/ wStatus' # wStatus
                                          \/ wBalance' # wBalance
                PROVE  W!Next
    BY DEF W!vars
  <2>1. ASSUME NEW c \in Calls, CallWallet(c) PROVE W!Next
    <3>1. WalletArgs(c) \in W!Args
      BY WalletArgsType DEF IInv, OrdersInv, TypeOK
    <3>. QED
      BY <2>1, <3>1 DEF CallWallet, W!Next
  <2>2. ASSUME NEW c \in Calls, WalletAnswers(c) PROVE W!Next
    BY <2>2 DEF WalletAnswers, W!Next
  <2>3. ASSUME NEW c \in Calls, Crash(c) PROVE W!Next
    BY <2>3 DEF Crash, wallet, W!Next, W!Answer
  <2>4. ASSUME NEW c \in Calls,
               \/ CommitOrder(c) \/ RollbackOrder(c) \/ Refuse(c)
               \/ \E q \in Reqs : CreateOrder(c, q) \/ RefundOrder(c, q)
        PROVE  FALSE
    BY <2>4 DEF CommitOrder, RollbackOrder, Refuse, CreateOrder, RefundOrder, wallet
  <2>. QED
    BY <2>1, <2>2, <2>3, <2>4 DEF Next, Step, vars, wallet
<1>. QED
  BY <1>1, <1>2, Invariance, PTL DEF Spec, W!SafeSpec


-----------------------------------------------------------------------------
(***************************************************************************)
(* Nothing is made or lost between orders and the wallet.                  *)
(***************************************************************************)

(* What took effect was asked for: debits for orders, credits for refunds. *)
LEMMA AppliedWasAsked ==
  ASSUME OrdersInv, NEW c \in Calls, wStatus[c] = "applied"
  PROVE  /\ wArgs[c].user = req[c].user /\ wArgs[c].amount = req[c].total
         /\ wArgs[c].op = "debit" <=> req[c].kind = "create"
         /\ wArgs[c].op = "credit" <=> req[c].kind = "refund"
<1>1. wArgs[c] = WalletArgs(c) /\ req[c].kind \in {"create", "refund"}
  BY DEF OrdersInv, TypeOK, WalletCalledOnce, Reqs
<1>. QED
  BY <1>1 DEF WalletArgs

(* The orders of a user that were debited are those credited back and      *)
(* those paid for, under way or stranded.                                  *)
LEMMA DebitsAre ==
  ASSUME OrdersInv, NEW u \in Users
  PROVE  /\ Movers(u, "debit") \subseteq Calls
         /\ Taken(u) = {o \in Movers(u, "debit") : RefundCredits(o) = {}}
<1>. USE DEF OrdersInv
<1>1. ASSUME NEW r \in Movers(u, "debit")
      PROVE  /\ r \in Calls /\ wStatus[r] = "applied"
             /\ req[r].kind = "create" /\ req[r].user = u
  <2>1. r \in Calls /\ wStatus[r] = "applied" /\ wArgs[r].op = "debit" /\ wArgs[r].user = u
    BY <1>1 DEF Movers, W!Applied, WalletKeysOnce
  <2>. QED
    BY <2>1, AppliedWasAsked
<1>2. ASSUME NEW r \in Movers(u, "debit")
      PROVE  Visible(r) \/ pc[r] = "wallet" \/ r \in lost
  <2>1. pc[r] \in Pc /\ wStatus[r] = "applied" /\ req[r].order = r
    BY <1>1 DEF TypeOK, RequestsMatchOrders
  <2>2. pc[r] \notin {"idle", "begun"}
    BY <1>1, <2>1 DEF WalletCalledOnce
  <2>3. pc[r] = "done" => Visible(r)
    BY <1>1, <2>1 DEF OrdersOfCommitted
  <2>. QED
    BY <1>1, <2>1, <2>2, <2>3 DEF Pc, LostAfterWallet
<1>3. ASSUME NEW o \in Taken(u)
      PROVE  o \in Movers(u, "debit") /\ RefundCredits(o) = {}
  <2>1. o \in Calls /\ req[o].kind = "create" /\ req[o].user = u
    BY <1>3 DEF Taken, Charged, UnderWay, Stranded, Buys
  <2>2. wStatus[o] = "applied"
    BY <1>3, <2>1 DEF Taken, Charged, UnderWay, Stranded, PaidMeansDebited,
                      LostAfterWallet
  <2>3. o \in Movers(u, "debit")
    BY <2>1, <2>2, AppliedWasAsked DEF Movers, W!Applied
  <2>4. ~ Visible(o) => RefundCredits(o) = {}
    BY <2>1 DEF RefundCredits, RequestsMatchOrders
  <2>5. o \in Charged(u) \/ ~ Visible(o)
    BY <1>3, <2>1 DEF Taken, UnderWay, Stranded, LostAfterWallet, OrdersOfCommitted
  <2>. QED
    BY <2>3, <2>4, <2>5 DEF Charged
<1>4. ASSUME NEW o \in Movers(u, "debit"), RefundCredits(o) = {}
      PROVE  o \in Taken(u)
  BY <1>1, <1>2, <1>4 DEF Taken, Charged, UnderWay, Stranded, Buys
<1>. QED
  BY <1>1, <1>3, <1>4

(* The credits of a user are deposits and refunds.                         *)
LEMMA CreditsAre ==
  ASSUME OrdersInv, NEW u \in Users, NEW r
  PROVE  r \in Movers(u, "credit") <=>
           \/ r \in Seed /\ wArgs[r].user = u
           \/ /\ r \in Calls /\ req[r].kind = "refund" /\ req[r].user = u
              /\ wStatus[r] = "applied"
<1>1. CASE r \in Seed
  BY <1>1 DEF Movers, W!Applied, OrdersInv, WalletKeysOnce
<1>2. CASE r \in Calls
  BY <1>2, AppliedWasAsked DEF Movers, W!Applied
<1>3. CASE r \notin Calls \cup Seed
  BY <1>3 DEF Movers, W!Applied
<1>. QED
  BY <1>1, <1>2, <1>3

(* A refund that took effect is of an order of the same user that was      *)
(* debited the same total.                                                 *)
LEMMA RefundIsOfDebit ==
  ASSUME OrdersInv, NEW c \in Calls, req[c].kind = "refund", wStatus[c] = "applied"
  PROVE  /\ req[c].order \in Movers(req[c].user, "debit")
         /\ wArgs[req[c].order].amount = wArgs[c].amount
         /\ c \in RefundCredits(req[c].order)
<1>. DEFINE o == req[c].order
<1>1. o \in Calls /\ Visible(o) /\ req[c].user = req[o].user /\ req[c].total = req[o].total
  BY DEF OrdersInv, TypeOK, Reqs, RequestsMatchOrders
<1>2. wStatus[o] = "applied" /\ wArgs[o].op = "debit" /\ wArgs[o].user = req[o].user
      /\ wArgs[o].amount = req[o].total
  BY <1>1 DEF OrdersInv, PaidMeansDebited
<1>3. wArgs[c].amount = req[c].total
  BY AppliedWasAsked
<1>. QED
  BY <1>1, <1>2, <1>3 DEF Movers, W!Applied, RefundCredits

(* Callers who always send a key: one refund of an order takes effect.     *)
LEMMA OneRefund ==
  ASSUME NoKey \notin ClientKeys, OrdersInv, NEW o \in Calls,
         NEW c \in RefundCredits(o), NEW d \in RefundCredits(o)
  PROVE  c = d
<1>1. ASSUME NEW e \in RefundCredits(o)
      PROVE  wArgs[e].key = <<o, "refund">> /\ e \in W!Applied
  <2>1. e \in Calls /\ wArgs[e] = WalletArgs(e) /\ req[e].key # NoKey
    BY <1>1 DEF OrdersInv, TypeOK, RefundCredits, WalletCalledOnce, Reqs
  <2>. QED
    BY <2>1 DEF RefundCredits, WalletArgs, WalletKey, W!Applied
<1>2. <<o, "refund">> # NoKey
  OBVIOUS
<1>. QED
  BY <1>1, <1>2 DEF OrdersInv, WalletKeysOnce

(* What the refunds gave back is what the orders refunded were charged.    *)
LEMMA RefundsBalance ==
  ASSUME NoKey \notin ClientKeys, OrdersInv, NEW u \in Users
  PROVE  SumFunctionOnSet(Amount, Movers(u, "credit") \ Seed)
           = SumFunctionOnSet(Amount, Movers(u, "debit") \ Taken(u))
<1>. DEFINE R == Movers(u, "credit") \ Seed
            K == Movers(u, "debit") \ Taken(u)
            h == [c \in R |-> req[c].order]
<1>1. TypeOK
  BY DEF OrdersInv
<1>2. ASSUME NEW c \in R
      PROVE  /\ c \in Calls /\ req[c].kind = "refund" /\ req[c].user = u
             /\ wStatus[c] = "applied"
  BY <1>2, CreditsAre
<1>3. ASSUME NEW c \in R
      PROVE  /\ h[c] \in K /\ c \in RefundCredits(h[c])
             /\ Amount[c] \in Int /\ Amount[c] = Amount[h[c]]
  <2>1. /\ h[c] \in Movers(u, "debit") /\ c \in RefundCredits(h[c])
        /\ wArgs[h[c]].amount = wArgs[c].amount
    BY <1>2, RefundIsOfDebit
  <2>2. h[c] \notin Taken(u)
    BY <2>1, DebitsAre
  <2>3. h[c] \in Calls /\ c \in Calls
    BY <1>2, <2>1, DebitsAre
  <2>. HIDE DEF h
  <2>. QED
    BY <1>1, <2>1, <2>2, <2>3, MoversAre
<1>4. ASSUME NEW o \in K PROVE \E c \in R : h[c] = o
  <2>1. o \in Calls /\ RefundCredits(o) # {} /\ wStatus[o] = "applied" /\ wArgs[o].user = u
    BY DebitsAre DEF Movers, W!Applied
  <2>2. PICK c \in RefundCredits(o) : TRUE
    BY <2>1
  <2>3. /\ c \in Calls /\ req[c].kind = "refund" /\ wStatus[c] = "applied"
        /\ req[c].order = o
    BY <2>2 DEF RefundCredits
  <2>4. o \in Movers(req[c].user, "debit")
    BY <2>3, RefundIsOfDebit
  <2>5. req[c].user = u
    BY <2>1, <2>4 DEF Movers
  <2>6. c \in R
    BY <2>3, <2>5, CreditsAre
  <2>. QED
    BY <2>3, <2>6
<1>5. \A c, d \in R : h[c] = h[d] => c = d
  <2>1. \A c \in R : h[c] \in Calls /\ c \in RefundCredits(h[c])
    BY <1>3, DebitsAre
  <2>. HIDE DEF h, R
  <2>. QED
    BY <2>1, OneRefund
<1>6. IsFiniteSet(R) /\ IsFiniteSet(K)
  BY <1>1, MoversAre, FS_Difference
<1>. HIDE DEF h, R, K
<1>7. Image(h, R) = K
  BY <1>3, <1>4 DEF Image
<1>8. SumFunctionOnSet(Amount, R) = SumFunctionOnSet(Amount, Image(h, R))
  BY <1>3, <1>5, <1>6, <1>7, SumRename
<1>. QED
  BY <1>7, <1>8 DEF R, K

(* The accounts of a user: what is left of them once the orders refunded   *)
(* and the refunds are set against each other is what they should be.      *)
LEMMA Accounts ==
  ASSUME IInv, NEW u \in Users
  PROVE  /\ wBalance[u] + SumFunctionOnSet(Total, Taken(u))
               + SumFunctionOnSet(Amount, Movers(u, "debit") \ Taken(u))
             = Deposits(u) + SumFunctionOnSet(Amount, Movers(u, "credit") \ Seed)
         /\ wBalance[u] + SumFunctionOnSet(Total, Taken(u)) \in Int
         /\ Deposits(u) \in Int
         /\ SumFunctionOnSet(Amount, Movers(u, "debit") \ Taken(u)) \in Int
         /\ SumFunctionOnSet(Amount, Movers(u, "credit") \ Seed) \in Int
<1>. DEFINE D == Movers(u, "debit")
            C == Movers(u, "credit")
            L == {s \in Seed : wArgs[s].user = u}
            Sum(S) == SumFunctionOnSet(Amount, S)
<1>1. OrdersInv /\ TypeOK /\ wBalance[u] + Moved(u, "debit") = Moved(u, "credit")
  BY DEF IInv, OrdersInv, WalletAddsUp
<1>2. /\ IsFiniteSet(D) /\ D \subseteq Calls \cup Seed
      /\ IsFiniteSet(C) /\ C \subseteq Calls \cup Seed
      /\ \A r \in Calls \cup Seed : Amount[r] = wArgs[r].amount /\ Amount[r] \in Int
  BY <1>1, MoversAre
<1>3. D \subseteq Calls /\ Taken(u) \subseteq D /\ L = C \cap Seed /\ L \subseteq C
  BY <1>1, DebitsAre, CreditsAre
<1>4. /\ IsFiniteSet(Taken(u)) /\ IsFiniteSet(D \ Taken(u))
      /\ IsFiniteSet(L) /\ IsFiniteSet(C \ Seed)
  BY <1>2, <1>3, FS_Subset
<1>5. Sum(D) = Sum(Taken(u)) + Sum(D \ Taken(u))
  <2>1. D = Taken(u) \cup (D \ Taken(u)) /\ Taken(u) \cap (D \ Taken(u)) = {}
    BY <1>3
  <2>2. \A r \in Taken(u) \cup (D \ Taken(u)) : Amount[r] \in Int
    BY <1>2, <1>3
  <2>. HIDE DEF D
  <2>. QED
    BY <1>4, <2>1, <2>2, SumUnion
<1>6. Sum(C) = Sum(L) + Sum(C \ Seed)
  <2>1. C = L \cup (C \ Seed) /\ L \cap (C \ Seed) = {}
    BY <1>3
  <2>2. \A r \in L \cup (C \ Seed) : Amount[r] \in Int
    BY <1>2, <1>3
  <2>. HIDE DEF C, L
  <2>. QED
    BY <1>4, <2>1, <2>2, SumUnion
<1>7. SumFunctionOnSet(Total, Taken(u)) = Sum(Taken(u))
  <2>1. ASSUME NEW o \in Taken(u) PROVE Amount[o] \in Int /\ Total[o] = Amount[o]
    <3>1. o \in Calls /\ o \in D
      BY <1>3
    <3>2. wStatus[o] = "applied"
      BY <3>1 DEF Movers, W!Applied
    <3>. QED
      BY <1>1, <1>2, <3>1, <3>2, AppliedWasAsked DEF Total
  <2>. QED
    BY <1>4, <2>1, SumEqual
<1>8. Deposits(u) = Sum(L)
  <2>. DEFINE f == [s \in Seed |-> wArgs[s].amount]
  <2>1. \A s \in L : Amount[s] \in Int /\ f[s] = Amount[s]
    BY <1>2
  <2>2. Deposits(u) = SumFunctionOnSet(f, L)
    BY DEF Deposits
  <2>. HIDE DEF f, L
  <2>. QED
    BY <1>4, <2>1, <2>2, SumEqual
<1>9. /\ Sum(Taken(u)) \in Int /\ Sum(D \ Taken(u)) \in Int /\ Sum(L) \in Int
      /\ Sum(C \ Seed) \in Int
  BY <1>2, <1>3, <1>4, SumInt
<1>10. wBalance[u] \in Int /\ Moved(u, "debit") = Sum(D) /\ Moved(u, "credit") = Sum(C)
  BY <1>1 DEF TypeOK, W!TypeOK, Moved
<1>11. /\ wBalance[u] + Sum(Taken(u)) + Sum(D \ Taken(u)) = Sum(L) + Sum(C \ Seed)
       /\ wBalance[u] + Sum(Taken(u)) \in Int
  <2>. HIDE DEF D, C, L, Sum
  <2>. QED
    BY <1>1, <1>5, <1>6, <1>9, <1>10
<1>. QED
  BY <1>7, <1>8, <1>9, <1>11

(* Whatever callers send: an order refunded has a refund of its amount, so *)
(* that refunds give back no less than those orders were charged.          *)
LEMMA RefundsCover ==
  ASSUME OrdersInv, NEW u \in Users
  PROVE  SumFunctionOnSet(Amount, Movers(u, "debit") \ Taken(u))
           <= SumFunctionOnSet(Amount, Movers(u, "credit") \ Seed)
<1>. DEFINE R == Movers(u, "credit") \ Seed
            K == Movers(u, "debit") \ Taken(u)
            h == [o \in K |-> CHOOSE c \in RefundCredits(o) : TRUE]
<1>1. TypeOK
  BY DEF OrdersInv
<1>2. /\ IsFiniteSet(R) /\ IsFiniteSet(K)
      /\ \A c \in R : Amount[c] \in Nat
  BY <1>1, MoversAre, FS_Difference
<1>3. ASSUME NEW o \in K
      PROVE  /\ h[o] \in R /\ req[h[o]].order = o
             /\ Amount[o] \in Int /\ Amount[o] = Amount[h[o]]
  <2>1. /\ o \in Calls /\ RefundCredits(o) # {}
        /\ wStatus[o] = "applied" /\ wArgs[o].user = u
    BY DebitsAre DEF Movers, W!Applied
  <2>2. h[o] \in RefundCredits(o)
    BY <2>1
  <2>. DEFINE c == h[o]
  <2>3. /\ c \in Calls /\ req[c].kind = "refund" /\ wStatus[c] = "applied"
        /\ req[c].order = o
    BY <2>2 DEF RefundCredits
  <2>. HIDE DEF c, h
  <2>4. o \in Movers(req[c].user, "debit") /\ wArgs[o].amount = wArgs[c].amount
    BY <2>3, RefundIsOfDebit
  <2>5. req[c].user = u
    BY <2>1, <2>4 DEF Movers
  <2>6. c \in R
    BY <2>3, <2>5, CreditsAre
  <2>7. /\ Amount[o] = wArgs[o].amount /\ Amount[o] \in Nat
        /\ Amount[c] = wArgs[c].amount
    BY <1>1, <2>1, <2>3, MoversAre
  <2>. QED
    BY <2>3, <2>4, <2>6, <2>7 DEF c
<1>4. \A o, p \in K : h[o] = h[p] => o = p
  <2>. HIDE DEF h, K
  <2>. QED
    BY <1>3
<1>5. Image(h, K) \subseteq R
  <2>. HIDE DEF h, K, R
  <2>. QED
    BY <1>3 DEF Image
<1>. HIDE DEF h, K, R
<1>6. IsFiniteSet(Image(h, K)) /\ IsFiniteSet(R \ Image(h, K))
  BY <1>2, <1>5, FS_Subset
<1>7. SumFunctionOnSet(Amount, K) = SumFunctionOnSet(Amount, Image(h, K))
  BY <1>2, <1>3, <1>4, <1>6, SumRename
<1>8. SumFunctionOnSet(Amount, R)
        = SumFunctionOnSet(Amount, Image(h, K)) + SumFunctionOnSet(Amount, R \ Image(h, K))
  <2>. DEFINE I == Image(h, K)
              J == R \ I
  <2>1. R = I \cup J /\ I \cap J = {} /\ IsFiniteSet(I) /\ IsFiniteSet(J)
    BY <1>5, <1>6
  <2>2. \A c \in I \cup J : Amount[c] \in Int
    BY <1>2, <2>1
  <2>3. SumFunctionOnSet(Amount, I \cup J)
          = SumFunctionOnSet(Amount, I) + SumFunctionOnSet(Amount, J)
    <3>. HIDE DEF I, J
    <3>. QED
      BY <2>1, <2>2, SumUnion
  <2>. QED
    BY <2>1, <2>3
<1>9. /\ SumFunctionOnSet(Amount, Image(h, K)) \in Int
      /\ SumFunctionOnSet(Amount, R \ Image(h, K)) \in Nat
  <2>1. \A c \in Image(h, K) : Amount[c] \in Int
    BY <1>2, <1>5
  <2>. QED
    BY <1>2, <1>6, <2>1, SumInt, SumNat
<1>10. SumFunctionOnSet(Amount, K) <= SumFunctionOnSet(Amount, R)
  BY <1>7, <1>8, <1>9
<1>. QED
  BY <1>10 DEF K, R

(* Callers who always send a key: orders and refunds, whatever crashes and *)
(* however often they are retried, make no points and lose track of none   *)
(* (order.service.ts:109-170, :206-268).                                   *)
THEOREM NoPointsMade ==
  ASSUME NoKey \notin ClientKeys
  PROVE  Spec => []PointsAccounted
<1>1. ASSUME IInv, NEW u \in Users
      PROVE  wBalance[u] + SumFunctionOnSet(Total, Taken(u)) = Deposits(u)
  <2>. DEFINE d == SumFunctionOnSet(Amount, Movers(u, "debit") \ Taken(u))
              k == SumFunctionOnSet(Amount, Movers(u, "credit") \ Seed)
              b == wBalance[u] + SumFunctionOnSet(Total, Taken(u))
  <2>1. b + d = Deposits(u) + k /\ b \in Int /\ Deposits(u) \in Int
        /\ d \in Int /\ k \in Int
    BY <1>1, Accounts
  <2>2. d = k
    BY <1>1, RefundsBalance DEF IInv
  <2>. HIDE DEF b, d, k
  <2>3. b = Deposits(u)
    BY <2>1, <2>2
  <2>. QED
    BY <2>3 DEF b
<1>2. IInv => PointsAccounted
  BY <1>1 DEF PointsAccounted
<1>. QED
  BY <1>2, Invariance, PTL

(* Callers who leave the key out may be credited more than once for an     *)
(* order; still every point missing is the price of an order charged or    *)
(* under way, or stranded for one that was lost after the wallet's commit  *)
(* (order.service.ts:109-170, :206-268).                                   *)
THEOREM NothingTaken == Spec => []NoPointsLost
<1>1. ASSUME IInv, NEW u \in Users
      PROVE  wBalance[u] + SumFunctionOnSet(Total, Taken(u)) >= Deposits(u)
  <2>. DEFINE d == SumFunctionOnSet(Amount, Movers(u, "debit") \ Taken(u))
              k == SumFunctionOnSet(Amount, Movers(u, "credit") \ Seed)
              b == wBalance[u] + SumFunctionOnSet(Total, Taken(u))
  <2>1. b + d = Deposits(u) + k /\ b \in Int /\ Deposits(u) \in Int
        /\ d \in Int /\ k \in Int
    BY <1>1, Accounts
  <2>2. d <= k
    BY <1>1, RefundsCover DEF IInv
  <2>. HIDE DEF b, d, k
  <2>3. b >= Deposits(u)
    BY <2>1, <2>2
  <2>. QED
    BY <2>3 DEF b
<1>2. IInv => NoPointsLost
  BY <1>1 DEF NoPointsLost
<1>. QED
  BY <1>2, Invariance, PTL

(* What is PAID was debited (order.service.ts:140-155).                    *)
THEOREM PaidOnlyIfDebited == Spec => []PaidMeansDebited
<1>1. IInv => PaidMeansDebited
  BY DEF IInv, OrdersInv
<1>. QED
  BY <1>1, Invariance, PTL

(* What is REFUNDED was credited (order.service.ts:231-253).               *)
THEOREM RefundedOnlyIfCredited == Spec => []RefundedMeansCredited
<1>1. IInv => RefundedMeansCredited
  BY DEF IInv, OrdersInv
<1>. QED
  BY <1>1, Invariance, PTL

(* Callers who always send a key are credited once for an order, however   *)
(* many refunds they try (order.service.ts:227-229).                       *)
THEOREM RefundedOnce ==
  ASSUME NoKey \notin ClientKeys
  PROVE  Spec => []RefundOnce
<1>1. IInv => RefundOnce
  <2>. SUFFICES ASSUME IInv, NEW o \in Calls
                PROVE  Cardinality(RefundCredits(o)) <= 1
    BY DEF RefundOnce
  <2>1. \A c, d \in RefundCredits(o) : c = d
    BY OneRefund DEF IInv
  <2>2. CASE RefundCredits(o) = {}
    BY <2>2, FS_EmptySet
  <2>3. CASE RefundCredits(o) # {}
    <3>1. PICK c \in RefundCredits(o) : RefundCredits(o) = {c}
      BY <2>1, <2>3
    <3>2. Cardinality({c}) = 1
      BY FS_Singleton
    <3>. QED
      BY <3>1, <3>2
  <2>. QED
    BY <2>2, <2>3
<1>. QED
  BY <1>1, Invariance, PTL

(* An order moves from nothing to PAID to REFUNDED and never back          *)
(* (order.repository.ts:61-69).                                            *)
THEOREM OrdersAdvance == Spec => OrdersOnlyAdvance
<1>. DEFINE A == \A o \in Calls :
                   orders'[o] # orders[o] =>
                     <<orders[o], orders'[o]>> \in {<<"none", "PAID">>,
                                                    <<"PAID", "REFUNDED">>}
<1>1. IInv /\ [Next]_vars => [A]_vars
  <2>. SUFFICES ASSUME IInv, [Next]_vars, NEW o \in Calls, orders'[o] # orders[o]
                PROVE  <<orders[o], orders'[o]>> \in {<<"none", "PAID">>,
                                                      <<"PAID", "REFUNDED">>}
    OBVIOUS
  <2>1. PICK c \in Calls : CommitOrder(c)
    BY DEF Next, Step, CallWallet, WalletAnswers, RollbackOrder, Crash, Refuse,
           CreateOrder, RefundOrder, vars
  <2>2. o = req[c].order /\ pc[c] = "wallet"
    BY <2>1 DEF CommitOrder, Goto, IInv, OrdersInv, TypeOK
  <2>3. CASE req[c].kind = "create"
    <3>1. o = c /\ orders[o] = "none" /\ orders'[o] = "PAID"
      BY <2>1, <2>2, <2>3 DEF CommitOrder, IInv, OrdersInv, TypeOK, RequestsMatchOrders,
                              OrdersOfCommitted, Visible
    <3>. QED
      BY <3>1
  <2>4. CASE req[c].kind # "create"
    <3>1. orders'[o] = "REFUNDED" /\ req[c].kind = "refund" /\ orders[o] # "none"
      BY <2>1, <2>2, <2>4 DEF CommitOrder, IInv, OrdersInv, TypeOK, RequestsMatchOrders,
                              Reqs, Visible
    <3>2. orders[o] = "PAID"
      BY <3>1 DEF IInv, OrdersInv, TypeOK
    <3>. QED
      BY <3>1, <3>2
  <2>. QED
    BY <2>3, <2>4
<1>. QED
  BY <1>1, Invariance, PTL DEF Spec, OrdersOnlyAdvance

(* The order and its debit, two transactions, come to one as long as none  *)
(* of the orders' transactions fails after the wallet has committed for it *)
(* (order.service.ts:140-168); the run order_stranded shows one that does. *)
THEOREM OneTransactionUnlessLost == Spec => [](lost = {} => OneTransaction)
<1>1. ASSUME IInv, lost = {}, NEW o \in Calls, req[o].kind = "create",
             pc[o] \in Ended, wStatus[o] = "applied"
      PROVE  Visible(o)
  <2>1. req[o].order = o
    BY <1>1 DEF IInv, OrdersInv, RequestsMatchOrders
  <2>2. CASE pc[o] = "done"
    BY <1>1, <2>1, <2>2 DEF IInv, OrdersInv, OrdersOfCommitted
  <2>3. CASE pc[o] \in {"failed", "unsure"}
    BY <1>1, <2>1, <2>3 DEF IInv, OrdersInv, LostAfterWallet
  <2>. QED
    BY <1>1, <2>2, <2>3 DEF Ended
<1>2. IInv => (lost = {} => OneTransaction)
  BY <1>1 DEF OneTransaction
<1>. QED
  BY <1>2, Invariance, PTL
=============================================================================
