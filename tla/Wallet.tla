------------------------------- MODULE Wallet -------------------------------
(***************************************************************************)
(* What the point service promises its callers: every call takes effect    *)
(* at one instant or not at all, a debit never exceeds the balance, and    *)
(* the calls that carry one idempotency key take effect once between them. *)
(* PointService is shown to implement this.                                *)
(***************************************************************************)
EXTENDS WalletRequests

VARIABLES
  args,      \* the arguments of each call
  status,    \* how far each call is
  balance    \* each user's balance

vars == <<args, status, balance>>

Status == {"idle", "pending", "applied", "replayed", "failed"}

Applied == {r \in Requests : status[r] = "applied"}

TypeOK ==
  /\ args \in [Requests -> Args]
  /\ status \in [Requests -> Status]
  /\ balance \in [Users -> Nat]

Init ==
  /\ args \in InitialArgs
  /\ status = [r \in Requests |-> IF r \in Seed THEN "applied" ELSE "idle"]
  /\ balance = [u \in Users |->
       SumFunctionOnSet([r \in Seed |-> args[r].amount],
                        {r \in Seed : args[r].user = u})]

Finish(r, s) ==
  /\ status[r] = "pending"
  /\ status' = [status EXCEPT ![r] = s]
  /\ UNCHANGED args

Call(r, a) ==
  /\ status[r] = "idle"
  /\ args' = [args EXCEPT ![r] = a]
  /\ status' = [status EXCEPT ![r] = "pending"]
  /\ UNCHANGED balance

(* No call with this key has taken effect.                                 *)
KeyUnused(k) == k # NoKey => \A r \in Applied : args[r].key # k

ApplyCredit(r) ==
  LET a == args[r] IN
  /\ a.op = "credit"
  /\ a.amount > 0
  /\ KeyUnused(a.key)
  /\ Finish(r, "applied")
  /\ balance' = [balance EXCEPT ![a.user] = @ + a.amount]

ApplyDebit(r) ==
  LET a == args[r] IN
  /\ a.op = "debit"
  /\ a.amount > 0
  /\ a.amount <= balance[a.user]
  /\ KeyUnused(a.key)
  /\ Finish(r, "applied")
  /\ balance' = [balance EXCEPT ![a.user] = @ - a.amount]

(* The caller is given the stored answer of an earlier call.               *)
Replay(r) ==
  /\ \E o \in Applied : /\ args[r].key # NoKey
                        /\ args[o].key = args[r].key
                        /\ RequestHash(args[o]) = RequestHash(args[r])
  /\ Finish(r, "replayed")
  /\ UNCHANGED balance

(* Refused, short of balance, beaten to its key, or lost in a crash.       *)
Fail(r) == Finish(r, "failed") /\ UNCHANGED balance

Answer(r) == ApplyCredit(r) \/ ApplyDebit(r) \/ Replay(r) \/ Fail(r)

Next == \E r \in Requests : Answer(r) \/ \E a \in Args : Call(r, a)

(* A call that was made is answered.                                       *)
Spec == Init /\ [][Next]_vars /\ \A r \in Requests : WF_vars(Answer(r))

(* Without the promise that calls end: what remains when processes stop.   *)
SafeSpec == Init /\ [][Next]_vars
=============================================================================
