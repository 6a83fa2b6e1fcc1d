---------------------------- MODULE PointService ----------------------------
(***************************************************************************)
(* PointService.creditWallet and debitWallet at the granularity of their   *)
(* SQL statements, for any number of concurrent calls on PostgreSQL under  *)
(* READ COMMITTED.  What a call writes is invisible until it commits; what *)
(* it reads outside its transaction (the idempotency key and the balance,  *)
(* both through the pool) is whatever is committed at that moment.  Row    *)
(* locks and the unique index on (app_id, idempotency_key) make a call     *)
(* wait.  A process may stop between any two statements; the database then *)
(* rolls its transaction back.                                             *)
(*                                                                         *)
(* A wallet lot is named by the credit call that inserts it.               *)
(***************************************************************************)
EXTENDS WalletRequests

NoOne == "none"   \* nobody holds the lock, or the key is free
ASSUME NoOneAssumption == NoOne \notin Requests

VARIABLES
  \* the calls
  pc,          \* where each call stands
  args,        \* its arguments
  balance,     \* currentBalance, the total it read
  todo,        \* lots its SELECT ... FOR UPDATE has yet to lock
  held,        \* lots that SELECT has locked
  seen,        \* remaining_amount of a lot as read under the lock
  left,        \* `remaining', the part of the amount still to be taken
  taken,       \* its uncommitted ledger entries: amount debited per lot
  \* the database
  now,         \* the clock behind created_at
  createdAt,   \* created_at of the lot a credit inserts
  lots,        \* committed rows of wallet_lots
  remaining,   \* their remaining_amount
  spent,       \* sum of the committed DEBIT entries of a lot
  snapshot,    \* balance_snapshot of the last ledger entry of a call
  lotLock,     \* the call whose transaction holds the lock on a lot
  keyRow,      \* the call whose committed transaction inserted a key
  keyLock      \* the call whose open transaction inserted a key

loopVars == <<todo, held, seen, left, taken>>
clock    == <<now, createdAt>>
tables   == <<lots, remaining, spent, keyRow>>
locks    == <<lotLock, keyLock>>
dbVars   == <<clock, tables, snapshot, locks>>
vars     == <<pc, args, balance, loopVars, dbVars>>

Pc == {"idle", "check", "begun", "apply", "lots", "save", "commit",
       "done", "replayed", "failed"}

Open     == {"begun", "apply", "lots", "save", "commit"}
Finished == {"done", "replayed", "failed"}

Done == {r \in Requests : pc[r] = "done"}

(* remaining < lotRemaining ? remaining : lotRemaining                     *)
Smaller(m, n) == IF m < n THEN m ELSE n

(* ORDER BY created_at ASC: the first of a set of lots.                    *)
OldestWithoutOrder(S) == S                  \* mutant: no ORDER BY
Oldest(S) == {l \in S : \A m \in S : createdAt[l] <= createdAt[m]}

(* SUM(remaining_amount) over the committed lots of a user.                *)
Balance(u) ==
  SumFunctionOnSet(remaining, {l \in lots : args[l].user = u})

(***************************************************************************)
(* Initial states: the seed credits are committed, in some order.          *)
(***************************************************************************)
Zero == [r \in Requests |-> 0]

Init ==
  /\ pc = [r \in Requests |-> IF r \in Seed THEN "done" ELSE "idle"]
  /\ args \in InitialArgs
  /\ balance = Zero
  /\ todo = [r \in Requests |-> {}]
  /\ held = [r \in Requests |-> {}]
  /\ seen = [r \in Requests |-> Zero]
  /\ left = Zero
  /\ taken = [r \in Requests |-> Zero]
  /\ now = Cardinality(Seed)
  /\ createdAt \in [Requests -> 0 .. Cardinality(Seed)]
  /\ \A r, s \in Seed : createdAt[r] = createdAt[s] => r = s
  /\ \A r \in Requests : createdAt[r] = 0 <=> r \notin Seed
  /\ lots = Seed
  /\ remaining = [r \in Requests |-> IF r \in Seed THEN args[r].amount ELSE 0]
  /\ spent = Zero
  /\ snapshot = Zero
  /\ lotLock = [l \in Requests |-> NoOne]
  /\ keyRow = [k \in Keys |-> NoOne]
  /\ keyLock = [k \in Keys |-> NoOne]

-----------------------------------------------------------------------------
(* Steps of one call                                                       *)

Goto(r, from, to) ==
  /\ pc[r] = from
  /\ pc' = [pc EXCEPT ![r] = to]

(* The end of a transaction gives its locks back.                          *)
ReleaseLocksForgotten(r) == UNCHANGED locks \* mutant: no rollback in catch
ReleaseLocks(r) ==
  /\ lotLock' = [l \in Requests |-> IF lotLock[l] = r THEN NoOne ELSE lotLock[l]]
  /\ keyLock' = [k \in Keys |-> IF keyLock[k] = r THEN NoOne ELSE keyLock[k]]

(* ROLLBACK, or the loss of the connection: the writes are undone, and the *)
(* local variables of the call are gone.                                   *)
Rollback(r, from) ==
  /\ Goto(r, from, "failed")
  /\ ReleaseLocks(r)
  /\ balance' = [balance EXCEPT ![r] = 0]
  /\ todo' = [todo EXCEPT ![r] = {}]
  /\ held' = [held EXCEPT ![r] = {}]
  /\ seen' = [seen EXCEPT ![r] = Zero]
  /\ left' = [left EXCEPT ![r] = 0]
  /\ taken' = [taken EXCEPT ![r] = Zero]
  /\ snapshot' = [snapshot EXCEPT ![r] = 0]
  /\ UNCHANGED <<args, clock, tables>>

(* A caller invokes creditWallet or debitWallet.                           *)
Call(r, a) ==
  /\ Goto(r, "idle", "check")
  /\ args' = [args EXCEPT ![r] = a]
  /\ UNCHANGED <<balance, loopVars, dbVars>>

(* `Amount must be positive'.                                              *)
RejectAmount(r) ==
  /\ args[r].amount <= 0
  /\ Goto(r, "check", "failed")
  /\ UNCHANGED <<args, balance, loopVars, dbVars>>

(* checkIdempotency, reading outside any transaction.                      *)
KnownKey(r) == args[r].key # NoKey /\ keyRow[args[r].key] # NoOne

SameRequest(r, o) == RequestHash(args[r]) = RequestHash(args[o])

ReplayCached(r) ==
  /\ args[r].amount > 0
  /\ KnownKey(r)
  /\ SameRequest(r, keyRow[args[r].key])
  /\ Goto(r, "check", "replayed")
  /\ UNCHANGED <<args, balance, loopVars, dbVars>>

(* `Idempotency key reused with different request body'.                   *)
KeyReused(r) ==
  /\ args[r].amount > 0
  /\ KnownKey(r)
  /\ ~ SameRequest(r, keyRow[args[r].key])
  /\ Goto(r, "check", "failed")
  /\ UNCHANGED <<args, balance, loopVars, dbVars>>

(* BEGIN.  created_at defaults to now(), the start of the transaction; it  *)
(* is kept for credits only, since only a lot's created_at is ever read.   *)
StartTransaction(r) ==
  /\ args[r].amount > 0
  /\ ~ KnownKey(r)
  /\ Goto(r, "check", "begun")
  /\ IF args[r].op = "credit"
       THEN /\ now' = now + 1
            /\ createdAt' = [createdAt EXCEPT ![r] = now + 1]
       ELSE UNCHANGED <<now, createdAt>>
  /\ UNCHANGED <<args, balance, loopVars, tables, snapshot, locks>>

(* getUserBalance, on a connection of its own and without a lock.          *)
GetUserBalance(r) ==
  /\ Goto(r, "begun", "apply")
  /\ balance' = [balance EXCEPT ![r] = Balance(args[r].user)]
  /\ UNCHANGED <<args, loopVars, dbVars>>

(* creditWallet: insert the lot and its ledger entry.                      *)
CreateLot(r) ==
  /\ args[r].op = "credit"
  /\ Goto(r, "apply", "save")
  /\ snapshot' = [snapshot EXCEPT ![r] = balance[r] + args[r].amount]
  /\ UNCHANGED <<args, balance, loopVars, clock, tables, locks>>

(* debitWallet: `Insufficient balance'.                                    *)
InsufficientBalance(r) ==
  /\ args[r].op = "debit"
  /\ balance[r] < args[r].amount
  /\ Rollback(r, "apply")

(* getAvailableLotsForDebit takes its snapshot: the committed lots of the  *)
(* user that are not used up.                                              *)
AvailableLots(u) == {l \in lots : args[l].user = u /\ remaining[l] > 0}

SelectLots(r) ==
  /\ args[r].op = "debit"
  /\ balance[r] >= args[r].amount
  /\ Goto(r, "apply", "lots")
  /\ todo' = [todo EXCEPT ![r] = AvailableLots(args[r].user)]
  /\ left' = [left EXCEPT ![r] = args[r].amount]
  /\ snapshot' = [snapshot EXCEPT ![r] = balance[r]]
  /\ UNCHANGED <<args, balance, held, seen, taken, clock, tables, locks>>

(* ... and locks them one by one, oldest first, waiting for whoever holds  *)
(* the next; the row is read again once the lock is granted, and left out  *)
(* of the result when nothing remains of it.                               *)
LotFreeWithoutForUpdate(l) == TRUE          \* mutant: no setLock
LotFree(l) == lotLock[l] = NoOne

LockLot(r) ==
  /\ pc[r] = "lots"
  /\ \E l \in Oldest(todo[r]) :
       /\ LotFree(l)
       /\ lotLock' = [lotLock EXCEPT ![l] = r]
       /\ todo' = [todo EXCEPT ![r] = @ \ {l}]
       /\ held' = [held EXCEPT ![r] = @ \cup {l}]
       /\ seen' = [seen EXCEPT ![r] = [@ EXCEPT ![l] = remaining[l]]]
  /\ UNCHANGED <<pc, args, balance, left, taken, clock, tables, snapshot,
                 keyLock>>

(* The rows of the result the loop has not come to.                        *)
Unconsumed(r) == {l \in held[r] : seen[r][l] > 0 /\ taken[r][l] = 0}

(* One turn of the FIFO loop: take what the lot has, at most what is left, *)
(* and write its ledger entry.                                             *)
ConsumeLot(r) ==
  /\ pc[r] = "lots"
  /\ todo[r] = {}
  /\ left[r] > 0
  /\ \E l \in Oldest(Unconsumed(r)) :
       LET debitFromThisLot == Smaller(left[r], seen[r][l]) IN
       /\ taken' = [taken EXCEPT ![r] = [@ EXCEPT ![l] = debitFromThisLot]]
       /\ left' = [left EXCEPT ![r] = @ - debitFromThisLot]
       /\ snapshot' = [snapshot EXCEPT ![r] = @ - debitFromThisLot]
  /\ UNCHANGED <<pc, args, balance, todo, held, seen, clock, tables, locks>>

(* The loop is over and the whole amount is covered.                       *)
NothingLeftUnchecked(r) ==                  \* mutant: no final check
  left[r] = 0 \/ Unconsumed(r) = {}
NothingLeft(r) == left[r] = 0

FullyDebited(r) ==
  /\ todo[r] = {}
  /\ NothingLeft(r)
  /\ Goto(r, "lots", "save")
  /\ UNCHANGED <<args, balance, loopVars, dbVars>>

(* `Failed to debit full amount'.                                          *)
NotFullyDebited(r) ==
  /\ todo[r] = {}
  /\ left[r] > 0
  /\ Unconsumed(r) = {}
  /\ Rollback(r, "lots")

(* saveIdempotency inserts the key; an open transaction that inserted it   *)
(* first makes the insert wait.                                            *)
KeyFreeWithoutIndex(k) == TRUE              \* mutant: index not unique
KeyFree(k) == keyRow[k] = NoOne /\ keyLock[k] = NoOne

SaveIdempotency(r) ==
  LET k == args[r].key IN
  /\ Goto(r, "save", "commit")
  /\ IF k = NoKey
       THEN UNCHANGED keyLock
       ELSE /\ KeyFree(k)
            /\ keyLock' = [keyLock EXCEPT ![k] = r]
  /\ UNCHANGED <<args, balance, loopVars, clock, tables, snapshot, lotLock>>

(* The unique index finds the key committed by another call.               *)
DuplicateKey(r) == KnownKey(r) /\ Rollback(r, "save")

(* COMMIT makes the call's writes visible and releases its locks.          *)
Commit(r) ==
  /\ Goto(r, "commit", "done")
  /\ IF args[r].op = "credit"
       THEN /\ lots' = lots \cup {r}
            /\ remaining' = [remaining EXCEPT ![r] = args[r].amount]
            /\ UNCHANGED spent
       ELSE /\ remaining' = [l \in Requests |->
                 IF taken[r][l] > 0 THEN seen[r][l] - taken[r][l]
                                    ELSE remaining[l]]
            /\ spent' = [l \in Requests |-> spent[l] + taken[r][l]]
            /\ UNCHANGED lots
  /\ keyRow' = [k \in Keys |-> IF args[r].key = k THEN r ELSE keyRow[k]]
  /\ ReleaseLocks(r)
  /\ balance' = [balance EXCEPT ![r] = 0]
  /\ UNCHANGED <<args, loopVars, clock, snapshot>>

(* The process or its connection is lost in the middle of a call.          *)
Crash(r) == \E p \in Open \cup {"check"} : Rollback(r, p)

Step(r) ==
  \/ RejectAmount(r) \/ ReplayCached(r) \/ KeyReused(r) \/ StartTransaction(r)
  \/ GetUserBalance(r) \/ CreateLot(r) \/ InsufficientBalance(r)
  \/ SelectLots(r) \/ LockLot(r) \/ ConsumeLot(r) \/ FullyDebited(r)
  \/ NotFullyDebited(r) \/ SaveIdempotency(r) \/ DuplicateKey(r) \/ Commit(r)

Next ==
  \E r \in Requests : Step(r) \/ Crash(r) \/ \E a \in Args : Call(r, a)

(* A call that can take its next statement takes it: the event loop of the *)
(* process goes on, and PostgreSQL grants a lock that stays free.          *)
Fairness == \A r \in Requests : WF_vars(Step(r))

Spec == Init /\ [][Next]_vars /\ Fairness
=============================================================================
