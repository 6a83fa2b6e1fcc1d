------------------------- MODULE PointServiceProofs -------------------------
(***************************************************************************)
(* Proofs that the inductive invariant of PointServiceProps holds for any  *)
(* number of calls, users, lots, keys and amounts.                         *)
(***************************************************************************)
EXTENDS PointServiceProps, SumTheorems

USE WalletAssumption, NoOneAssumption

LEMMA BlankType == SeedArgs # {} /\ Blank \in SeedArgs
<1>1. PICK u \in Users, m \in Amounts \ {0}, f \in Refs : TRUE
  OBVIOUS
<1>2. [op |-> "credit", user |-> u, amount |-> m, key |-> NoKey, ref |-> f]
        \in SeedArgs
  BY <1>1 DEF SeedArgs, Args
<1>. QED
  BY <1>2 DEF Blank

LEMMA SeedCount == Cardinality(Seed) \in Nat
  BY FS_CardinalityType, FS_Subset

LEMMA InitLotsInv == Init => LotsInv
<1>. SUFFICES ASSUME Init PROVE LotsInv
  OBVIOUS
<1>. USE DEF Init, Zero
<1>1. \A r \in Requests : args[r] \in SeedArgs
  BY BlankType DEF InitialArgs
<1>2. LotTypes
  <2>1. createdAt \in [Requests -> Nat] /\ now \in Nat
    BY SeedCount
  <2>2. args \in [Requests -> Args] /\ pc \in [Requests -> Pc]
    BY <1>1 DEF InitialArgs, SeedArgs, Pc
  <2>3. remaining \in [Requests -> Nat]
    BY <2>2 DEF Args
  <2>. QED
    BY <2>1, <2>2, <2>3 DEF LotTypes
<1>3. LotsBalance
  BY <1>2 DEF LotsBalance, LotTypes, Args
<1>4. LocksOfOpenCalls /\ HeldSinceSelect /\ ReadsStayTrue
  BY DEF LocksOfOpenCalls, HeldSinceSelect, ReadsStayTrue
<1>5. LotsCommitted /\ TakenWithinSeen /\ NothingSpentOfNewLots
  BY DEF LotsCommitted, TakenWithinSeen, NothingSpentOfNewLots
<1>6. OlderUsedUp /\ FifoConsumption
  BY DEF OlderUsedUp, FifoConsumption, Done
<1>7. KeyOwners
  BY <1>1 DEF KeyOwners, Done, SeedArgs
<1>. QED
  BY <1>2, <1>3, <1>4, <1>5, <1>6, <1>7 DEF LotsInv

-----------------------------------------------------------------------------
(* Each kind of step preserves the invariant.                              *)

(***************************************************************************)
(* A step that only moves the program counter of a call (and perhaps the   *)
(* balance it read, or the snapshot it will write).                        *)
(***************************************************************************)
QuietMoves == {<<"check", "failed">>, <<"check", "replayed">>,
               <<"begun", "apply">>, <<"apply", "save">>, <<"lots", "save">>}

LEMMA QuietStep ==
  ASSUME LotsInv, NEW r \in Requests, NEW from, NEW to, Goto(r, from, to),
         <<from, to>> \in QuietMoves,
         UNCHANGED <<args, loopVars, clock, tables, locks>>
  PROVE  LotsInv'
<1>. USE DEF LotsInv, LotTypes, Goto, QuietMoves, loopVars, clock, tables, locks
<1>1. LotTypes'
  BY DEF Pc
<1>2. LotsBalance'
  BY DEF LotsBalance
<1>3. LocksOfOpenCalls'
  BY DEF LocksOfOpenCalls, Open
<1>4. HeldSinceSelect'
  BY DEF HeldSinceSelect
<1>5. ReadsStayTrue'
  <2>1. held[r] # {} => from = "lots"
    BY DEF HeldSinceSelect
  <2>. QED
    BY <2>1 DEF ReadsStayTrue
<1>6. LotsCommitted' /\ TakenWithinSeen' /\ NothingSpentOfNewLots'
  BY DEF LotsCommitted, TakenWithinSeen, NothingSpentOfNewLots
<1>7. OlderUsedUp' /\ FifoConsumption'
  BY DEF OlderUsedUp, FifoConsumption, Done
<1>8. KeyOwners'
  BY DEF KeyOwners, Done
<1>. QED
  BY <1>1, <1>2, <1>3, <1>4, <1>5, <1>6, <1>7, <1>8

(* A call is made.                                                         *)
LEMMA CallStep ==
  ASSUME LotsInv, NEW r \in Requests, NEW a \in Args, Call(r, a)
  PROVE  LotsInv'
<1>. USE DEF LotsInv, LotTypes, Call, Goto, loopVars, clock, tables, locks, dbVars
<1>1. LotTypes'
  BY DEF Pc
<1>2. LotsBalance'
  BY DEF LotsBalance, LotsCommitted
<1>3. LocksOfOpenCalls'
  BY DEF LocksOfOpenCalls, Open
<1>4. HeldSinceSelect' /\ ReadsStayTrue'
  BY DEF HeldSinceSelect, ReadsStayTrue
<1>5. LotsCommitted' /\ TakenWithinSeen' /\ NothingSpentOfNewLots'
  BY DEF LotsCommitted, TakenWithinSeen, NothingSpentOfNewLots
<1>6. OlderUsedUp' /\ FifoConsumption'
  BY DEF OlderUsedUp, FifoConsumption, Done
<1>7. KeyOwners'
  BY DEF KeyOwners, Done
<1>. QED
  BY <1>1, <1>2, <1>3, <1>4, <1>5, <1>6, <1>7

(* BEGIN: the clock gives a credit its created_at, before its lot exists.  *)
LEMMA StartTransactionStep ==
  ASSUME LotsInv, NEW r \in Requests, StartTransaction(r)
  PROVE  LotsInv'
<1>. USE DEF LotsInv, LotTypes, StartTransaction, Goto, loopVars, clock, tables, locks
<1>1. LotTypes'
  <2>1. CASE args[r].op = "credit"
    <3>1. now + 1 \in Nat
      OBVIOUS
    <3>2. now' = now + 1 /\ createdAt' = [createdAt EXCEPT ![r] = now + 1]
      BY <2>1
    <3>. QED
      BY <3>1, <3>2 DEF Pc
  <2>2. CASE args[r].op # "credit"
    BY <2>2 DEF Pc
  <2>. QED
    BY <2>1, <2>2
<1>2. LotsBalance'
  BY DEF LotsBalance
<1>3. LocksOfOpenCalls'
  BY DEF LocksOfOpenCalls, Open
<1>4. HeldSinceSelect' /\ ReadsStayTrue'
  BY DEF HeldSinceSelect, ReadsStayTrue
<1>5. LotsCommitted' /\ TakenWithinSeen' /\ NothingSpentOfNewLots'
  BY DEF LotsCommitted, TakenWithinSeen, NothingSpentOfNewLots
<1>6. OlderUsedUp' /\ FifoConsumption'
  <2>1. \A s \in Requests : \A l \in held[s] :
          l \in Requests /\ createdAt'[l] = createdAt[l]
    BY DEF LotsCommitted
  <2>. QED
    BY <2>1 DEF OlderUsedUp, FifoConsumption, Done
<1>7. KeyOwners'
  BY DEF KeyOwners, Done
<1>. QED
  BY <1>1, <1>2, <1>3, <1>4, <1>5, <1>6, <1>7

(* A transaction is rolled back, from wherever the call stands.            *)
LEMMA RollbackStep ==
  ASSUME LotsInv, NEW r \in Requests, NEW from \in Open \cup {"check"},
         Rollback(r, from)
  PROVE  LotsInv'
<1>. USE DEF LotsInv, LotTypes, Rollback, ReleaseLocks, Goto, Open, Zero, clock, tables
<1>1. LotTypes'
  BY DEF Pc
<1>2. LotsBalance'
  BY DEF LotsBalance
<1>3. LocksOfOpenCalls'
  BY DEF LocksOfOpenCalls
<1>4. HeldSinceSelect' /\ ReadsStayTrue'
  BY DEF HeldSinceSelect, ReadsStayTrue
<1>5. LotsCommitted' /\ TakenWithinSeen' /\ NothingSpentOfNewLots'
  BY DEF LotsCommitted, TakenWithinSeen, NothingSpentOfNewLots
<1>6. OlderUsedUp' /\ FifoConsumption'
  BY DEF OlderUsedUp, FifoConsumption, Done
<1>7. KeyOwners'
  BY DEF KeyOwners, Done, Args
<1>. QED
  BY <1>1, <1>2, <1>3, <1>4, <1>5, <1>6, <1>7

(* The SELECT sees committed lots only.                                    *)
LEMMA SelectLotsStep ==
  ASSUME LotsInv, NEW r \in Requests, SelectLots(r)
  PROVE  LotsInv'
<1>. USE DEF LotsInv, LotTypes, SelectLots, Goto, clock, tables, locks
<1>0. held[r] = {} /\ todo'[r] \subseteq lots
  BY DEF HeldSinceSelect, AvailableLots
<1>1. LotTypes'
  <2>1. todo' \in [Requests -> SUBSET Requests] /\ left' \in [Requests -> Nat]
    BY DEF AvailableLots, Args
  <2>. QED
    BY <2>1 DEF Pc
<1>2. LotsBalance'
  BY DEF LotsBalance
<1>3. LocksOfOpenCalls'
  BY DEF LocksOfOpenCalls, Open
<1>4. HeldSinceSelect' /\ ReadsStayTrue'
  BY <1>0 DEF HeldSinceSelect, ReadsStayTrue
<1>5. LotsCommitted' /\ TakenWithinSeen' /\ NothingSpentOfNewLots'
  BY <1>0 DEF LotsCommitted, TakenWithinSeen, NothingSpentOfNewLots
<1>6. OlderUsedUp' /\ FifoConsumption'
  BY <1>0 DEF OlderUsedUp, FifoConsumption, Done
<1>7. KeyOwners'
  BY DEF KeyOwners, Done
<1>. QED
  BY <1>1, <1>2, <1>3, <1>4, <1>5, <1>6, <1>7

(* A lot is locked: what is read of it now stays true until it is let go.  *)
LEMMA LockLotStep ==
  ASSUME LotsInv, NEW r \in Requests, LockLot(r)
  PROVE  LotsInv'
<1>. USE DEF LotsInv, LotTypes, clock, tables
<1>1. PICK l \in Oldest(todo[r]) :
             /\ lotLock[l] = NoOne
             /\ lotLock' = [lotLock EXCEPT ![l] = r]
             /\ todo' = [todo EXCEPT ![r] = @ \ {l}]
             /\ held' = [held EXCEPT ![r] = @ \cup {l}]
             /\ seen' = [seen EXCEPT ![r] = [@ EXCEPT ![l] = remaining[l]]]
  BY DEF LockLot, LotFree
<1>2. /\ pc[r] = "lots"
      /\ UNCHANGED <<pc, args, left, taken, now, createdAt, lots, remaining,
                     spent, keyRow, keyLock>>
  BY DEF LockLot
<1>3. l \in todo[r] /\ l \in lots /\ l \in Requests
  BY DEF Oldest, LotsCommitted
<1>4. l \notin held[r] /\ \A m \in Requests : taken[r][m] = 0
  <2>1. l \notin held[r]
    BY <1>1, <1>2, NoOneAssumption DEF ReadsStayTrue
  <2>2. ASSUME NEW m \in Requests PROVE taken[r][m] = 0
    <3>1. taken[r][m] \in Nat /\ ~(taken[r][m] > 0)
      BY <1>3 DEF TakenWithinSeen
    <3>. QED
      BY <3>1
  <2>. QED
    BY <2>1, <2>2
<1>5. \A s \in Requests : s # r => held'[s] = held[s] /\ seen'[s] = seen[s]
                                     /\ todo'[s] = todo[s]
  BY <1>1
<1>6. /\ held'[r] = held[r] \cup {l}
      /\ todo'[r] = todo[r] \ {l}
      /\ seen'[r] = [seen[r] EXCEPT ![l] = remaining[l]]
  BY <1>1
<1>7. LotTypes'
  <2>1. lotLock' \in [Requests -> Requests \cup {NoOne}]
    BY <1>1, <1>3
  <2>2. todo' \in [Requests -> SUBSET Requests] /\ held' \in [Requests -> SUBSET Requests]
    BY <1>1, <1>3
  <2>3. seen' \in [Requests -> [Requests -> Nat]]
    BY <1>1, <1>3
  <2>. QED
    BY <2>1, <2>2, <2>3, <1>2
<1>8. LotsBalance' /\ NothingSpentOfNewLots' /\ KeyOwners'
  BY <1>2 DEF LotsBalance, NothingSpentOfNewLots, KeyOwners, Done
<1>9. LocksOfOpenCalls'
  BY <1>1, <1>2, <1>3 DEF LocksOfOpenCalls, Open
<1>10. HeldSinceSelect'
  BY <1>2, <1>5 DEF HeldSinceSelect
<1>11. ReadsStayTrue'
  BY <1>1, <1>2, <1>3, <1>4, <1>5, <1>6 DEF ReadsStayTrue
<1>12. LotsCommitted'
  <2>1. todo'[r] \subseteq lots /\ held'[r] \subseteq lots
    BY <1>3, <1>6 DEF LotsCommitted
  <2>2. \A s \in Requests : s # r =>
          todo'[s] \subseteq lots /\ held'[s] \subseteq lots
    BY <1>5 DEF LotsCommitted
  <2>3. \A m \in lots : pc[m] = "done"
    BY DEF LotsCommitted
  <2>. QED
    BY <1>2, <2>1, <2>2, <2>3 DEF LotsCommitted
<1>13. TakenWithinSeen'
  <2>1. ASSUME NEW m \in Requests
        PROVE  taken'[r][m] = 0 /\ 0 <= seen'[r][m] /\ ~(0 > 0)
    BY <1>2, <1>4, <1>7
  <2>2. ASSUME NEW s \in Requests, s # r, NEW m \in Requests
        PROVE  /\ taken'[s][m] <= seen'[s][m]
               /\ taken'[s][m] > 0 => m \in held'[s] /\ todo'[s] = {}
    BY <1>2, <1>5, <2>2 DEF TakenWithinSeen
  <2>. QED
    BY <2>1, <2>2 DEF TakenWithinSeen
<1>14. OlderUsedUp' /\ FifoConsumption'
  <2>1. \A m \in held'[r] : ~(taken'[r][m] > 0)
    BY <1>2, <1>3, <1>4, <1>6
  <2>2. OlderUsedUp'
    <3>1. ASSUME NEW s \in Requests, left'[s] > 0, pc'[s] = "lots",
                 NEW m \in held'[s], taken'[s][m] > 0
          PROVE  taken'[s][m] = seen'[s][m]
      <4>1. s # r
        BY <2>1, <3>1
      <4>. QED
        BY <1>2, <1>5, <3>1, <4>1 DEF OlderUsedUp
    <3>2. ASSUME NEW s \in Requests, NEW k \in held'[s], NEW m \in held'[s],
                 createdAt'[k] < createdAt'[m], taken'[s][m] > 0
          PROVE  taken'[s][k] = seen'[s][k]
      <4>1. s # r
        BY <2>1, <3>2
      <4>. QED
        BY <1>2, <1>5, <3>2, <4>1 DEF OlderUsedUp
    <3>. QED
      BY <3>1, <3>2 DEF OlderUsedUp
  <2>3. FifoConsumption'
    BY <1>2, <1>5, <2>1 DEF FifoConsumption, Done
  <2>. QED
    BY <2>2, <2>3
<1>. QED
  BY <1>7, <1>8, <1>9, <1>10, <1>11, <1>12, <1>13, <1>14

(* One turn of the loop: either the lot is used up or nothing is left.     *)
LEMMA ConsumeLotStep ==
  ASSUME LotsInv, NEW r \in Requests, ConsumeLot(r)
  PROVE  LotsInv'
<1>. USE DEF LotsInv, LotTypes, clock, tables, locks
<1>0. PICK l \in Oldest(Unconsumed(r)) :
        /\ taken' = [taken EXCEPT ![r] =
                       [@ EXCEPT ![l] = Smaller(left[r], seen[r][l])]]
        /\ left' = [left EXCEPT ![r] = @ - Smaller(left[r], seen[r][l])]
  BY DEF ConsumeLot
<1>. DEFINE d == Smaller(left[r], seen[r][l])
<1>1. /\ pc[r] = "lots" /\ todo[r] = {} /\ left[r] > 0
      /\ UNCHANGED <<pc, args, todo, held, seen, now, createdAt, lots,
                     remaining, spent, keyRow, lotLock, keyLock>>
  BY DEF ConsumeLot
<1>2. /\ l \in held[r] /\ l \in Requests
      /\ seen[r][l] > 0 /\ taken[r][l] = 0
      /\ \A m \in held[r] : seen[r][m] > 0 /\ taken[r][m] = 0
           => createdAt[l] <= createdAt[m]
  BY DEF Oldest, Unconsumed
<1>3. /\ d \in Nat /\ d > 0 /\ d <= left[r] /\ d <= seen[r][l]
      /\ left[r] - d \in Nat /\ (left[r] - d > 0 => d = seen[r][l])
  BY <1>1, <1>2 DEF Smaller
<1>4. /\ taken'[r][l] = d /\ left'[r] = left[r] - d
      /\ \A m \in Requests : m # l => taken'[r][m] = taken[r][m]
      /\ \A s \in Requests : s # r => taken'[s] = taken[s] /\ left'[s] = left[s]
  BY <1>0, <1>2
<1>. HIDE DEF d
<1>5. LotTypes'
  <2>1. taken' \in [Requests -> [Requests -> Nat]] /\ left' \in [Requests -> Nat]
    BY <1>0, <1>2, <1>3 DEF d
  <2>. QED
    BY <2>1, <1>1
<1>6. LotsBalance' /\ LocksOfOpenCalls' /\ HeldSinceSelect' /\ ReadsStayTrue'
  BY <1>1 DEF LotsBalance, LocksOfOpenCalls, HeldSinceSelect, ReadsStayTrue
<1>7. LotsCommitted' /\ NothingSpentOfNewLots' /\ KeyOwners'
  BY <1>1 DEF LotsCommitted, NothingSpentOfNewLots, KeyOwners, Done
<1>8. TakenWithinSeen'
  BY <1>1, <1>2, <1>3, <1>4 DEF TakenWithinSeen
<1>9. OlderUsedUp'
  <2>1. \A m \in held[r] : taken[r][m] > 0 => taken[r][m] = seen[r][m]
    BY <1>1 DEF OlderUsedUp
  <2>2. ASSUME NEW s \in Requests, left'[s] > 0, pc'[s] = "lots",
               NEW m \in held'[s], taken'[s][m] > 0
        PROVE  taken'[s][m] = seen'[s][m]
    <3>1. CASE s # r
      BY <1>1, <1>4, <2>2, <3>1 DEF OlderUsedUp
    <3>2. CASE s = r /\ m # l
      BY <1>1, <1>4, <2>1, <2>2, <3>2
    <3>3. CASE s = r /\ m = l
      BY <1>1, <1>3, <1>4, <2>2, <3>3
    <3>. QED
      BY <3>1, <3>2, <3>3
  <2>3. ASSUME NEW s \in Requests, NEW k \in held'[s], NEW m \in held'[s],
               createdAt'[k] < createdAt'[m], taken'[s][m] > 0
        PROVE  taken'[s][k] = seen'[s][k]
    <3>1. CASE s # r
      BY <1>1, <1>4, <2>3, <3>1 DEF OlderUsedUp
    <3>2. CASE s = r /\ m # l
      BY <1>1, <1>2, <1>4, <2>1, <2>3, <3>2 DEF OlderUsedUp
    <3>3. CASE s = r /\ m = l
      <4>1. k # l /\ ~(createdAt[l] <= createdAt[k])
        BY <1>1, <1>2, <2>3, <3>3
      <4>2. seen[r][k] = 0 \/ taken[r][k] > 0
        BY <1>1, <1>2, <2>3, <3>3, <4>1
      <4>3. taken[r][k] = seen[r][k]
        BY <1>1, <2>1, <2>3, <3>3, <4>2 DEF TakenWithinSeen
      <4>. QED
        BY <1>1, <1>4, <2>3, <3>3, <4>1, <4>3
    <3>. QED
      BY <3>1, <3>2, <3>3
  <2>. QED
    BY <2>2, <2>3 DEF OlderUsedUp
<1>10. FifoConsumption'
  BY <1>1, <1>4 DEF FifoConsumption, Done
<1>. QED
  BY <1>5, <1>6, <1>7, <1>8, <1>9, <1>10

(* The key is inserted when no one else has it.                            *)
LEMMA SaveIdempotencyStep ==
  ASSUME LotsInv, NEW r \in Requests, SaveIdempotency(r)
  PROVE  LotsInv'
<1>. USE DEF LotsInv, LotTypes, SaveIdempotency, KeyFree, Goto, loopVars, clock, tables
<1>1. LotTypes'
  <2>1. args[r].key # NoKey => args[r].key \in Keys
    BY DEF Args
  <2>2. keyLock' \in [Keys -> Requests \cup {NoOne}]
    BY <2>1
  <2>. QED
    BY <2>2 DEF Pc
<1>2. LotsBalance'
  BY DEF LotsBalance
<1>3. LocksOfOpenCalls'
  <2>1. \A l \in Requests : lotLock'[l] # NoOne =>
          pc'[lotLock'[l]] \in Open /\ l \in held'[lotLock'[l]]
    BY DEF LocksOfOpenCalls, Open
  <2>2. \A k \in Keys : keyLock'[k] # NoOne =>
          pc'[keyLock'[k]] = "commit" /\ args'[keyLock'[k]].key = k
    <3>1. CASE args[r].key = NoKey
      BY <3>1 DEF LocksOfOpenCalls
    <3>2. CASE args[r].key # NoKey
      BY <3>2 DEF LocksOfOpenCalls
    <3>. QED
      BY <3>1, <3>2
  <2>. QED
    BY <2>1, <2>2 DEF LocksOfOpenCalls
<1>4. HeldSinceSelect' /\ ReadsStayTrue'
  BY DEF HeldSinceSelect, ReadsStayTrue
<1>5. LotsCommitted' /\ TakenWithinSeen' /\ NothingSpentOfNewLots'
  BY DEF LotsCommitted, TakenWithinSeen, NothingSpentOfNewLots
<1>6. OlderUsedUp' /\ FifoConsumption'
  BY DEF OlderUsedUp, FifoConsumption, Done
<1>7. KeyOwners'
  BY DEF KeyOwners, Done, Args
<1>. QED
  BY <1>1, <1>2, <1>3, <1>4, <1>5, <1>6, <1>7

(***************************************************************************)
(* COMMIT: the values written were computed from reads that are still true *)
(* because the locks are still held, so nothing another call did is lost.  *)
(***************************************************************************)
LEMMA CommitStep ==
  ASSUME LotsInv, NEW r \in Requests, Commit(r)
  PROVE  LotsInv'
<1>. USE DEF LotsInv, LotTypes
<1>1. /\ pc[r] = "commit" /\ pc' = [pc EXCEPT ![r] = "done"]
      /\ keyRow' = [k \in Keys |-> IF args[r].key = k THEN r ELSE keyRow[k]]
      /\ keyLock' = [k \in Keys |-> IF keyLock[k] = r THEN NoOne ELSE keyLock[k]]
      /\ lotLock' = [l \in Requests |-> IF lotLock[l] = r THEN NoOne ELSE lotLock[l]]
      /\ UNCHANGED <<args, todo, held, seen, left, taken, now, createdAt>>
  BY DEF Commit, Goto, ReleaseLocks, loopVars, clock
<1>2. /\ r \notin lots
      /\ \A s \in Requests : todo[s] \subseteq lots /\ held[s] \subseteq lots
      /\ \A l \in held[r] : lotLock[l] = r /\ seen[r][l] = remaining[l]
      /\ \A l \in Requests : /\ taken[r][l] <= seen[r][l]
                             /\ taken[r][l] > 0 => l \in held[r]
  BY <1>1 DEF LotsCommitted, ReadsStayTrue, TakenWithinSeen
<1>3. /\ args[r].op # "credit" =>
           \A l \in lots : remaining'[l] = remaining[l] - taken[r][l]
      /\ \A l \in lots : spent'[l] = spent[l] + (remaining[l] - remaining'[l])
      /\ \A l \in lots : l \notin held[r] => remaining'[l] = remaining[l]
      /\ lots \subseteq lots' /\ lots' \subseteq lots \cup {r}
      /\ \A l \in Requests \ lots : spent'[l] = spent[l]
      /\ r \in lots' => remaining'[r] = args[r].amount
      /\ remaining' \in [Requests -> Nat] /\ spent' \in [Requests -> Nat]
  <2>1. CASE args[r].op = "credit"
    <3>1. /\ lots' = lots \cup {r}
          /\ remaining' = [remaining EXCEPT ![r] = args[r].amount]
          /\ spent' = spent
      BY <2>1 DEF Commit
    <3>2. args[r].amount \in Nat
      BY WalletAssumption DEF Args
    <3>. QED
      BY <1>2, <2>1, <3>1, <3>2
  <2>2. CASE args[r].op # "credit"
    <3>1. /\ lots' = lots
          /\ remaining' = [l \in Requests |->
               IF taken[r][l] > 0 THEN seen[r][l] - taken[r][l] ELSE remaining[l]]
          /\ spent' = [l \in Requests |-> spent[l] + taken[r][l]]
      BY <2>2 DEF Commit
    <3>2. ASSUME NEW l \in Requests
          PROVE  /\ remaining[l] \in Nat /\ spent[l] \in Nat /\ taken[r][l] \in Nat
                 /\ remaining'[l] = remaining[l] - taken[r][l]
                 /\ spent'[l] = spent[l] + taken[r][l]
                 /\ remaining'[l] \in Nat /\ spent'[l] \in Nat
                 /\ l \notin held[r] => taken[r][l] = 0
                 /\ spent'[l] = spent[l] + (remaining[l] - remaining'[l])
      <4>1. remaining[l] \in Nat /\ spent[l] \in Nat /\ taken[r][l] \in Nat
            /\ seen[r][l] \in Nat
        OBVIOUS
      <4>2. CASE taken[r][l] > 0
        BY <1>2, <3>1, <4>1, <4>2
      <4>3. CASE ~(taken[r][l] > 0)
        BY <3>1, <4>1, <4>3
      <4>. QED
        BY <4>2, <4>3
    <3>3. \A l \in Requests : l \notin held[r] =>
            remaining'[l] = remaining[l] /\ spent'[l] = spent[l]
      BY <3>2
    <3>4. remaining' \in [Requests -> Nat] /\ spent' \in [Requests -> Nat]
      BY <3>1, <3>2
    <3>5. lots \subseteq Requests /\ held[r] \subseteq lots /\ r \notin lots'
      BY <1>2, <3>1
    <3>6. \A l \in lots : /\ remaining'[l] = remaining[l] - taken[r][l]
                          /\ spent'[l] = spent[l] + (remaining[l] - remaining'[l])
      BY <3>2, <3>5
    <3>7. \A l \in lots : l \notin held[r] => remaining'[l] = remaining[l]
      BY <3>3, <3>5
    <3>8. \A l \in Requests \ lots : spent'[l] = spent[l]
      BY <3>3, <3>5
    <3>. QED
      BY <2>2, <3>1, <3>4, <3>5, <3>6, <3>7, <3>8
  <2>. QED
    BY <2>1, <2>2
<1>4. LotTypes'
  <2>1. pc' \in [Requests -> Pc]
    BY <1>1 DEF Pc
  <2>2. /\ keyRow' \in [Keys -> Requests \cup {NoOne}]
        /\ keyLock' \in [Keys -> Requests \cup {NoOne}]
        /\ lotLock' \in [Requests -> Requests \cup {NoOne}]
    BY <1>1
  <2>3. lots' \in SUBSET Requests
    BY <1>3
  <2>. QED
    BY <1>1, <1>3, <2>1, <2>2, <2>3
<1>5. LotsBalance'
  <2>1. ASSUME NEW l \in lots
        PROVE  remaining'[l] + spent'[l] = args[l].amount
    <3>1. remaining[l] + spent[l] = args[l].amount /\ l \in Requests
      BY DEF LotsBalance
    <3>. QED
      BY <1>3, <3>1
  <2>2. r \in lots' => remaining'[r] + spent'[r] = args[r].amount
    <3>1. spent'[r] = 0
      BY <1>2, <1>3 DEF NothingSpentOfNewLots
    <3>. QED
      BY <1>3, <1>4, <3>1
  <2>. QED
    BY <1>1, <1>3, <2>1, <2>2 DEF LotsBalance
<1>6. LocksOfOpenCalls'
  BY <1>1, NoOneAssumption DEF LocksOfOpenCalls, Open
<1>7. HeldSinceSelect'
  BY <1>1 DEF HeldSinceSelect
<1>8. ReadsStayTrue'
  <2>1. ASSUME NEW s \in Requests, pc'[s] \in {"lots", "save", "commit"},
               NEW l \in held'[s]
        PROVE  lotLock'[l] = s /\ seen'[s][l] = remaining'[l]
    <3>1. s # r /\ l \in lots /\ l \in Requests
      BY <1>1, <1>2, <2>1
    <3>2. lotLock[l] = s /\ seen[s][l] = remaining[l]
      BY <1>1, <2>1, <3>1 DEF ReadsStayTrue
    <3>3. l \notin held[r]
      BY <1>2, <3>1, <3>2
    <3>. QED
      BY <1>1, <1>3, <3>1, <3>2, <3>3
  <2>. QED
    BY <2>1 DEF ReadsStayTrue
<1>9. LotsCommitted' /\ TakenWithinSeen'
  BY <1>1, <1>3 DEF LotsCommitted, TakenWithinSeen
<1>10. NothingSpentOfNewLots'
  BY <1>3 DEF NothingSpentOfNewLots
<1>11. OlderUsedUp'
  BY <1>1 DEF OlderUsedUp
<1>12. FifoConsumption'
  <2>1. ASSUME NEW s \in Requests, pc'[s] = "done",
               NEW l \in held[s], NEW m \in held[s],
               createdAt[l] < createdAt[m], taken[s][m] > 0
        PROVE  remaining'[l] = 0
    <3>1. l \in lots /\ l \in Requests
      BY <1>2
    <3>2. CASE s # r
      <4>1. remaining[l] = 0
        BY <1>1, <2>1, <3>2 DEF FifoConsumption, Done
      <4>2. CASE l \in held[r]
        <5>1. args[r].op # "credit"
          BY <4>2 DEF HeldSinceSelect
        <5>2. remaining'[l] = 0 - taken[r][l]
          BY <1>3, <3>1, <4>1, <5>1
        <5>. QED
          BY <1>3, <3>1, <5>2
      <4>3. CASE l \notin held[r]
        BY <1>3, <3>1, <4>1, <4>3
      <4>. QED
        BY <4>2, <4>3
    <3>3. CASE s = r
      <4>1. taken[r][l] = seen[r][l] /\ seen[r][l] = remaining[l]
        BY <1>2, <2>1, <3>3 DEF OlderUsedUp
      <4>2. args[r].op # "credit"
        BY <2>1, <3>3 DEF HeldSinceSelect
      <4>. QED
        BY <1>3, <3>1, <4>1, <4>2
    <3>. QED
      BY <3>2, <3>3
  <2>. QED
    BY <1>1, <2>1 DEF FifoConsumption, Done
<1>13. KeyOwners'
  <2>1. \A s \in Requests : args[s].key # NoKey => args[s].key \in Keys
    BY DEF Args
  <2>. QED
    BY <1>1, <2>1, NoOneAssumption, WalletAssumption DEF KeyOwners, Done
<1>. QED
  BY <1>4, <1>5, <1>6, <1>7, <1>8, <1>9, <1>10, <1>11, <1>12, <1>13

-----------------------------------------------------------------------------
LEMMA NextLotsInv == LotsInv /\ [Next]_vars => LotsInv'
<1>. SUFFICES ASSUME LotsInv, [Next]_vars PROVE LotsInv'
  OBVIOUS
<1>1. CASE UNCHANGED vars
  BY <1>1 DEF vars, loopVars, clock, tables, locks, dbVars, LotsInv, LotTypes,
     LotsBalance, LocksOfOpenCalls, HeldSinceSelect, ReadsStayTrue,
     LotsCommitted, TakenWithinSeen, NothingSpentOfNewLots, OlderUsedUp,
     FifoConsumption, KeyOwners, Done
<1>2. ASSUME NEW r \in Requests, NEW a \in Args, Call(r, a) PROVE LotsInv'
  BY <1>2, CallStep
<1>3. ASSUME NEW r \in Requests, Crash(r) PROVE LotsInv'
  BY <1>3, RollbackStep DEF Crash
<1>4. ASSUME NEW r \in Requests, Step(r) PROVE LotsInv'
  <2>1. CASE RejectAmount(r)
    BY <2>1, QuietStep DEF RejectAmount, QuietMoves, dbVars
  <2>2. CASE ReplayCached(r)
    BY <2>2, QuietStep DEF ReplayCached, QuietMoves, dbVars
  <2>3. CASE KeyReused(r)
    BY <2>3, QuietStep DEF KeyReused, QuietMoves, dbVars
  <2>4. CASE StartTransaction(r)
    BY <2>4, StartTransactionStep
  <2>5. CASE GetUserBalance(r)
    BY <2>5, QuietStep DEF GetUserBalance, QuietMoves, dbVars
  <2>6. CASE CreateLot(r)
    BY <2>6, QuietStep DEF CreateLot, QuietMoves
  <2>7. CASE InsufficientBalance(r)
    BY <2>7, RollbackStep DEF InsufficientBalance, Open
  <2>8. CASE SelectLots(r)
    BY <2>8, SelectLotsStep
  <2>9. CASE LockLot(r)
    BY <2>9, LockLotStep
  <2>10. CASE ConsumeLot(r)
    BY <2>10, ConsumeLotStep
  <2>11. CASE FullyDebited(r)
    BY <2>11, QuietStep DEF FullyDebited, QuietMoves, dbVars
  <2>12. CASE NotFullyDebited(r)
    BY <2>12, RollbackStep DEF NotFullyDebited, Open
  <2>13. CASE SaveIdempotency(r)
    BY <2>13, SaveIdempotencyStep
  <2>14. CASE DuplicateKey(r)
    BY <2>14, RollbackStep DEF DuplicateKey, Open
  <2>15. CASE Commit(r)
    BY <2>15, CommitStep
  <2>. QED
    BY <1>4, <2>1, <2>2, <2>3, <2>4, <2>5, <2>6, <2>7, <2>8, <2>9, <2>10,
       <2>11, <2>12, <2>13, <2>14, <2>15 DEF Step
<1>. QED
  BY <1>1, <1>2, <1>3, <1>4 DEF Next

-----------------------------------------------------------------------------
(* The sums: what is taken, what is spent, what remains.                   *)

LEMMA RequestsFinite == \A S \in SUBSET Requests : IsFiniteSet(S)
  BY FS_Subset

LEMMA AmountNat ==
  ASSUME LotTypes
  PROVE  \A r \in Requests : args[r].amount \in Nat
  BY DEF LotTypes, Args

LEMMA SumOfRequests ==
  ASSUME NEW S \in SUBSET Requests, NEW f \in [Requests -> Nat]
  PROVE  SumFunctionOnSet(f, S) \in Nat
<1>1. IsFiniteSet(S) /\ \A r \in S : f[r] \in Nat
  BY RequestsFinite
<1>. QED
  BY <1>1, SumNat

LEMMA BalanceNat ==
  ASSUME LotTypes, NEW u \in Users
  PROVE  Balance(u) \in Nat
<1>1. {l \in lots : args[l].user = u} \in SUBSET Requests
  BY DEF LotTypes
<1>2. remaining \in [Requests -> Nat]
  BY DEF LotTypes
<1>. QED
  BY <1>1, <1>2, SumOfRequests DEF Balance

LEMMA InitSumsInv == Init => SumsInv
<1>. SUFFICES ASSUME Init PROVE SumsInv
  OBVIOUS
<1>1. LotsInv
  BY InitLotsInv
<1>2. /\ Done = Seed /\ lots = Seed
      /\ \A r \in Requests : /\ args[r].op = "credit" /\ args[r].amount \in Nat
                             /\ todo[r] = {} /\ held[r] = {}
                             /\ pc[r] \in {"idle", "done"}
      /\ \A r \in Seed : remaining[r] = args[r].amount
      /\ \A r, l \in Requests : taken[r][l] = 0 /\ spent[l] = 0
  BY BlankType DEF Init, InitialArgs, SeedArgs, Args, Done, Zero
<1>. HIDE DEF Init
<1>3. OpenIsPositive /\ OwnLots /\ TakenSoFar
  BY <1>2 DEF OpenIsPositive, OwnLots, TakenSoFar, Open
<1>4. DebitsExact
  <2>1. ASSUME NEW l \in lots
        PROVE  spent[l] = SumFunctionOnSet([r \in Done |-> taken[r][l]], Done)
    <3>1. \A r \in Done : [s \in Done |-> taken[s][l]][r] = 0
      BY <1>2 DEF Done
    <3>2. IsFiniteSet(Done)
      BY RequestsFinite DEF Done
    <3>3. SumFunctionOnSet([s \in Done |-> taken[s][l]], Done) = 0
      BY <3>1, <3>2, SumZero
    <3>. QED
      BY <1>2, <3>3
  <2>. QED
    BY <1>2, <2>1 DEF DebitsExact, Done
<1>5. LotsMatchLedger
  <2>. SUFFICES ASSUME NEW u \in Users
                PROVE  Balance(u) + Moved(u, "debit") = Moved(u, "credit")
    BY DEF LotsMatchLedger
  <2>. DEFINE A == [r \in Requests |-> args[r].amount]
              L == {l \in lots : args[l].user = u}
  <2>1. /\ {r \in Done : args[r].op = "debit" /\ args[r].user = u} = {}
        /\ {r \in Done : args[r].op = "credit" /\ args[r].user = u} = L
    BY <1>2
  <2>2. Moved(u, "debit") = 0
    BY <2>1, SumEmpty DEF Moved
  <2>3. IsFiniteSet(L) /\ \A l \in L : A[l] \in Int /\ remaining[l] = A[l]
    BY <1>2, RequestsFinite
  <2>4. SumFunctionOnSet(remaining, L) = SumFunctionOnSet(A, L)
    BY <2>3, SumEqual
  <2>5. Balance(u) = Moved(u, "credit")
    BY <2>1, <2>4 DEF Moved, Balance
  <2>6. Balance(u) \in Nat
    BY <1>1, BalanceNat DEF LotsInv
  <2>. QED
    BY <2>2, <2>5, <2>6
<1>. QED
  BY <1>3, <1>4, <1>5 DEF SumsInv

(* A step that commits nothing leaves the balances and the ledger alone.   *)
LEMMA LedgerUntouched ==
  ASSUME LotsInv, SumsInv, Done' = Done, UNCHANGED <<lots, remaining, spent>>,
         \A s \in Done : args'[s] = args[s] /\ taken'[s] = taken[s]
  PROVE  /\ DebitsExact' /\ LotsMatchLedger'
         /\ \A u \in Users : Balance(u)' = Balance(u)
<1>1. lots \subseteq Done /\ Done \subseteq Requests
  BY DEF LotsInv, LotsCommitted, LotTypes, Done
<1>2. DebitsExact'
  <2>1. ASSUME NEW l \in lots
        PROVE  [s \in Done |-> taken'[s][l]] = [s \in Done |-> taken[s][l]]
    OBVIOUS
  <2>. QED
    BY <2>1 DEF SumsInv, DebitsExact
<1>3. ASSUME NEW u \in Users
      PROVE  Balance(u)' = Balance(u)
  <2>1. {l \in lots' : args'[l].user = u} = {l \in lots : args[l].user = u}
    BY <1>1
  <2>. QED
    BY <2>1 DEF Balance
<1>4. ASSUME NEW u \in Users, NEW op \in {"credit", "debit"}
      PROVE  Moved(u, op)' = Moved(u, op)
  <2>. DEFINE A == [r \in Requests |-> args[r].amount]
              B == [r \in Requests |-> args'[r].amount]
              M == {r \in Done : args[r].op = op /\ args[r].user = u}
  <2>1. {r \in Done' : args'[r].op = op /\ args'[r].user = u} = M
    OBVIOUS
  <2>2. IsFiniteSet(M)
    BY <1>1, RequestsFinite
  <2>3. \A r \in M : A[r] \in Int /\ B[r] = A[r]
    <3>1. \A r \in Requests : args[r].amount \in Nat
      BY AmountNat DEF LotsInv
    <3>. QED
      BY <1>1, <3>1
  <2>4. SumFunctionOnSet(B, M) = SumFunctionOnSet(A, M)
    BY <2>2, <2>3, SumEqual
  <2>5. /\ Moved(u, op) = SumFunctionOnSet(A, M)
        /\ Moved(u, op)' = SumFunctionOnSet(B, M)
    BY <2>1 DEF Moved
  <2>. QED
    BY <2>4, <2>5
<1>5. LotsMatchLedger'
  BY <1>3, <1>4 DEF SumsInv, LotsMatchLedger
<1>. QED
  BY <1>2, <1>3, <1>5

(***************************************************************************)
(* Each kind of step preserves the facts about sums.                       *)
(***************************************************************************)
LEMMA QuietSums ==
  ASSUME LotsInv, SumsInv, NEW r \in Requests, NEW from, NEW to,
         Goto(r, from, to),
         <<from, to>> \in QuietMoves \cup {<<"check", "begun">>, <<"save", "commit">>},
         to = "begun" => args[r].amount > 0,
         from = "apply" => args[r].op = "credit",
         from = "lots" => todo[r] = {} /\ left[r] = 0,
         UNCHANGED <<args, loopVars, tables>>
  PROVE  SumsInv'
<1>. USE DEF QuietMoves, Goto, loopVars, tables
<1>1. pc \in [Requests -> Pc]
  BY DEF LotsInv, LotTypes
<1>2. Done' = Done
  BY <1>1 DEF Done
<1>3. DebitsExact' /\ LotsMatchLedger'
  BY <1>2, LedgerUntouched
<1>4. OpenIsPositive'
  BY <1>1 DEF SumsInv, OpenIsPositive, Open
<1>5. OwnLots'
  BY <1>1 DEF SumsInv, OwnLots
<1>6. TakenSoFar'
  <2>1. \A s \in Requests :
          args[s].op = "debit" /\ pc'[s] \in {"lots", "save", "commit", "done"}
            => /\ pc[s] \in {"lots", "save", "commit", "done"}
               /\ pc'[s] # "lots" => pc[s] # "lots" \/ left[s] = 0
    BY <1>1
  <2>. QED
    BY <2>1 DEF SumsInv, TakenSoFar
<1>. QED
  BY <1>3, <1>4, <1>5, <1>6 DEF SumsInv

LEMMA CallSums ==
  ASSUME LotsInv, SumsInv, NEW r \in Requests, NEW a \in Args, Call(r, a)
  PROVE  SumsInv'
<1>. USE DEF Call, Goto, loopVars, dbVars, tables
<1>1. /\ pc \in [Requests -> Pc] /\ args \in [Requests -> Args]
      /\ held[r] = {} /\ todo[r] = {} /\ r \notin lots
      /\ \A s \in Requests : todo[s] \subseteq lots /\ held[s] \subseteq lots
      /\ lots \subseteq Requests
  BY DEF LotsInv, LotTypes, HeldSinceSelect, LotsCommitted, SumsInv, OwnLots
<1>2. /\ \A s \in Requests : s # r => args'[s] = args[s] /\ pc'[s] = pc[s]
      /\ pc[r] = "idle" /\ pc'[r] = "check"
  BY <1>1
<1>3. Done' = Done /\ r \notin Done
  BY <1>2 DEF Done
<1>4. DebitsExact' /\ LotsMatchLedger'
  <2>1. \A s \in Done : args'[s] = args[s]
    BY <1>2, <1>3 DEF Done
  <2>. QED
    BY <1>3, <2>1, LedgerUntouched
<1>5. OpenIsPositive'
  BY <1>2 DEF SumsInv, OpenIsPositive, Open
<1>6. OwnLots'
  <2>1. ASSUME NEW s \in Requests
        PROVE  /\ pc'[s] # "lots" => todo[s] = {}
               /\ \A l \in todo[s] \cup held[s] : args'[l].user = args'[s].user
    <3>1. CASE s = r
      BY <1>1, <3>1
    <3>2. CASE s # r
      BY <1>1, <1>2, <3>2 DEF SumsInv, OwnLots
    <3>. QED
      BY <3>1, <3>2
  <2>. QED
    BY <2>1 DEF OwnLots
<1>7. TakenSoFar'
  BY <1>2 DEF SumsInv, TakenSoFar
<1>. QED
  BY <1>4, <1>5, <1>6, <1>7 DEF SumsInv

LEMMA RollbackSums ==
  ASSUME LotsInv, SumsInv, NEW r \in Requests, NEW from \in Open \cup {"check"},
         Rollback(r, from)
  PROVE  SumsInv'
<1>. USE DEF Rollback, Goto, tables
<1>1. /\ pc \in [Requests -> Pc] /\ todo \in [Requests -> SUBSET Requests]
      /\ held \in [Requests -> SUBSET Requests]
      /\ left \in [Requests -> Nat] /\ taken \in [Requests -> [Requests -> Nat]]
  BY DEF LotsInv, LotTypes
<1>2. /\ \A s \in Requests : s # r =>
             /\ pc'[s] = pc[s] /\ todo'[s] = todo[s] /\ held'[s] = held[s]
             /\ left'[s] = left[s] /\ taken'[s] = taken[s]
      /\ pc[r] # "done" /\ pc'[r] = "failed" /\ todo'[r] = {} /\ held'[r] = {}
      /\ args' = args
  BY <1>1 DEF Open
<1>3. Done' = Done /\ r \notin Done
  BY <1>2 DEF Done
<1>4. DebitsExact' /\ LotsMatchLedger'
  <2>1. \A s \in Done : args'[s] = args[s] /\ taken'[s] = taken[s]
    BY <1>2, <1>3 DEF Done
  <2>. QED
    BY <1>3, <2>1, LedgerUntouched
<1>5. OpenIsPositive'
  BY <1>2 DEF SumsInv, OpenIsPositive, Open
<1>6. OwnLots'
  BY <1>2 DEF SumsInv, OwnLots
<1>7. TakenSoFar'
  BY <1>2 DEF SumsInv, TakenSoFar
<1>. QED
  BY <1>4, <1>5, <1>6, <1>7 DEF SumsInv

(* The loop starts with nothing taken and the whole amount left.           *)
LEMMA SelectLotsSums ==
  ASSUME LotsInv, SumsInv, NEW r \in Requests, SelectLots(r)
  PROVE  SumsInv'
<1>. USE DEF SelectLots, Goto, tables
<1>1. /\ pc \in [Requests -> Pc] /\ todo \in [Requests -> SUBSET Requests]
      /\ left \in [Requests -> Nat] /\ taken \in [Requests -> [Requests -> Nat]]
      /\ held[r] = {} /\ args[r].amount \in Nat
  BY AmountNat DEF LotsInv, LotTypes, HeldSinceSelect
<1>2. /\ \A s \in Requests : s # r =>
             pc'[s] = pc[s] /\ todo'[s] = todo[s] /\ left'[s] = left[s]
      /\ pc[r] = "apply" /\ pc'[r] = "lots" /\ left'[r] = args[r].amount
      /\ todo'[r] = AvailableLots(args[r].user)
      /\ UNCHANGED <<args, held, taken, lots, remaining, spent>>
  BY <1>1
<1>3. Done' = Done
  BY <1>2 DEF Done
<1>4. DebitsExact' /\ LotsMatchLedger'
  BY <1>2, <1>3, LedgerUntouched
<1>5. OpenIsPositive'
  BY <1>2 DEF SumsInv, OpenIsPositive, Open
<1>6. OwnLots'
  <2>1. \A l \in todo'[r] \cup held[r] : args[l].user = args[r].user
    BY <1>1, <1>2 DEF AvailableLots
  <2>. QED
    BY <1>2, <2>1 DEF SumsInv, OwnLots
<1>7. TakenSoFar'
  <2>1. \A l \in Requests : taken[r][l] = 0
    <3>1. \A l \in Requests : taken[r][l] \in Nat /\ ~ (taken[r][l] > 0)
      BY <1>1 DEF LotsInv, TakenWithinSeen
    <3>. QED
      BY <3>1
  <2>2. SumFunctionOnSet(taken[r], Requests) = 0
    BY <2>1, SumZero
  <2>. QED
    BY <1>1, <1>2, <2>2 DEF SumsInv, TakenSoFar
<1>. QED
  BY <1>4, <1>5, <1>6, <1>7 DEF SumsInv

LEMMA LockLotSums ==
  ASSUME LotsInv, SumsInv, NEW r \in Requests, LockLot(r)
  PROVE  SumsInv'
<1>. USE DEF tables
<1>1. PICK l \in todo[r] : /\ todo' = [todo EXCEPT ![r] = @ \ {l}]
                           /\ held' = [held EXCEPT ![r] = @ \cup {l}]
  BY DEF LockLot, Oldest
<1>2. pc[r] = "lots" /\ UNCHANGED <<pc, args, left, taken, lots, remaining, spent>>
  BY DEF LockLot
<1>3. /\ todo \in [Requests -> SUBSET Requests]
      /\ held \in [Requests -> SUBSET Requests]
  BY DEF LotsInv, LotTypes
<1>4. /\ todo'[r] \cup held'[r] = todo[r] \cup held[r]
      /\ \A s \in Requests : s # r => todo'[s] = todo[s] /\ held'[s] = held[s]
  BY <1>1, <1>3
<1>5. DebitsExact' /\ LotsMatchLedger'
  <2>1. Done' = Done
    BY <1>2 DEF Done
  <2>. QED
    BY <1>2, <2>1, LedgerUntouched
<1>6. OpenIsPositive' /\ TakenSoFar'
  BY <1>2 DEF SumsInv, OpenIsPositive, TakenSoFar
<1>7. OwnLots'
  BY <1>2, <1>4 DEF SumsInv, OwnLots
<1>. QED
  BY <1>5, <1>6, <1>7 DEF SumsInv

(* What a turn of the loop takes is what it leaves the less to take.       *)
LEMMA ConsumeLotSums ==
  ASSUME LotsInv, SumsInv, NEW r \in Requests, ConsumeLot(r)
  PROVE  SumsInv'
<1>. USE DEF tables
<1>1. PICK l \in Oldest(Unconsumed(r)) :
        /\ taken' = [taken EXCEPT ![r] =
                       [@ EXCEPT ![l] = Smaller(left[r], seen[r][l])]]
        /\ left' = [left EXCEPT ![r] = @ - Smaller(left[r], seen[r][l])]
  BY DEF ConsumeLot
<1>2. /\ pc[r] = "lots"
      /\ UNCHANGED <<pc, args, todo, held, lots, remaining, spent>>
  BY DEF ConsumeLot
<1>3. /\ taken \in [Requests -> [Requests -> Nat]] /\ left \in [Requests -> Nat]
      /\ seen \in [Requests -> [Requests -> Nat]]
      /\ held \in [Requests -> SUBSET Requests]
  BY DEF LotsInv, LotTypes
<1>4. l \in Requests /\ taken[r][l] = 0
  BY <1>3 DEF Oldest, Unconsumed
<1>5. PICK d : d = Smaller(left[r], seen[r][l])
  OBVIOUS
<1>6. d \in Nat
  BY <1>3, <1>4, <1>5 DEF Smaller
<1>7. /\ taken'[r][l] = taken[r][l] + d /\ left'[r] = left[r] - d
      /\ \A m \in Requests : m # l => taken'[r][m] = taken[r][m]
      /\ \A s \in Requests : s # r => taken'[s] = taken[s] /\ left'[s] = left[s]
  BY <1>1, <1>3, <1>4, <1>5, <1>6
<1>8. DebitsExact' /\ LotsMatchLedger'
  <2>1. Done' = Done /\ \A s \in Done : taken'[s] = taken[s]
    BY <1>2, <1>7 DEF Done
  <2>. QED
    BY <1>2, <2>1, LedgerUntouched
<1>9. OpenIsPositive' /\ OwnLots'
  BY <1>2 DEF SumsInv, OpenIsPositive, OwnLots
<1>10. TakenSoFar'
  <2>1. SumFunctionOnSet(taken'[r], Requests)
          = SumFunctionOnSet(taken[r], Requests) + d
    <3>. DEFINE f == taken[r]
                g == taken'[r]
    <3>1. \A m \in Requests : f[m] \in Int
      BY <1>3
    <3>2. d \in Int /\ g[l] = f[l] + d /\ \A m \in Requests : m # l => g[m] = f[m]
      BY <1>6, <1>7
    <3>3. l \in Requests /\ IsFiniteSet(Requests)
      BY <1>4
    <3>. HIDE DEF f, g
    <3>4. SumFunctionOnSet(g, Requests) = SumFunctionOnSet(f, Requests) + d
      BY <3>1, <3>2, <3>3, SumChange
    <3>. QED
      BY <3>4 DEF f, g
  <2>2. SumFunctionOnSet(taken[r], Requests) \in Int
    BY <1>3, SumInt
  <2>3. ASSUME NEW s \in Requests, args[s].op = "debit",
               pc[s] \in {"lots", "save", "commit", "done"}
        PROVE  /\ SumFunctionOnSet(taken'[s], Requests) + left'[s] = args[s].amount
               /\ pc[s] # "lots" => left'[s] = 0
    <3>1. CASE s = r
      <4>1. SumFunctionOnSet(taken[r], Requests) + left[r] = args[r].amount
        BY <2>3, <3>1 DEF SumsInv, TakenSoFar
      <4>2. left[r] \in Nat
        BY <1>3
      <4>. QED
        BY <1>2, <1>6, <1>7, <2>1, <2>2, <3>1, <4>1, <4>2
    <3>2. CASE s # r
      BY <1>7, <2>3, <3>2 DEF SumsInv, TakenSoFar
    <3>. QED
      BY <3>1, <3>2
  <2>. QED
    BY <1>2, <2>3 DEF TakenSoFar
<1>. QED
  BY <1>8, <1>9, <1>10 DEF SumsInv

(***************************************************************************)
(* COMMIT, in four facts: where the call stands; what happens to the lots; *)
(* to the balances; to the ledger.                                         *)
(***************************************************************************)
LEMMA CommitDone ==
  ASSUME LotsInv, NEW r \in Requests, Commit(r)
  PROVE  /\ pc[r] = "commit" /\ r \notin Done /\ Done' = Done \cup {r}
         /\ r \notin lots /\ lots \subseteq Done
         /\ Done \subseteq Requests
         /\ \A s \in Requests : held[s] \subseteq lots
         /\ \A s \in Requests : s # r => pc'[s] = pc[s]
         /\ pc'[r] = "done"
         /\ UNCHANGED <<args, todo, held, seen, left, taken>>
<1>1. /\ pc[r] = "commit" /\ pc' = [pc EXCEPT ![r] = "done"]
      /\ UNCHANGED <<args, todo, held, seen, left, taken>>
  BY DEF Commit, Goto, loopVars
<1>2. pc \in [Requests -> Pc]
  BY DEF LotsInv, LotTypes
<1>3. Done' = Done \cup {r} /\ r \notin Done /\ Done \subseteq Requests
  BY <1>1, <1>2 DEF Done
<1>4. /\ r \notin lots /\ lots \subseteq Done
      /\ \A s \in Requests : held[s] \subseteq lots
  BY <1>1 DEF LotsInv, LotTypes, LotsCommitted, Done
<1>. QED
  BY <1>1, <1>2, <1>3, <1>4

(* What a committing call has taken came from lots of its own user, and    *)
(* adds up to its amount if it is a debit, to nothing if it is a credit.   *)
LEMMA CommitTaken ==
  ASSUME LotsInv, SumsInv, NEW r \in Requests, Commit(r)
  PROVE  /\ \A l \in Requests : /\ taken[r][l] \in Nat
                                /\ taken[r][l] # 0 =>
                                     /\ l \in lots
                                     /\ args[l].user = args[r].user
                                     /\ args[r].op = "debit"
         /\ args[r].op = "debit" =>
              SumFunctionOnSet(taken[r], Requests) = args[r].amount
<1>1. /\ taken \in [Requests -> [Requests -> Nat]] /\ left \in [Requests -> Nat]
      /\ args[r].op \in {"credit", "debit"} /\ args[r].amount \in Nat
  BY AmountNat DEF LotsInv, LotTypes, Args
<1>2. ASSUME NEW l \in Requests, taken[r][l] # 0
      PROVE  l \in lots /\ args[l].user = args[r].user /\ args[r].op = "debit"
  <2>1. taken[r][l] > 0
    BY <1>1, <1>2
  <2>2. l \in held[r]
    BY <2>1 DEF LotsInv, TakenWithinSeen
  <2>. QED
    BY <1>1, <2>2, CommitDone DEF LotsInv, HeldSinceSelect, SumsInv, OwnLots
<1>3. ASSUME args[r].op = "debit"
      PROVE  SumFunctionOnSet(taken[r], Requests) = args[r].amount
  <2>1. /\ SumFunctionOnSet(taken[r], Requests) + left[r] = args[r].amount
        /\ left[r] = 0
    BY <1>3, CommitDone DEF SumsInv, TakenSoFar
  <2>2. SumFunctionOnSet(taken[r], Requests) \in Int
    BY <1>1, SumInt
  <2>. QED
    BY <2>1, <2>2
<1>. QED
  BY <1>1, <1>2, <1>3

LEMMA CommitLots ==
  ASSUME LotsInv, SumsInv, NEW r \in Requests, Commit(r)
  PROVE  /\ args[r].op = "credit" =>
              /\ lots' = lots \cup {r} /\ spent' = spent
              /\ remaining'[r] = args[r].amount
              /\ \A l \in lots : remaining'[l] = remaining[l]
         /\ args[r].op = "debit" =>
              /\ lots' = lots
              /\ \A l \in lots : /\ remaining'[l] = remaining[l] - taken[r][l]
                                 /\ spent'[l] = spent[l] + taken[r][l]
<1>1. /\ remaining \in [Requests -> Nat] /\ seen \in [Requests -> [Requests -> Nat]]
      /\ lots \subseteq Requests
  BY DEF LotsInv, LotTypes
<1>2. CASE args[r].op = "credit"
  <2>1. /\ lots' = lots \cup {r} /\ spent' = spent
        /\ remaining' = [remaining EXCEPT ![r] = args[r].amount]
    BY <1>2 DEF Commit
  <2>. QED
    BY <1>1, <1>2, <2>1, CommitDone
<1>3. CASE args[r].op # "credit"
  <2>1. /\ lots' = lots
        /\ remaining' = [l \in Requests |->
             IF taken[r][l] > 0 THEN seen[r][l] - taken[r][l] ELSE remaining[l]]
        /\ spent' = [l \in Requests |-> spent[l] + taken[r][l]]
    BY <1>3 DEF Commit
  <2>2. ASSUME NEW l \in lots
        PROVE  remaining'[l] = remaining[l] - taken[r][l]
    <3>1. remaining[l] \in Nat /\ taken[r][l] \in Nat
      BY <1>1, CommitTaken
    <3>2. CASE taken[r][l] > 0
      <4>1. l \in held[r]
        BY <1>1, <3>2 DEF LotsInv, TakenWithinSeen
      <4>2. seen[r][l] = remaining[l]
        BY <4>1, CommitDone DEF LotsInv, ReadsStayTrue
      <4>. QED
        BY <1>1, <2>1, <3>2, <4>2
    <3>3. CASE ~ (taken[r][l] > 0)
      BY <1>1, <2>1, <3>1, <3>3
    <3>. QED
      BY <3>2, <3>3
  <2>. QED
    BY <1>1, <1>3, <2>1, <2>2
<1>. QED
  BY <1>2, <1>3

(* The balance of the call's user moves by its amount, no other balance.   *)
LEMMA CommitBalance ==
  ASSUME LotsInv, SumsInv, NEW r \in Requests, Commit(r), NEW u \in Users
  PROVE  /\ args[r].user # u => Balance(u)' = Balance(u)
         /\ args[r].user = u /\ args[r].op = "credit" =>
              Balance(u)' = Balance(u) + args[r].amount
         /\ args[r].user = u /\ args[r].op = "debit" =>
              Balance(u)' + args[r].amount = Balance(u)
         /\ Balance(u)' \in Nat
<1>. DEFINE L == {l \in lots : args[l].user = u}
<1>0. /\ IsFiniteSet(L) /\ L \subseteq lots /\ lots \subseteq Requests /\ r \notin L
      /\ args' = args
  BY RequestsFinite, CommitDone
<1>1. \A l \in L : remaining[l] \in Int /\ taken[r][l] \in Int
  BY <1>0, CommitTaken DEF LotsInv, LotTypes
<1>2. args[r].op \in {"credit", "debit"} /\ args[r].amount \in Int
  BY AmountNat DEF LotsInv, LotTypes, Args
<1>3. ASSUME args[r].op = "credit"
      PROVE  Balance(u)' = IF args[r].user = u THEN Balance(u) + args[r].amount
                                               ELSE Balance(u)
  <2>1. /\ lots' = lots \cup {r} /\ remaining'[r] = args[r].amount
        /\ \A l \in L : remaining'[l] = remaining[l]
    BY <1>0, <1>3, CommitLots
  <2>2. SumFunctionOnSet(remaining', L) = SumFunctionOnSet(remaining, L)
    BY <1>0, <1>1, <2>1, SumEqual
  <2>3. CASE args[r].user = u
    <3>1. {l \in lots' : args'[l].user = u} = L \cup {r}
      BY <1>0, <2>1, <2>3
    <3>2. SumFunctionOnSet(remaining', L \cup {r})
            = SumFunctionOnSet(remaining', L) + remaining'[r]
      BY <1>0, <1>1, <1>2, <2>1, SumAdd
    <3>. QED
      BY <2>1, <2>2, <2>3, <3>1, <3>2 DEF Balance
  <2>4. CASE args[r].user # u
    <3>1. {l \in lots' : args'[l].user = u} = L
      BY <1>0, <2>1, <2>4
    <3>. QED
      BY <2>2, <2>4, <3>1 DEF Balance
  <2>. QED
    BY <2>3, <2>4
<1>4. ASSUME args[r].op = "debit"
      PROVE  Balance(u) = IF args[r].user = u THEN Balance(u)' + args[r].amount
                                              ELSE Balance(u)'
  <2>1. /\ {l \in lots' : args'[l].user = u} = L
        /\ \A l \in L : remaining'[l] = remaining[l] - taken[r][l]
    BY <1>0, <1>4, CommitLots
  <2>2. \A l \in L : /\ remaining'[l] \in Int
                     /\ remaining[l] = remaining'[l] + taken[r][l]
    BY <1>1, <2>1
  <2>3. SumFunctionOnSet(remaining, L)
          = SumFunctionOnSet(remaining', L) + SumFunctionOnSet(taken[r], L)
    BY <1>0, <1>1, <2>2, SumPlus
  <2>4. SumFunctionOnSet(taken[r], L) = IF args[r].user = u THEN args[r].amount ELSE 0
    <3>1. CASE args[r].user = u
      <4>1. \A l \in Requests \ L : taken[r][l] = 0
        BY <3>1, CommitTaken
      <4>2. \A l \in Requests : taken[r][l] \in Int
        BY CommitTaken
      <4>3. L \in SUBSET Requests
        BY <1>0
      <4>4. SumFunctionOnSet(taken[r], Requests) = SumFunctionOnSet(taken[r], L)
        BY <4>1, <4>2, <4>3, SumOnSubset
      <4>. QED
        BY <1>4, <3>1, <4>4, CommitTaken
    <3>2. CASE args[r].user # u
      <4>1. \A l \in L : taken[r][l] = 0
        BY <1>0, <3>2, CommitTaken
      <4>. QED
        BY <1>0, <3>2, <4>1, SumZero
    <3>. QED
      BY <3>1, <3>2
  <2>5. SumFunctionOnSet(remaining', L) \in Int
    BY <1>0, <2>2, SumInt
  <2>6. /\ Balance(u) = SumFunctionOnSet(remaining, L)
        /\ Balance(u)' = SumFunctionOnSet(remaining', L)
    BY <2>1 DEF Balance
  <2>. HIDE DEF L
  <2>. QED
    BY <2>3, <2>4, <2>5, <2>6
<1>5. Balance(u)' \in Nat
  <2>1. LotTypes'
    BY CommitStep DEF LotsInv
  <2>2. /\ {l \in lots' : args'[l].user = u} \in SUBSET Requests
        /\ remaining' \in [Requests -> Nat]
    BY <2>1 DEF LotTypes
  <2>. QED
    BY <2>2, SumOfRequests DEF Balance
<1>. QED
  BY <1>2, <1>3, <1>4, <1>5

(* The committed calls are one more; the entries of each add up.           *)
LEMMA CommitSums ==
  ASSUME LotsInv, SumsInv, NEW r \in Requests, Commit(r)
  PROVE  SumsInv'
<1>1. OpenIsPositive' /\ OwnLots'
  BY CommitDone DEF SumsInv, OpenIsPositive, OwnLots, Open
<1>2. TakenSoFar'
  BY CommitDone DEF SumsInv, TakenSoFar
<1>3. /\ taken \in [Requests -> [Requests -> Nat]] /\ lots \subseteq Requests
      /\ args[r].op \in {"credit", "debit"}
  BY DEF LotsInv, LotTypes, Args
<1>4. DebitsExact'
  <2>1. ASSUME NEW l \in lots'
        PROVE  spent'[l] = SumFunctionOnSet([s \in Done' |-> taken'[s][l]], Done')
    <3>. DEFINE f == [s \in Done |-> taken[s][l]]
                g == [s \in Done \cup {r} |-> taken[s][l]]
    <3>1. l \in Requests /\ (l \in lots \/ (l = r /\ args[r].op = "credit"))
      BY <1>3, <2>1, CommitLots
    <3>2. IsFiniteSet(Done) /\ r \notin Done /\ Done \subseteq Requests
      BY CommitDone, RequestsFinite
    <3>3. \A s \in Done \cup {r} : g[s] \in Int
      BY <1>3, <3>1, <3>2
    <3>4. \A s \in Done : f[s] \in Int /\ g[s] = f[s]
      BY <1>3, <3>1, <3>2
    <3>5. SumFunctionOnSet(g, Done \cup {r}) = SumFunctionOnSet(g, Done) + g[r]
      BY <3>2, <3>3, SumAdd
    <3>6. SumFunctionOnSet(g, Done) = SumFunctionOnSet(f, Done)
      BY <3>2, <3>4, SumEqual
    <3>7. g[r] = taken[r][l] /\ taken[r][l] \in Nat
      BY <1>3, <3>1
    <3>8. [s \in Done' |-> taken'[s][l]] = g /\ Done' = Done \cup {r}
      BY CommitDone
    <3>9. CASE l \in lots
      <4>1. spent[l] = SumFunctionOnSet(f, Done) /\ spent[l] \in Nat
        BY <1>3, <3>9 DEF SumsInv, DebitsExact, LotsInv, LotTypes
      <4>2. spent'[l] = spent[l] + taken[r][l]
        <5>1. CASE args[r].op = "credit"
          <6>1. taken[r][l] = 0 /\ spent'[l] = spent[l]
            BY <3>1, <5>1, CommitTaken, CommitLots
          <6>. QED
            BY <4>1, <6>1
        <5>2. CASE args[r].op = "debit"
          BY <3>9, <5>2, CommitLots
        <5>. QED
          BY <1>3, <5>1, <5>2
      <4>. HIDE DEF f, g
      <4>. QED
        BY <3>5, <3>6, <3>7, <3>8, <4>1, <4>2
    <3>10. CASE l \notin lots
      <4>1. ASSUME NEW s \in Requests
            PROVE  taken[s][l] = 0
        <5>1. taken[s][l] \in Nat /\ l \notin held[s]
          BY <1>3, <3>1, <3>10, CommitDone
        <5>2. ~ (taken[s][l] > 0)
          BY <3>1, <5>1 DEF LotsInv, TakenWithinSeen
        <5>. QED
          BY <5>1, <5>2
      <4>2. SumFunctionOnSet(f, Done) = 0
        BY <3>2, <4>1, SumZero
      <4>3. spent'[l] = 0 /\ taken[r][l] = 0
        BY <3>1, <3>10, <4>1, CommitLots DEF LotsInv, NothingSpentOfNewLots
      <4>. HIDE DEF f, g
      <4>. QED
        BY <3>5, <3>6, <3>7, <3>8, <4>2, <4>3
    <3>. QED
      BY <3>9, <3>10
  <2>2. ASSUME NEW s \in Done', args'[s].op = "debit"
        PROVE  SumFunctionOnSet(taken'[s], Requests) = args'[s].amount
    <3>1. CASE s = r
      BY <2>2, <3>1, CommitTaken, CommitDone
    <3>2. CASE s # r
      BY <2>2, <3>2, CommitDone DEF SumsInv, DebitsExact
    <3>. QED
      BY <3>1, <3>2
  <2>. QED
    BY <2>1, <2>2 DEF DebitsExact
<1>5. LotsMatchLedger'
  <2>. SUFFICES ASSUME NEW u \in Users
                PROVE  Balance(u)' + Moved(u, "debit")' = Moved(u, "credit")'
    BY DEF LotsMatchLedger
  <2>. DEFINE A == [s \in Requests |-> args[s].amount]
              M(op) == {s \in Done : args[s].op = op /\ args[s].user = u}
  <2>1. /\ IsFiniteSet(Done) /\ r \notin Done /\ Done \subseteq Requests
        /\ \A s \in Requests : A[s] \in Nat
        /\ A[r] = args[r].amount /\ A[r] \in Nat
    BY CommitDone, RequestsFinite, AmountNat DEF LotsInv
  <2>2. ASSUME NEW op \in {"credit", "debit"}
        PROVE  /\ Moved(u, op) \in Int
               /\ Moved(u, op)' = IF args[r].op = op /\ args[r].user = u
                                    THEN Moved(u, op) + args[r].amount
                                    ELSE Moved(u, op)
    <3>1. IsFiniteSet(M(op)) /\ r \notin M(op) /\ \A s \in M(op) \cup {r} : A[s] \in Int
      BY <2>1, FS_Subset
    <3>2. /\ Moved(u, op) = SumFunctionOnSet(A, M(op))
          /\ Moved(u, op)'
               = SumFunctionOnSet(A, IF args[r].op = op /\ args[r].user = u
                                       THEN M(op) \cup {r} ELSE M(op))
      <4>1. {s \in Done' : args'[s].op = op /\ args'[s].user = u}
              = IF args[r].op = op /\ args[r].user = u THEN M(op) \cup {r} ELSE M(op)
        BY CommitDone
      <4>2. [s \in Requests |-> args'[s].amount] = A
        BY CommitDone
      <4>. QED
        BY <4>1, <4>2 DEF Moved
    <3>3. SumFunctionOnSet(A, M(op)) \in Int
      BY <3>1, SumInt
    <3>4. SumFunctionOnSet(A, M(op) \cup {r}) = SumFunctionOnSet(A, M(op)) + A[r]
      BY <3>1, SumAdd
    <3>. HIDE DEF M
    <3>. QED
      BY <2>1, <3>2, <3>3, <3>4
  <2>. HIDE DEF A, M
  <2>3. Balance(u) + Moved(u, "debit") = Moved(u, "credit")
    BY DEF SumsInv, LotsMatchLedger
  <2>4. Balance(u) \in Int
    BY BalanceNat DEF LotsInv
  <2>5. args[r].amount \in Int
    BY <2>1
  <2>6. CASE args[r].user # u
    <3>1. /\ Balance(u)' = Balance(u)
          /\ Moved(u, "debit")' = Moved(u, "debit")
          /\ Moved(u, "credit")' = Moved(u, "credit")
      BY <2>2, <2>6, CommitBalance
    <3>. QED
      BY <2>3, <3>1
  <2>7. CASE args[r].user = u /\ args[r].op = "credit"
    <3>1. /\ Balance(u)' = Balance(u) + args[r].amount
          /\ Moved(u, "debit")' = Moved(u, "debit")
          /\ Moved(u, "credit")' = Moved(u, "credit") + args[r].amount
      BY <2>2, <2>7, CommitBalance
    <3>2. Moved(u, "debit") \in Int
      BY <2>2
    <3>. QED
      BY <2>3, <2>4, <2>5, <3>1, <3>2
  <2>8. CASE args[r].user = u /\ args[r].op = "debit"
    <3>1. /\ Balance(u)' + args[r].amount = Balance(u)
          /\ Moved(u, "debit")' = Moved(u, "debit") + args[r].amount
          /\ Moved(u, "credit")' = Moved(u, "credit")
      BY <2>2, <2>8, CommitBalance
    <3>2. Moved(u, "debit") \in Int /\ Balance(u)' \in Int
      BY <2>2, CommitBalance
    <3>. QED
      BY <2>3, <2>4, <2>5, <3>1, <3>2
  <2>. QED
    BY <1>3, <2>6, <2>7, <2>8
<1>. QED
  BY <1>1, <1>2, <1>4, <1>5 DEF SumsInv

-----------------------------------------------------------------------------
LEMMA NextSumsInv == LotsInv /\ SumsInv /\ [Next]_vars => SumsInv'
<1>. SUFFICES ASSUME LotsInv, SumsInv, [Next]_vars PROVE SumsInv'
  OBVIOUS
<1>1. CASE UNCHANGED vars
  <2>1. Done' = Done /\ UNCHANGED <<pc, args, loopVars, tables>>
    BY <1>1 DEF vars, dbVars, Done
  <2>2. DebitsExact' /\ LotsMatchLedger'
    BY <2>1, LedgerUntouched DEF tables, loopVars
  <2>. QED
    BY <2>1, <2>2 DEF SumsInv, OpenIsPositive, OwnLots, TakenSoFar, loopVars
<1>2. ASSUME NEW r \in Requests, NEW a \in Args, Call(r, a) PROVE SumsInv'
  BY <1>2, CallSums
<1>3. ASSUME NEW r \in Requests, Crash(r) PROVE SumsInv'
  BY <1>3, RollbackSums DEF Crash
<1>4. ASSUME NEW r \in Requests, Step(r) PROVE SumsInv'
  <2>1. CASE RejectAmount(r)
    BY <2>1, QuietSums DEF RejectAmount, QuietMoves, dbVars
  <2>2. CASE ReplayCached(r)
    BY <2>2, QuietSums DEF ReplayCached, QuietMoves, dbVars
  <2>3. CASE KeyReused(r)
    BY <2>3, QuietSums DEF KeyReused, QuietMoves, dbVars
  <2>4. CASE StartTransaction(r)
    BY <2>4, QuietSums DEF StartTransaction
  <2>5. CASE GetUserBalance(r)
    BY <2>5, QuietSums DEF GetUserBalance, QuietMoves, dbVars
  <2>6. CASE CreateLot(r)
    BY <2>6, QuietSums DEF CreateLot, QuietMoves
  <2>7. CASE InsufficientBalance(r)
    BY <2>7, RollbackSums DEF InsufficientBalance, Open
  <2>8. CASE SelectLots(r)
    BY <2>8, SelectLotsSums
  <2>9. CASE LockLot(r)
    BY <2>9, LockLotSums
  <2>10. CASE ConsumeLot(r)
    BY <2>10, ConsumeLotSums
  <2>11. CASE FullyDebited(r)
    BY <2>11, QuietSums DEF FullyDebited, NothingLeft, QuietMoves, dbVars
  <2>12. CASE NotFullyDebited(r)
    BY <2>12, RollbackSums DEF NotFullyDebited, Open
  <2>13. CASE SaveIdempotency(r)
    BY <2>13, QuietSums DEF SaveIdempotency
  <2>14. CASE DuplicateKey(r)
    BY <2>14, RollbackSums DEF DuplicateKey, Open
  <2>15. CASE Commit(r)
    BY <2>15, CommitSums
  <2>. QED
    BY <1>4, <2>1, <2>2, <2>3, <2>4, <2>5, <2>6, <2>7, <2>8, <2>9, <2>10,
       <2>11, <2>12, <2>13, <2>14, <2>15 DEF Step
<1>. QED
  BY <1>1, <1>2, <1>3, <1>4 DEF Next

-----------------------------------------------------------------------------
(* The balance read and the snapshot written.                              *)

LEMMA InitSnapshotsInv == Init => SnapshotsInv
<1>. SUFFICES ASSUME Init PROVE SnapshotsInv
  OBVIOUS
<1>1. LotTypes
  BY InitLotsInv DEF LotsInv
<1>2. balance = Zero /\ snapshot = Zero /\ \A r \in Requests : pc[r] \in {"done", "idle"}
  BY DEF Init
<1>. QED
  BY <1>1, <1>2 DEF SnapshotsInv, TypeOK, SnapshotsTell, Zero

(* A step after which a debit that writes its entries is as it was.        *)
LEMMA QuietSnapshots ==
  ASSUME LotTypes', SnapshotsInv,
         balance' \in [Requests -> Nat], snapshot' \in [Requests -> Nat],
         \A r \in Requests :
           args'[r].op = "debit" /\ pc'[r] \in {"lots", "save", "commit"} =>
             /\ args'[r] = args[r] /\ pc[r] \in {"lots", "save", "commit"}
             /\ left'[r] = left[r]
             /\ balance'[r] = balance[r] /\ snapshot'[r] = snapshot[r]
  PROVE  SnapshotsInv'
<1>1. TypeOK'
  BY DEF TypeOK
<1>2. SnapshotsTell'
  BY DEF SnapshotsInv, SnapshotsTell
<1>. QED
  BY <1>1, <1>2 DEF SnapshotsInv

LEMMA RollbackSnapshots ==
  ASSUME LotTypes, LotTypes', SnapshotsInv, NEW r \in Requests, NEW from,
         Rollback(r, from)
  PROVE  SnapshotsInv'
<1>1. /\ balance' = [balance EXCEPT ![r] = 0] /\ snapshot' = [snapshot EXCEPT ![r] = 0]
      /\ left' = [left EXCEPT ![r] = 0] /\ pc' = [pc EXCEPT ![r] = "failed"]
      /\ args' = args
  BY DEF Rollback, Goto
<1>. QED
  BY <1>1, QuietSnapshots DEF SnapshotsInv, TypeOK, LotTypes

LEMMA SelectLotsSnapshots ==
  ASSUME LotTypes, LotTypes', SnapshotsInv, NEW r \in Requests, SelectLots(r)
  PROVE  SnapshotsInv'
<1>1. /\ balance[r] >= args[r].amount /\ balance' = balance /\ args' = args
      /\ snapshot' = [snapshot EXCEPT ![r] = balance[r]]
      /\ left' = [left EXCEPT ![r] = args[r].amount] /\ pc' = [pc EXCEPT ![r] = "lots"]
  BY DEF SelectLots, Goto
<1>2. TypeOK'
  BY <1>1 DEF SnapshotsInv, TypeOK
<1>3. SnapshotsTell'
  <2>. SUFFICES ASSUME NEW q \in Requests, args[q].op = "debit",
                       pc'[q] \in {"lots", "save", "commit"}
                PROVE  /\ snapshot'[q] + args[q].amount = balance[q] + left'[q]
                       /\ balance[q] >= args[q].amount
    BY <1>1 DEF SnapshotsTell
  <2>1. CASE q = r
    BY <1>1, <2>1 DEF SnapshotsInv, TypeOK, LotTypes
  <2>2. CASE q # r
    BY <1>1, <2>2 DEF SnapshotsInv, SnapshotsTell, TypeOK, LotTypes
  <2>. QED
    BY <2>1, <2>2
<1>. QED
  BY <1>2, <1>3 DEF SnapshotsInv

(* A debit takes no more than is left to take, so that what it writes last *)
(* is never below the balance it read less its amount.                     *)
LEMMA ConsumeLotSnapshots ==
  ASSUME LotsInv, LotTypes', SnapshotsInv, NEW r \in Requests, ConsumeLot(r)
  PROVE  SnapshotsInv'
<1>0. LotTypes
  BY DEF LotsInv
<1>1. args[r].op = "debit" /\ pc[r] = "lots"
  <2>1. pc[r] = "lots"
    BY DEF ConsumeLot
  <2>2. args[r].op \in {"credit", "debit"}
    BY <1>0 DEF LotTypes, Args
  <2>. QED
    BY <2>1, <2>2 DEF LotsInv, HeldSinceSelect
<1>2. PICK e \in Nat : /\ e <= left[r] /\ left' = [left EXCEPT ![r] = @ - e]
                       /\ snapshot' = [snapshot EXCEPT ![r] = @ - e]
                       /\ pc' = pc /\ args' = args /\ balance' = balance
  <2>1. PICK l \in Requests :
          /\ left' = [left EXCEPT ![r] = @ - Smaller(left[r], seen[r][l])]
          /\ snapshot' = [snapshot EXCEPT ![r] = @ - Smaller(left[r], seen[r][l])]
    BY <1>0 DEF ConsumeLot, Oldest, Unconsumed, LotTypes
  <2>2. Smaller(left[r], seen[r][l]) \in Nat /\ Smaller(left[r], seen[r][l]) <= left[r]
    BY <1>0 DEF Smaller, LotTypes
  <2>. QED
    BY <2>1, <2>2 DEF ConsumeLot
<1>3. /\ snapshot[r] + args[r].amount = balance[r] + left[r]
      /\ balance[r] >= args[r].amount
      /\ snapshot[r] \in Nat /\ balance[r] \in Nat /\ left[r] \in Nat
      /\ args[r].amount \in Nat
  BY <1>0, <1>1, AmountNat DEF SnapshotsInv, SnapshotsTell, TypeOK, LotTypes
<1>4. snapshot[r] - e \in Nat
  BY <1>2, <1>3
<1>5. snapshot' \in [Requests -> Nat] /\ balance' \in [Requests -> Nat]
  BY <1>2, <1>4 DEF SnapshotsInv, TypeOK
<1>6. SnapshotsTell'
  <2>. SUFFICES ASSUME NEW q \in Requests, args[q].op = "debit",
                       pc[q] \in {"lots", "save", "commit"}
                PROVE  /\ snapshot'[q] + args[q].amount = balance[q] + left'[q]
                       /\ balance[q] >= args[q].amount
    BY <1>2 DEF SnapshotsTell
  <2>1. CASE q = r
    <3>1. snapshot'[r] = snapshot[r] - e /\ left'[r] = left[r] - e
      BY <1>0, <1>2 DEF SnapshotsInv, TypeOK, LotTypes
    <3>. QED
      BY <1>2, <1>3, <2>1, <3>1
  <2>2. CASE q # r
    BY <1>2, <2>2 DEF SnapshotsInv, SnapshotsTell, TypeOK, LotTypes
  <2>. QED
    BY <2>1, <2>2
<1>. QED
  BY <1>5, <1>6 DEF SnapshotsInv, TypeOK

LEMMA NextSnapshotsInv ==
  LotsInv /\ LotsInv' /\ SnapshotsInv /\ [Next]_vars => SnapshotsInv'
<1>. SUFFICES ASSUME LotsInv, LotsInv', SnapshotsInv, [Next]_vars PROVE SnapshotsInv'
  OBVIOUS
<1>0. /\ LotTypes /\ LotTypes' /\ balance \in [Requests -> Nat]
      /\ snapshot \in [Requests -> Nat]
  BY DEF LotsInv, SnapshotsInv, TypeOK
<1>1. CASE UNCHANGED vars
  BY <1>0, <1>1, QuietSnapshots DEF vars, loopVars, dbVars
<1>2. ASSUME NEW r \in Requests, NEW a \in Args, Call(r, a) PROVE SnapshotsInv'
  <2>1. /\ pc[r] = "idle" /\ pc' = [pc EXCEPT ![r] = "check"]
        /\ args' = [args EXCEPT ![r] = a] /\ UNCHANGED <<balance, snapshot, left>>
    BY <1>2 DEF Call, Goto, loopVars, dbVars
  <2>. QED
    BY <1>0, <2>1, QuietSnapshots DEF LotTypes
<1>3. ASSUME NEW r \in Requests, Crash(r) PROVE SnapshotsInv'
  BY <1>0, <1>3, RollbackSnapshots DEF Crash
<1>4. ASSUME NEW r \in Requests, NEW from, NEW to, Goto(r, from, to),
             to \in {"lots", "save", "commit"} => from \in {"lots", "save", "commit"},
             UNCHANGED <<args, balance, left, snapshot>>
      PROVE  SnapshotsInv'
  BY <1>0, <1>4, QuietSnapshots DEF Goto, LotTypes
<1>5. ASSUME NEW r \in Requests, Step(r) PROVE SnapshotsInv'
  <2>1. CASE RejectAmount(r) \/ ReplayCached(r) \/ KeyReused(r)
    BY <1>4, <2>1 DEF RejectAmount, ReplayCached, KeyReused, loopVars, dbVars
  <2>2. CASE StartTransaction(r)
    BY <1>4, <2>2 DEF StartTransaction, loopVars
  <2>3. CASE GetUserBalance(r)
    <3>1. /\ pc' = [pc EXCEPT ![r] = "apply"] /\ UNCHANGED <<args, left, snapshot>>
          /\ balance' = [balance EXCEPT ![r] = Balance(args[r].user)]
      BY <2>3 DEF GetUserBalance, Goto, loopVars, dbVars
    <3>2. Balance(args[r].user) \in Nat
      BY <1>0, BalanceNat DEF LotTypes, Args
    <3>. QED
      BY <1>0, <3>1, <3>2, QuietSnapshots DEF LotTypes
  <2>4. CASE CreateLot(r)
    <3>1. /\ pc' = [pc EXCEPT ![r] = "save"] /\ UNCHANGED <<args, left, balance>>
          /\ snapshot' = [snapshot EXCEPT ![r] = balance[r] + args[r].amount]
          /\ args[r].op = "credit"
      BY <2>4 DEF CreateLot, Goto, loopVars
    <3>2. balance[r] + args[r].amount \in Nat
      BY <1>0, AmountNat
    <3>. QED
      BY <1>0, <3>1, <3>2, QuietSnapshots DEF LotTypes
  <2>5. CASE InsufficientBalance(r) \/ NotFullyDebited(r) \/ DuplicateKey(r)
    BY <1>0, <2>5, RollbackSnapshots DEF InsufficientBalance, NotFullyDebited, DuplicateKey
  <2>6. CASE SelectLots(r)
    BY <1>0, <2>6, SelectLotsSnapshots
  <2>7. CASE LockLot(r)
    BY <1>0, <2>7, QuietSnapshots DEF LockLot
  <2>8. CASE ConsumeLot(r)
    BY <1>0, <2>8, ConsumeLotSnapshots
  <2>9. CASE FullyDebited(r)
    BY <1>4, <2>9 DEF FullyDebited, loopVars, dbVars
  <2>10. CASE SaveIdempotency(r)
    BY <1>4, <2>10 DEF SaveIdempotency, loopVars
  <2>11. CASE Commit(r)
    <3>1. /\ pc' = [pc EXCEPT ![r] = "done"] /\ UNCHANGED <<args, left, snapshot>>
          /\ balance' = [balance EXCEPT ![r] = 0]
      BY <2>11 DEF Commit, Goto, loopVars
    <3>. QED
      BY <1>0, <3>1, QuietSnapshots DEF LotTypes
  <2>. QED
    BY <1>5, <2>1, <2>2, <2>3, <2>4, <2>5, <2>6, <2>7, <2>8, <2>9, <2>10, <2>11 DEF Step
<1>. QED
  BY <1>1, <1>2, <1>3, <1>5 DEF Next

(***************************************************************************)
(* The inductive invariant: the locks and the lots first, then the sums,   *)
(* then what calls have read.                                              *)
(***************************************************************************)
LEMMA InitIInv == Init => IInv
  BY InitLotsInv, InitSumsInv, InitSnapshotsInv DEF IInv

LEMMA NextIInv == IInv /\ [Next]_vars => IInv'
  BY NextLotsInv, NextSumsInv, NextSnapshotsInv DEF IInv

(***************************************************************************)
(* The inductive invariant holds of every behaviour of the wallet.         *)
(***************************************************************************)
THEOREM Invariance == Spec => []IInv
  BY InitIInv, NextIInv, PTL DEF Spec

(***************************************************************************)
(* Every variable has its type: no remaining_amount and no                 *)
(* balance_snapshot ever becomes negative, however stale the balance a     *)
(* debit goes by (point.service.ts:204-260).                               *)
(***************************************************************************)
THEOREM TypeCorrect == Spec => []TypeOK
<1>1. IInv => TypeOK
  BY DEF IInv, SnapshotsInv
<1>. QED
  BY <1>1, Invariance, PTL

(***************************************************************************)
(* Whatever calls run concurrently, a lot and its ledger entries always    *)
(* add up: no debit overwrites another (point.service.ts:206-260).         *)
(***************************************************************************)
THEOREM PointsConserved == Spec => []LotsBalance
<1>1. IInv => LotsBalance
  BY DEF IInv, LotsInv
<1>. QED
  BY <1>1, Invariance, PTL

(***************************************************************************)
(* Two committed calls never carry the same idempotency key, whatever      *)
(* crashes and retries happen (point.service.ts:184-202, :270-279).        *)
(***************************************************************************)
THEOREM KeyOnce == Spec => []KeyTakesEffectOnce
<1>1. IInv => KeyTakesEffectOnce
  <2>. SUFFICES ASSUME IInv, NEW r \in Done, NEW s \in Done,
                       args[r].key # NoKey, args[r].key = args[s].key
                PROVE  r = s
    BY DEF KeyTakesEffectOnce
  <2>1. keyRow[args[r].key] = r /\ keyRow[args[s].key] = s
    BY DEF IInv, LotsInv, KeyOwners
  <2>. QED
    BY <2>1
<1>. QED
  BY <1>1, Invariance, PTL

(***************************************************************************)
(* A debit leaves no older lot of its SELECT with points when it takes     *)
(* from a newer one (wallet-lot.repository.ts:54-63).                      *)
(***************************************************************************)
THEOREM OldestFirst == Spec => []FifoConsumption
<1>1. IInv => FifoConsumption
  BY DEF IInv, LotsInv
<1>. QED
  BY <1>1, Invariance, PTL

(***************************************************************************)
(* A call that is over holds no lock (point.service.ts:286-294).           *)
(***************************************************************************)
THEOREM NoLockLeaks == Spec => []LocksOfOpenCalls
<1>1. IInv => LocksOfOpenCalls
  BY DEF IInv, LotsInv
<1>. QED
  BY <1>1, Invariance, PTL

(* A committed lot stays, never gains points, and its entries only grow    *)
(* (point.service.ts:225-260).                                             *)
THEOREM LotsShrink == Spec => LotsOnlyShrink
<1>. DEFINE A == /\ lots \subseteq lots'
                 /\ \A l \in lots : /\ remaining'[l] <= remaining[l]
                                    /\ spent'[l] >= spent[l]
<1>1. IInv /\ [Next]_vars => [A]_vars
  <2>. SUFFICES ASSUME IInv, [Next]_vars PROVE A
    OBVIOUS
  <2>. USE DEF IInv, LotsInv, LotTypes
  <2>1. lots \subseteq Requests /\ \A l \in lots : remaining[l] \in Nat /\ spent[l] \in Nat
    OBVIOUS
  <2>2. CASE UNCHANGED <<lots, remaining, spent>>
    BY <2>1, <2>2
  <2>3. ASSUME NEW r \in Requests, Commit(r) PROVE A
    <3>1. \A l \in lots : l # r
      BY <2>3 DEF Commit, Goto, LotsCommitted
    <3>2. CASE args[r].op = "credit"
      <4>1. /\ lots' = lots \cup {r} /\ spent' = spent
            /\ remaining' = [remaining EXCEPT ![r] = args[r].amount]
        BY <2>3, <3>2 DEF Commit
      <4>2. ASSUME NEW l \in lots
            PROVE  remaining'[l] = remaining[l] /\ spent'[l] = spent[l]
        BY <2>1, <3>1, <4>1
      <4>. QED
        BY <2>1, <4>1, <4>2
    <3>3. CASE args[r].op # "credit"
      <4>1. ASSUME NEW l \in lots, taken[r][l] > 0
            PROVE  /\ seen[r][l] = remaining[l]
                   /\ taken[r][l] \in Nat /\ taken[r][l] <= seen[r][l]
        BY <2>1, <2>3, <4>1 DEF Commit, Goto, TakenWithinSeen, ReadsStayTrue
      <4>2. \A l \in lots : taken[r][l] \in Nat
        BY <2>1
      <4>3. /\ remaining' = [l \in Requests |->
                 IF taken[r][l] > 0 THEN seen[r][l] - taken[r][l]
                                    ELSE remaining[l]]
            /\ spent' = [l \in Requests |-> spent[l] + taken[r][l]]
            /\ lots' = lots
        BY <2>3, <3>3 DEF Commit
      <4>4. ASSUME NEW l \in lots
            PROVE  remaining'[l] <= remaining[l] /\ spent'[l] >= spent[l]
        BY <2>1, <4>1, <4>2, <4>3
      <4>. QED
        BY <4>3, <4>4
    <3>. QED
      BY <3>2, <3>3
  <2>4. \/ UNCHANGED <<lots, remaining, spent>>
        \/ \E r \in Requests : Commit(r)
    BY DEF Next, Step, Crash, Rollback, Call, RejectAmount, ReplayCached,
           KeyReused, StartTransaction, GetUserBalance, CreateLot,
           InsufficientBalance, SelectLots, LockLot, ConsumeLot, FullyDebited,
           NotFullyDebited, SaveIdempotency, DuplicateKey, vars, dbVars, tables
  <2>. QED
    BY <2>2, <2>3, <2>4
<1>. QED
  BY <1>1, Invariance, PTL DEF Spec, LotsOnlyShrink

(***************************************************************************)
(* The committed entries of a debit add up to its amount, and every point  *)
(* debited from a lot belongs to a committed debit                         *)
(* (point.service.ts:262-267).                                             *)
(***************************************************************************)
THEOREM DebitsAreExact == Spec => []DebitsExact
<1>1. IInv => DebitsExact
  BY DEF IInv, SumsInv
<1>. QED
  BY <1>1, Invariance, PTL

(***************************************************************************)
(* What getUserBalance adds up over the lots of a user is what was         *)
(* credited to the user less what was debited from the user, at every      *)
(* moment (point.service.ts:105-115, :206-281).                            *)
(***************************************************************************)
THEOREM BalanceIsTheLedger == Spec => []LotsMatchLedger
<1>1. IInv => LotsMatchLedger
  BY DEF IInv, SumsInv
<1>. QED
  BY <1>1, Invariance, PTL

-----------------------------------------------------------------------------
(***************************************************************************)
(* PointService implements the safety part of Wallet: the commit is where  *)
(* a call takes effect, its answer is where another one ends, and every    *)
(* statement in between changes nothing that a caller can see.             *)
(***************************************************************************)
Pending == Open \cup {"check"}

LEMMA StatusPending ==
  ASSUME LotTypes, NEW r \in Requests, NEW from \in Pending, NEW to \in Pending,
         Goto(r, from, to)
  PROVE  AbstractStatus' = AbstractStatus
  BY DEF LotTypes, Pending, Open, Goto, AbstractStatus

LEMMA StatusAnswered ==
  ASSUME LotTypes, NEW r \in Requests, NEW from \in Pending, NEW to \in Finished,
         Goto(r, from, to)
  PROVE  /\ AbstractStatus[r] = "pending"
         /\ AbstractStatus' = [AbstractStatus EXCEPT ![r] =
                                 IF to = "done" THEN "applied" ELSE to]
<1>1. /\ pc[r] = from /\ pc'[r] = to
      /\ \A s \in Requests : s # r => pc'[s] = pc[s]
  BY DEF LotTypes, Goto
<1>2. AbstractStatus[r] = "pending"
  BY <1>1 DEF AbstractStatus, Pending, Open
<1>3. AbstractStatus'[r] = IF to = "done" THEN "applied" ELSE to
  BY <1>1 DEF AbstractStatus, Finished
<1>4. ASSUME NEW s \in Requests, s # r
      PROVE  AbstractStatus'[s] = AbstractStatus[s]
  BY <1>1, <1>4 DEF AbstractStatus
<1>5. AbstractStatus = [s \in Requests |-> AbstractStatus[s]]
  BY DEF AbstractStatus
<1>6. AbstractStatus' = [s \in Requests |-> AbstractStatus'[s]]
  BY DEF AbstractStatus
<1>. HIDE DEF AbstractStatus
<1>. QED
  BY <1>2, <1>3, <1>4, <1>5, <1>6

(* Wallet speaks of the same arguments, hashes and sums.                   *)
LEMMA WalletArgs ==
  /\ W!Args = Args /\ W!InitialArgs = InitialArgs
  /\ \A a : W!RequestHash(a) = RequestHash(a)
<1>1. W!Args = Args
  BY DEF W!Args, Args
<1>2. W!SeedArgs = SeedArgs
  BY <1>1 DEF W!SeedArgs, SeedArgs
<1>3. W!Blank = Blank
  BY <1>2 DEF W!Blank, Blank
<1>4. W!InitialArgs = InitialArgs
  BY <1>2, <1>3 DEF W!InitialArgs, InitialArgs
<1>. QED
  BY <1>1, <1>4 DEF W!RequestHash, RequestHash

LEMMA WalletSum ==
  ASSUME NEW f, NEW S
  PROVE  W!SumFunctionOnSet(f, S) = SumFunctionOnSet(f, S)
  BY DEF W!SumFunctionOnSet, W!FoldFunctionOnSet, W!MapThenFoldSet,
         SumFunctionOnSet, FoldFunctionOnSet, MapThenFoldSet

LEMMA AppliedIsDone == W!Applied = Done
  BY DEF W!Applied, Done, AbstractStatus

LEMMA RefinedInit == Init => W!Init
<1>. SUFFICES ASSUME Init PROVE W!Init
  OBVIOUS
<1>1. args \in InitialArgs
  BY DEF Init
<1>2. AbstractStatus = [r \in Requests |-> IF r \in Seed THEN "applied" ELSE "idle"]
  BY DEF Init, AbstractStatus
<1>3. ASSUME NEW u \in Users
      PROVE  Balance(u) = W!SumFunctionOnSet([r \in Seed |-> args[r].amount],
                                             {r \in Seed : args[r].user = u})
  <2>. DEFINE L == {r \in Seed : args[r].user = u}
              f == [r \in Seed |-> args[r].amount]
  <2>1. lots = Seed /\ \A r \in L : f[r] \in Int /\ remaining[r] = f[r]
    <3>1. \A r \in Requests : args[r].amount \in Nat
      BY InitLotsInv, AmountNat DEF LotsInv
    <3>. QED
      BY <3>1 DEF Init
  <2>2. IsFiniteSet(L)
    BY RequestsFinite
  <2>3. SumFunctionOnSet(remaining, L) = SumFunctionOnSet(f, L)
    BY <2>1, <2>2, SumEqual
  <2>. QED
    BY <2>1, <2>3, WalletSum DEF Balance
<1>. QED
  BY <1>1, <1>2, <1>3, WalletArgs DEF W!Init

(* A call is made.                                                         *)
LEMMA RefinedCall ==
  ASSUME IInv, NEW r \in Requests, NEW a \in Args, Call(r, a)
  PROVE  W!Call(r, a)
<1>1. /\ pc \in [Requests -> Pc] /\ pc[r] = "idle" /\ pc' = [pc EXCEPT ![r] = "check"]
      /\ args' = [args EXCEPT ![r] = a] /\ args \in [Requests -> Args]
      /\ UNCHANGED <<taken, lots, remaining, spent>>
  BY DEF Call, Goto, loopVars, dbVars, tables, IInv, LotsInv, LotTypes
<1>2. /\ AbstractStatus[r] = "idle"
      /\ AbstractStatus' = [AbstractStatus EXCEPT ![r] = "pending"]
  <2>1. /\ pc'[r] = "check"
        /\ \A s \in Requests : s # r => pc'[s] = pc[s]
    BY <1>1
  <2>2. AbstractStatus[r] = "idle" /\ AbstractStatus'[r] = "pending"
    BY <1>1, <2>1 DEF AbstractStatus
  <2>3. \A s \in Requests : s # r => AbstractStatus'[s] = AbstractStatus[s]
    BY <2>1 DEF AbstractStatus
  <2>4. /\ AbstractStatus = [s \in Requests |-> AbstractStatus[s]]
        /\ AbstractStatus' = [s \in Requests |-> AbstractStatus'[s]]
    BY DEF AbstractStatus
  <2>. HIDE DEF AbstractStatus
  <2>. QED
    BY <2>2, <2>3, <2>4
<1>3. \A u \in Users : Balance(u)' = Balance(u)
  <2>1. Done' = Done /\ \A s \in Done : args'[s] = args[s]
    BY <1>1 DEF Done
  <2>. QED
    BY <1>1, <2>1, LedgerUntouched DEF IInv
<1>. QED
  BY <1>1, <1>2, <1>3 DEF W!Call

(* A call ends without effect.                                             *)
LEMMA RefinedFail ==
  ASSUME IInv, NEW r \in Requests, NEW from \in Pending, Goto(r, from, "failed"),
         UNCHANGED <<args, lots, remaining, spent>>,
         \A s \in Requests : s # r => taken'[s] = taken[s]
  PROVE  W!Fail(r)
<1>1. /\ AbstractStatus[r] = "pending"
      /\ AbstractStatus' = [AbstractStatus EXCEPT ![r] = "failed"]
  BY StatusAnswered DEF IInv, LotsInv, Finished
<1>2. \A u \in Users : Balance(u)' = Balance(u)
  <2>1. Done' = Done /\ r \notin Done /\ Done \subseteq Requests
    BY DEF Done, Goto, IInv, LotsInv, LotTypes, Pending, Open
  <2>. QED
    BY <2>1, LedgerUntouched DEF IInv
<1>. QED
  BY <1>1, <1>2 DEF W!Fail, W!Finish

(* The stored answer is that of a committed call with the same key.        *)
LEMMA RefinedReplay ==
  ASSUME IInv, NEW r \in Requests, ReplayCached(r)
  PROVE  W!Replay(r)
<1>1. /\ AbstractStatus[r] = "pending"
      /\ AbstractStatus' = [AbstractStatus EXCEPT ![r] = "replayed"]
  BY StatusAnswered DEF IInv, LotsInv, Finished, Pending, ReplayCached
<1>2. /\ args' = args
      /\ \A u \in Users : Balance(u)' = Balance(u)
  <2>1. Done' = Done
    BY DEF Done, ReplayCached, Goto, IInv, LotsInv, LotTypes
  <2>2. UNCHANGED <<args, taken, lots, remaining, spent>>
    BY DEF ReplayCached, loopVars, dbVars, tables
  <2>. QED
    BY <2>1, <2>2, LedgerUntouched DEF IInv
<1>3. \E o \in W!Applied : /\ args[r].key # NoKey
                           /\ args[o].key = args[r].key
                           /\ RequestHash(args[o]) = RequestHash(args[r])
  <2>1. /\ args[r].key # NoKey /\ args[r].key \in Keys
        /\ keyRow[args[r].key] # NoOne
        /\ RequestHash(args[r]) = RequestHash(args[keyRow[args[r].key]])
    BY DEF ReplayCached, KnownKey, SameRequest, IInv, LotsInv, LotTypes, Args
  <2>2. /\ keyRow[args[r].key] \in Done
        /\ args[keyRow[args[r].key]].key = args[r].key
    BY <2>1 DEF IInv, LotsInv, KeyOwners, LotTypes, Done
  <2>. QED
    BY <2>1, <2>2, AppliedIsDone
<1>4. W!Finish(r, "replayed")
  BY <1>1, <1>2 DEF W!Finish
<1>5. UNCHANGED [u \in Users |-> Balance(u)]
  BY <1>2
<1>. QED
  BY <1>3, <1>4, <1>5, WalletArgs DEF W!Replay

(* A statement that answers no one.                                        *)
LEMMA RefinedStutter ==
  ASSUME IInv, AbstractStatus' = AbstractStatus, Done' = Done,
         UNCHANGED <<args, lots, remaining, spent>>,
         \A s \in Done : taken'[s] = taken[s]
  PROVE  UNCHANGED W!vars
<1>1. \A u \in Users : Balance(u)' = Balance(u)
  BY LedgerUntouched DEF IInv
<1>. QED
  BY <1>1 DEF W!vars

(* COMMIT is where a credit or a debit takes effect.                       *)
LEMMA RefinedCommit ==
  ASSUME IInv, NEW r \in Requests, Commit(r)
  PROVE  W!ApplyCredit(r) \/ W!ApplyDebit(r)
<1>1. LotsInv /\ SumsInv
  BY DEF IInv
<1>2. W!Finish(r, "applied")
  <2>1. Goto(r, "commit", "done") /\ args' = args
    BY DEF Commit
  <2>. QED
    BY <1>1, <2>1, StatusAnswered DEF LotsInv, Finished, Pending, Open, W!Finish
<1>3. W!KeyUnused(args[r].key)
  <2>. SUFFICES ASSUME args[r].key # NoKey, NEW o \in Done, args[o].key = args[r].key
                PROVE  FALSE
    BY AppliedIsDone DEF W!KeyUnused
  <2>1. keyRow[args[r].key] = NoOne /\ keyRow[args[o].key] = o
    BY <1>1, CommitDone DEF LotsInv, KeyOwners
  <2>2. o \in Requests
    BY DEF Done
  <2>. QED
    BY <2>1, <2>2
<1>4. args[r].amount > 0 /\ args[r].amount \in Nat
  BY <1>1, CommitDone, AmountNat DEF SumsInv, OpenIsPositive, Open, LotsInv
<1>5. args[r].user \in Users /\ args[r].op \in {"credit", "debit"}
  BY <1>1 DEF LotsInv, LotTypes, Args
<1>. DEFINE b == [u \in Users |-> Balance(u)]
<1>6. \A u \in Users : Balance(u) \in Nat /\ Balance(u)' \in Nat
  BY <1>1, BalanceNat, CommitBalance DEF LotsInv
<1>7. CASE args[r].op = "credit"
  <2>1. b' = [b EXCEPT ![args[r].user] = @ + args[r].amount]
    BY <1>1, <1>5, <1>7, CommitBalance
  <2>. QED
    BY <1>2, <1>3, <1>4, <1>7, <2>1 DEF W!ApplyCredit
<1>8. CASE args[r].op = "debit"
  <2>1. \A u \in Users : args[r].user = u =>
          /\ Balance(u)' = Balance(u) - args[r].amount
          /\ args[r].amount <= Balance(u)
    <3>1. \A u \in Users : args[r].user = u =>
            Balance(u)' + args[r].amount = Balance(u)
      BY <1>1, <1>8, CommitBalance
    <3>. QED
      BY <1>4, <1>6, <3>1
  <2>2. b' = [b EXCEPT ![args[r].user] = @ - args[r].amount]
    BY <1>1, <1>5, <1>8, <2>1, CommitBalance
  <2>3. args[r].amount <= b[args[r].user]
    BY <1>5, <2>1
  <2>. QED
    BY <1>2, <1>3, <1>4, <1>8, <2>2, <2>3 DEF W!ApplyDebit
<1>. QED
  BY <1>5, <1>7, <1>8

LEMMA RefinedNext == IInv /\ [Next]_vars => [W!Next]_W!vars
<1>. SUFFICES ASSUME IInv, [Next]_vars PROVE W!Next \/ UNCHANGED W!vars
  OBVIOUS
<1>0. LotTypes
  BY DEF IInv, LotsInv
<1>1. CASE UNCHANGED vars
  BY <1>1, RefinedStutter DEF vars, loopVars, dbVars, tables, AbstractStatus, Done
<1>2. ASSUME NEW r \in Requests, NEW a \in Args, Call(r, a) PROVE W!Next
  <2>1. W!Call(r, a)
    BY <1>2, RefinedCall
  <2>. QED
    BY <2>1, WalletArgs DEF W!Next
<1>3. ASSUME NEW r \in Requests, NEW from \in Pending, Rollback(r, from)
      PROVE  W!Next
  <2>1. /\ Goto(r, from, "failed")
        /\ UNCHANGED <<args, lots, remaining, spent>>
        /\ \A s \in Requests : s # r => taken'[s] = taken[s]
    BY <1>0, <1>3 DEF Rollback, tables, LotTypes
  <2>2. W!Fail(r)
    BY <2>1, RefinedFail
  <2>. QED
    BY <2>2 DEF W!Next, W!Answer
<1>4. ASSUME NEW r \in Requests, NEW from \in Pending, NEW to \in Pending,
             Goto(r, from, to), UNCHANGED <<args, tables>>,
             \A s \in Requests : s # r => taken'[s] = taken[s]
      PROVE  UNCHANGED W!vars
  <2>1. Done' = Done /\ r \notin Done /\ Done \subseteq Requests
    BY <1>0, <1>4 DEF Done, Goto, LotTypes, Pending, Open
  <2>. QED
    BY <1>0, <1>4, <2>1, StatusPending, RefinedStutter DEF tables
<1>5. ASSUME NEW r \in Requests, Step(r)
      PROVE  W!Next \/ UNCHANGED W!vars
  <2>1. CASE RejectAmount(r) \/ KeyReused(r)
    <3>1. W!Fail(r)
      BY <2>1, RefinedFail
      DEF RejectAmount, KeyReused, Pending, loopVars, dbVars, tables
    <3>. QED
      BY <3>1 DEF W!Next, W!Answer
  <2>2. CASE ReplayCached(r)
    BY <2>2, RefinedReplay DEF W!Next, W!Answer
  <2>3. CASE StartTransaction(r)
    BY <2>3, <1>4 DEF StartTransaction, Pending, Open, loopVars
  <2>4. CASE GetUserBalance(r)
    BY <2>4, <1>4 DEF GetUserBalance, Pending, Open, loopVars, dbVars
  <2>5. CASE CreateLot(r)
    BY <2>5, <1>4 DEF CreateLot, Pending, Open, loopVars
  <2>6. CASE InsufficientBalance(r) \/ NotFullyDebited(r) \/ DuplicateKey(r)
    BY <2>6, <1>3
    DEF InsufficientBalance, NotFullyDebited, DuplicateKey, Pending, Open
  <2>7. CASE SelectLots(r)
    BY <2>7, <1>4 DEF SelectLots, Pending, Open
  <2>8. CASE LockLot(r) \/ ConsumeLot(r)
    <3>1. /\ pc[r] = "lots" /\ UNCHANGED <<pc, args, lots, remaining, spent>>
          /\ \A s \in Requests : s # r => taken'[s] = taken[s]
      BY <1>0, <2>8 DEF LockLot, ConsumeLot, tables, LotTypes
    <3>2. AbstractStatus' = AbstractStatus /\ Done' = Done
      BY <3>1 DEF AbstractStatus, Done
    <3>3. \A s \in Done : taken'[s] = taken[s]
      BY <3>1 DEF Done
    <3>. QED
      BY <3>1, <3>2, <3>3, RefinedStutter
  <2>9. CASE FullyDebited(r)
    BY <2>9, <1>4 DEF FullyDebited, Pending, Open, loopVars, dbVars
  <2>10. CASE SaveIdempotency(r)
    BY <2>10, <1>4 DEF SaveIdempotency, Pending, Open, loopVars
  <2>11. CASE Commit(r)
    BY <2>11, RefinedCommit DEF W!Next, W!Answer
  <2>. QED
    BY <1>5, <2>1, <2>2, <2>3, <2>4, <2>5, <2>6, <2>7, <2>8, <2>9, <2>10,
       <2>11 DEF Step
<1>. QED
  BY <1>1, <1>2, <1>3, <1>5 DEF Next, Crash, Pending

(***************************************************************************)
(* Every call takes effect at one instant or not at all, no debit exceeds  *)
(* the balance, and a key takes effect once: PointService, with all its    *)
(* interleavings and crashes, implements Wallet (point.service.ts:184-294).*)
(***************************************************************************)
THEOREM WalletImplemented == Spec => ImplementsWallet
<1>1. Init => W!Init
  BY RefinedInit
<1>2. IInv /\ [Next]_vars => [W!Next]_W!vars
  BY RefinedNext
<1>. QED
  BY <1>1, <1>2, Invariance, PTL DEF Spec, ImplementsWallet, W!SafeSpec
=============================================================================
