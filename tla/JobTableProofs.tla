--------------------------- MODULE JobTableProofs ---------------------------
(***************************************************************************)
(* Proofs of the invariants of JobTable for any number of rows, runners    *)
(* and retries.                                                            *)
(***************************************************************************)
EXTENDS JobTableProps, TLAPS

USE JobAssumption DEF NoOne

LEMMA InitIInv == Init => IInv
  BY DEF Init, IInv, TypeOK, OneRunnerPerJob, Claimed, RetriesBounded,
         RetriesUsedUp, IdleHasNothing, OncePerBatch, LockedIsActive,
         RetriesWereMade, MadeAtLeast, Untouched, Outcomes, Active, Settled

-----------------------------------------------------------------------------
(* Steps that leave the runners alone                                      *)

(* A row that is inserted was nobody's.                                    *)
LEMMA InsertStep ==
  ASSUME IInv, NEW j \in Jobs, NEW k \in {"callback", "unified"},
         NEW s \in Active, NEW n \in FirstCounts, Insert(j, k, s, n)
  PROVE  IInv'
<1>. USE DEF IInv, Insert, runners, Active
<1>1. n \in Nat
  OBVIOUS
<1>2. \A r \in Runners : j \notin Claimed(r)
  BY DEF OneRunnerPerJob, LockedIsActive, TypeOK
<1>3. TypeOK'
  BY <1>1 DEF TypeOK
<1>4. OneRunnerPerJob'
  BY DEF OneRunnerPerJob, Claimed
<1>5. RetriesBounded' /\ RetriesUsedUp'
  BY <1>1 DEF RetriesBounded, RetriesUsedUp, TypeOK
<1>6. IdleHasNothing' /\ OncePerBatch'
  BY DEF IdleHasNothing, OncePerBatch, Claimed
<1>7. LockedIsActive'
  BY DEF LockedIsActive, TypeOK
<1>8. RetriesWereMade'
  BY <1>1, <1>2 DEF RetriesWereMade, MadeAtLeast, Claimed, TypeOK
<1>. QED
  BY <1>3, <1>4, <1>5, <1>6, <1>7, <1>8

LEMMA BecomeDueStep ==
  ASSUME IInv, NEW j \in Jobs, BecomeDue(j)
  PROVE  IInv'
  BY DEF IInv, BecomeDue, runners, TypeOK, OneRunnerPerJob, Claimed,
         RetriesBounded, RetriesUsedUp, IdleHasNothing, OncePerBatch,
         LockedIsActive, RetriesWereMade, MadeAtLeast

(* An admin operation waits for the lock, so the row is nobody's either.   *)
LEMMA FreeIsUnclaimed ==
  ASSUME IInv, NEW j \in Jobs, RowWritable(j)
  PROVE  \A r \in Runners : j \notin batch[r] /\ outcome[r][j] = "none"
  BY DEF IInv, RowWritable, OneRunnerPerJob, Claimed, TypeOK

LEMMA RetryStep ==
  ASSUME IInv, NEW j \in Jobs, Retry(j)
  PROVE  IInv'
<1>. USE DEF IInv, Retry, runners, Active
<1>1. \A r \in Runners : j \notin batch[r] /\ outcome[r][j] = "none"
  BY FreeIsUnclaimed
<1>2. TypeOK'
  BY DEF TypeOK, Disrupted
<1>3. OneRunnerPerJob' /\ IdleHasNothing' /\ OncePerBatch'
  BY DEF OneRunnerPerJob, IdleHasNothing, OncePerBatch, Claimed
<1>4. RetriesBounded' /\ RetriesUsedUp'
  BY DEF RetriesBounded, RetriesUsedUp, TypeOK
<1>5. LockedIsActive'
  BY DEF LockedIsActive, TypeOK
<1>6. RetriesWereMade'
  BY <1>1 DEF RetriesWereMade, MadeAtLeast, TypeOK
<1>. QED
  BY <1>2, <1>3, <1>4, <1>5, <1>6

LEMMA DeadletterStep ==
  ASSUME IInv, NEW j \in Jobs, Deadletter(j)
  PROVE  IInv'
<1>. USE DEF IInv, Deadletter, runners, Active
<1>1. TypeOK'
  BY DEF TypeOK, Disrupted, Settled
<1>2. OneRunnerPerJob' /\ IdleHasNothing' /\ OncePerBatch'
  BY DEF OneRunnerPerJob, IdleHasNothing, OncePerBatch, Claimed
<1>3. RetriesBounded' /\ RetriesUsedUp'
  BY DEF RetriesBounded, RetriesUsedUp, TypeOK
<1>4. LockedIsActive'
  BY DEF LockedIsActive, RowWritable, TypeOK
<1>5. RetriesWereMade'
  BY DEF RetriesWereMade, MadeAtLeast, TypeOK, RowWritable
<1>. QED
  BY <1>1, <1>2, <1>3, <1>4, <1>5

-----------------------------------------------------------------------------
(* Steps of a runner                                                       *)

(* The rows selected were free, and are active.                            *)
LEMMA SelectDueStep ==
  ASSUME IInv, NEW r \in Runners, SelectDue(r)
  PROVE  IInv'
<1>. USE DEF IInv, table
<1>1. PICK S \in Selections :
        /\ RowsFree(S)
        /\ batch' = [batch EXCEPT ![r] = S]
        /\ lockedBy' = [j \in Jobs |-> IF j \in S THEN r ELSE lockedBy[j]]
  BY DEF SelectDue
<1>2. /\ pc[r] # "running" /\ pc' = [pc EXCEPT ![r] = "running"]
      /\ UNCHANGED <<kind, status, retryCount, due, outcome, attempts, first,
                     disruptions>>
  BY DEF SelectDue
<1>3. S \subseteq Jobs /\ \A j \in S : status[j] \in Active
  BY DEF Selections, Due
<1>4. \A j \in S : lockedBy[j] = NoOne
  BY <1>1 DEF RowsFree
<1>5. batch[r] = {} /\ \A j \in Jobs : outcome[r][j] = "none"
  BY <1>2 DEF IdleHasNothing, Claimed
<1>6. batch'[r] = S /\ \A q \in Runners : q # r => batch'[q] = batch[q]
  BY <1>1 DEF TypeOK
<1>7. TypeOK'
  BY <1>1, <1>2, <1>3 DEF TypeOK
<1>8. OneRunnerPerJob'
  <2>1. ASSUME NEW q \in Runners, NEW j \in Claimed(q)' PROVE lockedBy'[j] = q
    <3>1. CASE q = r
      BY <3>1, <1>1, <1>2, <1>3, <1>5, <1>6 DEF Claimed
    <3>2. CASE q # r
      <4>1. j \in Claimed(q) /\ j \in Jobs
        BY <3>2, <1>2, <1>6 DEF Claimed, TypeOK
      <4>2. lockedBy[j] = q
        BY <4>1 DEF OneRunnerPerJob
      <4>. QED
        BY <4>1, <4>2, <1>1, <1>4
    <3>. QED
      BY <3>1, <3>2
  <2>. QED
    BY <2>1 DEF OneRunnerPerJob
<1>9. RetriesBounded' /\ RetriesUsedUp' /\ RetriesWereMade'
  BY <1>2 DEF RetriesBounded, RetriesUsedUp, RetriesWereMade, MadeAtLeast
<1>10. IdleHasNothing'
  BY <1>2, <1>6 DEF IdleHasNothing, Claimed, TypeOK
<1>11. OncePerBatch'
  BY <1>2, <1>3, <1>5, <1>6 DEF OncePerBatch
<1>12. LockedIsActive'
  BY <1>1, <1>2, <1>3 DEF LockedIsActive
<1>. QED
  BY <1>7, <1>8, <1>9, <1>10, <1>11, <1>12

LEMMA SelectFailsStep ==
  ASSUME IInv, NEW r \in Runners, SelectFails(r)
  PROVE  IInv'
  BY DEF IInv, SelectFails, table, TypeOK, OneRunnerPerJob, Claimed,
         RetriesBounded, RetriesUsedUp, IdleHasNothing, OncePerBatch,
         LockedIsActive, RetriesWereMade, MadeAtLeast

(* A call is made before its failure is counted.                           *)
LEMMA ExecuteStep ==
  ASSUME IInv, NEW r \in Runners, NEW j \in Jobs, Execute(r, j)
  PROVE  IInv'
<1>. USE DEF IInv, table
<1>1. PICK o \in Results(r, j) :
        outcome' = [outcome EXCEPT ![r] = [@ EXCEPT ![j] = o]]
  BY DEF Execute
<1>2. /\ pc[r] = "running" /\ j \in batch[r]
      /\ batch' = [batch EXCEPT ![r] = @ \ {j}]
      /\ UNCHANGED <<kind, status, retryCount, due, lockedBy, pc, first,
                     disruptions>>
  BY DEF Execute
<1>3. o \in Outcomes /\ o # "none"
  BY <1>1 DEF Results, Outcomes
<1>4. /\ attempts' \in [Jobs -> 0 .. MaxRetries]
      /\ \A i \in Jobs : attempts'[i] >= attempts[i]
  BY DEF Execute, TypeOK
<1>5. /\ batch'[r] = batch[r] \ {j}
      /\ \A q \in Runners : q # r => batch'[q] = batch[q] /\ outcome'[q] = outcome[q]
      /\ outcome'[r] = [outcome[r] EXCEPT ![j] = o]
  BY <1>1, <1>2 DEF TypeOK
<1>6. TypeOK'
  BY <1>1, <1>2, <1>3, <1>4 DEF TypeOK
<1>7. OneRunnerPerJob'
  <2>1. ASSUME NEW q \in Runners PROVE Claimed(q)' \subseteq Claimed(q)
    BY <1>2, <1>5 DEF Claimed, TypeOK
  <2>. QED
    BY <2>1, <1>2 DEF OneRunnerPerJob
<1>8. RetriesBounded' /\ LockedIsActive'
  BY <1>2 DEF RetriesBounded, LockedIsActive
<1>9. RetriesUsedUp'
  BY <1>2, <1>4, <1>6 DEF RetriesUsedUp, TypeOK
<1>10. IdleHasNothing'
  BY <1>2, <1>5 DEF IdleHasNothing, Claimed
<1>11. OncePerBatch'
  BY <1>2, <1>3, <1>5 DEF OncePerBatch, TypeOK
<1>12. RetriesWereMade'
  <2>1. ASSUME NEW i \in Jobs, NEW n \in Nat, MadeAtLeast(i, n)
        PROVE  MadeAtLeast(i, n)'
    BY <2>1, <1>2, <1>4 DEF MadeAtLeast, TypeOK
  <2>2. ASSUME NEW i \in Jobs, kind[i] = "unified", status[i] # "none"
        PROVE  MadeAtLeast(i, retryCount[i])'
    BY <2>1, <2>2, <1>2 DEF RetriesWereMade, TypeOK, MadeAtLeast
  <2>3. ASSUME NEW i \in Jobs, kind[i] = "unified", NEW q \in Runners,
               outcome'[q][i] = "failed"
        PROVE  attempts'[i] >= 1 /\ MadeAtLeast(i, retryCount[i] + 1)'
    <3>1. CASE q = r /\ i = j
      <4>1. o = "failed"
        BY <3>1, <2>3, <1>5 DEF TypeOK
      <4>2. Suits(r, j)
        BY <4>1, <3>1, <2>3, <1>1 DEF Results, Suits
      <4>3. attempts' = IF attempts[j] < MaxRetries
                          THEN [attempts EXCEPT ![j] = @ + 1] ELSE attempts
        BY <4>2 DEF Execute
      <4>4. status[j] # "none"
        BY <1>2 DEF OneRunnerPerJob, Claimed, LockedIsActive, Active
      <4>5. MadeAtLeast(j, retryCount[j])
        BY <4>4, <3>1, <2>3 DEF RetriesWereMade
      <4>6. /\ attempts[j] \in 0 .. MaxRetries
            /\ first[j] \in Nat /\ retryCount[j] \in Nat
        BY DEF TypeOK
      <4>7. CASE attempts[j] < MaxRetries
        <5>1. attempts'[j] = attempts[j] + 1
          BY <4>7, <4>3 DEF TypeOK
        <5>2. attempts[j] + first[j] >= retryCount[j]
          BY <4>5, <4>6, <4>7 DEF MadeAtLeast
        <5>. QED
          BY <5>1, <5>2, <4>6, <3>1, <1>2 DEF MadeAtLeast
      <4>8. CASE ~ (attempts[j] < MaxRetries)
        BY <4>8, <4>3, <4>6, <3>1 DEF MadeAtLeast
      <4>. QED
        BY <4>7, <4>8
    <3>2. CASE ~ (q = r /\ i = j)
      <4>1. outcome[q][i] = "failed"
        BY <3>2, <2>3, <1>5 DEF TypeOK
      <4>2. attempts[i] >= 1 /\ MadeAtLeast(i, retryCount[i] + 1)
        BY <4>1, <2>3 DEF RetriesWereMade
      <4>. QED
        BY <4>2, <1>2, <1>4 DEF MadeAtLeast, TypeOK
    <3>. QED
      BY <3>1, <3>2
  <2>. QED
    BY <2>2, <2>3, <1>2 DEF RetriesWereMade, MadeAtLeast
<1>. QED
  BY <1>6, <1>7, <1>8, <1>9, <1>10, <1>11, <1>12

(* Whoever ends his transaction has nothing any more; the others keep what *)
(* they have.                                                              *)
LEMMA EndTransactionStep ==
  ASSUME TypeOK, OneRunnerPerJob, IdleHasNothing, OncePerBatch,
         NEW r \in Runners, EndTransaction(r)
  PROVE  /\ OneRunnerPerJob' /\ IdleHasNothing' /\ OncePerBatch'
         /\ pc' \in [Runners -> {"idle", "running", "error"}]
         /\ batch' \in [Runners -> SUBSET Jobs]
         /\ outcome' \in [Runners -> [Jobs -> Outcomes]]
         /\ lockedBy' \in [Jobs -> Runners \cup {NoOne}]
         /\ \A j \in Jobs : outcome'[r][j] = "none"
         /\ \A q \in Runners : q # r => outcome'[q] = outcome[q]
         /\ \A j \in Jobs : lockedBy'[j] # NoOne =>
              lockedBy[j] # r /\ lockedBy[j] # NoOne
<1>. USE DEF EndTransaction, TypeOK
<1>1. /\ batch'[r] = {} /\ outcome'[r] = Untouched
      /\ \A q \in Runners : q # r => /\ batch'[q] = batch[q]
                                     /\ outcome'[q] = outcome[q]
                                     /\ pc'[q] = pc[q]
  OBVIOUS
<1>2. Claimed(r)' = {}
  BY <1>1 DEF Claimed, Untouched
<1>3. ASSUME NEW q \in Runners, q # r PROVE Claimed(q)' = Claimed(q)
  BY <1>1, <1>3 DEF Claimed
<1>4. OneRunnerPerJob'
  BY <1>2, <1>3 DEF OneRunnerPerJob, Claimed
<1>5. IdleHasNothing'
  BY <1>1, <1>2, <1>3 DEF IdleHasNothing
<1>6. OncePerBatch'
  BY <1>1 DEF OncePerBatch
<1>. QED
  BY <1>1, <1>4, <1>5, <1>6 DEF Untouched, Outcomes

LEMMA CrashStep ==
  ASSUME IInv, NEW r \in Runners, Crash(r)
  PROVE  IInv'
<1>. USE DEF IInv, Crash, table
<1>1. /\ OneRunnerPerJob' /\ IdleHasNothing' /\ OncePerBatch'
      /\ pc' \in [Runners -> {"idle", "running", "error"}]
      /\ batch' \in [Runners -> SUBSET Jobs]
      /\ outcome' \in [Runners -> [Jobs -> Outcomes]]
      /\ lockedBy' \in [Jobs -> Runners \cup {NoOne}]
      /\ \A j \in Jobs : outcome'[r][j] = "none"
      /\ \A q \in Runners : q # r => outcome'[q] = outcome[q]
      /\ \A j \in Jobs : lockedBy'[j] # NoOne => lockedBy[j] # NoOne
  BY EndTransactionStep
<1>2. TypeOK'
  BY <1>1 DEF TypeOK, Disrupted
<1>3. RetriesBounded' /\ RetriesUsedUp'
  BY DEF RetriesBounded, RetriesUsedUp
<1>4. LockedIsActive'
  BY <1>1 DEF LockedIsActive
<1>5. RetriesWereMade'
  BY <1>1 DEF RetriesWereMade, MadeAtLeast
<1>. QED
  BY <1>1, <1>2, <1>3, <1>4, <1>5

(* What a runner settles is locked by it, so nobody else works on it.      *)
LEMMA CommitBatchStep ==
  ASSUME IInv, NEW r \in Runners, CommitBatch(r)
  PROVE  IInv'
<1>. USE DEF IInv
<1>1. /\ OneRunnerPerJob' /\ IdleHasNothing' /\ OncePerBatch'
      /\ pc' \in [Runners -> {"idle", "running", "error"}]
      /\ batch' \in [Runners -> SUBSET Jobs]
      /\ outcome' \in [Runners -> [Jobs -> Outcomes]]
      /\ lockedBy' \in [Jobs -> Runners \cup {NoOne}]
      /\ \A j \in Jobs : outcome'[r][j] = "none"
      /\ \A q \in Runners : q # r => outcome'[q] = outcome[q]
      /\ \A j \in Jobs : lockedBy'[j] # NoOne =>
           lockedBy[j] # r /\ lockedBy[j] # NoOne
  BY EndTransactionStep DEF CommitBatch
<1>2. /\ status' = [j \in Jobs |-> NewStatus(r, j)]
      /\ retryCount' = [j \in Jobs |-> IF outcome[r][j] = "failed"
                                         THEN retryCount[j] + 1
                                         ELSE retryCount[j]]
      /\ due' = [j \in Jobs |-> due[j] /\ outcome[r][j] \notin {"ok", "failed"}]
      /\ UNCHANGED <<kind, attempts, first, disruptions>>
  BY DEF CommitBatch
<1>3. ASSUME NEW j \in Jobs
      PROVE  /\ outcome[r][j] = "ok" => NewStatus(r, j) = "SUCCEEDED"
             /\ outcome[r][j] = "failed" /\ retryCount[j] + 1 >= MaxRetries
                  => NewStatus(r, j) = "FAILED"
             /\ outcome[r][j] = "failed" /\ ~ (retryCount[j] + 1 >= MaxRetries)
                  => NewStatus(r, j) \in {"RETRYING", status[j]}
             /\ outcome[r][j] \notin {"ok", "failed"}
                  => NewStatus(r, j) = status[j]
  BY DEF NewStatus, Exhausted
<1>4. TypeOK'
  <2>1. \A j \in Jobs : NewStatus(r, j) \in Active \cup Settled \cup {"none"}
    BY <1>3 DEF TypeOK, Active, Settled
  <2>2. status' \in [Jobs -> Active \cup Settled \cup {"none"}]
    BY <2>1, <1>2
  <2>3. retryCount' \in [Jobs -> Nat] /\ due' \in [Jobs -> BOOLEAN]
    BY <1>2 DEF TypeOK
  <2>. QED
    BY <1>1, <1>2, <2>2, <2>3 DEF TypeOK
<1>5. ASSUME NEW j \in Jobs, outcome[r][j] # "none"
      PROVE  lockedBy[j] = r /\ status[j] \in Active
  BY <1>5 DEF OneRunnerPerJob, Claimed, LockedIsActive
<1>6. RetriesBounded'
  <2>. SUFFICES ASSUME NEW j \in Jobs, status'[j] \in Active
                PROVE  retryCount'[j] < MaxRetries \/ retryCount'[j] = first'[j]
    BY DEF RetriesBounded
  <2>1. CASE outcome[r][j] = "failed"
    <3>1. ~ (retryCount[j] + 1 >= MaxRetries)
      BY <2>1, <1>2, <1>3 DEF Active
    <3>. QED
      BY <3>1, <2>1, <1>2 DEF TypeOK
  <2>2. CASE outcome[r][j] = "ok"
    BY <2>2, <1>2, <1>3 DEF Active
  <2>3. CASE outcome[r][j] \notin {"ok", "failed"}
    BY <2>3, <1>2, <1>3 DEF RetriesBounded
  <2>. QED
    BY <2>1, <2>2, <2>3
<1>7. RetriesUsedUp'
  <2>. SUFFICES ASSUME NEW j \in Jobs, status'[j] = "FAILED", kind[j] = "unified"
                PROVE  attempts[j] >= 1 /\ attempts[j] + first[j] >= MaxRetries
    BY <1>2 DEF RetriesUsedUp
  <2>1. CASE outcome[r][j] = "failed"
    <3>1. attempts[j] >= 1 /\ MadeAtLeast(j, retryCount[j] + 1)
      BY <2>1 DEF RetriesWereMade
    <3>2. retryCount[j] + 1 >= MaxRetries
      BY <2>1, <1>2, <1>3, <1>5 DEF Active
    <3>. QED
      BY <3>1, <3>2 DEF MadeAtLeast, TypeOK
  <2>2. CASE outcome[r][j] = "ok"
    BY <2>2, <1>2, <1>3
  <2>3. CASE outcome[r][j] \notin {"ok", "failed"}
    BY <2>3, <1>2, <1>3 DEF RetriesUsedUp
  <2>. QED
    BY <2>1, <2>2, <2>3
<1>8. LockedIsActive'
  <2>. SUFFICES ASSUME NEW j \in Jobs, lockedBy'[j] # NoOne
                PROVE  status'[j] \in Active
    BY DEF LockedIsActive
  <2>1. lockedBy[j] # r /\ status[j] \in Active
    BY <1>1 DEF LockedIsActive
  <2>2. outcome[r][j] = "none"
    BY <2>1, <1>5
  <2>. QED
    BY <2>1, <2>2, <1>2, <1>3
<1>9. RetriesWereMade'
  <2>. SUFFICES ASSUME NEW j \in Jobs, kind[j] = "unified"
                PROVE  /\ status'[j] # "none" => MadeAtLeast(j, retryCount[j])'
                       /\ \A q \in Runners : outcome'[q][j] = "failed" =>
                            /\ attempts[j] >= 1
                            /\ MadeAtLeast(j, retryCount[j] + 1)'
    BY <1>2 DEF RetriesWereMade
  <2>1. CASE outcome[r][j] = "failed"
    <3>1. retryCount'[j] = retryCount[j] + 1
      BY <2>1, <1>2
    <3>2. MadeAtLeast(j, retryCount[j] + 1)
      BY <2>1 DEF RetriesWereMade
    <3>3. \A q \in Runners : outcome'[q][j] # "failed"
      BY <2>1, <1>1, <1>5 DEF OneRunnerPerJob, Claimed
    <3>. QED
      BY <3>1, <3>2, <3>3, <1>2 DEF MadeAtLeast
  <2>2. CASE outcome[r][j] # "failed"
    <3>1. retryCount'[j] = retryCount[j]
      BY <2>2, <1>2
    <3>2. status'[j] # "none" => status[j] # "none"
      BY <2>2, <1>2, <1>3, <1>5 DEF Active
    <3>. QED
      BY <3>1, <3>2, <1>1, <1>2 DEF RetriesWereMade, MadeAtLeast
  <2>. QED
    BY <2>1, <2>2
<1>. QED
  BY <1>1, <1>4, <1>6, <1>7, <1>8, <1>9

-----------------------------------------------------------------------------

LEMMA NextIInv == IInv /\ [Next]_vars => IInv'
<1>. SUFFICES ASSUME IInv, [Next]_vars PROVE IInv'
  OBVIOUS
<1>1. CASE \E j \in Jobs, k \in {"callback", "unified"}, s \in Active,
              n \in FirstCounts : Insert(j, k, s, n)
  BY <1>1, InsertStep
<1>2. CASE \E j \in Jobs : BecomeDue(j) \/ Retry(j) \/ Deadletter(j)
  BY <1>2, BecomeDueStep, RetryStep, DeadletterStep
<1>3. CASE \E r \in Runners : SelectDue(r) \/ SelectFails(r)
  BY <1>3, SelectDueStep, SelectFailsStep
<1>4. CASE \E r \in Runners : Run(r)
  BY <1>4, ExecuteStep, CommitBatchStep DEF Run
<1>5. CASE \E r \in Runners : Crash(r)
  BY <1>5, CrashStep
<1>6. CASE UNCHANGED vars
  BY <1>6 DEF IInv, vars, table, runners, TypeOK, OneRunnerPerJob, Claimed,
              RetriesBounded, RetriesUsedUp, IdleHasNothing, OncePerBatch,
              LockedIsActive, RetriesWereMade, MadeAtLeast
<1>. QED
  BY <1>1, <1>2, <1>3, <1>4, <1>5, <1>6 DEF Next

(* The inductive invariant, for any rows, runners and number of retries.   *)
THEOREM Invariance == Spec => []IInv
  BY InitIInv, NextIInv, PTL DEF Spec

(* Every variable keeps its type.                                          *)
THEOREM TypeCorrect == Spec => []TypeOK
<1>1. IInv => TypeOK
  BY DEF IInv
<1>. QED
  BY <1>1, Invariance, PTL

(* Runners that overlap never work on one job (job.service.ts:447-515).    *)
THEOREM RunnersExclusive == Spec => []OneRunnerPerJob
<1>1. IInv => OneRunnerPerJob
  BY DEF IInv
<1>. QED
  BY <1>1, Invariance, PTL

(* A unified job is given up on after as many attempts as it had retries,  *)
(* whatever was rolled back in between (job.service.ts:474-493).           *)
THEOREM NoRetryWasted == Spec => []RetriesUsedUp
<1>1. IInv => RetriesUsedUp
  BY DEF IInv
<1>. QED
  BY <1>1, Invariance, PTL

(* A job that is still active has retries left (job.service.ts:476-493).   *)
THEOREM NoRetryForEver == Spec => []RetriesBounded
<1>1. IInv => RetriesBounded
  BY DEF IInv
<1>. QED
  BY <1>1, Invariance, PTL

(* No call is made for a job that has settled (job.service.ts:453-459).    *)
THEOREM NoCallAfterSettled == Spec => SettledJobsStayPut
<1>. DEFINE A == \A r \in Runners, j \in Jobs :
                   j \in batch[r] /\ j \notin batch'[r] /\ pc'[r] = "running"
                     => status[j] \in Active
<1>1. IInv /\ [Next]_vars => [A]_vars
  <2>. SUFFICES ASSUME IInv, NEW r \in Runners, NEW j \in Jobs, j \in batch[r]
                PROVE  status[j] \in Active
    OBVIOUS
  <2>. QED
    BY DEF IInv, OneRunnerPerJob, Claimed, LockedIsActive
<1>. QED
  BY <1>1, Invariance, PTL DEF Spec, SettledJobsStayPut
=============================================================================
