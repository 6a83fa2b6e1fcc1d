---------------------------- MODULE JobTableProps ----------------------------
(***************************************************************************)
(* What the jobs table and its runners keep, and what the documents claim. *)
(***************************************************************************)
EXTENDS JobTable

(* Every variable holds a value of its type.                               *)
TypeOK ==
  /\ kind \in [Jobs -> {"callback", "unified"}]
  /\ status \in [Jobs -> Active \cup Settled \cup {"none"}]
  /\ retryCount \in [Jobs -> Nat]
  /\ due \in [Jobs -> BOOLEAN]
  /\ lockedBy \in [Jobs -> Runners \cup {NoOne}]
  /\ pc \in [Runners -> {"idle", "running", "error"}]
  /\ batch \in [Runners -> SUBSET Jobs]
  /\ outcome \in [Runners -> [Jobs -> Outcomes]]
  /\ attempts \in [Jobs -> 0 .. MaxRetries]
  /\ first \in [Jobs -> Nat]
  /\ disruptions \in 0 .. MaxDisruptions

(* The rows a runner has selected, those it is done with included.         *)
Claimed(r) == batch[r] \cup {j \in Jobs : outcome[r][j] # "none"}

(***************************************************************************)
(* Overlapping runners never work on one job: what a runner has selected   *)
(* is locked by it until its transaction ends, long after the SELECT       *)
(* (job.service.ts:447-515, job.repository.ts:96-106).                     *)
(***************************************************************************)
OneRunnerPerJob == \A r \in Runners : \A j \in Claimed(r) : lockedBy[j] = r

(***************************************************************************)
(* No call is made for a job that has settled: neither an admin who marks  *)
(* it dead nor another runner who ends it can do so between the SELECT and *)
(* the call (job.service.ts:313-331, :453-459).                            *)
(***************************************************************************)
SettledJobsStayPut ==
  [][ \A r \in Runners, j \in Jobs :
        j \in batch[r] /\ j \notin batch'[r] /\ pc'[r] = "running"
          => status[j] \in Active ]_vars

(***************************************************************************)
(* A unified job is given up on only after real attempts, as many as its   *)
(* retry count had left: batches that were rolled back and runners of the  *)
(* other kind do not use them up (job.service.ts:148-155, :474-493).  The  *)
(* code writes FAILED then, and DEAD only for an admin (:313-331), though  *)
(* job-status.enum.ts:15-20 describes the two the other way round.         *)
(***************************************************************************)
RetriesUsedUp ==
  \A j \in Jobs : status[j] = "FAILED" /\ kind[j] = "unified" =>
    /\ attempts[j] >= 1
    /\ attempts[j] + first[j] >= MaxRetries

(***************************************************************************)
(* A job is not retried for ever: one that is still active has retries     *)
(* left, unless it came with none (job.service.ts:476-493).                *)
(***************************************************************************)
RetriesBounded ==
  \A j \in Jobs : status[j] \in Active =>
    retryCount[j] < MaxRetries \/ retryCount[j] = first[j]

(***************************************************************************)
(* Every job settles: it is called until it succeeds or its retries are    *)
(* used up, once crashes and admins leave it alone (job.service.ts:446).   *)
(***************************************************************************)
JobsSettle == \A j \in Jobs : status[j] # "none" ~> status[j] \in Settled

-----------------------------------------------------------------------------
(* The inductive invariant behind the safety properties.                   *)

(* A runner that is between two calls has selected nothing.                *)
IdleHasNothing ==
  \A r \in Runners : pc[r] # "running" => Claimed(r) = {}

(* A row is executed once in a batch.                                      *)
OncePerBatch ==
  \A r \in Runners : \A j \in batch[r] : outcome[r][j] = "none"

(* A locked row is still to be settled.                                    *)
LockedIsActive == \A j \in Jobs : lockedBy[j] # NoOne => status[j] \in Active

(* The retries of a unified row that are counted were made, and so was the *)
(* one about to be counted.                                                *)
MadeAtLeast(j, n) == attempts[j] + first[j] >= n \/ attempts[j] = MaxRetries

RetriesWereMade ==
  \A j \in Jobs : kind[j] = "unified" =>
    /\ status[j] # "none" => MadeAtLeast(j, retryCount[j])
    /\ \A r \in Runners : outcome[r][j] = "failed" =>
         attempts[j] >= 1 /\ MadeAtLeast(j, retryCount[j] + 1)

IInv ==
  /\ TypeOK
  /\ OneRunnerPerJob
  /\ RetriesBounded
  /\ RetriesUsedUp
  /\ IdleHasNothing
  /\ OncePerBatch
  /\ LockedIsActive
  /\ RetriesWereMade

-----------------------------------------------------------------------------
(* Claims of the comments and documents, compared with the code.           *)

(***************************************************************************)
(* README.md:123: `CALLBACK_HTTP: Retry failed app callbacks with          *)
(* exponential backoff'.  A callback is given up on only after it was      *)
(* called.                                                                 *)
(***************************************************************************)
CallbacksAreTried ==
  \A j \in Jobs : status[j] = "FAILED" /\ kind[j] = "callback"
                    => attempts[j] >= 1
=============================================================================
