------------------------------ MODULE JobTable ------------------------------
(***************************************************************************)
(* The jobs table and the runners the schedulers start over it: runDueJobs *)
(* (the legacy HTTP callbacks) and runDueDbJobs (the unified jobs).  Both  *)
(* select from the same rows.  A runner keeps one transaction open from    *)
(* its SELECT ... FOR UPDATE to the end of its batch; the calls it makes   *)
(* to the outside on the way cannot be rolled back.                        *)
(***************************************************************************)
EXTENDS Integers, FiniteSets

CONSTANTS
  Jobs,            \* rows of the table
  Runners,         \* invocations of a runner that may overlap
  LegacyRunners,   \* those that came by runDueJobs
  MaxRetries,      \* max_retries of every row: 10 in the code
  Limit,           \* rows a runner asks for: 100 in the code
  FirstCounts,     \* retry_count a row may be inserted with
  MaxDisruptions   \* bound on crashes and admin operations together

NoOne == "none"
ASSUME JobAssumption ==
  /\ LegacyRunners \subseteq Runners
  /\ NoOne \notin Runners
  /\ MaxRetries \in Nat \ {0} /\ Limit \in Nat \ {0}
  /\ FirstCounts \subseteq Nat
  /\ MaxDisruptions \in Nat

VARIABLES
  \* the table
  kind,         \* "callback" (type, payload) or "unified" (execution_type)
  status,
  retryCount,
  due,          \* next_retry_at is not NULL and has passed
  lockedBy,     \* the runner whose transaction locks the row
  \* the runners
  pc,           \* "idle", "running", or "error" after a SELECT that threw
  batch,        \* rows a runner has selected and not come to yet
  outcome,      \* what its uncommitted UPDATEs say
  \* history
  attempts,     \* calls made for a job since it was last (re)started
  first,        \* its retry_count then
  disruptions   \* crashes and admin operations so far

table   == <<kind, status, retryCount, due>>
runners == <<pc, batch, outcome>>
vars    == <<table, lockedBy, runners, attempts, first, disruptions>>

Active  == {"PENDING", "RETRYING"}
Settled == {"SUCCEEDED", "FAILED", "DEAD"}
Outcomes == {"none", "ok", "failed", "skipped"}

Untouched == [j \in Jobs |-> "none"]

Init ==
  /\ kind = [j \in Jobs |-> "unified"]
  /\ status = [j \in Jobs |-> "none"]
  /\ retryCount = [j \in Jobs |-> 0]
  /\ due = [j \in Jobs |-> FALSE]
  /\ lockedBy = [j \in Jobs |-> NoOne]
  /\ pc = [r \in Runners |-> "idle"]
  /\ batch = [r \in Runners |-> {}]
  /\ outcome = [r \in Runners |-> Untouched]
  /\ attempts = [j \in Jobs |-> 0]
  /\ first = [j \in Jobs |-> 0]
  /\ disruptions = 0

-----------------------------------------------------------------------------
(* Rows come in, and time passes                                           *)

(* createCallbackJob and createJobInDb insert a PENDING row that is due at *)
(* once; saveFailedJobToDb a RETRYING one that is due after a delay, with  *)
(* the retry count its message carries.                                    *)
Insert(j, k, s, n) ==
  /\ status[j] = "none"
  /\ k = "callback" => s = "PENDING"
  /\ s = "PENDING" => n = 0
  /\ kind' = [kind EXCEPT ![j] = k]
  /\ status' = [status EXCEPT ![j] = s]
  /\ retryCount' = [retryCount EXCEPT ![j] = n]
  /\ due' = [due EXCEPT ![j] = (s = "PENDING")]
  /\ first' = [first EXCEPT ![j] = n]
  /\ UNCHANGED <<lockedBy, runners, attempts, disruptions>>

(* The back-off ends: next_retry_at has come.                              *)
BecomeDue(j) ==
  /\ status[j] \in Active
  /\ ~ due[j]
  /\ due' = [due EXCEPT ![j] = TRUE]
  /\ UNCHANGED <<kind, status, retryCount, lockedBy, runners, attempts, first,
                 disruptions>>

-----------------------------------------------------------------------------
(* Runners                                                                 *)

DuePendingOnly ==                           \* mutant: RETRYING left out
  {j \in Jobs : status[j] = "PENDING" /\ due[j]}
Due == {j \in Jobs : status[j] \in Active /\ due[j]}

(* The rows a SELECT comes to: Limit of those due.  Which ones come first  *)
(* by next_retry_at is left open.                                          *)
Selections ==
  {S \in SUBSET Due : Cardinality(S) <= Limit
                      /\ (Cardinality(S) < Limit => S = Due)}

(* pessimistic_write_or_fail is FOR UPDATE NOWAIT: every row must be free. *)
RowsFreeWithoutLock(S) == TRUE              \* mutant: no setLock
RowsFree(S) == \A j \in S : lockedBy[j] = NoOne

SelectDue(r) ==
  /\ pc[r] # "running"
  /\ \E S \in Selections :
       /\ S # {} /\ RowsFree(S)
       /\ batch' = [batch EXCEPT ![r] = S]
       /\ lockedBy' = [j \in Jobs |-> IF j \in S THEN r ELSE lockedBy[j]]
  /\ pc' = [pc EXCEPT ![r] = "running"]
  /\ UNCHANGED <<table, outcome, attempts, first, disruptions>>

(* `could not obtain lock on row': the whole call fails.                   *)
SelectFails(r) ==
  /\ pc[r] = "idle"
  /\ \E S \in Selections : ~ RowsFree(S)
  /\ pc' = [pc EXCEPT ![r] = "error"]
  /\ UNCHANGED <<table, lockedBy, batch, outcome, attempts, first, disruptions>>

(* executeJob throws on a unified job, and its caller goes on to the next  *)
(* row without an update; dbJobToMessage throws on a callback, and its     *)
(* caller counts a failure.  No call is made in either case.               *)
Suits(r, j) == (kind[j] = "callback") <=> (r \in LegacyRunners)

ResultsCounted(r, j) ==                     \* mutant: the throw is counted
  IF Suits(r, j) THEN {"ok", "failed"} ELSE {"failed"}
Results(r, j) ==
  IF Suits(r, j) THEN {"ok", "failed"}
  ELSE IF r \in LegacyRunners THEN {"skipped"} ELSE {"failed"}

(* One turn of the loop: the call to the outside, and the UPDATE.  The     *)
(* count of attempts stops at MaxRetries.                                  *)
Execute(r, j) ==
  /\ pc[r] = "running"
  /\ j \in batch[r]
  /\ batch' = [batch EXCEPT ![r] = @ \ {j}]
  /\ \E o \in Results(r, j) :
       outcome' = [outcome EXCEPT ![r] = [@ EXCEPT ![j] = o]]
  /\ attempts' = IF Suits(r, j) /\ attempts[j] < MaxRetries
                   THEN [attempts EXCEPT ![j] = @ + 1] ELSE attempts
  /\ UNCHANGED <<table, lockedBy, pc, first, disruptions>>

(* retryCount >= job.maxRetries                                            *)
Exhausted(n) == n >= MaxRetries

(* A retried callback keeps its status, a retried unified job is RETRYING. *)
NewStatus(r, j) ==
  CASE outcome[r][j] = "ok" -> "SUCCEEDED"
    [] outcome[r][j] = "failed" /\ Exhausted(retryCount[j] + 1) -> "FAILED"
    [] outcome[r][j] = "failed" /\ ~ Exhausted(retryCount[j] + 1)
         /\ r \notin LegacyRunners -> "RETRYING"
    [] OTHER -> status[j]

(* The transaction ends: its locks go, and so does the call.               *)
EndTransaction(r) ==
  /\ pc' = [pc EXCEPT ![r] = "idle"]
  /\ batch' = [batch EXCEPT ![r] = {}]
  /\ outcome' = [outcome EXCEPT ![r] = Untouched]
  /\ lockedBy' = [j \in Jobs |-> IF lockedBy[j] = r THEN NoOne ELSE lockedBy[j]]

CommitBatch(r) ==
  /\ pc[r] = "running"
  /\ batch[r] = {}
  /\ status' = [j \in Jobs |-> NewStatus(r, j)]
  /\ retryCount' = [j \in Jobs |-> IF outcome[r][j] = "failed"
                                     THEN retryCount[j] + 1 ELSE retryCount[j]]
  /\ due' = [j \in Jobs |-> due[j] /\ outcome[r][j] \notin {"ok", "failed"}]
  /\ EndTransaction(r)
  /\ UNCHANGED <<kind, attempts, first, disruptions>>

-----------------------------------------------------------------------------
(* Disruptions                                                             *)

Disrupted ==
  /\ disruptions < MaxDisruptions
  /\ disruptions' = disruptions + 1

(* The process is stopped, or a statement fails and with it the whole      *)
(* transaction: every update of the batch is undone, no call is.           *)
Crash(r) ==
  /\ Disrupted
  /\ pc[r] = "running"
  /\ EndTransaction(r)
  /\ UNCHANGED <<table, attempts, first>>

(* The UPDATE of an admin operation waits for the row's lock.              *)
RowWritableAtOnce(j) == status[j] # "none"  \* mutant: no lock while executing
RowWritable(j) == status[j] # "none" /\ lockedBy[j] = NoOne

(* retryJob, whatever the status is.                                       *)
Retry(j) ==
  /\ Disrupted
  /\ RowWritable(j)
  /\ status' = [status EXCEPT ![j] = "PENDING"]
  /\ retryCount' = [retryCount EXCEPT ![j] = 0]
  /\ due' = [due EXCEPT ![j] = TRUE]
  /\ attempts' = [attempts EXCEPT ![j] = 0]
  /\ first' = [first EXCEPT ![j] = 0]
  /\ UNCHANGED <<kind, lockedBy, runners>>

(* deadletterJob, whatever the status is.                                  *)
Deadletter(j) ==
  /\ Disrupted
  /\ RowWritable(j)
  /\ status' = [status EXCEPT ![j] = "DEAD"]
  /\ due' = [due EXCEPT ![j] = FALSE]
  /\ UNCHANGED <<kind, retryCount, lockedBy, runners, attempts, first>>

-----------------------------------------------------------------------------

Run(r) == (\E j \in Jobs : Execute(r, j)) \/ CommitBatch(r)

Next ==
  \/ \E j \in Jobs :
       \/ \E k \in {"callback", "unified"}, s \in Active, n \in FirstCounts :
            Insert(j, k, s, n)
       \/ BecomeDue(j) \/ Retry(j) \/ Deadletter(j)
  \/ \E r \in Runners : SelectDue(r) \/ SelectFails(r) \/ Run(r) \/ Crash(r)

(* The clock goes on, and a runner that was started comes to its end (every *)
(* call has a timeout).  runDueDbJobs is started again and again: of its    *)
(* starts that fail or find nothing some other finds the rows free, which   *)
(* is strong fairness.  Nothing is asked of the starts of the legacy runner. *)
Fairness ==
  /\ \A j \in Jobs : WF_vars(BecomeDue(j))
  /\ SF_vars(\E r \in Runners \ LegacyRunners : SelectDue(r))
  /\ \A r \in Runners : WF_vars(Run(r))

Spec == Init /\ [][Next]_vars /\ Fairness
=============================================================================
