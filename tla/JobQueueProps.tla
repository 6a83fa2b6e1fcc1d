---------------------------- MODULE JobQueueProps ----------------------------
(***************************************************************************)
(* What the way through SQS keeps, and that it uses the jobs table only as *)
(* JobTable says.                                                          *)
(***************************************************************************)
EXTENDS JobQueue

(* Every variable of this module holds a value of its type.                *)
QTypeOK ==
  /\ created \in [Messages -> {"no", "db", "sqs", "bridged", "sent", "both",
                               "lost", "scheduled"}]
  /\ sent \in Nat /\ place \in [Messages -> 0 .. sent]
  /\ queue \subseteq Messages
  /\ inFlight \in [Messages -> Pollers \cup {NoOne}]
  /\ work \in [Pollers -> SUBSET Messages]
  /\ current \in [Pollers -> Messages \cup {NoOne}]
  /\ stage \in [Pollers -> {"process", "delete", "save"}]
  /\ origin \in [Jobs -> Messages \cup {NoOne}]
  /\ faults \in 0 .. MaxFaults
  /\ succeeded \cup tried \subseteq Messages

(* What was sent to SQS.                                                   *)
Queued ==
  {m \in Messages : created[m] \in {"sqs", "bridged", "sent", "both", "lost"}}

(***************************************************************************)
(* A message leaves the queue only after a call for it has succeeded,      *)
(* whatever fails, crashes or times out on the way                         *)
(* (job.service.ts:401-435).                                               *)
(***************************************************************************)
NoMessageLost == \A m \in Queued : m \in queue \cup succeeded

(***************************************************************************)
(* The messages of a group are tried in the order they were sent, although *)
(* the failure of one does not hold up the next and pollers overlap        *)
(* (job.service.ts:396-436).                                               *)
(***************************************************************************)
FirstTriesInOrder ==
  \A i \in tried, h \in Queued :
    Group[h] = Group[i] /\ place[h] < place[i] => h \in tried

(***************************************************************************)
(* A row made of a message that only went through SQS tells of a call that *)
(* was made for it, and counts no retry as used that the message did not   *)
(* bring as used: not the failed call either (job.service.ts:424-427,      *)
(* :638-641).                                                              *)
(***************************************************************************)
RowsTellOfCalls ==
  \A j \in Jobs : origin[j] # NoOne /\ created[origin[j]] \in {"sqs", "bridged"} =>
    origin[j] \in tried /\ first[j] \in {0, RetryCount(origin[j])}

(***************************************************************************)
(* Creating, polling and scheduling touch the table as JobTable allows it, *)
(* so that what is shown of its rows and runners holds of rows that come   *)
(* from the queue (job.service.ts:340-366, :424-427, :522-586, :615-653).  *)
(***************************************************************************)
TableSpec == Init /\ [][Next]_vars

-----------------------------------------------------------------------------
(* The inductive invariant                                                 *)

(* What was sent has a place, and so has what was tried.                   *)
PlacesOfSent ==
  /\ \A m \in Messages : place[m] # 0 <=> m \in Queued
  /\ queue \cup tried \subseteq Queued

(* A poller deletes only what has succeeded, and saves what was tried.     *)
PollersKnow ==
  \A p \in Pollers :
    /\ stage[p] # "process" => current[p] \in tried
    /\ stage[p] = "delete" => current[p] \in succeeded

(* Whatever comes before a message of a batch was tried, or is in the same *)
(* batch; what left the queue was tried.                                   *)
NothingPassedOver ==
  /\ Queued \ queue \subseteq tried
  /\ \A p \in Pollers : work[p] \subseteq Queued
  /\ \A p \in Pollers, h \in Queued : \A i \in work[p] :
       Group[h] = Group[i] /\ place[h] < place[i] => h \in work[p] \cup tried

(* A row is made of a message in its creation or after it, with the retry  *)
(* count of the message, until retryJob sets it back.                      *)
OriginsCreated ==
  /\ first \in [Jobs -> Nat]
  /\ \A j \in Jobs : origin[j] # NoOne =>
       created[origin[j]] # "no" /\ first[j] \in {0, RetryCount(origin[j])}

(***************************************************************************)
(* The above, with the types and the properties: what a poller does next   *)
(* still rests on what it has received and called (job.service.ts:377-439).*)
(***************************************************************************)
QInv ==
  /\ QTypeOK
  /\ PlacesOfSent
  /\ PollersKnow
  /\ NothingPassedOver
  /\ OriginsCreated
  /\ NoMessageLost
  /\ FirstTriesInOrder
  /\ RowsTellOfCalls
=============================================================================
