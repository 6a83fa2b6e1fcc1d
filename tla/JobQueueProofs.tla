--------------------------- MODULE JobQueueProofs ---------------------------
(***************************************************************************)
(* Proofs of the invariants of JobQueue for any number of messages, groups,*)
(* pollers, rows and runners, and that it implements JobTable: what is     *)
(* proved of the table and its runners holds of rows that come from SQS.   *)
(***************************************************************************)
EXTENDS JobQueueProps, JobTableProofs

USE QueueAssumption

LEMMA InitQInv == QInit => QInv
  BY JobAssumption
  DEF QInit, Init, QInv, QTypeOK, PlacesOfSent, PollersKnow, NothingPassedOver,
      OriginsCreated, Queued, NoMessageLost, FirstTriesInOrder, RowsTellOfCalls

-----------------------------------------------------------------------------
(* The table                                                               *)

(* What a step does to the table is a step of the table's own.             *)
LEMMA InsertIsNext ==
  ASSUME NEW m \in Messages, NEW s \in Active, NEW n \in FirstCounts,
         InsertFor(m, s, n)
  PROVE  Next
<1>1. PICK j \in Jobs : Insert(j, "unified", s, n)
  BY DEF InsertFor
<1>. QED
  BY <1>1 DEF Next

(* The retry count of a message is one a row may come with.                *)
LEMMA RetryCounts ==
  ASSUME NEW m \in Messages
  PROVE  /\ RetryCount(m) \in FirstCounts /\ Brought[m] \in FirstCounts
         /\ RetryCount(m) \in Nat /\ Brought[m] \in Nat
  BY JobAssumption DEF RetryCount

(* What a step leaves of the rows: each tells of the message it told of,   *)
(* or of the given one with the given retry count.                         *)
RowsKeptOr(m, n) ==
  /\ origin' \in [Jobs -> Messages \cup {NoOne}]
  /\ first' \in [Jobs -> Nat]
  /\ \A j \in Jobs :
       \/ origin'[j] = origin[j] /\ first'[j] = first[j]
       \/ origin'[j] = m /\ first'[j] = n

(* A row made of a message tells of it from then on.                       *)
LEMMA Inserting ==
  ASSUME QInv, NEW m \in Messages, NEW s \in Active, NEW n \in Nat,
         InsertFor(m, s, n)
  PROVE  RowsKeptOr(m, n)
<1>1. PICK j \in Jobs : /\ Insert(j, "unified", s, n)
                        /\ origin' = [origin EXCEPT ![j] = m]
  BY DEF InsertFor
<1>2. origin \in [Jobs -> Messages \cup {NoOne}] /\ first \in [Jobs -> Nat]
  BY DEF QInv, QTypeOK, OriginsCreated
<1>3. origin' \in [Jobs -> Messages \cup {NoOne}] /\ first' \in [Jobs -> Nat]
  BY <1>1, <1>2 DEF Insert
<1>4. \A i \in Jobs :
        \/ origin'[i] = origin[i] /\ first'[i] = first[i]
        \/ origin'[i] = m /\ first'[i] = n
  BY <1>1, <1>2 DEF Insert
<1>. QED
  BY <1>3, <1>4 DEF RowsKeptOr

(* A step that leaves the rows alone.                                      *)
LEMMA Keeping ==
  ASSUME QInv, NEW m, NEW n, UNCHANGED <<vars, origin>>
  PROVE  RowsKeptOr(m, n)
<1>1. origin' = origin /\ first' = first
  BY DEF vars
<1>2. origin \in [Jobs -> Messages \cup {NoOne}] /\ first \in [Jobs -> Nat]
  BY DEF QInv, QTypeOK, OriginsCreated
<1>. QED
  BY <1>1, <1>2, Zenon DEF RowsKeptOr

(* The runners and the clock leave retry counts alone or set them to 0.    *)
LEMMA RunTableStep ==
  ASSUME QInv, RunTable
  PROVE  QInv'
<1>1. /\ first' \in [Jobs -> Nat]
      /\ \A j \in Jobs : first'[j] \in {0, first[j]}
  <2>1. CASE \E j \in Jobs : BecomeDue(j) \/ Retry(j) \/ Deadletter(j)
    BY <2>1 DEF QInv, OriginsCreated, BecomeDue, Retry, Deadletter
  <2>2. CASE \E r \in Runners : SelectDue(r) \/ SelectFails(r) \/ Run(r) \/ Crash(r)
    BY <2>2 DEF QInv, OriginsCreated, SelectDue, SelectFails, Run, Execute,
                CommitBatch, Crash
  <2>. QED
    BY <2>1, <2>2 DEF RunTable
<1>2. UNCHANGED queueVars
  BY DEF RunTable
<1>. QED
  BY <1>1, <1>2
  DEF queueVars, sqs, pollers, history, QInv, QTypeOK, PlacesOfSent, PollersKnow,
      NothingPassedOver, OriginsCreated, RetryCount, Queued, NoMessageLost,
      FirstTriesInOrder, RowsTellOfCalls

-----------------------------------------------------------------------------
(* Creating jobs                                                           *)

(* A step that only moves the creation of a message on, between two states *)
(* that are both queued or both not, and may make a row of it.             *)
LEMMA CreationStep ==
  ASSUME QInv, NEW m \in Messages,
         NEW c \in {"db", "both", "lost", "scheduled"},
         created' = [created EXCEPT ![m] = c],
         c \in {"both", "lost"} <=> created[m] = "sent",
         c \in {"db", "scheduled"} <=> created[m] = "no",
         RowsKeptOr(m, IF c = "scheduled" THEN Brought[m] ELSE 0),
         faults' \in 0 .. MaxFaults,
         succeeded \subseteq succeeded', succeeded' \subseteq Messages,
         UNCHANGED <<sqs, pollers, tried>>
  PROVE  QInv'
<1>. USE DEF QInv, sqs, pollers
<1>1. Queued' = Queued
  BY DEF Queued, QTypeOK
<1>2. QTypeOK'
  BY DEF QTypeOK, RowsKeptOr
<1>3. PlacesOfSent' /\ NothingPassedOver'
  BY <1>1 DEF PlacesOfSent, NothingPassedOver
<1>4. PollersKnow' /\ NoMessageLost' /\ FirstTriesInOrder'
  BY <1>1 DEF PollersKnow, NoMessageLost, FirstTriesInOrder
<1>5. OriginsCreated'
  <2>1. RetryCount(m)' = IF c = "scheduled" THEN Brought[m] ELSE 0
    BY DEF RetryCount, QTypeOK
  <2>2. created'[m] # "no"
    BY DEF QTypeOK
  <2>3. ASSUME NEW j \in Jobs, origin'[j] # NoOne
        PROVE  created'[origin'[j]] # "no" /\ first'[j] \in {0, RetryCount(origin[j])'}
    <3>1. CASE origin'[j] = origin[j] /\ first'[j] = first[j]
      <4>1. origin[j] \in Messages /\ created[origin[j]] # "no"
            /\ first[j] \in {0, RetryCount(origin[j])}
        BY <3>1, <2>3 DEF OriginsCreated, QTypeOK
      <4>2. created'[origin[j]] # "no"
        BY <4>1, <2>2 DEF QTypeOK
      <4>. QED
        BY <3>1, <4>1, <4>2 DEF RetryCount, QTypeOK
    <3>2. CASE origin'[j] = m /\ first'[j] = IF c = "scheduled" THEN Brought[m] ELSE 0
      BY <3>2, <2>1, <2>2
    <3>. QED
      BY <3>1, <3>2 DEF RowsKeptOr
  <2>. QED
    BY <2>3 DEF OriginsCreated, RowsKeptOr
<1>6. RowsTellOfCalls'
  <2>1. ASSUME NEW j \in Jobs, origin'[j] # NoOne,
               created'[origin'[j]] \in {"sqs", "bridged"}
        PROVE  origin'[j] \in tried'
    BY <2>1 DEF RowsKeptOr, RowsTellOfCalls, OriginsCreated, QTypeOK
  <2>. QED
    BY <2>1, <1>5 DEF RowsTellOfCalls, OriginsCreated
<1>. QED
  BY <1>2, <1>3, <1>4, <1>5, <1>6

LEMMA CreateInDbStep ==
  ASSUME QInv, NEW m \in Messages, CreateInDb(m)
  PROVE  QInv'
<1>1. InsertFor(m, "PENDING", 0)
  BY DEF CreateInDb
<1>2. "PENDING" \in Active
  BY DEF Active
<1>3. RowsKeptOr(m, 0)
  BY <1>1, <1>2, Inserting
<1>4. faults' \in 0 .. MaxFaults /\ succeeded' = succeeded /\ succeeded \subseteq Messages
  BY DEF CreateInDb, QInv, QTypeOK, history
<1>. QED
  BY <1>3, <1>4, CreationStep DEF CreateInDb, history

LEMMA CommitBothStep ==
  ASSUME QInv, NEW m \in Messages, CommitBoth(m)
  PROVE  QInv'
<1>1. InsertFor(m, "PENDING", 0)
  BY DEF CommitBoth
<1>2. "PENDING" \in Active
  BY DEF Active
<1>3. RowsKeptOr(m, 0)
  BY <1>1, <1>2, Inserting
<1>4. faults' \in 0 .. MaxFaults /\ succeeded' = succeeded /\ succeeded \subseteq Messages
  BY DEF CommitBoth, QInv, QTypeOK, history
<1>. QED
  BY <1>3, <1>4, CreationStep DEF CommitBoth, history

LEMMA LoseTransactionStep ==
  ASSUME QInv, NEW m \in Messages, LoseTransaction(m)
  PROVE  QInv'
<1>1. faults' \in 0 .. MaxFaults
  BY DEF LoseTransaction, Fault, QInv, QTypeOK
<1>2. RowsKeptOr(m, 0)
  BY Keeping DEF LoseTransaction
<1>3. succeeded' = succeeded /\ succeeded \subseteq Messages
  BY DEF LoseTransaction, QInv, QTypeOK, history
<1>. QED
  BY <1>1, <1>2, <1>3, CreationStep DEF LoseTransaction, history

LEMMA RunScheduledStep ==
  ASSUME QInv, NEW m \in Messages, RunScheduled(m)
  PROVE  QInv'
<1>1. RowsKeptOr(m, Brought[m])
  <2>1. CASE UNCHANGED <<vars, origin>>
    BY <2>1, Keeping
  <2>2. CASE InsertFor(m, "RETRYING", Brought[m])
    BY <2>2, Inserting, RetryCounts DEF Active
  <2>. QED
    BY <2>1, <2>2 DEF RunScheduled
<1>2. /\ faults' \in 0 .. MaxFaults
      /\ succeeded \subseteq succeeded' /\ succeeded' \subseteq Messages
  BY DEF RunScheduled, QInv, QTypeOK
<1>. QED
  BY <1>1, <1>2, CreationStep DEF RunScheduled

(* A message that is sent comes after all that were sent before.           *)
LEMMA SendStep ==
  ASSUME QInv, NEW m \in Messages, NEW c \in {"sqs", "bridged", "sent"},
         created[m] = "no",
         created' = [created EXCEPT ![m] = c], Send(m)
  PROVE  QInv'
<1>. USE DEF QInv, Send, pollers, history
<1>1. Queued' = Queued \cup {m} /\ m \notin Queued
  BY DEF Queued, QTypeOK
<1>2. /\ m \notin queue \cup tried /\ \A p \in Pollers : m \notin work[p]
      /\ place'[m] = sent + 1 /\ sent \in Nat
      /\ \A n \in Messages : place[n] \in 0 .. sent
      /\ \A n \in Messages \ {m} : place'[n] = place[n]
  BY <1>1 DEF PlacesOfSent, NothingPassedOver, QTypeOK
<1>3. QTypeOK'
  BY <1>2 DEF QTypeOK
<1>4. PlacesOfSent'
  BY <1>1, <1>2 DEF PlacesOfSent, Queued
<1>5. NothingPassedOver'
  <2>1. (Queued \ queue)' \subseteq tried'
    BY <1>1 DEF NothingPassedOver
  <2>2. \A p \in Pollers : work'[p] \subseteq Queued'
    BY <1>1 DEF NothingPassedOver
  <2>3. ASSUME NEW p \in Pollers, NEW h \in Queued', NEW i \in work'[p],
               Group[h] = Group[i], place'[h] < place'[i]
        PROVE  h \in work'[p] \cup tried'
    <3>1. i \in Messages \ {m} /\ i \in work[p]
      BY <2>3, <1>2 DEF QTypeOK
    <3>2. place'[i] = place[i] /\ place[i] <= sent
      BY <3>1, <1>2
    <3>3. h \in Queued /\ place'[h] = place[h]
      BY <2>3, <3>1, <3>2, <1>1, <1>2 DEF Queued
    <3>. QED
      BY <2>3, <3>1, <3>2, <3>3 DEF NothingPassedOver
  <2>. QED
    BY <2>1, <2>2, <2>3 DEF NothingPassedOver
<1>6. PollersKnow' /\ NoMessageLost'
  BY <1>1 DEF PollersKnow, NoMessageLost
<1>7. FirstTriesInOrder'
  <2>1. ASSUME NEW i \in tried', NEW h \in Queued',
               Group[h] = Group[i], place'[h] < place'[i]
        PROVE  h \in tried'
    <3>1. i \in Messages \ {m} /\ i \in tried
      BY <2>1, <1>2 DEF QTypeOK
    <3>2. place'[i] = place[i] /\ place[i] <= sent
      BY <3>1, <1>2
    <3>3. h \in Queued /\ place'[h] = place[h]
      BY <2>1, <3>1, <3>2, <1>1, <1>2 DEF Queued
    <3>. QED
      BY <2>1, <3>1, <3>2, <3>3 DEF FirstTriesInOrder
  <2>. QED
    BY <2>1 DEF FirstTriesInOrder
<1>8. OriginsCreated' /\ RowsTellOfCalls'
  <2>1. \A n \in Messages \ {m} : RetryCount(n)' = RetryCount(n)
    BY DEF RetryCount, QTypeOK
  <2>2. \A j \in Jobs : origin[j] # m
    BY DEF OriginsCreated, QTypeOK, NoOne
  <2>. QED
    BY <2>1, <2>2 DEF OriginsCreated, RowsTellOfCalls, QTypeOK, vars
<1>. QED
  BY <1>3, <1>4, <1>5, <1>6, <1>7, <1>8

-----------------------------------------------------------------------------
(* The queue and its pollers                                               *)

(* What a poller does without a call and without a message of its own.     *)
LEMMA QuietStep ==
  ASSUME QInv, NEW p \in Pollers,
         faults' \in 0 .. MaxFaults,
         inFlight' \in [Messages -> Pollers \cup {NoOne}],
         stage' \in [Pollers -> {"process", "delete", "save"}],
         current' \in [Pollers -> Messages \cup {NoOne}],
         work' \in [Pollers -> SUBSET Messages],
         \A q \in Pollers : work'[q] \in {work[q], {}},
         \A q \in Pollers :
           \/ stage'[q] = "process"
           \/ /\ current'[q] = current[q] /\ stage[q] # "process"
              /\ stage'[q] \in {stage[q], "save"},
         queue' \subseteq queue, queue \subseteq queue' \cup succeeded,
         queue \subseteq queue' \cup tried,
         NEW m, RowsKeptOr(m, RetryCount(m)),
         m \in tried \/ UNCHANGED <<first, origin>>,
         UNCHANGED <<created, sent, place, history>>
  PROVE  QInv'
<1>. USE DEF QInv, history
<1>1. Queued' = Queued
  BY DEF Queued
<1>2. QTypeOK'
  BY DEF QTypeOK, RowsKeptOr
<1>3. PlacesOfSent'
  BY <1>1 DEF PlacesOfSent
<1>4. PollersKnow'
  BY DEF PollersKnow
<1>5. NothingPassedOver'
  BY <1>1 DEF NothingPassedOver
<1>6. NoMessageLost' /\ FirstTriesInOrder'
  BY <1>1 DEF NoMessageLost, FirstTriesInOrder
<1>7. \A n \in tried : created[n] # "no"
  BY DEF PlacesOfSent, Queued, QTypeOK
<1>8. OriginsCreated' /\ RowsTellOfCalls'
  BY <1>7 DEF OriginsCreated, RowsTellOfCalls, RowsKeptOr, RetryCount
<1>. QED
  BY <1>2, <1>3, <1>4, <1>5, <1>6, <1>8

(* A batch that was received passes over nothing that was not tried.       *)
LEMMA ReceiveStep ==
  ASSUME QInv, NEW p \in Pollers, Receive(p)
  PROVE  QInv'
<1>. USE DEF QInv
<1>1. PICK S \in SUBSET queue :
        /\ Receivable(S)
        /\ work' = [work EXCEPT ![p] = S]
        /\ inFlight' = [m \in Messages |-> IF m \in S THEN p ELSE inFlight[m]]
  BY DEF Receive
<1>2. UNCHANGED <<vars, created, sent, place, queue, current, stage, origin,
                  faults, history>>
  BY DEF Receive
<1>3. Queued' = Queued /\ queue \subseteq Queued /\ Queued \subseteq Messages
  BY <1>2 DEF Queued, PlacesOfSent
<1>4. QTypeOK'
  BY <1>1, <1>2 DEF QTypeOK, history
<1>5. NothingPassedOver'
  <2>1. ASSUME NEW q \in Pollers, NEW h \in Queued, NEW i \in work'[q],
               Group[h] = Group[i], place[h] < place[i]
        PROVE  h \in work'[q] \cup tried
    <3>1. CASE q = p
      <4>1. work'[q] = S /\ i \in S
        BY <3>1, <1>1, <2>1 DEF QTypeOK
      <4>2. CASE h \in queue
        BY <4>1, <4>2, <2>1, <1>1 DEF Receivable
      <4>3. CASE h \notin queue
        BY <4>3 DEF NothingPassedOver
      <4>. QED
        BY <4>2, <4>3
    <3>2. CASE q # p
      BY <3>2, <1>1, <2>1 DEF NothingPassedOver, QTypeOK
    <3>. QED
      BY <3>1, <3>2
  <2>2. \A q \in Pollers : work'[q] \subseteq Queued
    BY <1>1, <1>3 DEF NothingPassedOver, QTypeOK
  <2>. QED
    BY <2>1, <2>2, <1>2, <1>3 DEF NothingPassedOver, history
<1>6. PlacesOfSent' /\ PollersKnow' /\ NoMessageLost' /\ FirstTriesInOrder'
  BY <1>2, <1>3 DEF PlacesOfSent, PollersKnow, NoMessageLost,
                    FirstTriesInOrder, history
<1>7. OriginsCreated' /\ RowsTellOfCalls'
  BY <1>2 DEF OriginsCreated, RetryCount, RowsTellOfCalls, vars, history
<1>. QED
  BY <1>4, <1>5, <1>6, <1>7

LEMMA VisibilityTimeoutStep ==
  ASSUME QInv, NEW m \in Messages, VisibilityTimeout(m)
  PROVE  QInv'
<1>. USE DEF QInv, VisibilityTimeout, pollers, history, vars
<1>1. QTypeOK'
  BY DEF QTypeOK
<1>2. Queued' = Queued
  BY DEF Queued
<1>. QED
  BY <1>1, <1>2
  DEF PlacesOfSent, PollersKnow, NothingPassedOver, OriginsCreated, RetryCount,
      NoMessageLost, FirstTriesInOrder, RowsTellOfCalls

(* The message that is called for is the first of its group in the batch.  *)
LEMMA ProcessStep ==
  ASSUME QInv, NEW p \in Pollers, NEW m \in work[p], Process(p, m)
  PROVE  QInv'
<1>. USE DEF QInv
<1>1. /\ m \in First(work[p]) /\ m \in Queued /\ m \in Messages
      /\ work' = [work EXCEPT ![p] = @ \ {m}]
      /\ current' = [current EXCEPT ![p] = m]
      /\ tried' = tried \cup {m}
      /\ \/ stage' = [stage EXCEPT ![p] = "delete"] /\ succeeded' = succeeded \cup {m}
         \/ stage' = [stage EXCEPT ![p] = "save"] /\ succeeded' = succeeded
  BY DEF Process, AfterFailure, NothingPassedOver, Queued
<1>2. UNCHANGED <<vars, created, sqs, origin, faults>>
  BY DEF Process
<1>3. Queued' = Queued
  BY <1>2 DEF Queued
<1>4. QTypeOK'
  BY <1>1, <1>2 DEF QTypeOK, sqs
<1>5. PlacesOfSent' /\ NoMessageLost'
  BY <1>1, <1>2, <1>3 DEF PlacesOfSent, NoMessageLost, sqs
<1>6. PollersKnow'
  BY <1>1 DEF PollersKnow, QTypeOK
<1>7. NothingPassedOver'
  <2>1. ASSUME NEW q \in Pollers PROVE work'[q] \in {work[q], work[q] \ {m}}
    BY <1>1 DEF QTypeOK
  <2>. QED
    BY <2>1, <1>1, <1>2, <1>3 DEF NothingPassedOver, sqs
<1>8. FirstTriesInOrder'
  <2>1. ASSUME NEW h \in Queued, Group[h] = Group[m], place[h] < place[m]
        PROVE  h \in tried
    <3>1. h \in work[p] \cup tried
      BY <2>1 DEF NothingPassedOver
    <3>2. place[h] \in Nat /\ place[m] \in Nat
      BY <1>1 DEF QTypeOK, Queued
    <3>3. h \notin work[p]
      BY <2>1, <3>2, <1>1 DEF First
    <3>. QED
      BY <3>1, <3>3
  <2>. QED
    BY <2>1, <1>1, <1>2, <1>3 DEF FirstTriesInOrder, sqs
<1>9. OriginsCreated' /\ RowsTellOfCalls'
  BY <1>1, <1>2 DEF OriginsCreated, RetryCount, RowsTellOfCalls, vars
<1>. QED
  BY <1>4, <1>5, <1>6, <1>7, <1>8, <1>9

(* What is deleted has succeeded.                                          *)
LEMMA DeleteMessageStep ==
  ASSUME QInv, NEW p \in Pollers, DeleteMessage(p)
  PROVE  QInv'
<1>1. current[p] \in succeeded /\ current[p] \in tried
  BY DEF QInv, PollersKnow, DeleteMessage
<1>2. /\ inFlight' \in [Messages -> Pollers \cup {NoOne}]
      /\ stage' \in [Pollers -> {"process", "delete", "save"}]
      /\ current' \in [Pollers -> Messages \cup {NoOne}]
      /\ work' = work /\ work \in [Pollers -> SUBSET Messages]
      /\ faults' \in 0 .. MaxFaults
  BY <1>1 DEF DeleteMessage, Forward, QInv, QTypeOK
<1>3. \A q \in Pollers :
        \/ stage'[q] = "process"
        \/ /\ current'[q] = current[q] /\ stage[q] # "process"
           /\ stage'[q] \in {stage[q], "save"}
  BY DEF DeleteMessage, Forward, QInv, QTypeOK
<1>4. RowsKeptOr(current[p], RetryCount(current[p]))
  BY Keeping DEF DeleteMessage
<1>5. /\ queue' \subseteq queue /\ queue \subseteq queue' \cup succeeded
      /\ queue \subseteq queue' \cup tried
  BY <1>1 DEF DeleteMessage
<1>. QED
  BY <1>1, <1>2, <1>3, <1>4, <1>5, QuietStep DEF DeleteMessage

(* The steps of a poller that leave the queue and the receipts alone.      *)
LEMMA OtherPollerStep ==
  ASSUME QInv, NEW p \in Pollers,
         DeleteFails(p) \/ SaveFailed(p) \/ SaveFailedFails(p) \/ CrashPoller(p)
  PROVE  QInv'
<1>1. UNCHANGED <<created, sqs, history>>
  BY DEF DeleteFails, SaveFailed, SaveFailedFails, CrashPoller
<1>2. /\ inFlight' \in [Messages -> Pollers \cup {NoOne}]
      /\ stage' \in [Pollers -> {"process", "delete", "save"}]
      /\ current' \in [Pollers -> Messages \cup {NoOne}]
      /\ work' \in [Pollers -> SUBSET Messages]
      /\ \A q \in Pollers : work'[q] \in {work[q], {}}
      /\ faults' \in 0 .. MaxFaults
  BY <1>1 DEF DeleteFails, SaveFailed, SaveFailedFails, CrashPoller, Move,
              Forward, Fault, sqs, QInv, QTypeOK
<1>3. \A q \in Pollers :
        \/ stage'[q] = "process"
        \/ /\ current'[q] = current[q] /\ stage[q] # "process"
           /\ stage'[q] \in {stage[q], "save"}
  BY DEF DeleteFails, SaveFailed, SaveFailedFails, CrashPoller, Move, Forward,
         QInv, QTypeOK
<1>4. CASE SaveFailed(p)
  <2>1. InsertFor(current[p], "RETRYING", RetryCount(current[p]))
    BY <1>4 DEF SaveFailed
  <2>2. current[p] \in tried /\ current[p] \in Messages /\ "RETRYING" \in Active
    BY <1>4 DEF SaveFailed, QInv, PollersKnow, QTypeOK, Active
  <2>3. RowsKeptOr(current[p], RetryCount(current[p]))
    BY <2>1, <2>2, Inserting, RetryCounts
  <2>. QED
    BY <1>1, <1>2, <1>3, <2>2, <2>3, QuietStep DEF sqs
<1>5. CASE ~ SaveFailed(p)
  <2>1. UNCHANGED <<vars, origin>>
    BY <1>5 DEF DeleteFails, SaveFailedFails, CrashPoller
  <2>2. RowsKeptOr(current[p], RetryCount(current[p]))
    BY <2>1, Keeping
  <2>. QED
    BY <2>1, <2>2, <1>1, <1>2, <1>3, QuietStep DEF sqs, vars
<1>. QED
  BY <1>4, <1>5

-----------------------------------------------------------------------------

LEMMA NextQInv == QInv /\ [QNext]_allVars => QInv'
<1>. SUFFICES ASSUME QInv, [QNext]_allVars PROVE QInv'
  OBVIOUS
<1>1. CASE \E m \in Messages : CreateInDb(m) \/ RunScheduled(m) \/ CommitBoth(m)
                               \/ LoseTransaction(m) \/ VisibilityTimeout(m)
  BY <1>1, CreateInDbStep, RunScheduledStep, CommitBothStep,
     LoseTransactionStep, VisibilityTimeoutStep
<1>2. CASE \E m \in Messages :
             CreateInSqs(m) \/ ForwardFromBridge(m) \/ SendInTransaction(m)
  BY <1>2, SendStep DEF CreateInSqs, ForwardFromBridge, SendInTransaction
<1>3. CASE \E p \in Pollers : Poll(p)
  BY <1>3, ReceiveStep, ProcessStep, DeleteMessageStep, OtherPollerStep DEF Poll
<1>4. CASE RunTable
  BY <1>4, RunTableStep
<1>5. CASE UNCHANGED allVars
  BY <1>5
  DEF allVars, vars, queueVars, sqs, pollers, history, QInv, QTypeOK,
      PlacesOfSent, PollersKnow, NothingPassedOver, OriginsCreated, RetryCount,
      Queued, NoMessageLost, FirstTriesInOrder, RowsTellOfCalls
<1>. QED
  BY <1>1, <1>2, <1>3, <1>4, <1>5 DEF QNext

(* Every step is a step of the jobs table or leaves the table alone.       *)
LEMMA QNextIsTableStep == QInv /\ [QNext]_allVars => [Next]_vars
<1>. SUFFICES ASSUME QInv, [QNext]_allVars PROVE Next \/ UNCHANGED vars
  OBVIOUS
<1>. USE DEF Active
<1>1. CASE \E m \in Messages : CreateInDb(m) \/ RunScheduled(m) \/ CommitBoth(m)
  BY <1>1, InsertIsNext, RetryCounts DEF CreateInDb, RunScheduled, CommitBoth
<1>2. CASE \E m \in Messages :
             \/ LoseTransaction(m) \/ VisibilityTimeout(m) \/ CreateInSqs(m)
             \/ ForwardFromBridge(m) \/ SendInTransaction(m)
  BY <1>2 DEF LoseTransaction, VisibilityTimeout, CreateInSqs,
              ForwardFromBridge, SendInTransaction, Send
<1>3. CASE \E p \in Pollers : SaveFailed(p)
  <2>1. PICK p \in Pollers : SaveFailed(p)
    BY <1>3
  <2>2. current[p] \in Messages
    BY <2>1 DEF SaveFailed, QInv, PollersKnow, QTypeOK
  <2>. QED
    BY <2>1, <2>2, InsertIsNext, RetryCounts DEF SaveFailed
<1>4. CASE \E p \in Pollers :
             \/ Receive(p) \/ (\E m \in work[p] : Process(p, m))
             \/ DeleteMessage(p) \/ DeleteFails(p) \/ SaveFailedFails(p)
             \/ CrashPoller(p)
  BY <1>4 DEF Receive, Process, DeleteMessage, DeleteFails, SaveFailedFails,
              CrashPoller
<1>5. CASE RunTable
  BY <1>5 DEF RunTable, Next
<1>6. CASE UNCHANGED allVars
  BY <1>6 DEF allVars
<1>. QED
  BY <1>1, <1>2, <1>3, <1>4, <1>5, <1>6 DEF QNext, Poll

-----------------------------------------------------------------------------

(* The inductive invariant, for any messages, groups, pollers and rows     *)
(* (job.service.ts:377-439).                                               *)
THEOREM QueueInvariance == QSpec => []QInv
  BY InitQInv, NextQInv, PTL DEF QSpec

(* A message leaves the queue only after a call for it has succeeded       *)
(* (job.service.ts:401-435).                                               *)
THEOREM NothingIsLost == QSpec => []NoMessageLost
<1>1. QInv => NoMessageLost
  BY DEF QInv
<1>. QED
  BY <1>1, QueueInvariance, PTL

(* The messages of a group are tried in the order they were sent           *)
(* (job.service.ts:396-436).                                               *)
THEOREM TriesInOrder == QSpec => []FirstTriesInOrder
<1>1. QInv => FirstTriesInOrder
  BY DEF QInv
<1>. QED
  BY <1>1, QueueInvariance, PTL

(* Pollers and creators use the table as JobTable allows it                *)
(* (job.service.ts:340-366, :424-427, :522-586, :615-653).                 *)
THEOREM ImplementsTable == QSpec => TableSpec
<1>1. QInit => Init
  BY DEF QInit
<1>. QED
  BY <1>1, QueueInvariance, QNextIsTableStep, PTL DEF QSpec, TableSpec

(* So overlapping runners never work on one row, whichever way it came,    *)
(* and none is given up on with retries left (job.service.ts:447-515).     *)
THEOREM TableKeepsItsWord == QSpec => [](OneRunnerPerJob /\ RetriesUsedUp)
<1>1. IInv => OneRunnerPerJob /\ RetriesUsedUp
  BY DEF IInv
<1>. QED
  BY <1>1, ImplementsTable, InitIInv, NextIInv, PTL DEF TableSpec
=============================================================================
