------------------------------ MODULE JobQueue ------------------------------
(***************************************************************************)
(* The unified jobs on their way through SQS: createUnifiedJob in its      *)
(* three modes, what a bridge forwards, pollAndProcessSqs, and             *)
(* processScheduledMessage, over the jobs table of JobTable, whose runners *)
(* pick up what fails here.                                                *)
(*                                                                         *)
(* The queue is a FIFO queue of SQS, external to the code: it gives out    *)
(* the messages of a group in order, none while one of the group is in     *)
(* flight; a message in flight comes back when its visibility timeout is   *)
(* over, and its receipt is void then.  Each message has a deduplication   *)
(* id of its own.                                                          *)
(***************************************************************************)
EXTENDS JobTable

CONSTANTS
  Messages,   \* unified jobs: one for each call of createUnifiedJob, each
              \* message a bridge forwards and each one of EventBridge
  Pollers,    \* invocations of pollAndProcessSqs that may overlap
  Group,      \* message group id of a message
  Brought,    \* metadata.retryCount of one from a bridge or EventBridge
  MaxFaults   \* bound on lost transactions and crashes of pollers together

ASSUME QueueAssumption ==
  /\ NoOne \notin Pollers /\ NoOne \notin Messages
  /\ DOMAIN Group = Messages
  /\ Brought \in [Messages -> FirstCounts]
  /\ MaxFaults \in Nat
  /\ 0 \in FirstCounts

VARIABLES
  created,    \* how far the creation of each message is
  sent,       \* how many messages were sent to SQS so far
  place,      \* the place of a message among those sent; 0: not sent
  queue,      \* the messages SQS holds
  inFlight,   \* the poller holding the valid receipt of a message
  work,       \* messages a poller has received and not come to yet
  current,    \* the message it is at, unless it is between two
  stage,      \* what it does next
  origin,     \* the message a row of the table was made from
  faults,     \* lost transactions and crashes of pollers so far
  tried,      \* history: messages a poller has called out for
  succeeded   \* history: those with a call that succeeded

sqs       == <<sent, place, queue, inFlight>>
pollers   == <<work, current, stage>>
history   == <<tried, succeeded>>
queueVars == <<created, sqs, pollers, origin, faults, history>>
allVars   == <<vars, queueVars>>

QInit ==
  /\ Init
  /\ created = [m \in Messages |-> "no"]
  /\ sent = 0 /\ place = [m \in Messages |-> 0]
  /\ queue = {}
  /\ inFlight = [m \in Messages |-> NoOne]
  /\ work = [p \in Pollers |-> {}]
  /\ current = [p \in Pollers |-> NoOne]
  /\ stage = [p \in Pollers |-> "process"]
  /\ origin = [j \in Jobs |-> NoOne]
  /\ faults = 0
  /\ tried = {} /\ succeeded = {}

-----------------------------------------------------------------------------
(* Creating jobs                                                           *)

(* createUnifiedJob sets the retry count of its message to 0; any other    *)
(* message keeps the one it brings.                                        *)
RetryCount(m) ==
  IF created[m] \in {"bridged", "scheduled"} THEN Brought[m] ELSE 0

(* A row made from a message.  Jobs bounds the rows.                       *)
InsertForCounted(m, s, n) ==                \* mutant: the failure counted
  \E j \in Jobs :
    /\ Insert(j, "unified", s, IF s = "PENDING" THEN 0 ELSE n + 1)
    /\ origin' = [origin EXCEPT ![j] = m]
InsertFor(m, s, n) ==
  \E j \in Jobs :
    /\ Insert(j, "unified", s, n)
    /\ origin' = [origin EXCEPT ![j] = m]

CreateInDb(m) ==
  /\ created[m] = "no"
  /\ created' = [created EXCEPT ![m] = "db"]
  /\ InsertFor(m, "PENDING", 0)
  /\ UNCHANGED <<sqs, pollers, faults, history>>

(* sendToSqs.                                                              *)
Send(m) ==
  /\ sent' = sent + 1
  /\ place' = [place EXCEPT ![m] = sent + 1]
  /\ queue' = queue \cup {m}
  /\ UNCHANGED <<vars, inFlight, pollers, origin, faults, history>>

CreateInSqs(m) ==
  /\ created[m] = "no"
  /\ created' = [created EXCEPT ![m] = "sqs"]
  /\ Send(m)

(* forwardToMainQueue of a bridge (SourceQueue).                           *)
ForwardFromBridge(m) ==
  /\ created[m] = "no"
  /\ created' = [created EXCEPT ![m] = "bridged"]
  /\ Send(m)

(* Mode BOTH sends the message while the transaction that inserted the row *)
(* is open; the row comes into being when it commits ...                   *)
SendInTransaction(m) ==
  /\ created[m] = "no"
  /\ created' = [created EXCEPT ![m] = "sent"]
  /\ Send(m)

CommitBoth(m) ==
  /\ created[m] = "sent"
  /\ created' = [created EXCEPT ![m] = "both"]
  /\ InsertFor(m, "PENDING", 0)
  /\ UNCHANGED <<sqs, pollers, faults, history>>

Fault ==
  /\ faults < MaxFaults
  /\ faults' = faults + 1

(* ... or never, when the process or the connection is lost first.         *)
LoseTransaction(m) ==
  /\ created[m] = "sent"
  /\ Fault
  /\ created' = [created EXCEPT ![m] = "lost"]
  /\ UNCHANGED <<vars, sqs, pollers, origin, history>>

(* processScheduledMessage: EventBridge hands the message over, no queue   *)
(* and no row holds it; only a failure leaves a row, if it can be saved.   *)
RunScheduled(m) ==
  /\ created[m] = "no"
  /\ created' = [created EXCEPT ![m] = "scheduled"]
  /\ \/ UNCHANGED <<vars, origin>> /\ succeeded' = succeeded \cup {m}
     \/ InsertFor(m, "RETRYING", Brought[m]) /\ UNCHANGED succeeded
     \/ UNCHANGED <<vars, origin, succeeded>>
  /\ UNCHANGED <<sqs, pollers, faults, tried>>

-----------------------------------------------------------------------------
(* The queue                                                               *)

Held(m) == inFlight[m] # NoOne

(* A receive returns some messages of groups with nothing in flight, none  *)
(* of them ahead of an earlier one of its group.                           *)
Receivable(S) ==
  \A i \in S, h \in queue : Group[h] = Group[i] =>
    ~ Held(h) /\ (place[h] < place[i] => h \in S)

Idle(p) == work[p] = {} /\ stage[p] = "process"

Receive(p) ==
  /\ Idle(p)
  /\ \E S \in SUBSET queue :
       /\ S # {} /\ Receivable(S)
       /\ work' = [work EXCEPT ![p] = S]
       /\ inFlight' = [m \in Messages |-> IF m \in S THEN p ELSE inFlight[m]]
  /\ UNCHANGED <<vars, created, sent, place, queue, current, stage, origin,
                 faults, history>>

VisibilityTimeout(m) ==
  /\ Held(m)
  /\ inFlight' = [inFlight EXCEPT ![m] = NoOne]
  /\ UNCHANGED <<vars, created, sent, place, queue, pollers, origin, faults,
                 history>>

-----------------------------------------------------------------------------
(* Pollers: the messages of a batch, one after the other                   *)

(* The loop takes the messages as they were received: the next one is the  *)
(* first of its group.                                                     *)
FirstFromBack(S) ==                         \* mutant: the batch back to front
  {i \in S : \A h \in S : Group[h] = Group[i] => place[h] <= place[i]}
First(S) ==
  {i \in S : \A h \in S : Group[h] = Group[i] => place[i] <= place[h]}

Move(p, s) ==
  /\ stage' = [stage EXCEPT ![p] = s]
  /\ UNCHANGED <<work, current>>

Forward(p) ==
  /\ stage' = [stage EXCEPT ![p] = "process"]
  /\ current' = [current EXCEPT ![p] = NoOne]
  /\ UNCHANGED work

(* processMessage succeeds or throws.                                      *)
AfterFailureDelete == "delete"              \* mutant: deleted all the same
AfterFailure == "save"

Process(p, m) ==
  /\ stage[p] = "process"
  /\ m \in First(work[p])
  /\ work' = [work EXCEPT ![p] = @ \ {m}]
  /\ current' = [current EXCEPT ![p] = m]
  /\ tried' = tried \cup {m}
  /\ \/ stage' = [stage EXCEPT ![p] = "delete"] /\ succeeded' = succeeded \cup {m}
     \/ stage' = [stage EXCEPT ![p] = AfterFailure] /\ UNCHANGED succeeded
  /\ UNCHANGED <<vars, created, sqs, origin, faults>>

(* The receipt must still be valid.                                        *)
DeleteMessage(p) ==
  /\ stage[p] = "delete"
  /\ inFlight[current[p]] = p
  /\ queue' = queue \ {current[p]}
  /\ inFlight' = [inFlight EXCEPT ![current[p]] = NoOne]
  /\ Forward(p)
  /\ UNCHANGED <<vars, created, sent, place, origin, faults, history>>

(* The delete throws inside the same try: a job that has succeeded is      *)
(* saved as a failed one.                                                  *)
DeleteFails(p) ==
  /\ stage[p] = "delete"
  /\ Move(p, "save")
  /\ UNCHANGED <<vars, created, sqs, origin, faults, history>>

(* saveFailedJobToDb; the message stays in the queue.                      *)
SaveFailed(p) ==
  /\ stage[p] = "save"
  /\ InsertFor(current[p], "RETRYING", RetryCount(current[p]))
  /\ Forward(p)
  /\ UNCHANGED <<created, sqs, faults, history>>

(* ... which logs an error of its own and goes on.                         *)
SaveFailedFails(p) ==
  /\ stage[p] = "save"
  /\ Forward(p)
  /\ UNCHANGED <<vars, created, sqs, origin, faults, history>>

CrashPoller(p) ==
  /\ ~ Idle(p)
  /\ Fault
  /\ work' = [work EXCEPT ![p] = {}]
  /\ stage' = [stage EXCEPT ![p] = "process"]
  /\ current' = [current EXCEPT ![p] = NoOne]
  /\ UNCHANGED <<vars, created, sqs, origin, history>>

-----------------------------------------------------------------------------
(* What the runners and the clock do to the table.                         *)
RunTable ==
  /\ \/ \E j \in Jobs : BecomeDue(j) \/ Retry(j) \/ Deadletter(j)
     \/ \E r \in Runners : SelectDue(r) \/ SelectFails(r) \/ Run(r) \/ Crash(r)
  /\ UNCHANGED queueVars

Poll(p) ==
  \/ Receive(p) \/ (\E m \in work[p] : Process(p, m))
  \/ DeleteMessage(p) \/ DeleteFails(p)
  \/ SaveFailed(p) \/ SaveFailedFails(p) \/ CrashPoller(p)

QNext ==
  \/ \E m \in Messages :
       \/ CreateInDb(m) \/ CreateInSqs(m) \/ ForwardFromBridge(m)
       \/ RunScheduled(m)
       \/ SendInTransaction(m) \/ CommitBoth(m) \/ LoseTransaction(m)
       \/ VisibilityTimeout(m)
  \/ \E p \in Pollers : Poll(p)
  \/ RunTable

QSpec == QInit /\ [][QNext]_allVars
=============================================================================
