---------------------------- MODULE SourceQueue ----------------------------
(***************************************************************************)
(* MultiQueuePollingService: a bridge that takes the messages of a source  *)
(* queue (crypto.fifo, ox.fifo), turns them into unified jobs, forwards    *)
(* them to the main queue and deletes them; what it cannot forward or      *)
(* delete it saves to the jobs table.                                      *)
(*                                                                         *)
(* Both queues are FIFO queues of SQS, external to the code.  The source   *)
(* queue gives out the messages of a group in order, none while one of the *)
(* group is in flight; a message in flight comes back when its visibility  *)
(* timeout is over, and its receipt is void then.  The main queue drops a  *)
(* message whose deduplication id it has accepted for the same message     *)
(* group in the last 5 minutes: its deduplication scope is messageGroup.   *)
(* A call of SQS that fails may have taken effect all the same.            *)
(***************************************************************************)
EXTENDS Integers

CONSTANTS
  N,          \* messages, numbered in the order they are sent
  Group,      \* the message group of a message in its source queue
  Key,        \* the idempotency key a message brings, or NoKey
  NoKey,
  Target,     \* the group of its job in the main queue: the messageGroupId
              \* it brings, or else the name of the source queue
  Malformed,  \* messages that are not JSON or do not validate
  Pollers,    \* invocations of pollQueue that may overlap
  MaxCopies,  \* bound: how often one job is accepted by the main queue
  MaxWindows  \* bound: how often a deduplication window ends

Messages == 1 .. N
NoPoller == "nobody"
Empty == 0    \* the body "{}", in place of that of a malformed message

ASSUME BridgeAssumption ==
  /\ N \in Nat /\ MaxCopies \in Nat /\ MaxWindows \in Nat
  /\ DOMAIN Group = Messages /\ DOMAIN Key = Messages
  /\ DOMAIN Target = Messages
  /\ Malformed \subseteq Messages
  /\ \A m \in Malformed : Key[m] = NoKey
  /\ NoPoller \notin Pollers

(* Messages are one job for the main queue when they bring one key and go  *)
(* to one group; a message without a key is a job of its own.              *)
Keyed  == {m \in Messages : Key[m] # NoKey}
Job(m) == <<Key[m], IF m \in Keyed THEN Target[m] ELSE m>>
Jobs   == {Job(m) : m \in Messages}
Ids    == {Job(m) : m \in Keyed}

VARIABLES
  arrived,    \* how many messages have been sent
  source,     \* the messages the source queue holds
  inFlight,   \* the poller holding the valid receipt of a message
  batch,      \* messages a poller has received and not come to yet
  current,    \* the message it is at, unless it is between two
  stage,      \* what it does next
  main,       \* bodies the main queue has accepted, or Empty
  window,     \* keys the main queue remembers, each for a group
  rows,       \* messages saved to the jobs table
  tried,      \* history: messages a poller has tried to forward
  copies,     \* history: how many copies of a job were accepted
  ended,      \* history: how many windows of such a key have ended
  troubled    \* history: messages some call, timeout or crash failed

queues  == <<arrived, source, inFlight>>
pollers == <<batch, current, stage>>
target  == <<main, window, copies, ended>>
bridgeVars == <<queues, pollers, target, rows, tried, troubled>>

BridgeInit ==
  /\ arrived = 0 /\ source = {}
  /\ inFlight = [m \in Messages |-> NoPoller]
  /\ batch = [p \in Pollers |-> {}]
  /\ current = [p \in Pollers |-> Empty]
  /\ stage = [p \in Pollers |-> "forward"]
  /\ main = {} /\ window = {} /\ rows = {} /\ tried = {} /\ troubled = {}
  /\ copies = [j \in Jobs |-> 0]
  /\ ended = [d \in Ids |-> 0]

Arrive ==
  /\ arrived < N
  /\ arrived' = arrived + 1
  /\ source' = source \cup {arrived + 1}
  /\ UNCHANGED <<inFlight, pollers, target, rows, tried, troubled>>

-----------------------------------------------------------------------------
(* What a message becomes: parseAndValidateMessage, transformMessage       *)

(* Whatever does not validate becomes a job with the body {}, because the  *)
(* body {} of the substitute goes before its raw body.                     *)
BodyOf(m) == IF m \in Malformed THEN Empty ELSE m

(* The deduplication id: a message without a key gets a new one each time  *)
(* it is transformed, which the main queue has never seen.                 *)
FreshKey(m) == NoKey                        \* mutant: its key is left out
IdempotencyKey(m) == Key[m]

(* The main queue accepts the job, or drops it as a duplicate.             *)
Send(m) ==
  LET keyed == IdempotencyKey(m) # NoKey IN
  IF keyed /\ Job(m) \in window THEN UNCHANGED target
  ELSE /\ copies[Job(m)] < MaxCopies
       /\ copies' = [copies EXCEPT ![Job(m)] = @ + 1]
       /\ main' = main \cup {BodyOf(m)}
       /\ window' = window \cup (IF keyed THEN {Job(m)} ELSE {})
       /\ UNCHANGED ended

WindowEnds(d) ==
  /\ d \in window /\ ended[d] < MaxWindows
  /\ window' = window \ {d}
  /\ ended' = [ended EXCEPT ![d] = @ + 1]
  /\ UNCHANGED <<queues, pollers, main, copies, rows, tried, troubled>>

-----------------------------------------------------------------------------
(* pollQueue                                                               *)

(* Some messages of groups with nothing in flight, none of them ahead of   *)
(* an earlier one of its group.                                            *)
Receivable(S) ==
  \A i \in S, h \in source : Group[h] = Group[i] =>
    inFlight[h] = NoPoller /\ (h < i => h \in S)

Idle(p) == batch[p] = {} /\ stage[p] = "forward"

ReceiveMessages(p) ==
  /\ Idle(p)
  /\ \E S \in SUBSET source :
       /\ S # {} /\ Receivable(S)
       /\ batch' = [batch EXCEPT ![p] = S]
       /\ inFlight' = [m \in Messages |-> IF m \in S THEN p ELSE inFlight[m]]
  /\ UNCHANGED <<arrived, source, current, stage, target, rows, tried, troubled>>

(* The loop takes the messages as they were received.                      *)
Whatever(S) == S                            \* mutant: the batch in any order
Foremost(S) == {i \in S : \A h \in S : Group[h] = Group[i] => i <= h}

TakeUp(p, m, step) ==
  /\ stage[p] = "forward"
  /\ m \in Foremost(batch[p])
  /\ batch' = [batch EXCEPT ![p] = @ \ {m}]
  /\ current' = [current EXCEPT ![p] = m]
  /\ stage' = [stage EXCEPT ![p] = step]
  /\ tried' = tried \cup {m}

GoOn(p) ==
  /\ stage' = [stage EXCEPT ![p] = "forward"]
  /\ current' = [current EXCEPT ![p] = Empty]
  /\ UNCHANGED batch

AfterForwardSave == "save"                  \* mutant: saved as well
AfterForward == "delete"
AfterFailureDelete == "delete"              \* mutant: deleted all the same
AfterFailure == "save"

ForwardToMainQueue(p, m) ==
  /\ TakeUp(p, m, AfterForward)
  /\ Send(m)
  /\ UNCHANGED <<queues, rows, troubled>>

ForwardFails(p, m) ==
  /\ TakeUp(p, m, AfterFailure)
  /\ Send(m) \/ UNCHANGED target
  /\ troubled' = troubled \cup {m}
  /\ UNCHANGED <<queues, rows>>

(* The receipt must still be valid.                                        *)
Delete(p) ==
  /\ inFlight[current[p]] = p
  /\ source' = source \ {current[p]}
  /\ inFlight' = [inFlight EXCEPT ![current[p]] = NoPoller]
  /\ UNCHANGED arrived

DeleteMessage(p) ==
  /\ stage[p] = "delete"
  /\ Delete(p)
  /\ GoOn(p)
  /\ UNCHANGED <<target, rows, tried, troubled>>

(* It throws in the try that forwards: the message is saved as well.       *)
DeleteFails(p) ==
  /\ stage[p] = "delete"
  /\ Delete(p) \/ UNCHANGED queues
  /\ troubled' = troubled \cup {current[p]}
  /\ stage' = [stage EXCEPT ![p] = "save"]
  /\ UNCHANGED <<batch, current, target, rows, tried>>

(* createUnifiedJob, whose error is logged; the message is not deleted.    *)
SaveFailedMessage(p) ==
  /\ stage[p] = "save"
  /\ rows' \in {rows, rows \cup {current[p]}}
  /\ GoOn(p)
  /\ UNCHANGED <<queues, target, tried, troubled>>

VisibilityTimeout(m) ==
  /\ inFlight[m] # NoPoller
  /\ inFlight' = [inFlight EXCEPT ![m] = NoPoller]
  /\ troubled' = troubled \cup {m}
  /\ UNCHANGED <<arrived, source, pollers, target, rows, tried>>

(* The process is lost, or the answer with the messages was.               *)
Crash(p) ==
  /\ ~ Idle(p)
  /\ batch' = [batch EXCEPT ![p] = {}]
  /\ stage' = [stage EXCEPT ![p] = "forward"]
  /\ current' = [current EXCEPT ![p] = Empty]
  /\ UNCHANGED <<queues, target, rows, tried, troubled>>

Poll(p) ==
  \/ ReceiveMessages(p)
  \/ \E m \in batch[p] : ForwardToMainQueue(p, m) \/ ForwardFails(p, m)
  \/ DeleteMessage(p) \/ DeleteFails(p) \/ SaveFailedMessage(p) \/ Crash(p)

BridgeNext ==
  \/ Arrive
  \/ \E p \in Pollers : Poll(p)
  \/ \E m \in Messages : VisibilityTimeout(m)
  \/ \E d \in Ids : WindowEnds(d)

BridgeSpec == BridgeInit /\ [][BridgeNext]_bridgeVars
=============================================================================
