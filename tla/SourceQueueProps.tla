-------------------------- MODULE SourceQueueProps --------------------------
(***************************************************************************)
(* What the bridge between the queues keeps, whatever calls fail, pollers  *)
(* overlap or crash, and messages come back.                               *)
(***************************************************************************)
EXTENDS SourceQueue

(* Every variable holds a value of its type.                               *)
TypeOK ==
  /\ arrived \in 0 .. N
  /\ source \subseteq 1 .. arrived
  /\ inFlight \in [Messages -> Pollers \cup {NoPoller}]
  /\ batch \in [Pollers -> SUBSET Messages]
  /\ current \in [Pollers -> Messages \cup {Empty}]
  /\ stage \in [Pollers -> {"forward", "delete", "save"}]
  /\ main \subseteq Messages \cup {Empty}
  /\ window \subseteq Ids
  /\ rows \cup tried \cup troubled \subseteq 1 .. arrived
  /\ copies \in [Jobs -> Nat]
  /\ ended \in [Ids -> Nat]

(* The job of a message is in the main queue, with its own body, or with   *)
(* that of another message with its key and group.                         *)
Forwarded(m) == \E n \in Messages : Job(n) = Job(m) /\ BodyOf(n) \in main

(***************************************************************************)
(* A message leaves the source queue only when its job is in the main      *)
(* queue; of a malformed one that job has an empty body                    *)
(* (multi-queue-polling.service.ts:93-130, :418-453).                      *)
(***************************************************************************)
NothingLost == \A m \in 1 .. arrived : m \in source \/ Forwarded(m)

(***************************************************************************)
(* All messages that bring one key and go to one message group make at     *)
(* most one job in the main queue in every 5 minutes, however often they   *)
(* are delivered, forwarded and given up for lost.  With one key and two   *)
(* groups they make two: the queue remembers a key for each group apart    *)
(* (multi-queue-polling.service.ts:271-278, :387-388, terraform/sqs.tf:8). *)
(***************************************************************************)
KeyedOnce == \A d \in Ids : copies[d] <= ended[d] + 1

(***************************************************************************)
(* A message that no failed call, timeout or crash has touched is not in   *)
(* the table as well, and without a key of its own it makes one job in the *)
(* main queue, although pollers overlap and the key it is given is a new   *)
(* one each time (multi-queue-polling.service.ts:97-137, :278).            *)
(***************************************************************************)
OnceUnlessTroubled ==
  \A m \in Messages \ troubled :
    (m \notin Keyed => copies[Job(m)] <= 1) /\ m \notin rows

(***************************************************************************)
(* The messages of a group are tried in the order they were sent, although *)
(* the failure of one does not hold up the next, and a poller goes on with *)
(* its batch when the timeout of it is over                                *)
(* (multi-queue-polling.service.ts:95-138).                                *)
(***************************************************************************)
FirstTriesInOrder ==
  \A i \in tried, h \in 1 .. arrived :
    Group[h] = Group[i] /\ h < i => h \in tried

-----------------------------------------------------------------------------
(* The inductive invariant                                                 *)

(* A key is remembered while the window of its last copy is open.          *)
WindowsCounted ==
  \A d \in Ids :
    /\ d \in window => copies[d] = ended[d] + 1
    /\ d \notin window => copies[d] = ended[d]

RememberedIsForwarded ==
  \A d \in window : \E n \in Messages : Job(n) = d /\ BodyOf(n) \in main

(* What a poller is at is no longer in its batch, and is about to be       *)
(* deleted only when it was forwarded, and saved only when a call failed.  *)
PollersKnow ==
  \A p \in Pollers :
    /\ batch[p] \subseteq 1 .. arrived
    /\ stage[p] # "forward" =>
         current[p] \in (1 .. arrived) \cap tried /\ current[p] \notin batch[p]
    /\ stage[p] = "delete" => Forwarded(current[p])
    /\ stage[p] = "save" => current[p] \in troubled

HeldIsInSource == \A m \in Messages : inFlight[m] # NoPoller => m \in source

(* Nothing is passed over: what left the queue was tried, and so was, or   *)
(* is in the same batch, whatever comes before a message of a batch.       *)
NothingPassedOver ==
  /\ \A m \in (1 .. arrived) \ source : m \in tried
  /\ \A p \in Pollers, h \in Messages : \A i \in batch[p] :
       Group[h] = Group[i] /\ h < i => h \in batch[p] \cup tried

(* An untroubled message belongs to the poller that has not deleted it     *)
(* yet; once accepted, and without a key, it waits for nothing but that.   *)
AtPoller(p, m) == m \in batch[p] \/ (stage[p] = "delete" /\ current[p] = m)
UntroubledIsHeld ==
  \A m \in Messages \ troubled :
    /\ \A p \in Pollers : AtPoller(p, m) => inFlight[m] = p
    /\ m \notin Keyed /\ copies[Job(m)] > 0 =>
         /\ m \in tried
         /\ m \in source => inFlight[m] # NoPoller
         /\ \A p \in Pollers : m \notin batch[p]

(***************************************************************************)
(* The above, with the types and the properties: what each step of a poll  *)
(* relies on still holds when it is taken                                  *)
(* (multi-queue-polling.service.ts:93-138).                                *)
(***************************************************************************)
IInv ==
  /\ TypeOK
  /\ WindowsCounted
  /\ RememberedIsForwarded
  /\ PollersKnow
  /\ HeldIsInSource
  /\ NothingPassedOver
  /\ UntroubledIsHeld
  /\ NothingLost
  /\ OnceUnlessTroubled
  /\ FirstTriesInOrder
=============================================================================
