------------------------- MODULE SourceQueueProofs -------------------------
(***************************************************************************)
(* Proofs of the invariants of SourceQueue for any number of messages,     *)
(* keys, groups and pollers.                                               *)
(***************************************************************************)
EXTENDS SourceQueueProps, TLAPS

USE BridgeAssumption DEF Messages, NoPoller, Empty

(* A message without a key is a job of its own.                            *)
LEMMA JobsApart ==
  ASSUME NEW m \in Messages
  PROVE  /\ Job(m) \in Jobs
         /\ Job(m) \in Ids <=> m \in Keyed
         /\ \A n \in Messages : m \notin Keyed /\ Job(n) = Job(m) => n = m
<1>1. Job(m) \in Jobs
  BY DEF Jobs
<1>2. \A n \in Messages : Job(n) = Job(m) =>
        Key[n] = Key[m] /\ (m \notin Keyed => n = m)
  BY DEF Job, Keyed
<1>3. Job(m) \in Ids <=> m \in Keyed
  BY <1>2 DEF Ids, Keyed
<1>. QED
  BY <1>1, <1>2, <1>3

LEMMA IdsAreJobs == Ids \subseteq Jobs
  BY DEF Ids, Jobs, Keyed

LEMMA InitIInv == BridgeInit => IInv
  BY JobsApart, IdsAreJobs
  DEF BridgeInit, IInv, TypeOK, WindowsCounted, RememberedIsForwarded,
      PollersKnow, HeldIsInSource, NothingPassedOver, UntroubledIsHeld,
      AtPoller, NothingLost, OnceUnlessTroubled, FirstTriesInOrder

-----------------------------------------------------------------------------
(* The main queue                                                          *)

(* What sending a message may do to the main queue.                        *)
LEMMA Sending ==
  ASSUME TypeOK, WindowsCounted, RememberedIsForwarded,
         NEW m \in Messages, Send(m) \/ UNCHANGED target
  PROVE  /\ main \subseteq main' /\ main' \subseteq Messages \cup {Empty}
         /\ window' \subseteq Ids
         /\ copies' \in [Jobs -> Nat]
         /\ ended' = ended
         /\ WindowsCounted'
         /\ RememberedIsForwarded'
         /\ \A d \in Jobs : d # Job(m) => copies'[d] = copies[d]
         /\ copies'[Job(m)] \in {copies[Job(m)], copies[Job(m)] + 1}
         /\ Send(m) => Forwarded(m)'
<1>. USE DEF TypeOK
<1>. DEFINE d == Job(m)
<1>1. /\ d \in Jobs /\ Ids \subseteq Jobs
      /\ d \in Ids <=> m \in Keyed
      /\ m \in Keyed <=> IdempotencyKey(m) # NoKey
  BY JobsApart, IdsAreJobs DEF Keyed, IdempotencyKey
<1>2. CASE UNCHANGED target /\ ~ Send(m)
  BY <1>2, <1>1 DEF target, WindowsCounted, RememberedIsForwarded
<1>3. CASE m \in Keyed /\ d \in window /\ UNCHANGED target
  <2>1. Forwarded(m)'
    BY <1>3 DEF RememberedIsForwarded, Forwarded, target
  <2>. QED
    BY <1>1, <1>3, <2>1 DEF target, WindowsCounted, RememberedIsForwarded
<1>4. CASE /\ ~ (m \in Keyed /\ d \in window)
           /\ copies' = [copies EXCEPT ![d] = @ + 1]
           /\ main' = main \cup {BodyOf(m)}
           /\ window' = window \cup (IF m \in Keyed THEN {d} ELSE {})
           /\ UNCHANGED ended
  <2>1. /\ main \subseteq main' /\ main' \subseteq Messages \cup {Empty}
        /\ window' \subseteq Ids
    BY <1>1, <1>4 DEF BodyOf
  <2>2. /\ copies' \in [Jobs -> Nat]
        /\ copies'[d] = copies[d] + 1
        /\ \A q \in Jobs : q # d => copies'[q] = copies[q]
    BY <1>1, <1>4
  <2>3. Forwarded(m)'
    BY <1>4 DEF Forwarded
  <2>4. WindowsCounted'
    <3>1. ASSUME NEW q \in Ids, q = d
          PROVE  q \in window' /\ q \notin window /\ copies'[q] = copies[q] + 1
      BY <3>1, <1>1, <1>4, <2>2
    <3>2. ASSUME NEW q \in Ids, q # d
          PROVE  (q \in window' <=> q \in window) /\ copies'[q] = copies[q]
      BY <3>2, <1>1, <1>4, <2>2
    <3>. QED
      BY <3>1, <3>2, <1>1, <1>4 DEF WindowsCounted
  <2>5. RememberedIsForwarded'
    <3>1. ASSUME NEW q \in window', q = d
          PROVE  \E n \in Messages : Job(n) = q /\ BodyOf(n) \in main'
      BY <3>1, <1>4
    <3>2. ASSUME NEW q \in window', q # d
          PROVE  \E n \in Messages : Job(n) = q /\ BodyOf(n) \in main'
      BY <3>2, <1>4 DEF RememberedIsForwarded
    <3>. QED
      BY <3>1, <3>2 DEF RememberedIsForwarded
  <2>. QED
    BY <1>4, <2>1, <2>2, <2>3, <2>4, <2>5
<1>. QED
  BY <1>1, <1>2, <1>3, <1>4 DEF Send

LEMMA WindowEndsStep ==
  ASSUME IInv, NEW d \in Ids, WindowEnds(d)
  PROVE  IInv'
<1>. USE DEF IInv, WindowEnds, queues, pollers
<1>1. TypeOK'
  BY DEF TypeOK
<1>2. WindowsCounted'
  BY DEF WindowsCounted, TypeOK
<1>. QED
  BY <1>1, <1>2 DEF RememberedIsForwarded, PollersKnow, HeldIsInSource,
     NothingPassedOver, UntroubledIsHeld, AtPoller, NothingLost,
     OnceUnlessTroubled, FirstTriesInOrder, Forwarded

-----------------------------------------------------------------------------
(* The source queue                                                        *)

LEMMA ArriveStep ==
  ASSUME IInv, Arrive
  PROVE  IInv'
<1>. USE DEF IInv, Arrive, pollers, target
<1>1. /\ arrived \in 0 .. N /\ arrived' = arrived + 1
      /\ source' = source \cup {arrived + 1} /\ arrived' \in 0 .. N
      /\ UNCHANGED <<inFlight, batch, current, stage, main, window, copies,
                     ended, rows, tried, troubled>>
  BY DEF TypeOK
<1>2. TypeOK'
  BY <1>1 DEF TypeOK
<1>3. WindowsCounted' /\ RememberedIsForwarded' /\ OnceUnlessTroubled'
  BY <1>1 DEF WindowsCounted, RememberedIsForwarded, OnceUnlessTroubled
<1>4. PollersKnow'
  BY <1>1 DEF PollersKnow, Forwarded, TypeOK
<1>5. HeldIsInSource' /\ NothingPassedOver'
  BY <1>1 DEF HeldIsInSource, NothingPassedOver, TypeOK
<1>6. UntroubledIsHeld'
  BY <1>1 DEF UntroubledIsHeld, AtPoller, TypeOK
<1>7. NothingLost'
  BY <1>1 DEF NothingLost, Forwarded
<1>8. FirstTriesInOrder'
  BY <1>1 DEF FirstTriesInOrder, TypeOK
<1>. QED
  BY <1>2, <1>3, <1>4, <1>5, <1>6, <1>7, <1>8

LEMMA VisibilityTimeoutStep ==
  ASSUME IInv, NEW m \in Messages, VisibilityTimeout(m)
  PROVE  IInv'
<1>. USE DEF IInv, VisibilityTimeout, pollers, target
<1>1. m \in 1 .. arrived
  BY DEF HeldIsInSource, TypeOK
<1>2. TypeOK'
  BY <1>1 DEF TypeOK
<1>3. WindowsCounted' /\ RememberedIsForwarded' /\ OnceUnlessTroubled'
  BY DEF WindowsCounted, RememberedIsForwarded, OnceUnlessTroubled
<1>4. PollersKnow'
  BY DEF PollersKnow, Forwarded, TypeOK
<1>5. HeldIsInSource' /\ NothingPassedOver' /\ NothingLost' /\ FirstTriesInOrder'
  BY DEF HeldIsInSource, NothingPassedOver, TypeOK, NothingLost, Forwarded,
     FirstTriesInOrder
<1>6. UntroubledIsHeld'
  BY DEF UntroubledIsHeld, AtPoller, TypeOK
<1>. QED
  BY <1>2, <1>3, <1>4, <1>5, <1>6

-----------------------------------------------------------------------------
(* Steps of a poller                                                       *)

LEMMA ReceiveStep ==
  ASSUME IInv, NEW p \in Pollers, ReceiveMessages(p)
  PROVE  IInv'
<1>. USE DEF IInv, target
<1>1. PICK S \in SUBSET source :
        /\ Receivable(S)
        /\ batch' = [batch EXCEPT ![p] = S]
        /\ inFlight' = [m \in Messages |-> IF m \in S THEN p ELSE inFlight[m]]
  BY DEF ReceiveMessages
<1>2. /\ Idle(p)
      /\ UNCHANGED <<arrived, source, current, stage, main, window, copies,
                     ended, rows, tried, troubled>>
  BY DEF ReceiveMessages
<1>3. S \subseteq 1 .. arrived /\ S \subseteq Messages
  BY DEF TypeOK
<1>4. ASSUME NEW i \in S PROVE inFlight[i] = NoPoller
  <2>1. i \in source /\ Group[i] = Group[i]
    OBVIOUS
  <2>. QED
    BY <2>1, <1>1 DEF Receivable
<1>5. batch'[p] = S /\ \A q \in Pollers \ {p} : batch'[q] = batch[q]
  BY <1>1 DEF TypeOK
<1>6. TypeOK'
  BY <1>1, <1>2, <1>3 DEF TypeOK
<1>7. PollersKnow'
  BY <1>2, <1>3, <1>5 DEF PollersKnow, Idle, Forwarded
<1>8. NothingPassedOver'
  <2>1. ASSUME NEW h \in Messages, NEW i \in S, Group[h] = Group[i], h < i
        PROVE  h \in S \cup tried
    <3>1. h \in 1 .. arrived
      BY <1>3, <2>1 DEF TypeOK
    <3>. QED
      BY <1>1, <2>1, <3>1 DEF Receivable, NothingPassedOver
  <2>. QED
    BY <2>1, <1>2, <1>5 DEF NothingPassedOver
<1>9. UntroubledIsHeld'
  <2>1. ASSUME NEW m \in Messages \ troubled, m \in S
        PROVE  /\ m \notin Keyed => copies[Job(m)] = 0
               /\ \A q \in Pollers : ~ AtPoller(q, m)
    BY <2>1, <1>4, JobsApart DEF UntroubledIsHeld, TypeOK
  <2>2. ASSUME NEW m \in Messages \ troubled, NEW q \in Pollers, AtPoller(q, m)'
        PROVE  inFlight'[m] = q
    <3>1. CASE m \in S
      <4>1. ~ AtPoller(q, m)
        BY <2>1, <3>1
      <4>2. q = p
        BY <4>1, <2>2, <1>2, <1>5 DEF AtPoller
      <4>. QED
        BY <4>2, <3>1, <1>1
    <3>2. CASE m \notin S
      <4>1. AtPoller(q, m)
        BY <3>2, <2>2, <1>2, <1>5 DEF AtPoller
      <4>. QED
        BY <4>1, <3>2, <1>1 DEF UntroubledIsHeld
    <3>. QED
      BY <3>1, <3>2
  <2>3. ASSUME NEW m \in Messages \ troubled, m \notin Keyed, copies'[Job(m)] > 0
        PROVE  /\ m \in tried'
               /\ m \in source' => inFlight'[m] # NoPoller
               /\ \A q \in Pollers : m \notin batch'[q]
    <3>1. m \notin S
      BY <2>1, <2>3, <1>2
    <3>. QED
      BY <3>1, <2>3, <1>1, <1>2, <1>5 DEF UntroubledIsHeld
  <2>. QED
    BY <2>2, <2>3, <1>2 DEF UntroubledIsHeld
<1>10. HeldIsInSource'
  BY <1>1, <1>2 DEF HeldIsInSource
<1>11. /\ WindowsCounted' /\ RememberedIsForwarded' /\ OnceUnlessTroubled'
       /\ NothingLost' /\ FirstTriesInOrder'
  BY <1>2 DEF WindowsCounted, RememberedIsForwarded, OnceUnlessTroubled,
     NothingLost, Forwarded, FirstTriesInOrder
<1>. QED
  BY <1>6, <1>7, <1>8, <1>9, <1>10, <1>11

(* A message is forwarded, or the attempt fails.                           *)
LEMMA ForwardStep ==
  ASSUME IInv, NEW p \in Pollers, NEW m \in batch[p],
         ForwardToMainQueue(p, m) \/ ForwardFails(p, m)
  PROVE  IInv'
<1>. USE DEF IInv
<1>1. PICK step \in {"delete", "save"} :
        /\ TakeUp(p, m, step)
        /\ step = "delete" => Send(m) /\ UNCHANGED troubled
        /\ step = "save" => (Send(m) \/ UNCHANGED target)
                            /\ troubled' = troubled \cup {m}
  BY DEF ForwardToMainQueue, ForwardFails, AfterForward, AfterFailure
<1>2. /\ stage[p] = "forward" /\ m \in Foremost(batch[p])
      /\ batch' = [batch EXCEPT ![p] = @ \ {m}]
      /\ current' = [current EXCEPT ![p] = m]
      /\ stage' = [stage EXCEPT ![p] = step]
      /\ tried' = tried \cup {m}
      /\ UNCHANGED <<arrived, source, inFlight, rows>>
  BY <1>1 DEF TakeUp, ForwardToMainQueue, ForwardFails, queues
<1>3. m \in 1 .. arrived /\ m \in Messages
  BY DEF PollersKnow, TypeOK
<1>4. /\ main \subseteq main' /\ main' \subseteq Messages \cup {Empty}
      /\ window' \subseteq Ids
      /\ copies' \in [Jobs -> Nat]
      /\ ended' = ended
      /\ WindowsCounted'
      /\ RememberedIsForwarded'
      /\ \A d \in Jobs : d # Job(m) => copies'[d] = copies[d]
      /\ copies'[Job(m)] \in {copies[Job(m)], copies[Job(m)] + 1}
      /\ step = "delete" => Forwarded(m)'
  BY <1>1, <1>3, Sending
<1>5. /\ batch'[p] = batch[p] \ {m} /\ current'[p] = m /\ stage'[p] = step
      /\ \A q \in Pollers \ {p} : /\ batch'[q] = batch[q]
                                  /\ current'[q] = current[q]
                                  /\ stage'[q] = stage[q]
  BY <1>2 DEF TypeOK
<1>6. TypeOK'
  BY <1>1, <1>2, <1>3, <1>4 DEF TypeOK
<1>7. \A n \in Messages : Forwarded(n) => Forwarded(n)'
  BY <1>4 DEF Forwarded
<1>8. PollersKnow'
  <2>1. ASSUME NEW q \in Pollers, q # p, stage[q] = "delete"
        PROVE  Forwarded(current[q])'
    <3>1. current[q] \in Messages /\ Forwarded(current[q])
      BY <2>1 DEF PollersKnow, TypeOK
    <3>2. Forwarded(current[q]) => (\E n \in Messages : Job(n) = Job(current[q]) /\ BodyOf(n) \in main')
      BY <1>4 DEF Forwarded
    <3>. QED
      BY <3>1, <3>2, <2>1, <1>5 DEF Forwarded
  <2>2. stage'[p] = "delete" => Forwarded(current[p])'
    BY <1>4, <1>5 DEF Forwarded
  <2>3. ASSUME NEW q \in Pollers
        PROVE  /\ batch'[q] \subseteq 1 .. arrived'
               /\ stage'[q] # "forward" =>
                    current'[q] \in (1 .. arrived') \cap tried' /\ current'[q] \notin batch'[q]
               /\ stage'[q] = "save" => current'[q] \in troubled'
    <3>1. CASE q = p
      BY <3>1, <1>1, <1>2, <1>3, <1>5 DEF PollersKnow
    <3>2. CASE q # p
      BY <3>2, <1>1, <1>2, <1>5 DEF PollersKnow
    <3>. QED
      BY <3>1, <3>2
  <2>4. ASSUME NEW q \in Pollers, stage'[q] = "delete"
        PROVE  Forwarded(current[q])'
    BY <2>1, <2>2, <2>4, <1>5
  <2>. QED
    BY <2>3, <2>4 DEF PollersKnow
<1>9. HeldIsInSource'
  BY <1>2 DEF HeldIsInSource
<1>10. NothingPassedOver'
  BY <1>2, <1>5 DEF NothingPassedOver
<1>11. UntroubledIsHeld' /\ OnceUnlessTroubled'
  <2>1. \A n \in Messages \ troubled' : n \notin troubled /\ (n = m => step = "delete")
    BY <1>1
  <2>2. \A n \in Messages, q \in Pollers : AtPoller(q, n)' => AtPoller(q, n)
    BY <1>2, <1>5 DEF AtPoller
  <2>3. \A n \in Messages \ troubled', q \in Pollers : AtPoller(q, n)' => inFlight'[n] = q
    BY <2>1, <2>2, <1>2 DEF UntroubledIsHeld
  <2>4. /\ m \notin troubled /\ m \notin Keyed => copies[Job(m)] = 0
        /\ m \notin troubled => inFlight[m] = p
    BY <1>3, JobsApart DEF UntroubledIsHeld, AtPoller, TypeOK
  <2>5. m \notin troubled => \A q \in Pollers : m \notin batch'[q]
    <3>1. ASSUME m \notin troubled, NEW q \in Pollers, m \in batch'[q] PROVE FALSE
      <4>1. q # p
        BY <3>1, <1>5
      <4>2. AtPoller(q, m)
        BY <3>1, <4>1, <1>5 DEF AtPoller
      <4>3. inFlight[m] = q
        BY <3>1, <4>2, <1>3 DEF UntroubledIsHeld
      <4>. QED
        BY <3>1, <2>4, <4>1, <4>3
    <3>. QED
      BY <3>1
  <2>6. ASSUME NEW n \in Messages \ troubled', n \notin Keyed, copies'[Job(n)] > 0
        PROVE  /\ n \in tried'
               /\ n \in source' => inFlight'[n] # NoPoller
               /\ \A q \in Pollers : n \notin batch'[q]
    <3>1. CASE n = m
      BY <3>1, <2>1, <2>4, <2>5, <1>2
    <3>2. CASE n # m
      <4>1. Job(n) # Job(m) /\ Job(n) \in Jobs
        BY <3>2, <2>6, <1>3, JobsApart
      <4>. QED
        BY <3>2, <4>1, <2>1, <2>6, <1>2, <1>4, <1>5 DEF UntroubledIsHeld
    <3>. QED
      BY <3>1, <3>2
  <2>7. OnceUnlessTroubled'
    <3>1. ASSUME NEW n \in Messages \ troubled', n \notin Keyed
          PROVE  copies'[Job(n)] <= 1
      <4>1. CASE n = m
        BY <3>1, <4>1, <2>1, <2>4, <1>4
      <4>2. CASE n # m
        <5>1. Job(n) # Job(m) /\ Job(n) \in Jobs
          BY <3>1, <4>2, <1>3, JobsApart
        <5>. QED
          BY <3>1, <5>1, <2>1, <1>4 DEF OnceUnlessTroubled
      <4>. QED
        BY <4>1, <4>2
    <3>2. ASSUME NEW n \in Messages \ troubled' PROVE n \notin rows'
      BY <2>1, <1>2 DEF OnceUnlessTroubled
    <3>. QED
      BY <3>1, <3>2 DEF OnceUnlessTroubled
  <2>. QED
    BY <2>3, <2>6, <2>7 DEF UntroubledIsHeld
<1>12. NothingLost'
  BY <1>2, <1>7 DEF NothingLost, TypeOK
<1>13. FirstTriesInOrder'
  <2>1. ASSUME NEW h \in 1 .. arrived, Group[h] = Group[m], h < m
        PROVE  h \in tried
    <3>1. h \in Messages
      BY DEF TypeOK
    <3>2. h \notin batch[p]
      BY <2>1, <1>2, <1>3 DEF Foremost
    <3>. QED
      BY <2>1, <3>1, <3>2 DEF NothingPassedOver
  <2>. QED
    BY <2>1, <1>2 DEF FirstTriesInOrder
<1>. QED
  BY <1>4, <1>6, <1>8, <1>9, <1>10, <1>11, <1>12, <1>13

(* The delete takes effect or not; the call returns or fails.              *)
LEMMA DeleteStep ==
  ASSUME IInv, NEW p \in Pollers, DeleteMessage(p) \/ DeleteFails(p)
  PROVE  IInv'
<1>. USE DEF IInv, target
<1>. DEFINE m == current[p]
<1>1. /\ stage[p] = "delete"
      /\ Delete(p) \/ UNCHANGED queues
      /\ UNCHANGED <<arrived, batch, main, window, copies, ended, rows, tried>>
  BY DEF DeleteMessage, DeleteFails, GoOn, Delete, queues
<1>2. m \in (1 .. arrived) \cap tried /\ Forwarded(m) /\ m \in Messages
  BY <1>1 DEF PollersKnow, TypeOK
<1>3. PICK step \in {"forward", "save"}, c \in {Empty, m} :
        /\ stage' = [stage EXCEPT ![p] = step]
        /\ current' = [current EXCEPT ![p] = c]
        /\ step = "save" => c = m /\ troubled' = troubled \cup {m}
        /\ step = "forward" => UNCHANGED troubled /\ Delete(p)
  <2>1. CASE DeleteMessage(p)
    BY <2>1 DEF DeleteMessage, GoOn
  <2>2. CASE DeleteFails(p)
    <3>1. current' = [current EXCEPT ![p] = m]
      BY <2>2 DEF DeleteFails, TypeOK
    <3>. QED
      BY <3>1, <2>2 DEF DeleteFails
  <2>. QED
    BY <2>1, <2>2
<1>4. /\ inFlight' \in [Messages -> Pollers \cup {NoPoller}]
      /\ source' \subseteq source /\ source \subseteq source' \cup {m}
      /\ \A n \in Messages : n # m => inFlight'[n] = inFlight[n]
      /\ HeldIsInSource'
      /\ inFlight'[m] = NoPoller => m \notin source' \/ inFlight[m] = NoPoller
      /\ Delete(p) => inFlight[m] = p /\ m \notin source'
  <2>1. CASE Delete(p)
    BY <2>1, <1>2 DEF Delete, HeldIsInSource, TypeOK
  <2>2. CASE UNCHANGED queues /\ ~ Delete(p)
    BY <2>2 DEF queues, HeldIsInSource, TypeOK
  <2>. QED
    BY <2>1, <2>2, <1>1
<1>5. /\ stage'[p] = step /\ current'[p] = c
      /\ \A q \in Pollers \ {p} : stage'[q] = stage[q] /\ current'[q] = current[q]
      /\ troubled \subseteq troubled'
  BY <1>3 DEF TypeOK
<1>6. TypeOK'
  BY <1>1, <1>2, <1>3, <1>4 DEF TypeOK
<1>7. PollersKnow'
  <2>1. ASSUME NEW q \in Pollers, stage'[q] = "delete"
        PROVE  Forwarded(current[q])'
    <3>1. q # p /\ stage[q] = "delete" /\ current'[q] = current[q]
      BY <2>1, <1>5
    <3>. QED
      BY <3>1, <1>1 DEF PollersKnow, Forwarded
  <2>2. ASSUME NEW q \in Pollers
        PROVE  /\ batch'[q] \subseteq 1 .. arrived'
               /\ stage'[q] # "forward" =>
                    current'[q] \in (1 .. arrived') \cap tried' /\ current'[q] \notin batch'[q]
               /\ stage'[q] = "save" => current'[q] \in troubled'
    <3>1. CASE q = p
      BY <3>1, <1>1, <1>2, <1>3, <1>5 DEF PollersKnow
    <3>2. CASE q # p
      BY <3>2, <1>1, <1>5 DEF PollersKnow
    <3>. QED
      BY <3>1, <3>2
  <2>. QED
    BY <2>1, <2>2 DEF PollersKnow
<1>8. NothingPassedOver'
  <2>1. (1 .. arrived) \ source' \subseteq ((1 .. arrived) \ source) \cup {m}
    BY <1>4
  <2>. QED
    BY <2>1, <1>1, <1>2 DEF NothingPassedOver
<1>9. UntroubledIsHeld'
  <2>1. ASSUME NEW n \in Messages \ troubled', NEW q \in Pollers, AtPoller(q, n)'
        PROVE  inFlight'[n] = q
    <3>1. AtPoller(q, n) /\ (n \notin batch[q] => q # p)
      BY <2>1, <1>1, <1>5 DEF AtPoller
    <3>2. inFlight[n] = q
      BY <2>1, <3>1, <1>5 DEF UntroubledIsHeld
    <3>3. CASE n = m
      <4>1. Delete(p)
        BY <3>3, <2>1, <1>3
      <4>2. q = p
        BY <4>1, <3>2, <3>3, <1>4
      <4>3. m \in batch[p]
        BY <4>2, <3>1, <3>3
      <4>. QED
        BY <4>3, <1>1 DEF PollersKnow
    <3>4. CASE n # m
      BY <3>4, <3>2, <1>4
    <3>. QED
      BY <3>3, <3>4
  <2>2. ASSUME NEW n \in Messages \ troubled', n \notin Keyed, copies'[Job(n)] > 0
        PROVE  /\ n \in tried'
               /\ n \in source' => inFlight'[n] # NoPoller
               /\ \A q \in Pollers : n \notin batch'[q]
    <3>1. CASE n = m
      BY <3>1, <2>2, <1>1, <1>3, <1>4, <1>5 DEF UntroubledIsHeld
    <3>2. CASE n # m
      BY <3>2, <2>2, <1>1, <1>4, <1>5 DEF UntroubledIsHeld
    <3>. QED
      BY <3>1, <3>2
  <2>. QED
    BY <2>1, <2>2 DEF UntroubledIsHeld
<1>10. NothingLost'
  <2>1. \A n \in Messages : Forwarded(n)' <=> Forwarded(n)
    BY <1>1 DEF Forwarded
  <2>. QED
    BY <2>1, <1>1, <1>2, <1>4 DEF NothingLost, TypeOK
<1>11. /\ WindowsCounted' /\ RememberedIsForwarded' /\ OnceUnlessTroubled'
       /\ FirstTriesInOrder'
  BY <1>1, <1>5 DEF WindowsCounted, RememberedIsForwarded, OnceUnlessTroubled,
     FirstTriesInOrder
<1>. QED
  BY <1>4, <1>6, <1>7, <1>8, <1>9, <1>10, <1>11

(* A message is saved or not; or the poller is gone.                       *)
LEMMA LeaveStep ==
  ASSUME IInv, NEW p \in Pollers, SaveFailedMessage(p) \/ Crash(p)
  PROVE  IInv'
<1>. USE DEF IInv, target, queues
<1>1. /\ UNCHANGED <<arrived, source, inFlight, main, window, copies, ended,
                     tried, troubled>>
      /\ stage' = [stage EXCEPT ![p] = "forward"]
      /\ current' = [current EXCEPT ![p] = Empty]
      /\ \A q \in Pollers : batch'[q] \subseteq batch[q]
      /\ \A q \in Pollers : batch'[q] \in {{}, batch[q]}
      /\ batch' \in [Pollers -> SUBSET Messages]
  BY DEF SaveFailedMessage, Crash, GoOn, TypeOK
<1>2. rows' \subseteq 1 .. arrived /\ rows' \subseteq rows \cup troubled
  BY DEF SaveFailedMessage, Crash, PollersKnow, TypeOK
<1>3. TypeOK'
  BY <1>1, <1>2 DEF TypeOK
<1>4. /\ stage'[p] = "forward"
      /\ \A q \in Pollers \ {p} : stage'[q] = stage[q] /\ current'[q] = current[q]
  BY <1>1 DEF TypeOK
<1>5. PollersKnow'
  <2>1. \A n \in Messages : Forwarded(n)' <=> Forwarded(n)
    BY <1>1 DEF Forwarded
  <2>2. ASSUME NEW q \in Pollers, stage'[q] = "delete"
        PROVE  Forwarded(current[q])'
    <3>1. q # p /\ stage[q] = "delete" /\ current'[q] = current[q]
      BY <2>2, <1>4
    <3>. QED
      BY <3>1, <1>1 DEF PollersKnow, Forwarded
  <2>. QED
    BY <2>2, <1>1, <1>4 DEF PollersKnow
<1>6. NothingPassedOver'
  BY <1>1 DEF NothingPassedOver
<1>7. UntroubledIsHeld'
  BY <1>1, <1>4 DEF UntroubledIsHeld, AtPoller
<1>8. OnceUnlessTroubled'
  BY <1>1, <1>2 DEF OnceUnlessTroubled
<1>9. /\ WindowsCounted' /\ RememberedIsForwarded' /\ HeldIsInSource'
      /\ NothingLost' /\ FirstTriesInOrder'
  BY <1>1 DEF WindowsCounted, RememberedIsForwarded, HeldIsInSource,
     NothingLost, Forwarded, FirstTriesInOrder
<1>. QED
  BY <1>3, <1>5, <1>6, <1>7, <1>8, <1>9

-----------------------------------------------------------------------------
(* The specification                                                       *)

LEMMA NextIInv ==
  ASSUME IInv, [BridgeNext]_bridgeVars
  PROVE  IInv'
<1>1. CASE Arrive
  BY <1>1, ArriveStep
<1>2. CASE \E p \in Pollers : Poll(p)
  BY <1>2, ReceiveStep, ForwardStep, DeleteStep, LeaveStep DEF Poll
<1>3. CASE \E m \in Messages : VisibilityTimeout(m)
  BY <1>3, VisibilityTimeoutStep
<1>4. CASE \E d \in Ids : WindowEnds(d)
  BY <1>4, WindowEndsStep
<1>5. CASE UNCHANGED bridgeVars
  BY <1>5 DEF bridgeVars, queues, pollers, target, IInv, TypeOK,
     WindowsCounted, RememberedIsForwarded, PollersKnow, HeldIsInSource,
     NothingPassedOver, UntroubledIsHeld, AtPoller, NothingLost, Forwarded,
     OnceUnlessTroubled, FirstTriesInOrder
<1>. QED
  BY <1>1, <1>2, <1>3, <1>4, <1>5 DEF BridgeNext

(* The inductive invariant holds for any number of messages and pollers.   *)
THEOREM IInvHolds == BridgeSpec => []IInv
<1>1. BridgeInit => IInv
  BY InitIInv
<1>2. IInv /\ [BridgeNext]_bridgeVars => IInv'
  BY NextIInv
<1>. QED
  BY <1>1, <1>2, PTL DEF BridgeSpec

(* Every variable of the bridge holds a value of its type.                 *)
THEOREM TypesHold == BridgeSpec => []TypeOK
<1>1. IInv => TypeOK
  BY DEF IInv
<1>. QED
  BY <1>1, IInvHolds, PTL

(* No message leaves the source queue before its job is in the main queue. *)
THEOREM NothingIsLost == BridgeSpec => []NothingLost
<1>1. IInv => NothingLost
  BY DEF IInv
<1>. QED
  BY <1>1, IInvHolds, PTL

(* One job in each deduplication window for all messages that bring one    *)
(* key and go to one group (terraform/sqs.tf:8).                           *)
THEOREM KeysMakeOneJob == BridgeSpec => []KeyedOnce
<1>1. ASSUME IInv, NEW d \in Ids
      PROVE  copies[d] <= ended[d] + 1
  <2>1. copies[d] \in Nat /\ ended[d] \in Nat
    BY <1>1, IdsAreJobs DEF IInv, TypeOK
  <2>2. copies[d] = ended[d] + 1 \/ copies[d] = ended[d]
    BY <1>1 DEF IInv, WindowsCounted
  <2>. QED
    BY <2>1, <2>2
<1>2. IInv => KeyedOnce
  BY <1>1 DEF KeyedOnce
<1>. QED
  BY <1>2, IInvHolds, PTL

(* Where nothing fails, a message without a key makes one job.             *)
THEOREM OnceHolds == BridgeSpec => []OnceUnlessTroubled
<1>1. IInv => OnceUnlessTroubled
  BY DEF IInv
<1>. QED
  BY <1>1, IInvHolds, PTL

(* No message is tried before those ahead of it in its group.              *)
THEOREM TriedInOrder == BridgeSpec => []FirstTriesInOrder
<1>1. IInv => FirstTriesInOrder
  BY DEF IInv
<1>. QED
  BY <1>1, IInvHolds, PTL
=============================================================================
