----------------------------- MODULE DbPoolProps -----------------------------
(***************************************************************************)
(* What nested transactions ask of the connection pool.                    *)
(***************************************************************************)
EXTENDS DbPool

(* Every variable holds a value of its type; only connections of the pool  *)
(* are lent.                                                               *)
TypeOK ==
  /\ pool \in Pools
  /\ owner \in [Connections -> Calls \cup {NoOne}]
  /\ \A x \in Connections \ pool : owner[x] = NoOne
  /\ kind \in [Calls -> Kinds]
  /\ pos \in [Calls -> Nat \ {0}]
  /\ \A c \in Calls : pos[c] <= Len(Plan(kind[c]))
  /\ status \in [Calls -> {"idle", "running", "done", "failed"}]

(***************************************************************************)
(* A call that is over, however it ended, has given every connection back, *)
(* and one that runs holds what its plan says: the `finally' of each       *)
(* transaction releases (order.service.ts:168-170, point.service.ts:292).  *)
(***************************************************************************)
ConnectionsAccounted ==
  /\ \A x \in Connections : owner[x] # NoOne => owner[x] \in Running
  /\ \A c \in Running : Cardinality(Owned(c)) = Holds(c)

(***************************************************************************)
(* On a pool of two, as configured for PLATFORM=lambda, no order is ever   *)
(* paid or refunded, not even when it is alone: the balance is read on a   *)
(* third connection (typeorm.config.ts:43, order.service.ts:110,           *)
(* point.service.ts:195, :204).                                            *)
(***************************************************************************)
Paid(c) == kind[c] = "order" /\ pos[c] >= 11

OrdersNeedThree == Cardinality(pool) < 3 => \A c \in Calls : ~ Paid(c)

(***************************************************************************)
(* Calls never wait for each other's connections all at once, provided the *)
(* pool has more than two for each call served at the same time: 10 for up *)
(* to four orders (typeorm.config.ts:43-45).                               *)
(***************************************************************************)
Ample == Cardinality(pool) > 2 * Cardinality(Calls)

NoStall == Ample /\ (\A c \in Running : Waiting(c)) => Free # {}

(***************************************************************************)
(* An order that the pool's timeout ends has either taken no points, for   *)
(* its wallet call has not come to its commit, or is paid: the timeout     *)
(* strikes while a call waits, at any of its connections, and an order     *)
(* waits for none from the commit of the wallet to its own                 *)
(* (typeorm.config.ts:45, order.service.ts:140-160).                       *)
(***************************************************************************)
PointsTaken(c) == kind[c] = "order" /\ pos[c] >= 9

TimeoutsPartNothing ==
  \A c \in Calls : status[c] = "failed" /\ PointsTaken(c) => Paid(c)

(***************************************************************************)
(* Every call ends: calls that wait for each other's connections are       *)
(* parted by connectionTimeoutMillis (typeorm.config.ts:45).               *)
(***************************************************************************)
CallsEnd == \A c \in Calls : status[c] = "running" ~> status[c] \in {"done", "failed"}
=============================================================================
