------------------------------- MODULE DbPool -------------------------------
(***************************************************************************)
(* The connection pool of one process and the calls that draw on it.  A    *)
(* wallet call opens a transaction on a connection of its own and, inside  *)
(* it, reads the balance through the pool, on a second one; an order or a  *)
(* refund holds the connection of its own transaction around all of that.  *)
(* A connection that is not to be had in time is an error: the transaction *)
(* is rolled back and everything the call holds is released.               *)
(***************************************************************************)
EXTENDS Naturals, Sequences, FiniteSets

CONSTANTS
  Calls,         \* API calls one process serves
  Connections,   \* connections the database would give it
  Pools          \* the pools a deployment may be configured with

NoOne == "none"
ASSUME PoolAssumption ==
  /\ IsFiniteSet(Calls) /\ NoOne \notin Calls
  /\ IsFiniteSet(Connections)
  /\ Pools \subseteq SUBSET Connections

VARIABLES
  pool,     \* poolSize connections; set when the process starts
  owner,    \* the call a connection is lent to
  kind,     \* what a call asks for: "wallet", or "order" (or refund)
  pos,      \* how far a call is in the plan of its kind
  status    \* "idle", "running", "done", or "failed"

vars == <<pool, owner, kind, pos, status>>

Kinds == {"wallet", "order"}

(***************************************************************************)
(* The connections a call holds from one await to the next.                *)
(* wallet: the idempotency key (1, 0), its transaction (1), the balance    *)
(* (2, 1), the end of the transaction (0).                                 *)
(* order: the product or the order (1, 0), its transaction (1), a wallet   *)
(* call inside it (2, 1, 2, 3, 2, 1), its end (0), the answer (1, 0).      *)
(***************************************************************************)
PlanWithManager(k) ==                       \* mutant: balance read in place
  IF k = "wallet" THEN <<0, 1, 0, 1, 0>>
  ELSE <<0, 1, 0, 1, 2, 1, 2, 1, 0, 1, 0>>
PlanOfThreeReads(k) ==                      \* mutant: status through the pool
  IF k = "wallet" THEN <<0, 1, 0, 1, 2, 1, 0>>
  ELSE <<0, 1, 0, 1, 2, 1, 2, 3, 2, 1, 2, 1, 0, 1, 0>>
PlanSideBySide(k) ==                        \* mutant: balance and lots at once
  IF k = "wallet" THEN <<0, 1, 0, 1, 2, 3, 2, 1, 0>>
  ELSE <<0, 1, 0, 1, 2, 1, 2, 3, 4, 3, 2, 1, 0, 1, 0>>
PlanUnreleased(k) ==                        \* mutant: no release in finally
  IF k = "wallet" THEN <<0, 1, 0, 1, 2, 1>>
  ELSE <<0, 1, 0, 1, 2, 1, 2, 3, 2, 1, 0, 1, 0>>
Plan(k) ==
  IF k = "wallet" THEN <<0, 1, 0, 1, 2, 1, 0>>
  ELSE <<0, 1, 0, 1, 2, 1, 2, 3, 2, 1, 0, 1, 0>>

Holds(c)    == Plan(kind[c])[pos[c]]
AtEnd(c)    == pos[c] = Len(Plan(kind[c]))
NextNeed(c) == Plan(kind[c])[pos[c] + 1]

Owned(c)  == {x \in pool : owner[x] = c}
FreeOfAll == {x \in Connections : owner[x] = NoOne}   \* mutant: no poolSize
Free      == {x \in pool : owner[x] = NoOne}

Running == {c \in Calls : status[c] = "running"}

(* The next await of a call is for a connection.                           *)
Waiting(c) == c \in Running /\ ~ AtEnd(c) /\ NextNeed(c) > Holds(c)

Init ==
  /\ pool \in Pools
  /\ owner = [x \in Connections |-> NoOne]
  /\ kind \in [Calls -> Kinds]
  /\ pos = [c \in Calls |-> 1]
  /\ status = [c \in Calls |-> "idle"]

-----------------------------------------------------------------------------

Begin(c) ==
  /\ status[c] = "idle"
  /\ status' = [status EXCEPT ![c] = "running"]
  /\ UNCHANGED <<pool, owner, kind, pos>>

Advance(c) == pos' = [pos EXCEPT ![c] = @ + 1]

(* queryRunner.connect, or a repository call on the pool.                  *)
Acquire(c) ==
  /\ Waiting(c)
  /\ \E x \in Free : owner' = [owner EXCEPT ![x] = c]
  /\ Advance(c)
  /\ UNCHANGED <<pool, kind, status>>

(* The result of a repository call is in, or queryRunner.release.          *)
Release(c) ==
  /\ c \in Running
  /\ ~ AtEnd(c)
  /\ NextNeed(c) < Holds(c)
  /\ \E x \in Owned(c) : owner' = [owner EXCEPT ![x] = NoOne]
  /\ Advance(c)
  /\ UNCHANGED <<pool, kind, status>>

Finish(c) ==
  /\ c \in Running
  /\ AtEnd(c)
  /\ status' = [status EXCEPT ![c] = "done"]
  /\ UNCHANGED <<pool, owner, kind, pos>>

(* connectionTimeoutMillis have passed and no connection came free.        *)
TimeoutNever == FALSE                       \* mutant: no timeout configured
TimeoutSet == TRUE

TimeOut(c) ==
  /\ TimeoutSet
  /\ Waiting(c)
  /\ Free = {}
  /\ status' = [status EXCEPT ![c] = "failed"]
  /\ owner' = [x \in Connections |-> IF owner[x] = c THEN NoOne ELSE owner[x]]
  /\ UNCHANGED <<pool, kind, pos>>

Step(c) == Acquire(c) \/ Release(c) \/ Finish(c) \/ TimeOut(c)

Next == \E c \in Calls : Begin(c) \/ Step(c)

(* The event loop goes on, and no statement of a call takes for ever: who  *)
(* waits for a row lock waits for a call that needs no more connections to *)
(* end its transaction.                                                    *)
Fairness == \A c \in Calls : WF_vars(Step(c))

Spec == Init /\ [][Next]_vars /\ Fairness
=============================================================================
