---------------------------- MODULE DbPoolProofs ----------------------------
(***************************************************************************)
(* Proofs of the invariants of DbPool for every set of calls and every     *)
(* size of the pool.                                                       *)
(***************************************************************************)
EXTENDS DbPoolProps, FiniteSetTheorems, TLAPS

USE PoolAssumption

(* What the proofs need to know of the plans.                              *)
LEMMA PlanShape ==
  ASSUME NEW k \in Kinds, NEW i \in Nat \ {0}, i <= Len(Plan(k))
  PROVE  /\ Len(Plan(k)) \in Nat
         /\ Plan(k)[i] \in 0 .. 3
         /\ Plan(k)[1] = 0 /\ Plan(k)[Len(Plan(k))] = 0
         /\ i # Len(Plan(k)) =>
              /\ i + 1 <= Len(Plan(k))
              /\ Plan(k)[i + 1] > Plan(k)[i] => Plan(k)[i + 1] = Plan(k)[i] + 1
              /\ Plan(k)[i + 1] < Plan(k)[i] => Plan(k)[i + 1] = Plan(k)[i] - 1
              /\ Plan(k)[i + 1] > Plan(k)[i] => Plan(k)[i] <= 2
         /\ k = "order" => /\ Plan(k)[8] = 3
                           /\ i < 8 => Plan(k)[i] <= 2
<1>1. CASE k = "wallet"
  <2>1. Len(Plan(k)) = 7
    BY <1>1 DEF Plan
  <2>2. i \in 1 .. 7
    BY <2>1
  <2>. QED
    BY <1>1, <2>1, <2>2, SMTT(60) DEF Plan
<1>2. CASE k = "order"
  <2>1. Len(Plan(k)) = 13
    BY <1>2 DEF Plan
  <2>2. i \in 1 .. 13
    BY <2>1
  <2>. QED
    BY <1>2, <2>1, <2>2, SMTT(60) DEF Plan
<1>. QED
  BY <1>1, <1>2 DEF Kinds

-----------------------------------------------------------------------------
(* The inductive invariant                                                 *)

(* A call that has not begun is at the start of its plan.                  *)
IdleAtStart == \A c \in Calls : status[c] = "idle" => pos[c] = 1

(* On a pool of two an order never gets its third connection.              *)
NeverAtPeak ==
  Cardinality(pool) < 3 => \A c \in Calls : kind[c] = "order" => pos[c] <= 7

IInv == TypeOK /\ ConnectionsAccounted /\ IdleAtStart /\ NeverAtPeak

LEMMA PoolFinite ==
  ASSUME TypeOK
  PROVE  /\ IsFiniteSet(pool) /\ Cardinality(pool) \in Nat
         /\ \A c \in Calls : /\ IsFiniteSet(Owned(c))
                             /\ Cardinality(Owned(c)) \in Nat
                             /\ Cardinality(Owned(c)) <= Cardinality(pool)
<1>1. IsFiniteSet(pool)
  BY FS_Subset DEF TypeOK
<1>. QED
  BY <1>1, FS_Subset, FS_CardinalityType DEF Owned

(* What a running call holds, and what it needs next.                      *)
LEMMA PlanAt ==
  ASSUME TypeOK, NEW c \in Calls
  PROVE  /\ pos[c] \in Nat \ {0} /\ pos[c] <= Len(Plan(kind[c]))
         /\ Holds(c) \in 0 .. 3
         /\ pos[c] = 1 \/ AtEnd(c) => Holds(c) = 0
         /\ ~ AtEnd(c) =>
              /\ pos[c] + 1 \in Nat \ {0}
              /\ pos[c] + 1 <= Len(Plan(kind[c]))
              /\ NextNeed(c) \in 0 .. 3
              /\ NextNeed(c) > Holds(c) => /\ NextNeed(c) = Holds(c) + 1
                                           /\ Holds(c) <= 2
              /\ NextNeed(c) < Holds(c) => NextNeed(c) = Holds(c) - 1
<1>1. kind[c] \in Kinds /\ pos[c] \in Nat \ {0} /\ pos[c] <= Len(Plan(kind[c]))
  BY DEF TypeOK
<1>2. ~ AtEnd(c) => pos[c] + 1 \in Nat \ {0} /\ pos[c] + 1 <= Len(Plan(kind[c]))
  BY <1>1, PlanShape DEF AtEnd
<1>3. ~ AtEnd(c) => NextNeed(c) \in 0 .. 3
  BY <1>1, <1>2, PlanShape DEF NextNeed
<1>. QED
  BY <1>1, <1>2, <1>3, PlanShape DEF Holds, AtEnd, NextNeed

LEMMA InitIInv == Init => IInv
<1>. SUFFICES ASSUME Init PROVE IInv
  OBVIOUS
<1>. USE DEF Init
<1>1. TypeOK
  <2>1. \A k \in Kinds : 1 <= Len(Plan(k))
    BY DEF Kinds, Plan
  <2>. QED
    BY <2>1 DEF TypeOK, Kinds
<1>2. ConnectionsAccounted
  BY DEF ConnectionsAccounted, Running
<1>. QED
  BY <1>1, <1>2 DEF IInv, IdleAtStart, NeverAtPeak

(* A connection changes hands: only the calls at its two ends notice.      *)
LEMMA OwnedAfterLending ==
  ASSUME TypeOK, NEW c \in Calls, NEW x \in Free,
         owner' = [owner EXCEPT ![x] = c], UNCHANGED pool
  PROVE  /\ Cardinality(Owned(c)') = Cardinality(Owned(c)) + 1
         /\ \A d \in Calls \ {c} : Owned(d)' = Owned(d)
<1>1. x \in pool /\ x \in Connections /\ x \notin Owned(c)
  BY DEF Free, Owned, TypeOK
<1>2. Owned(c)' = Owned(c) \cup {x}
  BY <1>1 DEF Owned, TypeOK
<1>3. \A d \in Calls \ {c} : Owned(d)' = Owned(d)
  BY <1>1 DEF Owned, Free, TypeOK
<1>. QED
  BY <1>1, <1>2, <1>3, PoolFinite, FS_AddElement

LEMMA OwnedAfterReturn ==
  ASSUME TypeOK, NEW c \in Calls, NEW x \in Owned(c),
         owner' = [owner EXCEPT ![x] = NoOne], UNCHANGED pool
  PROVE  /\ Cardinality(Owned(c)') = Cardinality(Owned(c)) - 1
         /\ \A d \in Calls \ {c} : Owned(d)' = Owned(d)
<1>1. x \in pool /\ x \in Connections /\ owner[x] = c
  BY DEF Owned, TypeOK
<1>2. Owned(c)' = Owned(c) \ {x}
  BY <1>1 DEF Owned, TypeOK
<1>3. \A d \in Calls \ {c} : Owned(d)' = Owned(d)
  BY <1>1 DEF Owned, TypeOK
<1>4. IsFiniteSet(Owned(c))
  BY PoolFinite
<1>5. Cardinality(Owned(c) \ {x}) = Cardinality(Owned(c)) - 1
  BY <1>4, FS_RemoveElement
<1>. QED
  BY <1>2, <1>3, <1>5

(* A call that advances by one holds what its plan says next.              *)
LEMMA AfterAdvance ==
  ASSUME TypeOK, NEW c \in Calls, ~ AtEnd(c), Advance(c), UNCHANGED kind
  PROVE  /\ pos' \in [Calls -> Nat \ {0}]
         /\ \A d \in Calls : pos'[d] <= Len(Plan(kind'[d]))
         /\ Holds(c)' = NextNeed(c)
         /\ \A d \in Calls \ {c} : Holds(d)' = Holds(d)
<1>1. pos \in [Calls -> Nat \ {0}]
  BY DEF TypeOK
<1>2. pos'[c] = pos[c] + 1 /\ \A d \in Calls \ {c} : pos'[d] = pos[d]
  BY <1>1 DEF Advance
<1>. QED
  BY <1>1, <1>2, PlanAt DEF Advance, Holds, NextNeed, TypeOK

LEMMA NextIInv == IInv /\ [Next]_vars => IInv'
<1>. SUFFICES ASSUME IInv, [Next]_vars PROVE IInv'
  OBVIOUS
<1>. USE DEF IInv
<1>0. TypeOK /\ NoOne \notin Calls
  OBVIOUS
<1>1. ASSUME NEW c \in Calls, Begin(c) PROVE IInv'
  <2>. USE <1>1 DEF Begin
  <2>1. TypeOK'
    BY DEF TypeOK
  <2>2. Owned(c) = {} /\ Holds(c) = 0
    <3>1. pos[c] = 1
      BY DEF IdleAtStart
    <3>2. c \notin Running
      BY DEF Running
    <3>. QED
      BY <3>1, <3>2, PlanAt DEF ConnectionsAccounted, Owned, TypeOK
  <2>3. Running' = Running \cup {c}
    BY DEF Running, TypeOK
  <2>4. \A d \in Calls : Owned(d)' = Owned(d) /\ Holds(d)' = Holds(d)
    BY DEF Owned, Holds
  <2>5. ConnectionsAccounted'
    <3>1. \A y \in Connections : owner'[y] # NoOne => owner'[y] \in Running'
      BY <2>3 DEF ConnectionsAccounted
    <3>2. ASSUME NEW d \in Running' PROVE Cardinality(Owned(d)') = Holds(d)'
      <4>1. CASE d = c
        BY <4>1, <2>2, <2>4, FS_EmptySet
      <4>2. CASE d # c
        BY <4>2, <2>3, <2>4 DEF ConnectionsAccounted, Running
      <4>. QED
        BY <4>1, <4>2
    <3>. QED
      BY <3>1, <3>2 DEF ConnectionsAccounted
  <2>. QED
    BY <2>1, <2>5 DEF IdleAtStart, NeverAtPeak, TypeOK
<1>2. ASSUME NEW c \in Calls, Acquire(c) PROVE IInv'
  <2>. USE <1>2 DEF Acquire
  <2>0. PICK x \in Free : owner' = [owner EXCEPT ![x] = c]
    OBVIOUS
  <2>1. c \in Running /\ ~ AtEnd(c) /\ NextNeed(c) = Holds(c) + 1
    BY PlanAt DEF Waiting
  <2>2. x \in pool /\ x \in Connections
    BY DEF Free, TypeOK
  <2>3. TypeOK'
    <3>1. owner' \in [Connections -> Calls \cup {NoOne}]
      BY <2>0, <2>2 DEF TypeOK
    <3>2. \A y \in Connections \ pool : owner'[y] = NoOne
      BY <2>0, <2>2 DEF TypeOK
    <3>3. /\ pos' \in [Calls -> Nat \ {0}]
          /\ \A d \in Calls : pos'[d] <= Len(Plan(kind'[d]))
      BY <2>1, AfterAdvance
    <3>. QED
      BY <3>1, <3>2, <3>3 DEF TypeOK
  <2>4. /\ Cardinality(Owned(c)') = Holds(c)'
        /\ \A d \in Running \ {c} : Cardinality(Owned(d)') = Holds(d)'
    BY <2>0, <2>1, OwnedAfterLending, AfterAdvance DEF ConnectionsAccounted, Running
  <2>5. Running' = Running
    BY DEF Running
  <2>6. ConnectionsAccounted'
    BY <2>0, <2>1, <2>2, <2>4, <2>5 DEF ConnectionsAccounted, TypeOK
  <2>7. IdleAtStart'
    BY <2>1, <2>3 DEF IdleAtStart, Advance, Running, TypeOK
  <2>8. NeverAtPeak'
    <3>. SUFFICES ASSUME Cardinality(pool) < 3, kind[c] = "order", pos[c] = 7
                  PROVE  FALSE
      BY <2>1 DEF NeverAtPeak, Advance, TypeOK
    <3>1. Holds(c)' = 3
      <4>1. pos[c] + 1 = 8 /\ NextNeed(c) = Plan("order")[8]
        BY DEF NextNeed
      <4>2. Plan("order")[8] = 3
        BY DEF Plan
      <4>. QED
        BY <2>1, <4>1, <4>2, AfterAdvance
    <3>2. Cardinality(Owned(c)') = 3
      BY <2>4, <3>1
    <3>3. Cardinality(Owned(c)') <= Cardinality(pool')
      BY PoolFinite, FS_Subset DEF Owned
    <3>. QED
      BY <3>2, <3>3, PoolFinite
  <2>. QED
    BY <2>3, <2>6, <2>7, <2>8
<1>3. ASSUME NEW c \in Calls, Release(c) PROVE IInv'
  <2>. USE <1>3 DEF Release
  <2>0. PICK x \in Owned(c) : owner' = [owner EXCEPT ![x] = NoOne]
    OBVIOUS
  <2>1. c \in Running /\ ~ AtEnd(c) /\ NextNeed(c) = Holds(c) - 1
    BY PlanAt
  <2>2. x \in pool /\ x \in Connections
    BY DEF Owned, TypeOK
  <2>3. TypeOK'
    <3>1. owner' \in [Connections -> Calls \cup {NoOne}]
      BY <2>0, <2>2 DEF TypeOK
    <3>2. \A y \in Connections \ pool : owner'[y] = NoOne
      BY <2>0, <2>2 DEF TypeOK
    <3>3. /\ pos' \in [Calls -> Nat \ {0}]
          /\ \A d \in Calls : pos'[d] <= Len(Plan(kind'[d]))
      BY <2>1, AfterAdvance
    <3>. QED
      BY <3>1, <3>2, <3>3 DEF TypeOK
  <2>4. /\ Cardinality(Owned(c)') = Holds(c)'
        /\ \A d \in Running \ {c} : Cardinality(Owned(d)') = Holds(d)'
    BY <2>0, <2>1, OwnedAfterReturn, AfterAdvance DEF ConnectionsAccounted, Running
  <2>5. Running' = Running
    BY DEF Running
  <2>6. ConnectionsAccounted'
    BY <2>0, <2>1, <2>2, <2>4, <2>5 DEF ConnectionsAccounted, TypeOK
  <2>7. IdleAtStart'
    BY <2>1, <2>3 DEF IdleAtStart, Advance, Running, TypeOK
  <2>8. NeverAtPeak'
    <3>. SUFFICES ASSUME kind[c] = "order", pos[c] = 7 PROVE FALSE
      BY <2>1 DEF NeverAtPeak, Advance, TypeOK
    <3>. QED
      BY DEF NextNeed, Holds, Plan
  <2>. QED
    BY <2>3, <2>6, <2>7, <2>8
<1>4. ASSUME NEW c \in Calls, Finish(c) PROVE IInv'
  <2>. USE <1>4 DEF Finish
  <2>1. TypeOK'
    BY DEF TypeOK
  <2>2. Holds(c) = 0 /\ Cardinality(Owned(c)) = 0
    BY PlanAt DEF ConnectionsAccounted
  <2>3. Owned(c) = {}
    BY <2>2, PoolFinite, FS_EmptySet
  <2>4. Running' = Running \ {c}
    BY DEF Running, TypeOK
  <2>5. \A d \in Calls : Owned(d)' = Owned(d) /\ Holds(d)' = Holds(d)
    BY DEF Owned, Holds
  <2>6. \A y \in Connections : owner[y] # c
    BY <2>3 DEF Owned, TypeOK
  <2>7. ConnectionsAccounted'
    <3>1. \A y \in Connections : owner'[y] # NoOne => owner'[y] \in Running'
      BY <2>4, <2>6 DEF ConnectionsAccounted
    <3>2. \A d \in Running' : Cardinality(Owned(d)') = Holds(d)'
      BY <2>4, <2>5 DEF ConnectionsAccounted, Running
    <3>. QED
      BY <3>1, <3>2 DEF ConnectionsAccounted
  <2>. QED
    BY <2>1, <2>7 DEF IdleAtStart, NeverAtPeak, TypeOK
<1>5. ASSUME NEW c \in Calls, TimeOut(c) PROVE IInv'
  <2>. USE <1>5 DEF TimeOut
  <2>1. TypeOK'
    BY DEF TypeOK
  <2>2. Running' = Running \ {c}
    BY DEF Running, TypeOK
  <2>3. \A d \in Calls \ {c} : Owned(d)' = Owned(d) /\ Holds(d)' = Holds(d)
    BY DEF Owned, Holds, TypeOK
  <2>4. ConnectionsAccounted'
    <3>1. \A y \in Connections : owner'[y] # NoOne => owner'[y] \in Running'
      BY <2>2 DEF ConnectionsAccounted, TypeOK
    <3>2. \A d \in Running' : Cardinality(Owned(d)') = Holds(d)'
      BY <2>2, <2>3 DEF ConnectionsAccounted, Running
    <3>. QED
      BY <3>1, <3>2 DEF ConnectionsAccounted
  <2>. QED
    BY <2>1, <2>4 DEF IdleAtStart, NeverAtPeak, TypeOK
<1>6. CASE UNCHANGED vars
  BY <1>6 DEF vars, TypeOK, ConnectionsAccounted, IdleAtStart, NeverAtPeak,
              Running, Owned, Holds
<1>. QED
  BY <1>1, <1>2, <1>3, <1>4, <1>5, <1>6 DEF Next, Step

-----------------------------------------------------------------------------
(* Small sets                                                              *)

LEMMA FirstOrSecond == IsFiniteSet(1 .. 2) /\ Cardinality(1 .. 2) = 2
<1>1. 1 .. 2 = {1} \cup {2} /\ 2 \notin {1}
  OBVIOUS
<1>2. IsFiniteSet({1}) /\ Cardinality({1}) = 1
  BY FS_Singleton
<1>3. /\ IsFiniteSet({1} \cup {2})
      /\ Cardinality({1} \cup {2}) = 1 + 1
  BY <1>1, <1>2, FS_AddElement, Zenon
<1>4. 1 + 1 = 2
  OBVIOUS
<1>. QED
  BY <1>1, <1>3, <1>4, Zenon

LEMMA ThreeElements ==
  ASSUME NEW a, NEW b, NEW c, a # b, c # a, c # b
  PROVE  Cardinality({a, b, c}) = 3
<1>1. IsFiniteSet({a}) /\ Cardinality({a}) = 1
  BY FS_Singleton
<1>2. /\ IsFiniteSet({a} \cup {b})
      /\ Cardinality({a} \cup {b}) = Cardinality({a}) + 1
  <2>1. b \notin {a}
    OBVIOUS
  <2>. QED
    BY <1>1, <2>1, FS_AddElement, Zenon
<1>3. Cardinality(({a} \cup {b}) \cup {c}) = Cardinality({a} \cup {b}) + 1
  <2>1. c \notin {a} \cup {b}
    OBVIOUS
  <2>. QED
    BY <1>2, <2>1, FS_AddElement, Zenon
<1>4. {a, b, c} = ({a} \cup {b}) \cup {c}
  OBVIOUS
<1>5. Cardinality(({a} \cup {b}) \cup {c}) = (1 + 1) + 1
  BY <1>1, <1>2, <1>3, Zenon
<1>6. (1 + 1) + 1 = 3
  OBVIOUS
<1>. QED
  BY <1>4, <1>5, <1>6, Zenon

-----------------------------------------------------------------------------
(* The theorems                                                            *)

THEOREM Invariance == Spec => []IInv
  BY InitIInv, NextIInv, PTL DEF Spec

(* DbPool never lends a connection the pool does not have, for any calls   *)
(* and any pool.                                                           *)
THEOREM TypeCorrect == Spec => []TypeOK
<1>1. IInv => TypeOK
  BY DEF IInv
<1>. QED
  BY <1>1, Invariance, PTL

(* Every call that is over has returned its connections, and a running one *)
(* holds what its transactions need (order.service.ts:168-170).            *)
THEOREM NoConnectionLeaks == Spec => []ConnectionsAccounted
<1>1. IInv => ConnectionsAccounted
  BY DEF IInv
<1>. QED
  BY <1>1, Invariance, PTL

(* Whatever else the process serves, a pool of two connections never       *)
(* completes an order or a refund (typeorm.config.ts:43).                  *)
THEOREM PoolOfTwoPaysNothing == Spec => []OrdersNeedThree
<1>1. IInv => OrdersNeedThree
  BY DEF IInv, TypeOK, NeverAtPeak, OrdersNeedThree, Paid
<1>. QED
  BY <1>1, Invariance, PTL

(* An order that ends on a timeout of the pool has taken no points, or is  *)
(* paid (typeorm.config.ts:45, order.service.ts:140-160).                  *)
THEOREM TimeoutsAreClean == Spec => []TimeoutsPartNothing
<1>. USE DEF TimeoutsPartNothing, PointsTaken, Paid
<1>1. Init => TimeoutsPartNothing
  BY DEF Init
<1>2. IInv /\ TimeoutsPartNothing /\ [Next]_vars => TimeoutsPartNothing'
  <2>. SUFFICES ASSUME TypeOK, TimeoutsPartNothing, [Next]_vars
                PROVE  TimeoutsPartNothing'
    BY DEF IInv
  <2>1. ASSUME NEW c \in Calls, TimeOut(c)
        PROVE  TimeoutsPartNothing'
    <3>1. ~ (kind[c] = "order" /\ pos[c] \in {9, 10})
      BY <2>1 DEF TimeOut, Waiting, NextNeed, Holds, Plan
    <3>2. pos[c] >= 9 => pos[c] \in {9, 10} \/ pos[c] >= 11
      BY DEF TypeOK
    <3>. QED
      BY <2>1, <3>1, <3>2 DEF TimeOut, TypeOK
  <2>2. ASSUME NEW c \in Calls, Begin(c) \/ Acquire(c) \/ Release(c) \/ Finish(c)
        PROVE  TimeoutsPartNothing'
    BY <2>2 DEF Begin, Acquire, Release, Finish, Waiting, Running, Advance, TypeOK
  <2>3. CASE UNCHANGED vars
    BY <2>3 DEF vars
  <2>. QED
    BY <2>1, <2>2, <2>3 DEF Next, Step
<1>. QED
  BY <1>1, <1>2, Invariance, PTL DEF Spec

(***************************************************************************)
(* With more than two connections for each call there is always a call     *)
(* that can go on.  If all were waiting and nothing free, each connection  *)
(* would be the first or the second of one of the calls: too few names for *)
(* the connections of the pool.                                            *)
(***************************************************************************)
THEOREM AmplePoolNeverStalls == Spec => []NoStall
<1>1. IInv => NoStall
  <2>. SUFFICES ASSUME IInv, Ample, \A c \in Running : Waiting(c), Free = {}
                PROVE  FALSE
    BY DEF NoStall
  <2>1. TypeOK /\ ConnectionsAccounted
    BY DEF IInv
  <2>2. \A x \in pool : owner[x] \in Running
    BY <2>1 DEF Free, ConnectionsAccounted, TypeOK
  <2>3. \A c \in Running : Cardinality(Owned(c)) <= 2
    BY <2>1, PlanAt DEF ConnectionsAccounted, Waiting, Running
  <2>. DEFINE First(c) == CHOOSE x \in Owned(c) : TRUE
              Names == Calls \X (1 .. 2)
              name == [x \in pool |-> <<owner[x],
                                       IF x = First(owner[x]) THEN 1 ELSE 2>>]
  <2>4. name \in [pool -> Names]
    BY <2>2 DEF Running
  <2>5. IsFiniteSet(Names) /\ Cardinality(Names) = 2 * Cardinality(Calls)
    <3>1. IsFiniteSet(1 .. 2) /\ Cardinality(1 .. 2) = 2
      BY FirstOrSecond
    <3>2. IsFiniteSet(Calls) /\ Cardinality(Calls) \in Nat
      BY FS_CardinalityType
    <3>3. /\ IsFiniteSet(Calls \X (1 .. 2))
          /\ Cardinality(Calls \X (1 .. 2)) = Cardinality(Calls) * Cardinality(1 .. 2)
      BY <3>1, <3>2, FS_Product
    <3>4. Cardinality(Calls \X (1 .. 2)) = Cardinality(Calls) * 2
      BY <3>1, <3>3
    <3>. QED
      BY <3>2, <3>3, <3>4
  <2>6. PICK x, y \in pool : x # y /\ name[x] = name[y]
    <3>1. IsFiniteSet(pool) /\ Cardinality(Names) < Cardinality(pool)
      BY <2>1, <2>5, PoolFinite DEF Ample
    <3>. HIDE DEF name, Names
    <3>. QED
      BY <2>4, <2>5, <3>1, FS_PigeonHole
  <2>. DEFINE c == owner[x]
              z == First(c)
  <2>7. owner[y] = c /\ (x = z <=> y = z)
    BY <2>6
  <2>8. x \in Owned(c) /\ y \in Owned(c) /\ z \in Owned(c) /\ z # x /\ z # y
    <3>1. x \in Owned(c) /\ y \in Owned(c)
      BY <2>7 DEF Owned
    <3>. QED
      BY <3>1, <2>6, <2>7
  <2>9. Cardinality({x, y, z}) = 3
    BY <2>6, <2>8, ThreeElements
  <2>10. {x, y, z} \in SUBSET Owned(c)
    BY <2>8
  <2>11. c \in Running
    BY <2>2
  <2>12. IsFiniteSet(Owned(c)) /\ Cardinality(Owned(c)) \in Nat
    BY <2>1, <2>11, PoolFinite DEF Running
  <2>13. Cardinality({x, y, z}) <= Cardinality(Owned(c))
    BY <2>10, <2>12, FS_Subset
  <2>. QED
    BY <2>3, <2>9, <2>11, <2>12, <2>13
<1>. QED
  BY <1>1, Invariance, PTL
=============================================================================
