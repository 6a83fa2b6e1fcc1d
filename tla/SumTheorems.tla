----------------------------- MODULE SumTheorems -----------------------------
(***************************************************************************)
(* Sums over finite sets: facts about SumFunctionOnSet, the SUM(...) of    *)
(* the SQL statements.  The induction is over finite sets, as the choice   *)
(* of a smallest set for which a fact would fail.                          *)
(***************************************************************************)
EXTENDS FiniteSetTheorems, TLAPS

(* Any nonempty collection of subsets of a finite set has a smallest one.  *)
LEMMA SmallestSubset ==
  ASSUME NEW S, IsFiniteSet(S), NEW B, B \subseteq SUBSET S, B # {}
  PROVE  \E T \in B : \A U \in B : U \subseteq T => U = T
<1>1. IsWellFoundedOn(StrictSubsetOrdering(S), SUBSET S)
  BY FS_StrictSubsetOrderingWellFounded, FS_FiniteSubsetsOfFinite
<1>2. PICK T \in B : \A U \in B : ~ (<<U, T>> \in StrictSubsetOrdering(S))
  BY <1>1, WFMin
<1>. QED
  BY <1>2 DEF StrictSubsetOrdering

-----------------------------------------------------------------------------
(* The defining equation                                                   *)

Pick(s) == CHOOSE x \in s : TRUE

(* g is the table of sums that the definition of a fold speaks of.         *)
IsSums(g, f, S) ==
  g = [s \in SUBSET S |->
         IF s = {} THEN 0 ELSE f[Pick(s)] + g[s \ {Pick(s)}]]

LEMMA SumUnfold ==
  ASSUME NEW f, NEW S
  PROVE  SumFunctionOnSet(f, S) = (CHOOSE g : IsSums(g, f, S))[S]
  BY DEF SumFunctionOnSet, FoldFunctionOnSet, MapThenFoldSet, IsSums, Pick

LEMMA PickIn ==
  ASSUME NEW s, s # {}
  PROVE  Pick(s) \in s
  BY DEF Pick

LEMMA SumsAt ==
  ASSUME NEW g, NEW f, NEW S, IsSums(g, f, S), NEW s, s \subseteq S, s # {}
  PROVE  g[s] = f[Pick(s)] + g[s \ {Pick(s)}]
  BY DEF IsSums

(* Two tables agree where both are defined.                                *)
LEMMA SumsAgree ==
  ASSUME NEW f, NEW S, IsFiniteSet(S), NEW T, NEW g, NEW h,
         IsSums(g, f, S), IsSums(h, f, T), NEW s, s \subseteq S, s \subseteq T
  PROVE  g[s] = h[s]
<1>. DEFINE B == {u \in SUBSET s : g[u] # h[u]}
<1>1. SUFFICES ASSUME B # {} PROVE FALSE
  OBVIOUS
<1>2. IsFiniteSet(s)
  BY FS_Subset
<1>3. PICK u \in B : \A v \in B : v \subseteq u => v = u
  <2>1. B \subseteq SUBSET s
    OBVIOUS
  <2>. HIDE DEF B
  <2>. QED
    BY <1>1, <1>2, <2>1, SmallestSubset
<1>4. u # {}
  BY <1>3 DEF IsSums
<1>5. PICK v : v = u \ {Pick(u)}
  OBVIOUS
<1>6. v \subseteq u /\ v # u /\ v \in SUBSET s
  BY <1>4, <1>5, PickIn
<1>7. g[v] = h[v]
  BY <1>3, <1>6
<1>8. g[u] = f[Pick(u)] + g[v] /\ h[u] = f[Pick(u)] + h[v]
  BY <1>4, <1>5 DEF IsSums
<1>. QED
  BY <1>7, <1>8

(* There is a table.                                                       *)
LEMMA SumsExist ==
  ASSUME NEW f, NEW S, IsFiniteSet(S)
  PROVE  \E g : IsSums(g, f, S)
<1>. DEFINE B == {T \in SUBSET S : ~ \E g : IsSums(g, f, T)}
            Table(T) == CHOOSE g : IsSums(g, f, T)
<1>1. SUFFICES ASSUME B # {} PROVE FALSE
  OBVIOUS
<1>2. PICK T \in B : \A U \in B : U \subseteq T => U = T
  <2>1. B \subseteq SUBSET S
    OBVIOUS
  <2>. HIDE DEF B
  <2>. QED
    BY <1>1, <2>1, SmallestSubset
<1>3. ASSUME NEW U, U \subseteq T, U # T
      PROVE  IsSums(Table(U), f, U) /\ IsFiniteSet(U)
  <2>1. \E g : IsSums(g, f, U)
    BY <1>2, <1>3
  <2>. QED
    BY <2>1, <1>2, <1>3, FS_Subset
<1>. DEFINE n == [s \in SUBSET T |->
                    IF s = {} THEN 0
                    ELSE f[Pick(s)] + Table(s \ {Pick(s)})[s \ {Pick(s)}]]
<1>. HIDE DEF Table
<1>4. ASSUME NEW U, U \subseteq T, U # T
      PROVE  n[U] = Table(U)[U]
  <2>1. CASE U = {}
    BY <1>3, <1>4, <2>1 DEF IsSums
  <2>2. CASE U # {}
    <3>1. PICK V : V = U \ {Pick(U)}
      OBVIOUS
    <3>2. V \subseteq U /\ V \subseteq T /\ V # T
      BY <3>1, <1>4
    <3>3. Table(U)[U] = f[Pick(U)] + Table(U)[V]
      BY <1>3, <1>4, <2>2, <3>1, SumsAt
    <3>4. Table(U)[V] = Table(V)[V]
      BY <1>3, <1>4, <3>2, SumsAgree
    <3>5. n[U] = f[Pick(U)] + Table(V)[V]
      BY <1>4, <2>2, <3>1
    <3>. QED
      BY <3>3, <3>4, <3>5
  <2>. QED
    BY <2>1, <2>2
<1>5. ASSUME NEW s \in SUBSET T, s # {}
      PROVE  n[s] = f[Pick(s)] + n[s \ {Pick(s)}]
  <2>1. PICK V : V = s \ {Pick(s)}
    OBVIOUS
  <2>2. V \subseteq T /\ V # T
    BY <2>1, <1>5, PickIn
  <2>3. n[V] = Table(V)[V]
    BY <2>2, <1>4
  <2>4. n[s] = f[Pick(s)] + Table(V)[V]
    BY <1>5, <2>1
  <2>. QED
    BY <2>1, <2>3, <2>4
<1>6. n[{}] = 0
  OBVIOUS
<1>7. n = [s \in SUBSET T |-> n[s]]
  OBVIOUS
<1>. HIDE DEF n
<1>8. IsSums(n, f, T)
  BY <1>5, <1>6, <1>7 DEF IsSums
<1>. QED
  BY <1>2, <1>8

LEMMA SumEmpty ==
  ASSUME NEW f
  PROVE  SumFunctionOnSet(f, {}) = 0
<1>1. \E g : IsSums(g, f, {})
  BY SumsExist, FS_EmptySet
<1>. QED
  BY <1>1, SumUnfold DEF IsSums

LEMMA SumPick ==
  ASSUME NEW f, NEW S, IsFiniteSet(S), S # {}
  PROVE  SumFunctionOnSet(f, S)
           = f[Pick(S)] + SumFunctionOnSet(f, S \ {Pick(S)})
<1>. DEFINE Table(T) == CHOOSE g : IsSums(g, f, T)
            R == S \ {Pick(S)}
<1>1. IsFiniteSet(R)
  BY FS_Subset
<1>2. IsSums(Table(S), f, S) /\ IsSums(Table(R), f, R)
  <2>1. (\E g : IsSums(g, f, S)) /\ (\E g : IsSums(g, f, R))
    BY <1>1, SumsExist
  <2>. QED
    BY <2>1
<1>3. /\ SumFunctionOnSet(f, S) = Table(S)[S]
      /\ SumFunctionOnSet(f, R) = Table(R)[R]
  BY SumUnfold
<1>. HIDE DEF Table
<1>4. Table(S)[S] = f[Pick(S)] + Table(S)[R]
  BY <1>2 DEF IsSums
<1>. HIDE DEF R
<1>5. R \subseteq S
  BY DEF R
<1>6. Table(S)[R] = Table(R)[R]
  BY <1>2, <1>5, SumsAgree
<1>. QED
  BY <1>3, <1>4, <1>6 DEF R

-----------------------------------------------------------------------------
(* Sums of integers                                                        *)

(* Induction over the subsets of a finite set, the fact given as the       *)
(* collection of sets that it holds of.                                    *)
LEMMA SubsetInduction ==
  ASSUME NEW S, IsFiniteSet(S), NEW G, {} \in G,
         \A T \in SUBSET S : \A x \in T : T \ {x} \in G => T \in G
  PROVE  S \in G
<1>. DEFINE B == (SUBSET S) \ G
<1>1. SUFFICES ASSUME B # {} PROVE FALSE
  OBVIOUS
<1>2. PICK T \in B : \A U \in B : U \subseteq T => U = T
  <2>1. B \subseteq SUBSET S
    OBVIOUS
  <2>. HIDE DEF B
  <2>. QED
    BY <1>1, <2>1, SmallestSubset
<1>3. PICK x \in T : TRUE
  BY <1>2
<1>4. PICK U : U = T \ {x}
  OBVIOUS
<1>5. U \in SUBSET S /\ U \subseteq T /\ U # T
  BY <1>2, <1>3, <1>4
<1>6. U \in G
  BY <1>2, <1>5
<1>. QED
  BY <1>2, <1>4, <1>6

LEMMA SumInt ==
  ASSUME NEW S, IsFiniteSet(S), NEW f, \A x \in S : f[x] \in Int
  PROVE  SumFunctionOnSet(f, S) \in Int
<1>. DEFINE B == {T \in SUBSET S : SumFunctionOnSet(f, T) \notin Int}
<1>1. SUFFICES ASSUME B # {} PROVE FALSE
  OBVIOUS
<1>2. PICK T \in B : \A U \in B : U \subseteq T => U = T
  <2>1. B \subseteq SUBSET S
    OBVIOUS
  <2>. HIDE DEF B
  <2>. QED
    BY <1>1, <2>1, SmallestSubset
<1>3. T # {}
  BY <1>2, SumEmpty
<1>4. Pick(T) \in T /\ IsFiniteSet(T)
  BY <1>2, <1>3, PickIn, FS_Subset
<1>5. SumFunctionOnSet(f, T \ {Pick(T)}) \in Int
  BY <1>2, <1>4
<1>. QED
  BY <1>2, <1>3, <1>4, <1>5, SumPick

(* The order of the terms does not matter: any of them may come first.     *)
LEMMA SumRemove ==
  ASSUME NEW S, IsFiniteSet(S), NEW f, \A x \in S : f[x] \in Int, NEW x \in S
  PROVE  SumFunctionOnSet(f, S) = f[x] + SumFunctionOnSet(f, S \ {x})
<1>. DEFINE Sum(T) == SumFunctionOnSet(f, T)
            B == {T \in SUBSET S : \E y \in T : Sum(T) # f[y] + Sum(T \ {y})}
<1>1. SUFFICES ASSUME B # {} PROVE FALSE
  OBVIOUS
<1>2. PICK T \in B : \A U \in B : U \subseteq T => U = T
  <2>1. B \subseteq SUBSET S
    OBVIOUS
  <2>. HIDE DEF B
  <2>. QED
    BY <1>1, <2>1, SmallestSubset
<1>3. PICK y \in T : Sum(T) # f[y] + Sum(T \ {y})
  BY <1>2
<1>4. PICK p : p = Pick(T)
  OBVIOUS
<1>5. p \in T /\ IsFiniteSet(T) /\ Sum(T) = f[p] + Sum(T \ {p})
  BY <1>2, <1>3, <1>4, PickIn, FS_Subset, SumPick
<1>6. p # y
  BY <1>3, <1>5
<1>7. \A U \in SUBSET T : U # T => \A z \in U : Sum(U) = f[z] + Sum(U \ {z})
  BY <1>2
<1>8. (T \ {p}) \ {y} = (T \ {y}) \ {p}
  OBVIOUS
<1>9. Sum((T \ {p}) \ {y}) \in Int
  BY <1>2, <1>5, SumInt, FS_Subset
<1>. HIDE DEF Sum, B
<1>10. Sum(T \ {p}) = f[y] + Sum((T \ {p}) \ {y})
  BY <1>5, <1>6, <1>7
<1>11. Sum(T \ {y}) = f[p] + Sum((T \ {p}) \ {y})
  BY <1>5, <1>6, <1>7, <1>8
<1>12. f[p] \in Int /\ f[y] \in Int
  <2>1. T \subseteq S
    BY <1>2 DEF B
  <2>. QED
    BY <1>5, <2>1
<1>. QED
  BY <1>3, <1>5, <1>9, <1>10, <1>11, <1>12

LEMMA SumAdd ==
  ASSUME NEW S, IsFiniteSet(S), NEW x, x \notin S, NEW f,
         \A y \in S \cup {x} : f[y] \in Int
  PROVE  SumFunctionOnSet(f, S \cup {x}) = SumFunctionOnSet(f, S) + f[x]
<1>1. IsFiniteSet(S \cup {x}) /\ (S \cup {x}) \ {x} = S
  BY FS_AddElement
<1>2. SumFunctionOnSet(f, S) \in Int
  BY SumInt
<1>3. SumFunctionOnSet(f, S \cup {x})
        = f[x] + SumFunctionOnSet(f, (S \cup {x}) \ {x})
  BY <1>1, SumRemove
<1>4. SumFunctionOnSet(f, S \cup {x}) = f[x] + SumFunctionOnSet(f, S)
  BY <1>1, <1>3
<1>5. f[x] \in Int
  OBVIOUS
<1>. QED
  BY <1>2, <1>4, <1>5

(* A sum depends on the terms only.                                        *)
LEMMA SumEqual ==
  ASSUME NEW S, IsFiniteSet(S), NEW f, NEW g,
         \A x \in S : f[x] \in Int /\ g[x] = f[x]
  PROVE  SumFunctionOnSet(g, S) = SumFunctionOnSet(f, S)
<1>. DEFINE G == {T \in SUBSET S : SumFunctionOnSet(g, T) = SumFunctionOnSet(f, T)}
<1>1. {} \in G
  BY SumEmpty
<1>2. ASSUME NEW T \in SUBSET S, NEW x \in T, T \ {x} \in G
      PROVE  T \in G
  <2>1. /\ SumFunctionOnSet(f, T) = f[x] + SumFunctionOnSet(f, T \ {x})
        /\ SumFunctionOnSet(g, T) = g[x] + SumFunctionOnSet(g, T \ {x})
    BY FS_Subset, SumRemove
  <2>. QED
    BY <1>2, <2>1
<1>. HIDE DEF G
<1>3. S \in G
  BY <1>1, <1>2, SubsetInduction
<1>. QED
  BY <1>3 DEF G

(* Sums are added term by term.                                            *)
LEMMA SumPlus ==
  ASSUME NEW S, IsFiniteSet(S), NEW f, NEW g, NEW h,
         \A x \in S : f[x] \in Int /\ g[x] \in Int /\ h[x] = f[x] + g[x]
  PROVE  SumFunctionOnSet(h, S)
           = SumFunctionOnSet(f, S) + SumFunctionOnSet(g, S)
<1>. DEFINE Sum(k, T) == SumFunctionOnSet(k, T)
            G == {T \in SUBSET S : Sum(h, T) = Sum(f, T) + Sum(g, T)}
<1>1. {} \in G
  BY SumEmpty
<1>2. ASSUME NEW T \in SUBSET S, NEW x \in T, T \ {x} \in G
      PROVE  T \in G
  <2>1. IsFiniteSet(T) /\ IsFiniteSet(T \ {x})
    BY FS_Subset
  <2>2. /\ Sum(f, T) = f[x] + Sum(f, T \ {x})
        /\ Sum(g, T) = g[x] + Sum(g, T \ {x})
        /\ Sum(h, T) = h[x] + Sum(h, T \ {x})
    BY <2>1, SumRemove
  <2>3. Sum(f, T \ {x}) \in Int /\ Sum(g, T \ {x}) \in Int
    BY <2>1, SumInt
  <2>4. f[x] \in Int /\ g[x] \in Int /\ h[x] = f[x] + g[x]
    OBVIOUS
  <2>5. Sum(h, T \ {x}) = Sum(f, T \ {x}) + Sum(g, T \ {x})
    BY <1>2
  <2>. HIDE DEF Sum
  <2>. QED
    BY <2>2, <2>3, <2>4, <2>5
<1>. HIDE DEF G
<1>3. S \in G
  BY <1>1, <1>2, SubsetInduction
<1>. QED
  BY <1>3 DEF G

(* Terms that are 0 may be left out.                                       *)
LEMMA SumOnSubset ==
  ASSUME NEW S, IsFiniteSet(S), NEW R \in SUBSET S, NEW f,
         \A x \in S : f[x] \in Int, \A x \in S \ R : f[x] = 0
  PROVE  SumFunctionOnSet(f, S) = SumFunctionOnSet(f, R)
<1>. DEFINE Sum(T) == SumFunctionOnSet(f, T)
            G == {T \in SUBSET S : Sum(T) = Sum(T \cap R)}
<1>1. {} \in G
  <2>1. {} \cap R = {}
    OBVIOUS
  <2>. QED
    BY <2>1
<1>2. ASSUME NEW T \in SUBSET S, NEW x \in T, T \ {x} \in G
      PROVE  T \in G
  <2>1. IsFiniteSet(T) /\ IsFiniteSet(T \cap R) /\ IsFiniteSet((T \ {x}) \cap R)
    BY FS_Subset
  <2>2. Sum(T) = f[x] + Sum(T \ {x})
    BY <2>1, SumRemove
  <2>3. Sum(T \ {x}) = Sum((T \ {x}) \cap R)
    BY <1>2
  <2>4. CASE x \in R
    <3>1. Sum(T \cap R) = f[x] + Sum((T \cap R) \ {x})
      BY <2>1, <2>4, SumRemove
    <3>2. (T \cap R) \ {x} = (T \ {x}) \cap R
      OBVIOUS
    <3>. QED
      BY <2>2, <2>3, <3>1, <3>2
  <2>5. CASE x \notin R
    <3>1. T \cap R = (T \ {x}) \cap R
      BY <2>5
    <3>2. f[x] = 0 /\ Sum((T \ {x}) \cap R) \in Int
      BY <2>1, <2>5, SumInt
    <3>. HIDE DEF Sum
    <3>3. Sum(T) = Sum((T \ {x}) \cap R)
      BY <2>2, <2>3, <3>2
    <3>. QED
      BY <3>1, <3>3
  <2>. QED
    BY <2>4, <2>5
<1>. HIDE DEF G
<1>3. S \in G
  BY <1>1, <1>2, SubsetInduction
<1>4. S \cap R = R
  OBVIOUS
<1>. QED
  BY <1>3, <1>4 DEF G

LEMMA SumZero ==
  ASSUME NEW S, IsFiniteSet(S), NEW f, \A x \in S : f[x] = 0
  PROVE  SumFunctionOnSet(f, S) = 0
  BY SumOnSubset, SumEmpty

LEMMA SumNat ==
  ASSUME NEW S, IsFiniteSet(S), NEW f, \A x \in S : f[x] \in Nat
  PROVE  SumFunctionOnSet(f, S) \in Nat
<1>. DEFINE G == {T \in SUBSET S : SumFunctionOnSet(f, T) \in Nat}
<1>1. {} \in G
  BY SumEmpty
<1>2. ASSUME NEW T \in SUBSET S, NEW x \in T, T \ {x} \in G
      PROVE  T \in G
  <2>1. IsFiniteSet(T) /\ \A y \in T : f[y] \in Int
    BY FS_Subset
  <2>2. SumFunctionOnSet(f, T) = f[x] + SumFunctionOnSet(f, T \ {x})
    BY <2>1, SumRemove
  <2>. QED
    BY <1>2, <2>2
<1>. HIDE DEF G
<1>3. S \in G
  BY <1>1, <1>2, SubsetInduction
<1>. QED
  BY <1>3 DEF G

(* One term is changed.                                                    *)
LEMMA SumChange ==
  ASSUME NEW S, IsFiniteSet(S), NEW f, NEW g, NEW x \in S, NEW d \in Int,
         \A y \in S : f[y] \in Int, g[x] = f[x] + d,
         \A y \in S : y # x => g[y] = f[y]
  PROVE  SumFunctionOnSet(g, S) = SumFunctionOnSet(f, S) + d
<1>1. IsFiniteSet(S \ {x})
  BY FS_Subset
<1>2. SumFunctionOnSet(g, S \ {x}) = SumFunctionOnSet(f, S \ {x})
  BY <1>1, SumEqual
<1>3. SumFunctionOnSet(f, S \ {x}) \in Int
  BY <1>1, SumInt
<1>4. /\ SumFunctionOnSet(f, S) = f[x] + SumFunctionOnSet(f, S \ {x})
      /\ SumFunctionOnSet(g, S) = g[x] + SumFunctionOnSet(g, S \ {x})
  BY SumRemove
<1>. QED
  BY <1>2, <1>3, <1>4

(* The sum over two sets that have nothing in common.                      *)
LEMMA SumUnion ==
  ASSUME NEW S, IsFiniteSet(S), NEW T, IsFiniteSet(T), S \cap T = {}, NEW f,
         \A x \in S \cup T : f[x] \in Int
  PROVE  SumFunctionOnSet(f, S \cup T)
           = SumFunctionOnSet(f, S) + SumFunctionOnSet(f, T)
<1>. DEFINE U == S \cup T
            On(R) == [x \in U |-> IF x \in R THEN f[x] ELSE 0]
<1>1. IsFiniteSet(U)
  BY FS_Union
<1>2. \A x \in U : On(S)[x] \in Int /\ On(T)[x] \in Int /\ f[x] = On(S)[x] + On(T)[x]
  OBVIOUS
<1>3. SumFunctionOnSet(f, U)
        = SumFunctionOnSet(On(S), U) + SumFunctionOnSet(On(T), U)
  <2>. HIDE DEF On, U
  <2>. QED
    BY <1>1, <1>2, SumPlus
<1>4. ASSUME NEW R \in {S, T}, IsFiniteSet(R), R \in SUBSET U
      PROVE  SumFunctionOnSet(On(R), U) = SumFunctionOnSet(f, R)
  <2>1. /\ \A x \in R : f[x] \in Int /\ On(R)[x] = f[x]
        /\ \A x \in U \ R : On(R)[x] = 0
        /\ \A x \in U : On(R)[x] \in Int
    OBVIOUS
  <2>. HIDE DEF On, U
  <2>2. SumFunctionOnSet(On(R), U) = SumFunctionOnSet(On(R), R)
    BY <1>1, <1>4, <2>1, SumOnSubset
  <2>3. SumFunctionOnSet(On(R), R) = SumFunctionOnSet(f, R)
    BY <1>4, <2>1, SumEqual
  <2>. QED
    BY <2>2, <2>3
<1>5. /\ SumFunctionOnSet(On(S), U) = SumFunctionOnSet(f, S)
      /\ SumFunctionOnSet(On(T), U) = SumFunctionOnSet(f, T)
  BY <1>4
<1>. QED
  BY <1>3, <1>5

(* Terms may be renamed, one to one.                                       *)
Image(h, R) == {h[x] : x \in R}

LEMMA SumRename ==
  ASSUME NEW S, IsFiniteSet(S), NEW h, IsFiniteSet(Image(h, S)),
         \A x, y \in S : h[x] = h[y] => x = y,
         NEW f, NEW g, \A x \in S : f[x] \in Int /\ f[x] = g[h[x]]
  PROVE  SumFunctionOnSet(f, S) = SumFunctionOnSet(g, Image(h, S))
<1>. DEFINE G == {R \in SUBSET S : SumFunctionOnSet(f, R)
                                     = SumFunctionOnSet(g, Image(h, R))}
<1>1. {} \in G
  <2>1. Image(h, {}) = {}
    BY DEF Image
  <2>. QED
    BY <2>1, SumEmpty
<1>2. ASSUME NEW R \in SUBSET S, NEW x \in R, R \ {x} \in G
      PROVE  R \in G
  <2>1. PICK I, z : I = Image(h, R \ {x}) /\ z = h[x]
    OBVIOUS
  <2>2. IsFiniteSet(R) /\ IsFiniteSet(I)
    <3>1. I \subseteq Image(h, S)
      BY <2>1 DEF Image
    <3>. QED
      BY <3>1, FS_Subset
  <2>3. Image(h, R) = I \cup {z}
    BY <2>1 DEF Image
  <2>4. z \notin I
    <3>1. \A y \in R \ {x} : h[y] # h[x]
      OBVIOUS
    <3>. QED
      BY <2>1, <3>1 DEF Image
  <2>5. SumFunctionOnSet(f, R \ {x}) = SumFunctionOnSet(g, I)
    BY <1>2, <2>1
  <2>6. /\ f[x] = g[z] /\ \A y \in R : f[y] \in Int
        /\ \A y \in I \cup {z} : g[y] \in Int
    <3>1. \A y \in R : h[y] \in I \cup {z} /\ f[y] \in Int /\ f[y] = g[h[y]]
      BY <2>1 DEF Image
    <3>2. \A v \in I \cup {z} : \E y \in R : v = h[y]
      BY <2>1 DEF Image
    <3>. QED
      BY <2>1, <3>1, <3>2
  <2>7. SumFunctionOnSet(f, R) = SumFunctionOnSet(g, I \cup {z})
    <3>. HIDE DEF G
    <3>1. SumFunctionOnSet(g, I \cup {z}) = SumFunctionOnSet(g, I) + g[z]
      BY <2>2, <2>4, <2>6, SumAdd
    <3>2. SumFunctionOnSet(f, R) = f[x] + SumFunctionOnSet(f, R \ {x})
      BY <2>2, <2>6, SumRemove
    <3>3. SumFunctionOnSet(g, I) \in Int /\ g[z] \in Int
      BY <2>2, <2>6, SumInt
    <3>. QED
      BY <2>5, <2>6, <3>1, <3>2, <3>3
  <2>. QED
    BY <2>3, <2>7
<1>. HIDE DEF G
<1>3. S \in G
  BY <1>1, <1>2, SubsetInduction
<1>. QED
  BY <1>3 DEF G
=============================================================================
