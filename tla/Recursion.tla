----------------------------- MODULE Recursion -----------------------------
(***************************************************************************)
(* Induction over the natural numbers and over a finite set, and what      *)
(* follows for functions that are defined by recursion on a number or on   *)
(* the subsets of a finite set, as folds are: such a function exists, and  *)
(* its values stay in any set that the steps do not leave.                 *)
(***************************************************************************)
EXTENDS Integers, FiniteSets, TLAPS, WellFoundedInduction, FiniteSetTheorems

\* A set of numbers that holds 0 and the successor of each of its members holds
\* them all.
LEMMA Induction ==
  ASSUME NEW T, T \subseteq Nat, 0 \in T, \A n \in T : n + 1 \in T
  PROVE  T = Nat
<1> DEFINE U == Nat \ T
<1>1. SUFFICES ASSUME U # {} PROVE FALSE OBVIOUS
<1>2. IsWellFoundedOn(OpToRel(<, Nat), Nat) BY NatLessThanWellFounded
<1>3. PICK x \in U : \A y \in U : ~ (<<y, x>> \in OpToRel(<, Nat))
  BY <1>1, <1>2, WFMin, Zenon
<1>4. \A y \in U : ~ (y < x)
  <2> SUFFICES ASSUME NEW y \in U, y < x PROVE FALSE OBVIOUS
  <2>1. <<y, x>> \in OpToRel(<, Nat) BY DEF OpToRel
  <2> QED BY <2>1, <1>3
<1>5. x # 0 /\ x \in Nat OBVIOUS
<1>6. x - 1 \in Nat /\ x - 1 < x BY <1>5
<1>7. x - 1 \in T BY <1>4, <1>6
<1> QED BY <1>5, <1>6, <1>7

\* The functions on 0 .. n that start with a and take the steps g.
Runs(D, a, g, n) ==
  {f \in [0 .. n -> D] : f[0] = a /\ \A m \in 0 .. (n - 1) : f[m + 1] = g[m][f[m]]}

LEMMA RunsExist ==
  ASSUME NEW D, NEW a \in D, NEW g \in [Nat -> [D -> D]]
  PROVE  \A n \in Nat : Runs(D, a, g, n) # {}
<1> DEFINE T == {n \in Nat : Runs(D, a, g, n) # {}}
<1>1. [m \in 0 .. 0 |-> a] \in Runs(D, a, g, 0) BY DEF Runs
<1>2. ASSUME NEW n \in T PROVE n + 1 \in T
  <2>1. PICK f : f \in Runs(D, a, g, n) OBVIOUS
  <2> DEFINE e == [m \in 0 .. (n + 1) |-> IF m <= n THEN f[m] ELSE g[n][f[n]]]
  <2>2. f \in [0 .. n -> D] /\ f[0] = a /\ \A m \in 0 .. (n - 1) : f[m + 1] = g[m][f[m]]
    BY <2>1 DEF Runs
  <2>3. g[n][f[n]] \in D BY <2>2
  <2>4. e \in [0 .. (n + 1) -> D] BY <2>2, <2>3
  <2>5. e[0] = a BY <2>2
  <2>6. \A m \in 0 .. ((n + 1) - 1) : e[m + 1] = g[m][e[m]]
    <3>0. (n + 1) - 1 = n OBVIOUS
    <3> HIDE DEF e
    <3> SUFFICES ASSUME NEW m \in 0 .. n PROVE e[m + 1] = g[m][e[m]] BY <3>0
    <3> USE DEF e
    <3>1. e[m] = f[m] OBVIOUS
    <3>2. CASE m = n BY <3>1, <3>2
    <3>3. CASE m < n
      <4>1. m \in 0 .. (n - 1) /\ m + 1 \in 0 .. (n + 1) /\ m + 1 <= n BY <3>3
      <4>2. e[m + 1] = f[m + 1] BY <4>1
      <4> QED BY <4>1, <4>2, <3>1, <2>2
    <3> QED BY <3>2, <3>3
  <2>7. e \in Runs(D, a, g, n + 1) BY <2>4, <2>5, <2>6 DEF Runs
  <2> QED BY <2>7
<1> HIDE DEF T
<1>3. T \subseteq Nat /\ 0 \in T /\ \A n \in T : n + 1 \in T BY <1>1, <1>2 DEF T
<1>4. T = Nat BY <1>3, Induction
<1> QED BY <1>4 DEF T

LEMMA RunsAgree ==
  ASSUME NEW D, NEW a \in D, NEW g \in [Nat -> [D -> D]],
         NEW j \in Nat, NEW k \in Nat,
         NEW e \in Runs(D, a, g, j), NEW f \in Runs(D, a, g, k)
  PROVE  \A n \in Nat : n <= j /\ n <= k => e[n] = f[n]
<1> DEFINE T == {n \in Nat : n <= j /\ n <= k => e[n] = f[n]}
<1>1. 0 \in T BY DEF Runs
<1>2. ASSUME NEW n \in T PROVE n + 1 \in T
  <2>1. SUFFICES ASSUME n + 1 <= j, n + 1 <= k PROVE e[n + 1] = f[n + 1] OBVIOUS
  <2>2. e[n] = f[n] BY <2>1
  <2>3. n \in 0 .. (j - 1) /\ n \in 0 .. (k - 1) BY <2>1
  <2> QED BY <2>2, <2>3 DEF Runs
<1> HIDE DEF T
<1>3. T \subseteq Nat /\ 0 \in T /\ \A n \in T : n + 1 \in T BY <1>1, <1>2 DEF T
<1>4. T = Nat BY <1>3, Induction
<1> QED BY <1>4 DEF T

\* The functions on all numbers that start with a and take the steps g.
Trails(D, a, g) == {f \in [Nat -> D] : f[0] = a /\ \A n \in Nat : f[n + 1] = g[n][f[n]]}

\* There is such a function.
LEMMA TrailsExist ==
  ASSUME NEW D, NEW a \in D, NEW g \in [Nat -> [D -> D]]
  PROVE  Trails(D, a, g) # {}
<1> DEFINE run(n) == CHOOSE f : f \in Runs(D, a, g, n)
           F == [n \in Nat |-> run(n)[n]]
<1>1. \A n \in Nat : run(n) \in Runs(D, a, g, n) BY RunsExist
<1> HIDE DEF run
<1>2. \A n \in Nat : run(n) \in [0 .. n -> D] /\ run(n)[0] = a BY <1>1 DEF Runs
<1>3. F \in [Nat -> D] /\ F[0] = a BY <1>2
<1>4. ASSUME NEW n \in Nat PROVE F[n + 1] = g[n][F[n]]
  <2>1. run(n + 1) \in Runs(D, a, g, n + 1) /\ n \in 0 .. ((n + 1) - 1) BY <1>1
  <2>2. run(n + 1)[n + 1] = g[n][run(n + 1)[n]] BY <2>1 DEF Runs
  <2>3. run(n + 1)[n] = run(n)[n] BY <1>1, <2>1, RunsAgree
  <2> QED BY <2>2, <2>3
<1> QED BY <1>3, <1>4 DEF Trails

\* A value to start from and a step for every number make a function.
LEMMA RecursionExists ==
  ASSUME NEW D, NEW a \in D, NEW g \in [Nat -> [D -> D]]
  PROVE  \E f \in [Nat -> D] : f[0] = a /\ \A n \in Nat : f[n + 1] = g[n][f[n]]
<1>1. PICK f \in Trails(D, a, g) : TRUE BY TrailsExist
<1>2. f \in [Nat -> D] /\ f[0] = a /\ \A n \in Nat : f[n + 1] = g[n][f[n]] BY DEF Trails
<1> QED BY <1>2

-----------------------------------------------------------------------------
(* The same for the subsets of a finite set, from which the folds of the     *)
(* community modules take one element after the other.                       *)

\* A collection of subsets holds them all, if it holds the empty set and every
\* set that it holds without any one of its elements.
LEMMA SubsetInduction ==
  ASSUME NEW S, IsFiniteSet(S), NEW T, {} \in T,
         \A s \in SUBSET S : s # {} /\ (\A x \in s : s \ {x} \in T) => s \in T
  PROVE  SUBSET S \subseteq T
<1> DEFINE Q == {n \in Nat : \A s \in SUBSET S : Cardinality(s) = n => s \in T}
<1>0. \A s \in SUBSET S : IsFiniteSet(s) /\ Cardinality(s) \in Nat
  BY FS_Subset, FS_CardinalityType
<1>1. 0 \in Q BY <1>0, FS_EmptySet
<1>2. ASSUME NEW n \in Q PROVE n + 1 \in Q
  <2> SUFFICES ASSUME NEW s \in SUBSET S, Cardinality(s) = n + 1 PROVE s \in T OBVIOUS
  <2>1. s # {} BY <1>0, FS_EmptySet
  <2>2. \A x \in s : Cardinality(s \ {x}) = n BY <1>0, FS_RemoveElement
  <2>3. \A x \in s : s \ {x} \in T BY <2>2
  <2> QED BY <2>1, <2>3
<1> HIDE DEF Q
<1>3. Q \subseteq Nat /\ 0 \in Q /\ \A n \in Q : n + 1 \in Q BY <1>1, <1>2 DEF Q
<1>4. Q = Nat BY <1>3, Induction
<1> QED BY <1>0, <1>4 DEF Q

\* What a fold comes to: a for the empty set, else the step g of the element
\* that c chooses, taken from the result for the others.
Gathered(S, D, a, c, g) ==
  {f \in [SUBSET S -> D] : \A s \in SUBSET S :
      f[s] = IF s = {} THEN a ELSE g[c[s]][f[s \ {c[s]}]]}

\* A fold over a finite set has a result for each of its subsets.
LEMMA FoldExists ==
  ASSUME NEW S, IsFiniteSet(S), NEW D, NEW a \in D,
         NEW c, \A s \in SUBSET S : s # {} => c[s] \in s,
         NEW g \in [S -> [D -> D]]
  PROVE  Gathered(S, D, a, c, g) # {}
<1>0. PICK Results : Results = [SUBSET S -> D] OBVIOUS
<1> DEFINE Up(h) == [s \in SUBSET S |-> IF s = {} THEN a ELSE g[c[s]][h[s \ {c[s]}]]]
           k == [n \in Nat |-> [h \in Results |-> Up(h)]]
           z == [s \in SUBSET S |-> a]
<1>1. z \in Results BY <1>0
<1>2. \A h \in Results : Up(h) \in Results
  <2> SUFFICES ASSUME NEW h \in Results, NEW s \in SUBSET S, s # {}
               PROVE  g[c[s]][h[s \ {c[s]}]] \in D BY <1>0
  <2>1. c[s] \in S /\ s \ {c[s]} \in SUBSET S OBVIOUS
  <2> QED BY <1>0, <2>1
<1>3. k \in [Nat -> [Results -> Results]] BY <1>2
<1> HIDE DEF z
<1>4. PICK F \in Trails(Results, z, k) : TRUE
  <2> HIDE DEF k
  <2> QED BY <1>1, <1>3, TrailsExist
<1>5. F \in [Nat -> Results] /\ F[0] = z /\ \A n \in Nat : F[n + 1] = k[n][F[n]]
  BY DEF Trails
<1>6. ASSUME NEW n \in Nat, NEW s \in SUBSET S, s # {}
      PROVE  F[n + 1][s] = g[c[s]][F[n][s \ {c[s]}]]
  <2>1. F[n] \in Results BY <1>5
  <2>2. k[n][F[n]] = Up(F[n]) BY <2>1
  <2>3. F[n + 1] = Up(F[n]) BY <1>5, <2>2
  <2> QED BY <2>3, <1>6
<1> DEFINE f == [s \in SUBSET S |-> F[Cardinality(s)][s]]
<1>7. \A s \in SUBSET S : IsFiniteSet(s) /\ Cardinality(s) \in Nat
  BY FS_Subset, FS_CardinalityType
<1>8. f \in [SUBSET S -> D] BY <1>0, <1>5, <1>7
<1>9. ASSUME NEW s \in SUBSET S, s # {} PROVE f[s] = g[c[s]][f[s \ {c[s]}]]
  <2>1. c[s] \in s /\ s \ {c[s]} \in SUBSET S BY <1>9
  <2>2. PICK n \in Nat : n = Cardinality(s \ {c[s]}) BY <1>7, <2>1
  <2>3. Cardinality(s \ {c[s]}) = Cardinality(s) - 1 BY <1>7, <2>1, FS_RemoveElement
  <2>4. Cardinality(s) = n + 1 BY <1>7, <2>2, <2>3
  <2>5. F[n + 1][s] = g[c[s]][F[n][s \ {c[s]}]] BY <1>6, <1>9
  <2>6. f[s] = F[n + 1][s] BY <2>4
  <2>7. f[s \ {c[s]}] = F[n][s \ {c[s]}] BY <2>1, <2>2
  <2> QED BY <2>5, <2>6, <2>7
<1>10. f[{}] = a
  <2>1. f[{}] = F[0][{}] BY FS_EmptySet
  <2> QED BY <2>1, <1>5 DEF z
<1> HIDE DEF f
<1>11. \A s \in SUBSET S : f[s] = IF s = {} THEN a ELSE g[c[s]][f[s \ {c[s]}]]
  BY <1>9, <1>10
<1>12. f \in Gathered(S, D, a, c, g) BY <1>8, <1>11 DEF Gathered
<1> QED BY <1>12
=============================================================================
