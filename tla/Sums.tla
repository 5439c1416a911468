-------------------------------- MODULE Sums --------------------------------
(***************************************************************************)
(* Facts about SumFunctionOnSet, which the books, the windows of PPLNS and *)
(* the averages of variable difficulty are stated with: what the sum of a  *)
(* finite number of integers is, whatever order they are added in.         *)
(*                                                                         *)
(* A sum is a count: f[x] units of each x for the positive numbers, less   *)
(* -f[x] units of each x for the negative ones.  The count is a function   *)
(* that satisfies the equation SumFunctionOnSet is defined by, and two     *)
(* functions that do cannot differ on a smallest set.                      *)
(*                                                                         *)
(* The last lemmas do the same for functions of numbers that are defined   *)
(* by recursion.                                                           *)
(***************************************************************************)
EXTENDS Integers, FiniteSets, Functions, FiniteSetTheorems, WellFoundedInduction, TLAPS

Units(f, S) == UNION {{x} \X (1 .. f[x]) : x \in S}
Negative(f, S) == [x \in S |-> -f[x]]
Net(f, S) == Cardinality(Units(f, S)) - Cardinality(Units(Negative(f, S), S))

LEMMA UnitsFinite ==
    ASSUME NEW S, IsFiniteSet(S), NEW f, \A x \in S : f[x] \in Int
    PROVE  IsFiniteSet(Units(f, S)) /\ Cardinality(Units(f, S)) \in Nat
  <1> DEFINE G == {{x} \X (1 .. f[x]) : x \in S}
             F == [x \in S |-> {x} \X (1 .. f[x])]
  <1>1. IsFiniteSet(G)
    <2>1. F \in Surjection(S, G)
      BY DEF Surjection
    <2> HIDE DEF F, G
    <2> QED
      BY <2>1, FS_Surjection
  <1>2. ASSUME NEW x \in S PROVE IsFiniteSet({x} \X (1 .. f[x]))
    <2>1. IsFiniteSet({x})
      BY FS_Singleton
    <2>2. IsFiniteSet(1 .. f[x])
      BY FS_Interval
    <2> QED
      BY <2>1, <2>2, FS_Product
  <1>3. \A T \in G : IsFiniteSet(T)
    BY <1>2
  <1>4. IsFiniteSet(UNION G)
    <2> HIDE DEF G
    <2> QED
      BY <1>1, <1>3, FS_UNION
  <1> QED
    BY <1>4, FS_CardinalityType DEF Units

LEMMA UnitsAdd ==
    ASSUME NEW S, IsFiniteSet(S), NEW f, \A y \in S : f[y] \in Int, NEW x \in S
    PROVE  Cardinality(Units(f, S)) =
             (IF f[x] > 0 THEN f[x] ELSE 0) + Cardinality(Units(f, S \ {x}))
  <1> DEFINE A == {x} \X (1 .. f[x])
             B == Units(f, S \ {x})
  <1>1. Units(f, S) = A \cup B /\ A \cap B = {}
    BY DEF Units
  <1>2. IsFiniteSet(B) /\ Cardinality(B) \in Nat
    BY FS_Subset, UnitsFinite
  <1>3. IsFiniteSet(A) /\ Cardinality(A) = IF f[x] > 0 THEN f[x] ELSE 0
    <2>1. IsFiniteSet({x}) /\ Cardinality({x}) = 1
      BY FS_Singleton
    <2>2. IsFiniteSet(1 .. f[x]) /\ Cardinality(1 .. f[x]) = IF f[x] > 0 THEN f[x] ELSE 0
      BY FS_Interval
    <2>3. IsFiniteSet(A) /\ Cardinality(A) = Cardinality({x}) * Cardinality(1 .. f[x])
      BY <2>1, <2>2, FS_Product
    <2> QED
      BY <2>1, <2>2, <2>3
  <1> HIDE DEF A, B
  <1>4. Cardinality(A \cup B) = Cardinality(A) + Cardinality(B) - Cardinality(A \cap B)
    BY <1>2, <1>3, FS_Union
  <1>5. Cardinality(A \cap B) = 0
    BY <1>1, FS_EmptySet
  <1> QED
    BY <1>1, <1>2, <1>3, <1>4, <1>5 DEF B

LEMMA NetAdd ==
    ASSUME NEW S, IsFiniteSet(S), NEW f, \A y \in S : f[y] \in Int, NEW x \in S
    PROVE  Net(f, S) = f[x] + Net(f, S \ {x})
  <1> DEFINE g == Negative(f, S)
  <1>1. \A y \in S : g[y] = -f[y] /\ g[y] \in Int
    BY DEF Negative
  <1>2. Units(Negative(f, S \ {x}), S \ {x}) = Units(g, S \ {x})
    BY DEF Units, Negative
  <1>3. IsFiniteSet(S \ {x})
    BY FS_Subset
  <1> HIDE DEF g
  <1>4. Cardinality(Units(f, S)) = (IF f[x] > 0 THEN f[x] ELSE 0) + Cardinality(Units(f, S \ {x}))
    BY UnitsAdd
  <1>5. Cardinality(Units(g, S)) = (IF g[x] > 0 THEN g[x] ELSE 0) + Cardinality(Units(g, S \ {x}))
    BY <1>1, UnitsAdd
  <1>6. Cardinality(Units(f, S \ {x})) \in Nat /\ Cardinality(Units(g, S \ {x})) \in Nat
    BY <1>1, <1>3, UnitsFinite
  <1> QED
    BY <1>1, <1>2, <1>4, <1>5, <1>6 DEF Net, g

LEMMA NetEmpty == ASSUME NEW f PROVE Net(f, {}) = 0
  <1>1. Units(f, {}) = {} /\ Units(Negative(f, {}), {}) = {}
    BY DEF Units
  <1> QED
    BY <1>1, FS_EmptySet DEF Net

LEMMA NetType ==
    ASSUME NEW S, IsFiniteSet(S), NEW f, \A x \in S : f[x] \in Int
    PROVE  Net(f, S) \in Int
  <1>1. \A x \in S : Negative(f, S)[x] \in Int
    BY DEF Negative
  <1> QED
    BY <1>1, UnitsFinite DEF Net

-----------------------------------------------------------------------------
\* The sum of f over S is a count.
LEMMA SumIsCount ==
    ASSUME NEW S, IsFiniteSet(S), NEW f, \A x \in S : f[x] \in Int
    PROVE  SumFunctionOnSet(f, S) = Net(f, S)
  <1> DEFINE Picked(s) == CHOOSE x \in s : TRUE
             Sums(g) == g = [s \in SUBSET S |-> IF s = {} THEN 0
                                               ELSE f[Picked(s)] + g[s \ {Picked(s)}]]
             count == [s \in SUBSET S |-> Net(f, s)]
             sum == CHOOSE g : Sums(g)
  <1>1. SumFunctionOnSet(f, S) = sum[S]
    BY DEF SumFunctionOnSet, FoldFunctionOnSet, MapThenFoldSet
  <1>2. \A s \in SUBSET S : s # {} => Picked(s) \in s /\ s \ {Picked(s)} \in SUBSET S
    OBVIOUS
  <1> HIDE DEF Picked
  <1>3. ASSUME NEW s \in SUBSET S, s # {}
        PROVE  count[s] = f[Picked(s)] + count[s \ {Picked(s)}]
    <2>1. IsFiniteSet(s)
      BY FS_Subset
    <2> QED
      BY <2>1, <1>2, <1>3, NetAdd
  <1>4. Sums(count)
    BY <1>3, NetEmpty
  <1>5. Sums(sum)
    <2> HIDE DEF Sums
    <2> QED
      BY <1>4
  <1> HIDE DEF sum
  <1> DEFINE Wrong == {s \in SUBSET S : sum[s] # count[s]}
  <1>6. Wrong = {}
    <2> SUFFICES ASSUME Wrong # {} PROVE FALSE
      OBVIOUS
    <2>1. Wrong \subseteq FiniteSubsetsOf(S)
      BY FS_Subset DEF FiniteSubsetsOf
    <2>2. PICK s \in Wrong : \A t \in Wrong : <<t, s>> \notin StrictSubsetOrdering(S)
      <3> HIDE DEF Wrong
      <3> QED
        BY <2>1, FS_StrictSubsetOrderingWellFounded, WFMin
    <2>3. s # {}
      BY <1>5, NetEmpty
    <2>4. <<s \ {Picked(s)}, s>> \in StrictSubsetOrdering(S)
      BY <1>2, <2>3 DEF StrictSubsetOrdering
    <2>5. sum[s \ {Picked(s)}] = count[s \ {Picked(s)}]
      BY <2>2, <2>3, <2>4, <1>2
    <2>6. sum[s] = f[Picked(s)] + sum[s \ {Picked(s)}]
      BY <1>5, <2>3
    <2> QED
      BY <2>2, <2>3, <2>5, <2>6, <1>3
  <1> QED
    BY <1>1, <1>6

\* The sum of integers is an integer.
LEMMA SumType ==
    ASSUME NEW S, IsFiniteSet(S), NEW f, \A x \in S : f[x] \in Int
    PROVE  SumFunctionOnSet(f, S) \in Int
  BY SumIsCount, NetType

\* The sum of nothing is 0.
LEMMA SumEmpty == ASSUME NEW f PROVE SumFunctionOnSet(f, {}) = 0
  BY SumIsCount, NetEmpty, FS_EmptySet

\* Any element may be taken out first.
LEMMA SumRemove ==
    ASSUME NEW S, IsFiniteSet(S), NEW f, \A y \in S : f[y] \in Int, NEW x \in S
    PROVE  SumFunctionOnSet(f, S) = f[x] + SumFunctionOnSet(f, S \ {x})
  BY SumIsCount, NetAdd, FS_Subset

\* A new element is added to the sum.
LEMMA SumAdd ==
    ASSUME NEW S, IsFiniteSet(S), NEW f, NEW x, x \notin S, \A y \in S \cup {x} : f[y] \in Int
    PROVE  SumFunctionOnSet(f, S \cup {x}) = SumFunctionOnSet(f, S) + f[x]
  <1>1. IsFiniteSet(S \cup {x}) /\ (S \cup {x}) \ {x} = S
    BY FS_AddElement
  <1>2. SumFunctionOnSet(f, S) \in Int
    BY SumType
  <1> QED
    BY <1>1, <1>2, SumRemove

\* Functions that agree on S have the same sum there.
LEMMA SumSame ==
    ASSUME NEW S, IsFiniteSet(S), NEW f, NEW g, \A x \in S : f[x] \in Int /\ f[x] = g[x]
    PROVE  SumFunctionOnSet(f, S) = SumFunctionOnSet(g, S)
  <1>1. Units(f, S) = Units(g, S) /\ Units(Negative(f, S), S) = Units(Negative(g, S), S)
    BY DEF Units, Negative
  <1> QED
    BY <1>1, SumIsCount DEF Net

\* The sum of natural numbers is one, and not less than that over fewer of them.
LEMMA SumMonotonic ==
    ASSUME NEW S, IsFiniteSet(S), NEW f, \A x \in S : f[x] \in Nat, NEW T \in SUBSET S
    PROVE  /\ SumFunctionOnSet(f, S) \in Nat
           /\ SumFunctionOnSet(f, T) \in Nat
           /\ SumFunctionOnSet(f, T) <= SumFunctionOnSet(f, S)
  <1>1. ASSUME NEW R \in SUBSET S
        PROVE  SumFunctionOnSet(f, R) = Cardinality(Units(f, R)) /\ Cardinality(Units(f, R)) \in Nat
    <2>1. IsFiniteSet(R)
      BY FS_Subset
    <2>2. Units(Negative(f, R), R) = {}
      BY DEF Units, Negative
    <2>3. Cardinality(Units(f, R)) \in Nat /\ SumFunctionOnSet(f, R) = Net(f, R)
      BY <2>1, SumIsCount, UnitsFinite
    <2> QED
      BY <2>2, <2>3, FS_EmptySet DEF Net
  <1>2. IsFiniteSet(Units(f, S))
    BY UnitsFinite
  <1>3. Units(f, T) \in SUBSET Units(f, S)
    BY DEF Units
  <1> QED
    BY <1>1, <1>2, <1>3, FS_Subset

\* What is added to one number is added to the sum.
LEMMA SumUpdate ==
    ASSUME NEW S, IsFiniteSet(S), NEW f \in [S -> Int], NEW x \in S, NEW d \in Int
    PROVE  SumFunction([f EXCEPT ![x] = @ + d]) = SumFunction(f) + d
  <1> DEFINE g == [f EXCEPT ![x] = @ + d]
  <1>1. /\ DOMAIN f = S /\ DOMAIN g = S /\ g[x] = f[x] + d /\ f[x] \in Int
        /\ \A y \in S : f[y] \in Int /\ g[y] \in Int
        /\ \A y \in S \ {x} : f[y] = g[y]
    OBVIOUS
  <1> HIDE DEF g
  <1>2. IsFiniteSet(S \ {x})
    BY FS_Subset
  <1>3. SumFunctionOnSet(f, S \ {x}) = SumFunctionOnSet(g, S \ {x})
    BY <1>1, <1>2, SumSame
  <1>4. SumFunctionOnSet(f, S) = f[x] + SumFunctionOnSet(f, S \ {x})
    BY <1>1, SumRemove
  <1>5. SumFunctionOnSet(g, S) = g[x] + SumFunctionOnSet(g, S \ {x})
    BY <1>1, SumRemove
  <1>6. SumFunctionOnSet(f, S \ {x}) \in Int
    BY <1>1, <1>2, SumType
  <1>7. SumFunction(f) = SumFunctionOnSet(f, S) /\ SumFunction(g) = SumFunctionOnSet(g, S)
    BY <1>1 DEF SumFunction
  <1> QED
    BY <1>1, <1>3, <1>4, <1>5, <1>6, <1>7 DEF g

\* Two separate sets are summed one after the other.
LEMMA SumUnion ==
    ASSUME NEW S, IsFiniteSet(S), NEW T, IsFiniteSet(T), S \cap T = {},
           NEW f, \A x \in S \cup T : f[x] \in Int
    PROVE  SumFunctionOnSet(f, S \cup T) = SumFunctionOnSet(f, S) + SumFunctionOnSet(f, T)
  <1>1. ASSUME NEW g, \A x \in S \cup T : g[x] \in Int
        PROVE  /\ Cardinality(Units(g, S \cup T)) = Cardinality(Units(g, S)) + Cardinality(Units(g, T))
               /\ Cardinality(Units(g, S)) \in Nat /\ Cardinality(Units(g, T)) \in Nat
    <2>1. Units(g, S \cup T) = Units(g, S) \cup Units(g, T) /\ Units(g, S) \cap Units(g, T) = {}
      BY DEF Units
    <2>2. /\ IsFiniteSet(Units(g, S)) /\ Cardinality(Units(g, S)) \in Nat
          /\ IsFiniteSet(Units(g, T)) /\ Cardinality(Units(g, T)) \in Nat
      BY <1>1, UnitsFinite
    <2>3. Cardinality(Units(g, S) \cap Units(g, T)) = 0
      BY <2>1, FS_EmptySet
    <2> DEFINE A == Units(g, S)
               B == Units(g, T)
               C == Units(g, S \cup T)
    <2>4. /\ IsFiniteSet(A) /\ Cardinality(A) \in Nat
          /\ IsFiniteSet(B) /\ Cardinality(B) \in Nat
          /\ C = A \cup B /\ Cardinality(A \cap B) = 0
      BY <2>1, <2>2, <2>3
    <2> HIDE DEF A, B, C
    <2>5. Cardinality(A \cup B) = Cardinality(A) + Cardinality(B) - Cardinality(A \cap B)
      BY <2>4, FS_Union
    <2>6. /\ Cardinality(C) = Cardinality(A) + Cardinality(B)
          /\ Cardinality(A) \in Nat /\ Cardinality(B) \in Nat
      BY <2>4, <2>5
    <2> QED
      BY <2>6 DEF A, B, C
  <1> DEFINE g == Negative(f, S \cup T)
  <1>2. \A x \in S \cup T : g[x] \in Int
    BY DEF Negative
  <1>3. /\ Units(Negative(f, S), S) = Units(g, S) /\ Units(Negative(f, T), T) = Units(g, T)
        /\ Units(Negative(f, S \cup T), S \cup T) = Units(g, S \cup T)
    BY DEF Units, Negative
  <1> HIDE DEF g
  <1>4. /\ Net(f, S) = Cardinality(Units(f, S)) - Cardinality(Units(g, S))
        /\ Net(f, T) = Cardinality(Units(f, T)) - Cardinality(Units(g, T))
        /\ Net(f, S \cup T) = Cardinality(Units(f, S \cup T)) - Cardinality(Units(g, S \cup T))
    BY <1>3 DEF Net
  <1>5. /\ Cardinality(Units(f, S \cup T)) = Cardinality(Units(f, S)) + Cardinality(Units(f, T))
        /\ Cardinality(Units(f, S)) \in Nat /\ Cardinality(Units(f, T)) \in Nat
    BY <1>1
  <1>6. /\ Cardinality(Units(g, S \cup T)) = Cardinality(Units(g, S)) + Cardinality(Units(g, T))
        /\ Cardinality(Units(g, S)) \in Nat /\ Cardinality(Units(g, T)) \in Nat
    BY <1>1, <1>2
  <1>7. IsFiniteSet(S \cup T)
    BY FS_Union
  <1>8. /\ SumFunctionOnSet(f, S \cup T) = Net(f, S \cup T)
        /\ SumFunctionOnSet(f, S) = Net(f, S) /\ SumFunctionOnSet(f, T) = Net(f, T)
    BY <1>7, SumIsCount
  <1> QED
    BY <1>4, <1>5, <1>6, <1>8

\* The sum of zeros is 0.
LEMMA SumZero ==
    ASSUME NEW S, IsFiniteSet(S), NEW f, \A x \in S : f[x] = 0
    PROVE  SumFunctionOnSet(f, S) = 0
  <1>1. Units(f, S) = {} /\ Units(Negative(f, S), S) = {}
    BY DEF Units, Negative
  <1>2. SumFunctionOnSet(f, S) = Net(f, S)
    BY SumIsCount
  <1> QED
    BY <1>1, <1>2, FS_EmptySet DEF Net
-----------------------------------------------------------------------------
(* Recursion on the numbers up to a bound, by which the loops of LineBuffer *)
(* and Equihash are defined.                                                *)

\* A set of natural numbers has a least element: a smaller number has a smaller
\* interval below it.
LEMMA LeastNumber ==
    ASSUME NEW T, T \subseteq Nat, T # {}
    PROVE  \E n \in T : \A m \in T : n <= m
  <1> DEFINE Below == {1 .. n : n \in T}
  <1>1. Below \subseteq FiniteSubsetsOf(Nat) /\ Below # {}
    <2>1. \A n \in T : IsFiniteSet(1 .. n) /\ 1 .. n \subseteq Nat
      BY FS_Interval
    <2> QED BY <2>1 DEF FiniteSubsetsOf
  <1> HIDE DEF Below
  <1>2. PICK s \in Below : \A t \in Below : <<t, s>> \notin StrictSubsetOrdering(Nat)
    BY <1>1, FS_StrictSubsetOrderingWellFounded, WFMin
  <1>3. PICK n \in T : s = 1 .. n
    BY DEF Below
  <1>4. ASSUME NEW m \in T, m < n PROVE FALSE
    <2>1. m \in Nat /\ n \in Nat
      OBVIOUS
    <2>2. 1 .. m \subseteq 1 .. n /\ n \in 1 .. n /\ n \notin 1 .. m
      BY <1>4, <2>1
    <2>3. 1 .. m \in SUBSET Nat /\ 1 .. n \in SUBSET Nat
      BY <2>1
    <2>4. <<1 .. m, 1 .. n>> \in StrictSubsetOrdering(Nat)
      BY <2>2, <2>3, Zenon DEF StrictSubsetOrdering
    <2>5. 1 .. m \in Below
      BY DEF Below
    <2> QED BY <2>4, <2>5, <1>2, <1>3
  <1> QED BY <1>4

\* Induction for a set instead of a predicate.
LEMMA UpTo ==
    ASSUME NEW T, NEW N \in Nat, 0 \in T, \A n \in 1 .. N : n - 1 \in T => n \in T
    PROVE  0 .. N \subseteq T
  <1> DEFINE Wrong == (0 .. N) \ T
  <1>1. ASSUME Wrong # {} PROVE FALSE
    <2>1. Wrong \subseteq Nat
      OBVIOUS
    <2>2. PICK n \in Wrong : \A m \in Wrong : n <= m
      BY <1>1, <2>1, LeastNumber
    <2>3. n \in 1 .. N /\ n - 1 \in 0 .. N /\ n - 1 \notin Wrong
      BY <2>2
    <2> QED BY <2>2, <2>3
  <1> QED BY <1>1

\* f is a sequence of values of S from z on, the n-th of which G finds from the one before.
Follows(f, S, z, N, G) ==
    f \in [0 .. N -> S] /\ f[0] = z /\ \A n \in 1 .. N : f[n] = G[n][f[n - 1]]

\* There is such a sequence: a function defined by recursion satisfies its equation.
LEMMA Recursion ==
    ASSUME NEW S, NEW z \in S, NEW N \in Nat, NEW G \in [1 .. N -> [S -> S]]
    PROVE  \E f : Follows(f, S, z, N, G)
  <1> DEFINE Solves(f, n) == f[0] = z /\ \A m \in 1 .. n : f[m] = G[m][f[m - 1]]
             T == {n \in 0 .. N : \E f \in [0 .. n -> S] : Solves(f, n)}
  <1>1. 0 \in T
    <2>1. [m \in 0 .. 0 |-> z] \in [0 .. 0 -> S] /\ Solves([m \in 0 .. 0 |-> z], 0)
      OBVIOUS
    <2>2. 0 \in 0 .. N
      OBVIOUS
    <2> HIDE DEF Solves
    <2> QED BY <2>1, <2>2
  <1>2. ASSUME NEW n \in 1 .. N, n - 1 \in T PROVE n \in T
    <2>1. PICK f \in [0 .. n - 1 -> S] : Solves(f, n - 1)
      BY <1>2
    <2> DEFINE g == [m \in 0 .. n |-> IF m = n THEN G[n][f[n - 1]] ELSE f[m]]
    <2>2. \A x \in S : G[n][x] \in S
      OBVIOUS
    <2>3. g \in [0 .. n -> S]
      BY <2>2
    <2>4. g[0] = z
      BY <2>1
    <2>5. ASSUME NEW m \in 1 .. n PROVE g[m] = G[m][g[m - 1]]
      <3>1. CASE m = n
        <4>1. g[m - 1] = f[m - 1]
          BY <3>1
        <4> QED BY <3>1, <4>1
      <3>2. CASE m # n
        <4>1. m \in 1 .. n - 1 /\ g[m] = f[m] /\ g[m - 1] = f[m - 1]
          BY <3>2
        <4> QED BY <2>1, <4>1
      <3> QED BY <3>1, <3>2
    <2>6. Solves(g, n)
      BY <2>4, <2>5
    <2>7. n \in 0 .. N
      OBVIOUS
    <2> HIDE DEF Solves, g
    <2> QED BY <2>3, <2>6, <2>7
  <1> HIDE DEF T
  <1>3. 0 .. N \subseteq T
    BY <1>1, <1>2, UpTo
  <1> HIDE DEF Solves
  <1>4. PICK f \in [0 .. N -> S] : Solves(f, N)
    <2>1. N \in 0 .. N
      OBVIOUS
    <2> QED BY <1>3, <2>1 DEF T
  <1> QED BY <1>4 DEF Solves, Follows
=============================================================================
