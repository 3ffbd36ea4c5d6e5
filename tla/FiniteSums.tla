----------------------------- MODULE FiniteSums -----------------------------
(***************************************************************************)
(* Sums over finite sets, as SumFunction and SumFunctionOnSet of Functions *)
(* define them: by a fold that takes out one element after the other.      *)
(*                                                                         *)
(* The fold is a recursive function, so that it has a value is shown by    *)
(* induction.  The induction theorems of the library take an operator; an  *)
(* induction here is over a set of numbers, those for which the statement  *)
(* holds, and rests on WFMin, which takes none.                            *)
(***************************************************************************)
EXTENDS Integers, FiniteSets, Functions, FiniteSetTheorems, WellFoundedInduction, TLAPS

\* The order of the numbers, as a relation.
Less == {pair \in Nat \X Nat : pair[1] < pair[2]}

\* There is no infinite descent.
LEMMA LessIsWellFounded == IsWellFoundedOn(Less, Nat)
BY NatLessThanWellFounded DEF OpToRel, Less

-----------------------------------------------------------------------------
(* Induction.                                                              *)

\* A set with 0 in it, and with n + 1 wherever n is, has all numbers in it.
LEMMA Upward ==
    ASSUME NEW T, 0 \in T, \A n \in Nat : n \in T => n + 1 \in T
    PROVE  \A n \in Nat : n \in T
<1> DEFINE Bad == {n \in Nat : n \notin T}
<1> SUFFICES ASSUME Bad # {} PROVE FALSE
    OBVIOUS
<1>1. PICK n \in Bad : \A m \in Bad : <<m, n>> \notin Less
    BY LessIsWellFounded, WFMin, Bad \subseteq Nat
<1>2. n \in Nat /\ n # 0
    OBVIOUS
<1>3. <<n - 1, n>> \in Less
    BY <1>2 DEF Less
<1>4. n - 1 \in T
    BY <1>1, <1>2, <1>3
<1> QED
    BY <1>2, <1>4, n - 1 \in Nat

-----------------------------------------------------------------------------
(* The fold.                                                               *)

\* The element that the fold takes out of a set.
Pick(s) == CHOOSE x \in s : TRUE

\* h is the recursive function of the fold over S.
Unfold(f, S, h) ==
    h = [s \in SUBSET S |-> IF s = {} THEN 0 ELSE f[Pick(s)] + h[s \ {Pick(s)}]]

\* The sum is the value of that function.
LEMMA SumIsUnfolded ==
    ASSUME NEW f, NEW S
    PROVE  SumFunctionOnSet(f, S) = (CHOOSE h : Unfold(f, S, h))[S]
BY DEF SumFunctionOnSet, FoldFunctionOnSet, MapThenFoldSet, Unfold, Pick

\* What is taken out was in.
LEMMA PickIsIn == ASSUME NEW s, s # {} PROVE Pick(s) \in s
BY DEF Pick

\* There is such a function: for sets of n + 1 elements it is computed from one that
\* is right for sets of n.
LEMMA SumExists ==
    ASSUME NEW S, IsFiniteSet(S), NEW f \in [S -> Int]
    PROVE  \E h \in [SUBSET S -> Int] : Unfold(f, S, h)
<1> DEFINE Next(h) == [s \in SUBSET S |-> IF s = {} THEN 0 ELSE f[Pick(s)] + h[s \ {Pick(s)}]]
           Good(h, n) == \A s \in SUBSET S : Cardinality(s) <= n => h[s] = Next(h)[s]
           T == {n \in Nat : \E h \in [SUBSET S -> Int] : Good(h, n)}
<1>1. \A s \in SUBSET S : IsFiniteSet(s) /\ Cardinality(s) \in Nat /\ (Cardinality(s) = 0 <=> s = {})
    BY FS_Subset, FS_CardinalityType, FS_EmptySet
<1>2. \A s \in SUBSET S : s # {} =>
         /\ Pick(s) \in S
         /\ s \ {Pick(s)} \in SUBSET S
         /\ Cardinality(s \ {Pick(s)}) = Cardinality(s) - 1
  <2> SUFFICES ASSUME NEW s \in SUBSET S, s # {}
               PROVE  Pick(s) \in s /\ Cardinality(s \ {Pick(s)}) = Cardinality(s) - 1
      OBVIOUS
  <2> QED
      BY <1>1, PickIsIn, FS_RemoveElement
<1>3. ASSUME NEW h \in [SUBSET S -> Int] PROVE Next(h) \in [SUBSET S -> Int]
  <2>1. \A s \in SUBSET S : (IF s = {} THEN 0 ELSE f[Pick(s)] + h[s \ {Pick(s)}]) \in Int
    <3> SUFFICES ASSUME NEW s \in SUBSET S, s # {} PROVE f[Pick(s)] + h[s \ {Pick(s)}] \in Int
        OBVIOUS
    <3>1. Pick(s) \in S /\ s \ {Pick(s)} \in SUBSET S
        BY <1>2
    <3>2. f[Pick(s)] \in Int /\ h[s \ {Pick(s)}] \in Int
        BY <3>1
    <3> QED
        BY <3>2
  <2> QED
      BY <2>1
<1>4. 0 \in T
  <2> DEFINE h == [s \in SUBSET S |-> 0]
  <2>1. Good(h, 0)
      BY <1>1
  <2> QED
      BY <2>1, h \in [SUBSET S -> Int]
<1>5. ASSUME NEW n \in Nat, n \in T PROVE n + 1 \in T
  <2>1. PICK h \in [SUBSET S -> Int] : Good(h, n)
      BY <1>5
  <2>2. ASSUME NEW s \in SUBSET S, s # {}, Cardinality(s) <= n + 1
        PROVE  h[s \ {Pick(s)}] = Next(h)[s \ {Pick(s)}]
    <3>1. /\ s \ {Pick(s)} \in SUBSET S
          /\ Cardinality(s \ {Pick(s)}) <= n
        BY <1>1, <1>2, <2>2
    <3> HIDE DEF Next
    <3> QED
        BY <2>1, <3>1
  <2>3. Good(Next(h), n + 1)
      BY <2>2, <1>2
  <2>4. Next(h) \in [SUBSET S -> Int]
      BY <1>3
  <2> HIDE DEF Next, Good
  <2> QED
      BY <2>3, <2>4
<1>6. Cardinality(S) \in T
    BY <1>1, <1>4, <1>5, Upward
<1>7. PICK h \in [SUBSET S -> Int] : Good(h, Cardinality(S))
    BY <1>6
<1>8. \A s \in SUBSET S : Cardinality(s) <= Cardinality(S)
    BY FS_Subset
<1>9. h = Next(h)
    BY <1>7, <1>8, <1>3
<1> QED
    BY <1>9 DEF Unfold

\* The functions of two folds agree wherever both are defined.
LEMMA UnfoldsAgree ==
    ASSUME NEW S, IsFiniteSet(S), NEW T \in SUBSET S, NEW f,
           NEW g, Unfold(f, S, g), NEW h, Unfold(f, T, h)
    PROVE  h[T] = g[T]
<1> DEFINE N == {n \in Nat : \A s \in SUBSET T : Cardinality(s) = n => h[s] = g[s]}
<1>1. \A s \in SUBSET T : IsFiniteSet(s) /\ Cardinality(s) \in Nat /\ (Cardinality(s) = 0 <=> s = {})
    BY FS_Subset, FS_CardinalityType, FS_EmptySet
<1>2. 0 \in N
    BY <1>1 DEF Unfold
<1>3. ASSUME NEW n \in Nat, n \in N PROVE n + 1 \in N
  <2> SUFFICES ASSUME NEW s \in SUBSET T, Cardinality(s) = n + 1 PROVE h[s] = g[s]
      OBVIOUS
  <2> DEFINE r == s \ {Pick(s)}
  <2>1. s # {} /\ Pick(s) \in s
      BY <1>1, PickIsIn
  <2>2. r \in SUBSET T /\ Cardinality(r) = n
      BY <1>1, <2>1, FS_RemoveElement
  <2>3. h[r] = g[r]
      BY <1>3, <2>2
  <2>4. h[s] = f[Pick(s)] + h[r]
      BY <2>1 DEF Unfold
  <2>5. g[s] = f[Pick(s)] + g[r]
      BY <2>1 DEF Unfold
  <2> QED
      BY <2>3, <2>4, <2>5
<1>4. \A n \in Nat : n \in N
  <2> HIDE DEF N
  <2> QED
      BY <1>2, <1>3, Upward
<1> QED
    BY <1>1, <1>4

\* g gives the sum over each subset of S.
IsSum(f, S, g) ==
    /\ g \in [SUBSET S -> Int]
    /\ Unfold(f, S, g)
    /\ \A T \in SUBSET S : SumFunctionOnSet(f, T) = g[T]

\* One function serves all subsets of a set.
LEMMA SumOfSubsets ==
    ASSUME NEW S, IsFiniteSet(S), NEW f \in [S -> Int]
    PROVE  \E g : IsSum(f, S, g)
<1>1. PICK g \in [SUBSET S -> Int] : Unfold(f, S, g)
    BY SumExists
<1>2. ASSUME NEW T \in SUBSET S PROVE SumFunctionOnSet(f, T) = g[T]
  <2>1. Unfold(f, T, [s \in SUBSET T |-> g[s]])
    <3>1. \A s \in SUBSET T : s # {} => Pick(s) \in s
        BY PickIsIn
    <3>2. \A s \in SUBSET T : g[s] = IF s = {} THEN 0 ELSE f[Pick(s)] + g[s \ {Pick(s)}]
        BY <1>1 DEF Unfold
    <3> QED
        BY <3>1, <3>2 DEF Unfold
  <2> DEFINE h == CHOOSE k : Unfold(f, T, k)
  <2>2. Unfold(f, T, h)
      BY <2>1
  <2>3. h[T] = g[T]
    <3> HIDE DEF h
    <3> QED
        BY <1>1, <2>2, UnfoldsAgree
  <2> QED
      BY <2>3, SumIsUnfolded
<1> QED
    BY <1>1, <1>2 DEF IsSum

-----------------------------------------------------------------------------
(* Facts about sums.                                                       *)

\* Any element may be taken out first.
LEMMA SumTakesOut ==
    ASSUME NEW S, IsFiniteSet(S), NEW f \in [S -> Int]
    PROVE  /\ SumFunctionOnSet(f, {}) = 0
           /\ \A T \in SUBSET S : SumFunctionOnSet(f, T) \in Int
           /\ \A T \in SUBSET S : \A x \in T :
                 SumFunctionOnSet(f, T) = f[x] + SumFunctionOnSet(f, T \ {x})
<1>0. PICK g : IsSum(f, S, g)
    BY SumOfSubsets
<1>1. /\ g \in [SUBSET S -> Int]
      /\ Unfold(f, S, g)
      /\ \A T \in SUBSET S : SumFunctionOnSet(f, T) = g[T]
    BY <1>0 DEF IsSum
<1> DEFINE N == {n \in Nat : \A T \in SUBSET S : Cardinality(T) = n =>
                               \A x \in T : g[T] = f[x] + g[T \ {x}]}
<1>2. \A T \in SUBSET S : IsFiniteSet(T) /\ Cardinality(T) \in Nat /\ (Cardinality(T) = 0 <=> T = {})
    BY FS_Subset, FS_CardinalityType, FS_EmptySet
<1>3. 0 \in N
    BY <1>2
<1>4. ASSUME NEW n \in Nat, n \in N PROVE n + 1 \in N
  <2> SUFFICES ASSUME NEW T \in SUBSET S, Cardinality(T) = n + 1, NEW x \in T
               PROVE  g[T] = f[x] + g[T \ {x}]
      OBVIOUS
  <2> DEFINE y == Pick(T)
  <2>1. y \in T
      BY PickIsIn
  <2>2. g[T] = f[y] + g[T \ {y}]
      BY <1>1, <2>1 DEF Unfold
  <2> HIDE DEF y
  <2>3. CASE x = y
      BY <2>2, <2>3
  <2>4. CASE x # y
    <3>1. Cardinality(T \ {y}) = n /\ Cardinality(T \ {x}) = n
      <4>1. IsFiniteSet(T) /\ Cardinality(T) = n + 1
          BY <1>2
      <4>2. \A z \in T : Cardinality(T \ {z}) = Cardinality(T) - 1
          BY <4>1, FS_RemoveElement
      <4> QED
          BY <2>1, <4>1, <4>2
    <3>2. x \in T \ {y} /\ y \in T \ {x}
        BY <2>1, <2>4
    <3>3. g[T \ {y}] = f[x] + g[(T \ {y}) \ {x}]
        BY <1>4, <3>1, <3>2
    <3>4. g[T \ {x}] = f[y] + g[(T \ {x}) \ {y}]
        BY <1>4, <3>1, <3>2
    <3>5. (T \ {x}) \ {y} = (T \ {y}) \ {x}
        OBVIOUS
    <3>6. f[x] \in Int /\ f[y] \in Int /\ g[(T \ {y}) \ {x}] \in Int
        BY <1>1, <2>1
    <3>7. /\ g[T] = f[y] + (f[x] + g[(T \ {y}) \ {x}])
          /\ g[T \ {x}] = f[y] + g[(T \ {y}) \ {x}]
        BY <2>2, <3>3, <3>4, <3>5
    <3> DEFINE rest == g[(T \ {y}) \ {x}]
    <3> QED
      <4>1. rest \in Int /\ g[T] = f[y] + (f[x] + rest) /\ g[T \ {x}] = f[y] + rest
          BY <3>6, <3>7
      <4> HIDE DEF rest
      <4> QED
          BY <3>6, <4>1
  <2> QED
      BY <2>3, <2>4
<1>5. \A n \in Nat : n \in N
  <2> HIDE DEF N
  <2> QED
      BY <1>3, <1>4, Upward
<1>6. \A T \in SUBSET S : \A x \in T : g[T] = f[x] + g[T \ {x}]
    BY <1>2, <1>5
<1>7. g[{}] = 0
    BY <1>1 DEF Unfold
<1> QED
    BY <1>1, <1>6, <1>7

\* The sum depends on the values that are summed, and on nothing else.
LEMMA SumsAgree ==
    ASSUME NEW T, NEW f, NEW g, \A x \in T : f[x] = g[x]
    PROVE  SumFunctionOnSet(f, T) = SumFunctionOnSet(g, T)
<1>1. \A s \in SUBSET T : s # {} => f[Pick(s)] = g[Pick(s)]
    BY PickIsIn
<1>2. [s \in SUBSET T |-> 0] = [s \in SUBSET T |-> 0]
    OBVIOUS
<1>3. \A h : Unfold(f, T, h) <=> Unfold(g, T, h)
    BY <1>1 DEF Unfold
<1>4. (CHOOSE h : Unfold(f, T, h)) = (CHOOSE h : Unfold(g, T, h))
    BY <1>3
<1> QED
    BY <1>4, SumIsUnfolded

\* A sum of integers is an integer.
LEMMA SumType ==
    ASSUME NEW S, IsFiniteSet(S), NEW f \in [S -> Int]
    PROVE  SumFunction(f) \in Int
<1>1. DOMAIN f = S /\ S \in SUBSET S
    OBVIOUS
<1>2. \A T \in SUBSET S : SumFunctionOnSet(f, T) \in Int
    BY SumTakesOut
<1> QED
    BY <1>1, <1>2 DEF SumFunction

\* One value is changed: the sum changes by the difference.
LEMMA SumChanges ==
    ASSUME NEW S, IsFiniteSet(S), NEW f \in [S -> Int], NEW g \in [S -> Int],
           NEW x \in S, \A y \in S \ {x} : g[y] = f[y]
    PROVE  /\ SumFunction(f) \in Int
           /\ SumFunction(g) = SumFunction(f) - f[x] + g[x]
<1>1. SumFunction(f) = SumFunctionOnSet(f, S) /\ SumFunction(g) = SumFunctionOnSet(g, S)
    BY DEF SumFunction
<1>2. /\ SumFunctionOnSet(f, S) \in Int
      /\ SumFunctionOnSet(f, S \ {x}) \in Int
      /\ SumFunctionOnSet(f, S) = f[x] + SumFunctionOnSet(f, S \ {x})
    BY SumTakesOut, S \in SUBSET S, S \ {x} \in SUBSET S
<1>3. SumFunctionOnSet(g, S) = g[x] + SumFunctionOnSet(g, S \ {x})
    BY SumTakesOut, S \in SUBSET S
<1>4. SumFunctionOnSet(f, S \ {x}) = SumFunctionOnSet(g, S \ {x})
    BY SumsAgree
<1>5. f[x] \in Int /\ g[x] \in Int
    OBVIOUS
<1> QED
    BY <1>1, <1>2, <1>3, <1>4, <1>5

\* Smaller values, a smaller sum.
LEMMA SumIsMonotone ==
    ASSUME NEW S, IsFiniteSet(S), NEW f \in [S -> Int], NEW g \in [S -> Int],
           \A x \in S : f[x] <= g[x]
    PROVE  SumFunction(f) <= SumFunction(g)
<1> DEFINE N == {n \in Nat : \A T \in SUBSET S : Cardinality(T) = n =>
                               SumFunctionOnSet(f, T) <= SumFunctionOnSet(g, T)}
<1>1. \A T \in SUBSET S : IsFiniteSet(T) /\ Cardinality(T) \in Nat /\ (Cardinality(T) = 0 <=> T = {})
    BY FS_Subset, FS_CardinalityType, FS_EmptySet
<1>2. 0 \in N
  <2>1. SumFunctionOnSet(f, {}) = 0 /\ SumFunctionOnSet(g, {}) = 0
      BY SumTakesOut
  <2> QED
      BY <1>1, <2>1
<1>3. ASSUME NEW n \in Nat, n \in N PROVE n + 1 \in N
  <2> SUFFICES ASSUME NEW T \in SUBSET S, Cardinality(T) = n + 1
               PROVE  SumFunctionOnSet(f, T) <= SumFunctionOnSet(g, T)
      OBVIOUS
  <2>1. PICK x \in T : TRUE
      BY <1>1
  <2> DEFINE F == SumFunctionOnSet(f, T \ {x})
             G == SumFunctionOnSet(g, T \ {x})
  <2>2. T \ {x} \in SUBSET S /\ Cardinality(T \ {x}) = n
      BY <1>1, FS_RemoveElement
  <2>3. F <= G
      BY <1>3, <2>2
  <2>4. SumFunctionOnSet(f, T) = f[x] + F /\ F \in Int
      BY SumTakesOut, <2>2
  <2>5. SumFunctionOnSet(g, T) = g[x] + G /\ G \in Int
      BY SumTakesOut, <2>2
  <2>6. f[x] \in Int /\ g[x] \in Int /\ f[x] <= g[x]
      OBVIOUS
  <2> HIDE DEF F, G
  <2> QED
      BY <2>3, <2>4, <2>5, <2>6
<1>4. \A n \in Nat : n \in N
  <2> HIDE DEF N
  <2> QED
      BY <1>2, <1>3, Upward
<1>5. SumFunctionOnSet(f, S) <= SumFunctionOnSet(g, S)
    BY <1>1, <1>4
<1> QED
    BY <1>5 DEF SumFunction

\* A sum over indices is the sum over what an injection maps them to.
LEMMA SumOverImage ==
    ASSUME NEW S, IsFiniteSet(S), NEW U, IsFiniteSet(U), NEW f \in [U -> Int],
           NEW p \in [S -> U], \A x, y \in S : p[x] = p[y] => x = y,
           NEW T \in SUBSET S
    PROVE  SumFunctionOnSet([x \in S |-> f[p[x]]], T) = SumFunctionOnSet(f, {p[x] : x \in T})
<1> DEFINE g == [x \in S |-> f[p[x]]]
           Im(A) == {p[x] : x \in A}
           N == {n \in Nat : \A A \in SUBSET S : Cardinality(A) = n =>
                               SumFunctionOnSet(g, A) = SumFunctionOnSet(f, Im(A))}
<1>1. \A A \in SUBSET S : IsFiniteSet(A) /\ Cardinality(A) \in Nat /\ (Cardinality(A) = 0 <=> A = {})
    BY FS_Subset, FS_CardinalityType, FS_EmptySet
<1>2. g \in [S -> Int]
    OBVIOUS
<1>3. 0 \in N
  <2>1. SumFunctionOnSet(g, {}) = 0 /\ SumFunctionOnSet(f, {}) = 0
      BY <1>2, SumTakesOut
  <2>2. Im({}) = {}
      OBVIOUS
  <2> QED
      BY <1>1, <2>1, <2>2
<1>4. ASSUME NEW n \in Nat, n \in N PROVE n + 1 \in N
  <2> SUFFICES ASSUME NEW A \in SUBSET S, Cardinality(A) = n + 1
               PROVE  SumFunctionOnSet(g, A) = SumFunctionOnSet(f, Im(A))
      OBVIOUS
  <2>1. PICK x \in A : TRUE
      BY <1>1
  <2>2. A \ {x} \in SUBSET S /\ Cardinality(A \ {x}) = n
    <3>1. IsFiniteSet(A) /\ Cardinality(A) = n + 1
        BY <1>1
    <3>2. Cardinality(A \ {x}) = Cardinality(A) - 1
        BY <3>1, FS_RemoveElement
    <3> QED
        BY <3>1, <3>2
  <2>3. SumFunctionOnSet(g, A \ {x}) = SumFunctionOnSet(f, Im(A \ {x}))
      BY <1>4, <2>2
  <2>4. SumFunctionOnSet(g, A) = g[x] + SumFunctionOnSet(g, A \ {x})
    <3> HIDE DEF g
    <3> QED
        BY <1>2, SumTakesOut
  <2>5. Im(A) \in SUBSET U /\ p[x] \in Im(A)
      OBVIOUS
  <2>6. SumFunctionOnSet(f, Im(A)) = f[p[x]] + SumFunctionOnSet(f, Im(A) \ {p[x]})
    <3> HIDE DEF Im
    <3> QED
        BY <2>5, SumTakesOut
  <2>7. Im(A) \ {p[x]} = Im(A \ {x})
      OBVIOUS
  <2>8. g[x] = f[p[x]]
      OBVIOUS
  <2> QED
      BY <2>3, <2>4, <2>6, <2>7, <2>8
<1>5. \A n \in Nat : n \in N
  <2> HIDE DEF N
  <2> QED
      BY <1>3, <1>4, Upward
<1> QED
    BY <1>1, <1>5

\* The terms of a sum may be numbered otherwise, one for one.
LEMMA SumIsReindexed ==
    ASSUME NEW T, IsFiniteSet(T), NEW V, IsFiniteSet(V), NEW f \in [V -> Int],
           NEW p \in [T -> V],
           \A x, y \in T : p[x] = p[y] => x = y, \A v \in V : \E x \in T : p[x] = v,
           NEW g, \A x \in T : g[x] = f[p[x]]
    PROVE  SumFunctionOnSet(g, T) = SumFunctionOnSet(f, V)
<1> DEFINE h == [x \in T |-> f[p[x]]]
<1>1. SumFunctionOnSet(h, T) = SumFunctionOnSet(f, {p[x] : x \in T})
    BY SumOverImage, T \in SUBSET T
<1>2. {p[x] : x \in T} = V
    OBVIOUS
<1>3. \A x \in T : g[x] = h[x]
    OBVIOUS
<1> HIDE DEF h
<1>4. SumFunctionOnSet(g, T) = SumFunctionOnSet(h, T)
    BY <1>3, SumsAgree
<1> QED
    BY <1>1, <1>2, <1>4

\* Elements with the value 0 may be left out of a sum.
LEMMA SumIgnoresZeros ==
    ASSUME NEW S, IsFiniteSet(S), NEW f \in [S -> Int],
           NEW T \in SUBSET S, \A x \in S \ T : f[x] = 0
    PROVE  SumFunction(f) = SumFunctionOnSet(f, T)
<1> DEFINE N == {n \in Nat : \A A \in SUBSET (S \ T) : Cardinality(A) = n =>
                               SumFunctionOnSet(f, T \union A) = SumFunctionOnSet(f, T)}
<1>1. \A A \in SUBSET S : IsFiniteSet(A) /\ Cardinality(A) \in Nat /\ (Cardinality(A) = 0 <=> A = {})
    BY FS_Subset, FS_CardinalityType, FS_EmptySet
<1>2. 0 \in N
  <2>1. T \union {} = T
      OBVIOUS
  <2> QED
      BY <1>1, <2>1
<1>3. ASSUME NEW n \in Nat, n \in N PROVE n + 1 \in N
  <2> SUFFICES ASSUME NEW A \in SUBSET (S \ T), Cardinality(A) = n + 1
               PROVE  SumFunctionOnSet(f, T \union A) = SumFunctionOnSet(f, T)
      OBVIOUS
  <2>1. PICK x \in A : TRUE
      BY <1>1
  <2>2. A \ {x} \in SUBSET (S \ T) /\ Cardinality(A \ {x}) = n
    <3>1. IsFiniteSet(A) /\ Cardinality(A) = n + 1
        BY <1>1
    <3>2. Cardinality(A \ {x}) = Cardinality(A) - 1
        BY <3>1, FS_RemoveElement
    <3> QED
        BY <3>1, <3>2
  <2>3. SumFunctionOnSet(f, T \union (A \ {x})) = SumFunctionOnSet(f, T)
      BY <1>3, <2>2
  <2>4. (T \union A) \ {x} = T \union (A \ {x})
      OBVIOUS
  <2>5. T \union A \in SUBSET S /\ x \in T \union A /\ T \in SUBSET S
      OBVIOUS
  <2>6. /\ SumFunctionOnSet(f, T \union A) = f[x] + SumFunctionOnSet(f, (T \union A) \ {x})
        /\ SumFunctionOnSet(f, T) \in Int
      BY <2>5, SumTakesOut
  <2>7. f[x] = 0
      OBVIOUS
  <2> QED
      BY <2>3, <2>4, <2>6, <2>7
<1>4. \A n \in Nat : n \in N
  <2> HIDE DEF N
  <2> QED
      BY <1>2, <1>3, Upward
<1>5. S \ T \in SUBSET (S \ T) /\ Cardinality(S \ T) \in Nat
    BY <1>1
<1>6. SumFunctionOnSet(f, T \union (S \ T)) = SumFunctionOnSet(f, T)
    BY <1>4, <1>5
<1>7. T \union (S \ T) = S
    OBVIOUS
<1> QED
    BY <1>6, <1>7 DEF SumFunction

-----------------------------------------------------------------------------
(* Counting.                                                               *)

\* The place of s among the numbers of P, the least being the first.
Rank(P, s) == Cardinality({t \in P : t <= s})

\* The places of n numbers are 1 .. n, one for each.
LEMMA RanksAreOneToOne ==
    ASSUME NEW P \in SUBSET Nat, IsFiniteSet(P)
    PROVE  /\ \A s \in P : Rank(P, s) \in 1 .. Cardinality(P)
           /\ \A s, t \in P : Rank(P, s) = Rank(P, t) => s = t
           /\ \A i \in 1 .. Cardinality(P) : \E s \in P : Rank(P, s) = i
<1> DEFINE Upto(s) == {t \in P : t <= s}
           n == Cardinality(P)
           rank == [s \in P |-> Rank(P, s)]
<1>0. n \in Nat
    BY FS_CardinalityType
<1>1. \A s \in P : /\ Upto(s) \in SUBSET P /\ IsFiniteSet(Upto(s)) /\ s \in Upto(s)
                   /\ Cardinality(Upto(s)) \in Nat /\ Cardinality(Upto(s)) <= n
                   /\ Rank(P, s) = Cardinality(Upto(s))
    BY FS_Subset, FS_CardinalityType DEF Rank
<1>2. \A s \in P : Cardinality(Upto(s)) # 0
    BY <1>1, FS_EmptySet
<1>3. \A s \in P : Rank(P, s) \in 1 .. n
  <2> HIDE DEF Upto, n
  <2> QED
      BY <1>0, <1>1, <1>2
<1>4. ASSUME NEW s \in P, NEW t \in P, s < t PROVE Rank(P, s) # Rank(P, t)
  <2>0. s \in Nat /\ t \in Nat
      OBVIOUS
  <2>1. Upto(s) \in SUBSET Upto(t) /\ t \notin Upto(s)
    <3>1. \A u \in P : u <= s => u <= t
        BY <1>4, <2>0
    <3>2. ~ (t <= s)
        BY <1>4, <2>0
    <3> QED
        BY <3>1, <3>2
  <2>2. Upto(s) # Upto(t)
      BY <1>1, <2>1
  <2> HIDE DEF Upto
  <2>3. Cardinality(Upto(s)) # Cardinality(Upto(t))
      BY <1>1, <2>1, <2>2, FS_Subset
  <2> QED
      BY <1>1, <2>3
<1>5. \A s, t \in P : Rank(P, s) = Rank(P, t) => s = t
  <2>1. \A s, t \in P : s = t \/ s < t \/ t < s
      OBVIOUS
  <2> QED
      BY <1>4, <2>1
<1>6. rank \in Injection(P, 1 .. n)
  <2>1. rank \in [P -> 1 .. n]
      BY <1>3
  <2>2. \A s, t \in P : rank[s] = rank[t] => s = t
      BY <1>5
  <2> HIDE DEF rank
  <2> QED
      BY <2>1, <2>2 DEF Injection, IsInjective
<1>7. IsFiniteSet(1 .. n) /\ Cardinality(1 .. n) = n
    BY <1>0, FS_Interval
<1>8. rank \in Surjection(P, 1 .. n)
  <2> HIDE DEF rank
  <2> QED
      BY <1>6, <1>7, FS_Injection
<1>9. \A i \in 1 .. n : \E s \in P : rank[s] = i
    BY <1>8 DEF Surjection
<1> QED
    BY <1>3, <1>5, <1>9
=============================================================================
