-------------------------------- MODULE Sums --------------------------------
(* What the sums of the ledger and of the adapters obey: SumFunction of the    *)
(* community modules adds the values of a function in an order nobody knows,   *)
(* by a recursion on the set left to be added.  The recursion is shown to      *)
(* have a solution, and the order not to matter.                               *)
EXTENDS Integers, FiniteSets, FiniteSetsExt, Functions, FiniteSetTheorems, TLAPS

(* A set of naturals that is not empty has a least element.                    *)
LEMMA LeastNatural ==
    ASSUME NEW T \in SUBSET Nat, T # {}
    PROVE  \E n \in T : \A m \in T : n <= m
<1>1. PICK n \in T : \A m \in T : <<m, n>> \notin OpToRel(<, Nat)
  BY NatLessThanWellFounded, WFMin
<1>2. \A m \in T : ~(m < n)
  BY <1>1 DEF OpToRel
<1> QED BY <1>2

(* The greater and the lesser of two numbers.                                  *)
LEMMA MaxOfTwo ==
    ASSUME NEW a \in Int, NEW b \in Int
    PROVE  Max({a, b}) = IF a >= b THEN a ELSE b
<1> PICK m : m = IF a >= b THEN a ELSE b
  OBVIOUS
<1>1. m \in {a, b} /\ \A y \in {a, b} : m >= y
  OBVIOUS
<1>2. \A x \in {a, b} : (\A y \in {a, b} : x >= y) => x = m
  OBVIOUS
<1> QED BY <1>1, <1>2 DEF Max

LEMMA MinOfTwo ==
    ASSUME NEW a \in Int, NEW b \in Int
    PROVE  Min({a, b}) = IF a <= b THEN a ELSE b
<1> PICK m : m = IF a <= b THEN a ELSE b
  OBVIOUS
<1>1. m \in {a, b} /\ \A y \in {a, b} : m <= y
  OBVIOUS
<1>2. \A x \in {a, b} : (\A y \in {a, b} : x <= y) => x = m
  OBVIOUS
<1> QED BY <1>1, <1>2 DEF Min

(* The element that is added next, and what its sum is by the recursion.       *)
Some(s)         == CHOOSE x \in s : TRUE
Unfold(f, g, s) == IF s = {} THEN 0 ELSE f[Some(s)] + g[s \ {Some(s)}]

(* g solves the recursion for all subsets of S that have at most n elements.   *)
Upto(S, n)        == {s \in SUBSET S : Cardinality(s) <= n}
Solves(f, g, D)   == g = [s \in D |-> Unfold(f, g, s)]
Sums(f, S)         == CHOOSE g : Solves(f, g, SUBSET S)

LEMMA SumUnfold ==
    ASSUME NEW f, NEW S
    PROVE  SumFunctionOnSet(f, S) = Sums(f, S)[S]
BY DEF SumFunctionOnSet, FoldFunctionOnSet, MapThenFoldSet, Sums, Solves, Unfold, Some

LEMMA SomeIn == ASSUME NEW s, s # {} PROVE Some(s) \in s
BY DEF Some

(* Without the element that is added next a finite set is smaller.             *)
LEMMA Smaller ==
    ASSUME NEW S, IsFiniteSet(S), NEW s \in SUBSET S, s # {}, NEW x \in s
    PROVE  /\ IsFiniteSet(s) /\ s \ {x} \in SUBSET S /\ IsFiniteSet(s \ {x})
           /\ Cardinality(s) \in Nat /\ Cardinality(s) > 0
           /\ Cardinality(s \ {x}) = Cardinality(s) - 1
<1>1. IsFiniteSet(s) /\ s \ {x} \in SUBSET S
  BY FS_Subset
<1>2. Cardinality(s) \in Nat /\ IsFiniteSet(s \ {x}) /\ Cardinality(s \ {x}) = Cardinality(s) - 1
  BY <1>1, FS_CardinalityType, FS_RemoveElement
<1>3. Cardinality(s) # 0
  BY <1>1, FS_EmptySet
<1> QED BY <1>1, <1>2, <1>3

(* The recursion has a solution for subsets of at most n elements, for all n.  *)
LEMMA SolutionUpto ==
    ASSUME NEW f, NEW S, IsFiniteSet(S)
    PROVE  \A n \in Nat : \E g : Solves(f, g, Upto(S, n))
<1> DEFINE Failing == {n \in Nat : ~\E g : Solves(f, g, Upto(S, n))}
<1> SUFFICES ASSUME Failing # {} PROVE FALSE
  OBVIOUS
<1>1. PICK n \in Failing : \A m \in Failing : n <= m
  <2>1. Failing \in SUBSET Nat
    OBVIOUS
  <2> QED BY <2>1, LeastNatural
<1>2. CASE n = 0
  <2> DEFINE g == [s \in Upto(S, 0) |-> 0]
  <2>1. \A s \in Upto(S, 0) : s = {}
    <3> TAKE s \in Upto(S, 0)
    <3>1. s \in SUBSET S /\ Cardinality(s) <= 0
      BY DEF Upto
    <3>2. IsFiniteSet(s) /\ Cardinality(s) \in Nat
      BY <3>1, FS_Subset, FS_CardinalityType
    <3> QED BY <3>1, <3>2, FS_EmptySet
  <2>2. \A s \in Upto(S, 0) : Unfold(f, g, s) = 0
    BY <2>1 DEF Unfold
  <2>3. Solves(f, g, Upto(S, 0))
    BY <2>2 DEF Solves
  <2> QED BY <1>2, <2>3
<1>3. CASE n # 0
  <2>1. n - 1 \in Nat /\ n - 1 \notin Failing
    BY <1>1, <1>3
  <2>2. PICK g : Solves(f, g, Upto(S, n - 1))
    BY <2>1
  <2> DEFINE h == [s \in Upto(S, n) |-> Unfold(f, g, s)]
  <2>3. \A s \in Upto(S, n - 1) : s \in Upto(S, n) /\ h[s] = g[s]
    <3> TAKE s \in Upto(S, n - 1)
    <3>1. IsFiniteSet(s) /\ Cardinality(s) \in Nat
      BY FS_Subset, FS_CardinalityType DEF Upto
    <3>2. s \in Upto(S, n)
      BY <3>1, <2>1 DEF Upto
    <3>3. g[s] = Unfold(f, g, s)
      BY <2>2 DEF Solves
    <3> QED BY <3>2, <3>3
  <2>4. \A s \in Upto(S, n) : Unfold(f, h, s) = Unfold(f, g, s)
    <3> TAKE s \in Upto(S, n)
    <3>1. CASE s = {}
      BY <3>1 DEF Unfold
    <3>2. CASE s # {}
      <4>1. s \in SUBSET S /\ Some(s) \in s
        BY <3>2, SomeIn DEF Upto
      <4>2. s \ {Some(s)} \in Upto(S, n - 1)
        <5>1. Cardinality(s) <= n
          BY DEF Upto
        <5>2. /\ s \ {Some(s)} \in SUBSET S /\ Cardinality(s) \in Nat
              /\ Cardinality(s \ {Some(s)}) = Cardinality(s) - 1
          BY <4>1, <3>2, Smaller
        <5>3. Cardinality(s \ {Some(s)}) <= n - 1
          BY <5>1, <5>2, <2>1
        <5> QED BY <5>2, <5>3 DEF Upto
      <4>3. h[s \ {Some(s)}] = g[s \ {Some(s)}]
        BY <4>2, <2>3
      <4> QED BY <4>3, <3>2 DEF Unfold
    <3> QED BY <3>1, <3>2
  <2>5. Solves(f, h, Upto(S, n))
    BY <2>4 DEF Solves
  <2> QED BY <2>5
<1> QED BY <1>2, <1>3

LEMMA Solution ==
    ASSUME NEW f, NEW S, IsFiniteSet(S)
    PROVE  Solves(f, Sums(f, S), SUBSET S)
<1>1. Cardinality(S) \in Nat
  BY FS_CardinalityType
<1>2. Upto(S, Cardinality(S)) = SUBSET S
  BY FS_Subset DEF Upto
<1>3. \E g : Solves(f, g, Upto(S, Cardinality(S)))
  BY <1>1, SolutionUpto
<1>4. \E g : Solves(f, g, SUBSET S)
  BY <1>2, <1>3
<1> QED BY <1>4 DEF Sums

(* The sums of two functions, over sets with different elements, agree where   *)
(* the functions do: the order of addition does not matter.                    *)
LEMMA OneSolution ==
    ASSUME NEW f, NEW S, IsFiniteSet(S), NEW e, NEW T, IsFiniteSet(T),
           NEW R, R \subseteq S, R \subseteq T, \A x \in R : f[x] = e[x]
    PROVE  Sums(f, S)[R] = Sums(e, T)[R]
<1> DEFINE g == Sums(f, S)
           h == Sums(e, T)
           Sizes == {n \in Nat : \E s \in SUBSET R : Cardinality(s) = n /\ g[s] # h[s]}
<1>1. Solves(f, g, SUBSET S) /\ Solves(e, h, SUBSET T)
  BY Solution
<1>2. IsFiniteSet(R) /\ Cardinality(R) \in Nat
  BY FS_Subset, FS_CardinalityType
<1> HIDE DEF g, h
<1> SUFFICES ASSUME g[R] # h[R] PROVE FALSE
  BY DEF g, h
<1>3. Sizes \in SUBSET Nat /\ Sizes # {}
  BY <1>2
<1>4. PICK n \in Sizes : \A m \in Sizes : n <= m
  BY <1>3, LeastNatural
<1>5. PICK s \in SUBSET R : Cardinality(s) = n /\ g[s] # h[s]
  BY <1>4
<1>6. g[s] = Unfold(f, g, s) /\ h[s] = Unfold(e, h, s)
  BY <1>1 DEF Solves
<1>7. s # {}
  BY <1>5, <1>6 DEF Unfold
<1>8. Some(s) \in s
  BY <1>7, SomeIn
<1>9. g[s \ {Some(s)}] = h[s \ {Some(s)}]
  <2> SUFFICES ASSUME g[s \ {Some(s)}] # h[s \ {Some(s)}] PROVE FALSE
    OBVIOUS
  <2>1. /\ s \ {Some(s)} \in SUBSET R /\ Cardinality(s) \in Nat /\ Cardinality(s) > 0
        /\ Cardinality(s \ {Some(s)}) = Cardinality(s) - 1
    BY <1>2, <1>7, <1>8, Smaller
  <2>2. n - 1 \in Sizes
    BY <1>5, <2>1
  <2> QED BY <1>4, <2>2
<1> QED BY <1>5, <1>6, <1>7, <1>8, <1>9 DEF Unfold

(* The recursion the sums obey.                                                *)
LEMMA SumStep ==
    ASSUME NEW f, NEW S, IsFiniteSet(S)
    PROVE  SumFunctionOnSet(f, S) =
              IF S = {} THEN 0 ELSE f[Some(S)] + SumFunctionOnSet(f, S \ {Some(S)})
<1>1. Sums(f, S)[S] = Unfold(f, Sums(f, S), S)
  <2>1. Solves(f, Sums(f, S), SUBSET S)
    BY Solution
  <2> QED BY <2>1 DEF Solves
<1>2. CASE S = {}
  BY <1>1, <1>2, SumUnfold DEF Unfold
<1>3. CASE S # {}
  <2> DEFINE R == S \ {Some(S)}
  <2>1. IsFiniteSet(R) /\ R \subseteq S
    BY FS_Subset
  <2> HIDE DEF R
  <2>2. Sums(f, S)[R] = Sums(f, R)[R]
    BY <2>1, OneSolution
  <2> QED BY <1>1, <1>3, <2>2, SumUnfold DEF Unfold, R
<1> QED BY <1>2, <1>3

(* Functions that agree on a set have one sum over it.                         *)
LEMMA SumAgree ==
    ASSUME NEW f, NEW e, NEW S, IsFiniteSet(S), \A x \in S : f[x] = e[x]
    PROVE  SumFunctionOnSet(f, S) = SumFunctionOnSet(e, S)
BY OneSolution, SumUnfold

LEMMA SumEmpty == ASSUME NEW f PROVE SumFunctionOnSet(f, {}) = 0
BY SumStep, FS_EmptySet

(* A sum of integers is an integer, and each of its terms can be set apart.    *)
LEMMA SumSplits ==
    ASSUME NEW S, IsFiniteSet(S), NEW f, \A x \in S : f[x] \in Int
    PROVE  \A R \in SUBSET S :
              /\ SumFunctionOnSet(f, R) \in Int
              /\ \A x \in R : SumFunctionOnSet(f, R) = f[x] + SumFunctionOnSet(f, R \ {x})
<1> DEFINE Good(R) == /\ SumFunctionOnSet(f, R) \in Int
                      /\ \A x \in R : SumFunctionOnSet(f, R) = f[x] + SumFunctionOnSet(f, R \ {x})
           Bad == {n \in Nat : \E R \in SUBSET S : Cardinality(R) = n /\ ~Good(R)}
<1>1. \A R \in SUBSET S : IsFiniteSet(R) /\ Cardinality(R) \in Nat
  BY FS_Subset, FS_CardinalityType
<1> SUFFICES ASSUME NEW Q \in SUBSET S, ~Good(Q) PROVE FALSE
  OBVIOUS
<1> HIDE DEF Good
<1>2. Bad \in SUBSET Nat /\ Bad # {}
  BY <1>1
<1>3. PICK n \in Bad : \A m \in Bad : n <= m
  BY <1>2, LeastNatural
<1>4. PICK R \in SUBSET S : Cardinality(R) = n /\ ~Good(R)
  BY <1>3
<1>5. \A T \in SUBSET S : Cardinality(T) < n => Good(T)
  BY <1>1, <1>3
<1>6. R # {}
  <2> SUFFICES ASSUME R = {} PROVE FALSE
    OBVIOUS
  <2>1. SumFunctionOnSet(f, R) = 0
    BY SumEmpty
  <2> QED BY <1>4, <2>1 DEF Good
<1> DEFINE y == Some(R)
<1>7. y \in R /\ f[y] \in Int
  BY <1>6, SomeIn
<1>8. SumFunctionOnSet(f, R) = f[y] + SumFunctionOnSet(f, R \ {y})
  BY <1>1, <1>6, SumStep
<1> HIDE DEF y
<1>9. \A x \in R : /\ R \ {x} \in SUBSET S /\ Cardinality(R) \in Nat
                   /\ Cardinality(R \ {x}) = Cardinality(R) - 1
  BY <1>6, Smaller
<1>10. \A x \in R : Good(R \ {x})
  <2> TAKE x \in R
  <2>1. R \ {x} \in SUBSET S /\ Cardinality(R \ {x}) < n
    BY <1>4, <1>9
  <2> QED BY <1>5, <2>1
<1>11. SumFunctionOnSet(f, R) \in Int
  BY <1>7, <1>8, <1>10 DEF Good
<1>12. ASSUME NEW x \in R PROVE SumFunctionOnSet(f, R) = f[x] + SumFunctionOnSet(f, R \ {x})
  <2>1. CASE x = y
    BY <1>8, <2>1
  <2>2. CASE x # y
    <3> DEFINE T == (R \ {y}) \ {x}
    <3>1. SumFunctionOnSet(f, R \ {y}) = f[x] + SumFunctionOnSet(f, T)
      BY <1>7, <1>10, <2>2 DEF Good
    <3>2. SumFunctionOnSet(f, R \ {x}) = f[y] + SumFunctionOnSet(f, (R \ {x}) \ {y})
      BY <1>7, <1>10, <2>2 DEF Good
    <3>3. (R \ {x}) \ {y} = T
      OBVIOUS
    <3>4. SumFunctionOnSet(f, T) \in Int
      <4>1. IsFiniteSet(R \ {y}) /\ R \ {y} \in SUBSET S /\ x \in R \ {y}
        BY <1>1, <2>2
      <4>2. /\ T \in SUBSET S /\ Cardinality(R \ {y}) \in Nat
            /\ Cardinality(T) = Cardinality(R \ {y}) - 1
        BY <4>1, Smaller
      <4>3. Cardinality(T) < n
        BY <1>4, <1>7, <1>9, <4>2
      <4> QED BY <1>5, <4>2, <4>3 DEF Good
    <3>5. SumFunctionOnSet(f, R \ {x}) = f[y] + SumFunctionOnSet(f, T)
      BY <3>2, <3>3
    <3>6. f[x] \in Int
      OBVIOUS
    <3> HIDE DEF T
    <3>7. SumFunctionOnSet(f, R) = f[y] + (f[x] + SumFunctionOnSet(f, T))
      BY <1>8, <3>1
    <3>8. f[y] + (f[x] + SumFunctionOnSet(f, T)) = f[x] + (f[y] + SumFunctionOnSet(f, T))
      BY <1>7, <3>4, <3>6
    <3> QED BY <3>5, <3>7, <3>8, Zenon
  <2> QED BY <2>1, <2>2
<1> QED BY <1>4, <1>11, <1>12 DEF Good

-------------------------------------------------------------------------------
(* What holds of the empty set, and of a set when it holds of the set without  *)
(* one of its elements, holds of every subset of a finite set.                 *)
LEMMA SubsetInduction ==
    ASSUME NEW S, IsFiniteSet(S), NEW P, {} \in P,
           \A R \in SUBSET S : \A x \in R : R \ {x} \in P => R \in P
    PROVE  SUBSET S \subseteq P
<1> DEFINE Bad == {n \in Nat : \E R \in SUBSET S : Cardinality(R) = n /\ R \notin P}
<1> SUFFICES ASSUME NEW Q \in SUBSET S, Q \notin P PROVE FALSE
  OBVIOUS
<1>1. \A R \in SUBSET S : IsFiniteSet(R) /\ Cardinality(R) \in Nat
  BY FS_Subset, FS_CardinalityType
<1>2. Bad \in SUBSET Nat /\ Bad # {}
  BY <1>1
<1>3. PICK n \in Bad : \A m \in Bad : n <= m
  BY <1>2, LeastNatural
<1>4. PICK R \in SUBSET S : Cardinality(R) = n /\ R \notin P
  BY <1>3
<1>5. PICK x : x \in R
  BY <1>4
<1>6. R \ {x} \in SUBSET S /\ Cardinality(R) \in Nat /\ Cardinality(R \ {x}) = Cardinality(R) - 1
  BY <1>5, Smaller
<1>7. R \ {x} \in P
  <2> SUFFICES ASSUME R \ {x} \notin P PROVE FALSE
    OBVIOUS
  <2>1. Cardinality(R \ {x}) \in Bad
    BY <1>1, <1>6
  <2>2. n <= Cardinality(R \ {x})
    BY <1>3, <2>1
  <2> QED BY <1>4, <1>6, <2>2
<1> QED BY <1>4, <1>5, <1>7

-------------------------------------------------------------------------------
(* The sum of a function without arguments.                                    *)
LEMMA SumNone ==
    ASSUME NEW f, DOMAIN f = {} PROVE SumFunction(f) = 0
BY SumEmpty DEF SumFunction

LEMMA SumType ==
    ASSUME NEW S, IsFiniteSet(S), NEW f \in [S -> Int]
    PROVE  SumFunction(f) \in Int
BY SumSplits DEF SumFunction

(* One term set apart: f is e and its value at x.                              *)
LEMMA SumApart ==
    ASSUME NEW S, IsFiniteSet(S), NEW f \in [S -> Int], NEW x \in S,
           NEW e \in [S \ {x} -> Int], \A y \in S \ {x} : e[y] = f[y]
    PROVE  SumFunction(f) = f[x] + SumFunction(e)
<1>1. SumFunctionOnSet(f, S) = f[x] + SumFunctionOnSet(f, S \ {x})
  BY SumSplits
<1>2. IsFiniteSet(S \ {x})
  BY FS_Subset
<1>3. SumFunctionOnSet(f, S \ {x}) = SumFunctionOnSet(e, S \ {x})
  BY <1>2, SumAgree
<1> QED BY <1>1, <1>3 DEF SumFunction

(* The sum of the sums of two functions.                                       *)
LEMMA SumPlus ==
    ASSUME NEW S, IsFiniteSet(S), NEW f \in [S -> Int], NEW e \in [S -> Int],
           NEW h \in [S -> Int], \A x \in S : h[x] = f[x] + e[x]
    PROVE  SumFunction(h) = SumFunction(f) + SumFunction(e)
<1> DEFINE P == {R \in SUBSET S : SumFunctionOnSet(h, R) =
                                     SumFunctionOnSet(f, R) + SumFunctionOnSet(e, R)}
<1>1. {} \in P
  <2>1. /\ SumFunctionOnSet(h, {}) = 0 /\ SumFunctionOnSet(f, {}) = 0
        /\ SumFunctionOnSet(e, {}) = 0
    BY SumEmpty
  <2> QED BY <2>1
<1>2. ASSUME NEW R \in SUBSET S, NEW x \in R, R \ {x} \in P PROVE R \in P
  <2> DEFINE T == R \ {x}
  <2>1. /\ SumFunctionOnSet(h, R) = h[x] + SumFunctionOnSet(h, T)
        /\ SumFunctionOnSet(f, R) = f[x] + SumFunctionOnSet(f, T)
        /\ SumFunctionOnSet(e, R) = e[x] + SumFunctionOnSet(e, T)
    BY SumSplits
  <2>2. T \in SUBSET S
    OBVIOUS
  <2>3. SumFunctionOnSet(f, T) \in Int /\ SumFunctionOnSet(e, T) \in Int
    BY <2>2, SumSplits
  <2>4. SumFunctionOnSet(h, T) = SumFunctionOnSet(f, T) + SumFunctionOnSet(e, T)
    BY <1>2
  <2>5. f[x] \in Int /\ e[x] \in Int /\ h[x] = f[x] + e[x]
    OBVIOUS
  <2> HIDE DEF T
  <2>6. SumFunctionOnSet(h, R) = SumFunctionOnSet(f, R) + SumFunctionOnSet(e, R)
    BY <2>1, <2>3, <2>4, <2>5
  <2> QED BY <2>6
<1> HIDE DEF P
<1>3. SUBSET S \subseteq P
  BY <1>1, <1>2, SubsetInduction
<1> QED BY <1>3 DEF P, SumFunction

(* A sum of zeros is zero.                                                     *)
LEMMA SumZero ==
    ASSUME NEW S, IsFiniteSet(S), NEW f \in [S -> Int], \A x \in S : f[x] = 0
    PROVE  SumFunction(f) = 0
<1>1. SumFunction(f) = SumFunction(f) + SumFunction(f)
  BY SumPlus
<1>2. SumFunction(f) \in Int
  BY SumType
<1>3. ASSUME NEW n \in Int, n = n + n PROVE n = 0
  BY <1>3
<1> QED BY <1>1, <1>2, <1>3

(* A sum of naturals is one.                                                   *)
LEMMA SumNat ==
    ASSUME NEW S, IsFiniteSet(S), NEW f \in [S -> Nat]
    PROVE  SumFunction(f) \in Nat
<1> DEFINE P == {R \in SUBSET S : SumFunctionOnSet(f, R) \in Nat}
<1>1. {} \in P
  BY SumEmpty
<1>2. ASSUME NEW R \in SUBSET S, NEW x \in R, R \ {x} \in P PROVE R \in P
  <2>1. SumFunctionOnSet(f, R) = f[x] + SumFunctionOnSet(f, R \ {x})
    BY SumSplits
  <2>2. f[x] \in Nat /\ SumFunctionOnSet(f, R \ {x}) \in Nat
    BY <1>2
  <2> QED BY <2>1, <2>2
<1> HIDE DEF P
<1>3. SUBSET S \subseteq P
  BY <1>1, <1>2, SubsetInduction
<1> QED BY <1>3 DEF P, SumFunction

(* Smaller terms make a smaller sum.                                           *)
LEMMA SumMonotone ==
    ASSUME NEW S, IsFiniteSet(S), NEW f \in [S -> Int], NEW e \in [S -> Int],
           \A x \in S : f[x] <= e[x]
    PROVE  SumFunction(f) <= SumFunction(e)
<1> DEFINE d == [x \in S |-> e[x] - f[x]]
<1>1. d \in [S -> Nat] /\ d \in [S -> Int] /\ \A x \in S : e[x] = f[x] + d[x]
  OBVIOUS
<1> HIDE DEF d
<1>2. SumFunction(e) = SumFunction(f) + SumFunction(d)
  BY <1>1, SumPlus
<1>3. SumFunction(d) \in Nat /\ SumFunction(f) \in Int
  BY <1>1, SumNat, SumType
<1> QED BY <1>2, <1>3

(* One value changed: the sum changes by as much.                              *)
LEMMA SumChange ==
    ASSUME NEW S, IsFiniteSet(S), NEW f \in [S -> Int], NEW e \in [S -> Int],
           NEW x \in S, \A y \in S \ {x} : e[y] = f[y]
    PROVE  SumFunction(e) = SumFunction(f) - f[x] + e[x]
<1> DEFINE r == [y \in S \ {x} |-> f[y]]
<1>1. r \in [S \ {x} -> Int]
  OBVIOUS
<1>2. SumFunction(f) = f[x] + SumFunction(r)
  BY <1>1, SumApart
<1>3. SumFunction(e) = e[x] + SumFunction(r)
  BY <1>1, SumApart
<1>4. IsFiniteSet(S \ {x})
  BY FS_Subset
<1>5. SumFunction(r) \in Int /\ f[x] \in Int /\ e[x] \in Int
  BY <1>1, <1>4, SumType
<1> HIDE DEF r
<1> QED BY <1>2, <1>3, <1>5

(* One record more in a set of records with an amount.                         *)
LEMMA AmountsType ==
    ASSUME NEW P, IsFiniteSet(P), \A q \in P : q.amount \in Int
    PROVE  SumFunction([q \in P |-> q.amount]) \in Int
<1>1. [q \in P |-> q.amount] \in [P -> Int]
  OBVIOUS
<1> QED BY <1>1, SumType

LEMMA AmountsWith ==
    ASSUME NEW P, IsFiniteSet(P), \A q \in P : q.amount \in Int,
           NEW p, p \notin P, p.amount \in Int
    PROVE  SumFunction([q \in P \cup {p} |-> q.amount]) =
              p.amount + SumFunction([q \in P |-> q.amount])
<1> DEFINE S == P \cup {p}
           f == [q \in S |-> q.amount]
           e == [q \in P |-> q.amount]
<1>1. IsFiniteSet(S)
  BY FS_AddElement
<1>2. f \in [S -> Int] /\ p \in S /\ P = S \ {p} /\ e \in [P -> Int]
  OBVIOUS
<1>3. (\A y \in P : e[y] = f[y]) /\ f[p] = p.amount
  OBVIOUS
<1> HIDE DEF S, f, e
<1>4. SumFunction(f) = f[p] + SumFunction(e)
  BY <1>1, <1>2, <1>3, SumApart
<1> QED BY <1>3, <1>4 DEF S, f, e

(* A sum in parts: the sum of the sums of the terms with the same value of g.  *)
Part(f, g, R, k)  == SumFunctionOnSet(f, {x \in R : g[x] = k})
Parts(f, g, R, K) == [k \in K |-> Part(f, g, R, k)]

LEMMA SumByParts ==
    ASSUME NEW S, IsFiniteSet(S), NEW f \in [S -> Int],
           NEW K, IsFiniteSet(K), NEW g \in [S -> K]
    PROVE  SumFunction(f) = SumFunction(Parts(f, g, S, K))
<1> DEFINE P == {R \in SUBSET S : SumFunctionOnSet(f, R) = SumFunction(Parts(f, g, R, K))}
<1>1. {} \in P
  <2>1. Parts(f, g, {}, K) = [k \in K |-> 0]
    <3>1. \A k \in K : {x \in {} : g[x] = k} = {}
      OBVIOUS
    <3>2. \A k \in K : Part(f, g, {}, k) = 0
      BY <3>1, SumEmpty DEF Part
    <3> QED BY <3>2 DEF Parts
  <2>2. SumFunction([k \in K |-> 0]) = 0
    BY SumZero
  <2> QED BY <2>1, <2>2, SumEmpty
<1>2. \A R \in SUBSET S, k \in K : Part(f, g, R, k) \in Int
  <2> TAKE R \in SUBSET S, k \in K
  <2>1. {x \in R : g[x] = k} \in SUBSET S
    OBVIOUS
  <2> QED BY <2>1, SumSplits DEF Part
<1>3. \A R \in SUBSET S : Parts(f, g, R, K) \in [K -> Int]
  BY <1>2 DEF Parts
<1>4. ASSUME NEW R \in SUBSET S, NEW x \in R, R \ {x} \in P PROVE R \in P
  <2> DEFINE T == R \ {x}
             new == Parts(f, g, R, K)
             old == Parts(f, g, T, K)
  <2>1. T \in SUBSET S /\ g[x] \in K
    OBVIOUS
  <2>2. \A k \in K \ {g[x]} : new[k] = old[k]
    <3> TAKE k \in K \ {g[x]}
    <3>1. {y \in R : g[y] = k} = {y \in T : g[y] = k}
      OBVIOUS
    <3> QED BY <3>1 DEF Parts, Part
  <2>3. new[g[x]] = f[x] + old[g[x]]
    <3> DEFINE Q == {y \in R : g[y] = g[x]}
    <3>1. Q \in SUBSET S /\ x \in Q
      OBVIOUS
    <3>2. SumFunctionOnSet(f, Q) = f[x] + SumFunctionOnSet(f, Q \ {x})
      BY <3>1, SumSplits
    <3>3. Q \ {x} = {y \in T : g[y] = g[x]}
      OBVIOUS
    <3> QED BY <2>1, <3>2, <3>3 DEF Parts, Part
  <2>4. old \in [K -> Int] /\ new \in [K -> Int]
    BY <1>3, <2>1
  <2>5. SumFunctionOnSet(f, R) = f[x] + SumFunctionOnSet(f, T)
    BY SumSplits
  <2>6. SumFunctionOnSet(f, T) = SumFunction(old)
    BY <1>4
  <2>7. f[x] \in Int /\ SumFunction(old) \in Int /\ old[g[x]] \in Int
    BY <2>1, <2>4, SumType
  <2> HIDE DEF T, new, old
  <2>8. SumFunction(new) = SumFunction(old) - old[g[x]] + new[g[x]]
    BY <2>1, <2>2, <2>4, SumChange
  <2>9. SumFunctionOnSet(f, R) = SumFunction(new)
    BY <2>3, <2>5, <2>6, <2>7, <2>8
  <2> QED BY <2>9 DEF new
<1> HIDE DEF P
<1>5. SUBSET S \subseteq P
  BY <1>1, <1>4, SubsetInduction
<1> QED BY <1>5 DEF P, SumFunction

(* A part of a sum of natural numbers is no more than the whole.                 *)
LEMMA SumWithin ==
    ASSUME NEW S, IsFiniteSet(S), NEW f \in [S -> Nat], NEW T \in SUBSET S, NEW e \in [T -> Int],
           \A x \in T : e[x] <= f[x]
    PROVE  SumFunction(e) <= SumFunction(f)
<1> DEFINE g == [x \in S |-> IF x \in T THEN f[x] ELSE 0]
           P == {R \in SUBSET S : SumFunctionOnSet(f, R \cap T) <= SumFunctionOnSet(f, R)}
<1>1. IsFiniteSet(T) /\ T \cap T = T /\ S \cap T = T
  BY FS_Subset
<1>2. \A R \in SUBSET S : /\ SumFunctionOnSet(f, R) \in Int
                          /\ \A x \in R : SumFunctionOnSet(f, R) = f[x] + SumFunctionOnSet(f, R \ {x})
  BY SumSplits
<1>3. {} \in P
  <2>1. {} \cap T = {} /\ SumFunctionOnSet(f, {}) = 0
    BY SumEmpty
  <2> QED BY <2>1
<1>4. \A R \in SUBSET S : \A x \in R : R \ {x} \in P => R \in P
  <2> SUFFICES ASSUME NEW R \in SUBSET S, NEW x \in R, R \ {x} \in P
               PROVE  SumFunctionOnSet(f, R \cap T) <= SumFunctionOnSet(f, R)
    OBVIOUS
  <2>1. /\ SumFunctionOnSet(f, R) = f[x] + SumFunctionOnSet(f, R \ {x}) /\ f[x] \in Nat
        /\ SumFunctionOnSet(f, R \ {x}) \in Int /\ SumFunctionOnSet(f, (R \ {x}) \cap T) \in Int
        /\ SumFunctionOnSet(f, (R \ {x}) \cap T) <= SumFunctionOnSet(f, R \ {x})
    BY <1>2
  <2>2. CASE x \in T
    <3>1. (R \cap T) \ {x} = (R \ {x}) \cap T /\ x \in R \cap T /\ R \cap T \in SUBSET S
      BY <2>2
    <3>2. SumFunctionOnSet(f, R \cap T) = f[x] + SumFunctionOnSet(f, (R \ {x}) \cap T)
      BY <1>2, <3>1
    <3> QED BY <2>1, <3>2
  <2>3. CASE x \notin T
    <3>1. R \cap T = (R \ {x}) \cap T
      BY <2>3
    <3>2. SumFunctionOnSet(f, R \cap T) = SumFunctionOnSet(f, (R \ {x}) \cap T)
      BY <3>1
    <3> QED BY ONLY <2>1, <3>2
  <2> QED BY <2>2, <2>3
<1>5. S \in P
  <2> HIDE DEF P
  <2> QED BY <1>3, <1>4, SubsetInduction
<1>6. SumFunctionOnSet(f, T) <= SumFunctionOnSet(f, S) /\ SumFunctionOnSet(f, T) \in Int
  BY <1>1, <1>2, <1>5
<1> DEFINE h == [x \in T |-> f[x]]
<1>7. h \in [T -> Int] /\ \A x \in T : e[x] <= h[x]
  OBVIOUS
<1>8. SumFunction(e) <= SumFunction(h) /\ SumFunction(e) \in Int
  <2> HIDE DEF h
  <2> QED BY <1>1, <1>7, SumMonotone, SumType
<1>9. SumFunctionOnSet(h, T) = SumFunctionOnSet(f, T)
  BY <1>1, SumAgree
<1>10. SumFunction(h) = SumFunctionOnSet(h, T) /\ SumFunction(f) = SumFunctionOnSet(f, S)
  BY DEF SumFunction
<1> HIDE DEF h
<1> QED BY <1>2, <1>6, <1>8, <1>9, <1>10

(* One term more.                                                             *)
LEMMA SumOneMore ==
    ASSUME NEW S, IsFiniteSet(S), NEW x, x \notin S, NEW f \in [S -> Int], NEW e \in [S \cup {x} -> Int],
           \A y \in S : e[y] = f[y]
    PROVE  SumFunction(e) = e[x] + SumFunction(f)
<1> PICK T : T = S \cup {x}
  OBVIOUS
<1>1. IsFiniteSet(T) /\ x \in T /\ T \ {x} = S
  BY FS_AddElement
<1>2. e \in [T -> Int] /\ f \in [T \ {x} -> Int] /\ \A y \in T \ {x} : f[y] = e[y]
  BY <1>1
<1> QED BY <1>1, <1>2, SumApart

(* A set of integers with a bound below has a least element.                     *)
LEMMA LeastInteger ==
    ASSUME NEW S \in SUBSET Int, S # {}, NEW b \in Int, \A x \in S : b <= x
    PROVE  Min(S) \in S /\ \A y \in S : Min(S) <= y
<1> DEFINE T == {x - b : x \in S}
<1>1. T \in SUBSET Nat /\ T # {}
  <2>1. \A x \in S : x - b \in Nat
    OBVIOUS
  <2> QED BY <2>1
<1>2. PICK n \in T : \A m \in T : n <= m
  BY <1>1, LeastNatural
<1>3. PICK x \in S : n = x - b
  BY <1>2
<1>4. \A y \in S : x <= y
  <2> TAKE y \in S
  <2>1. n <= y - b
    BY <1>2
  <2> QED BY <1>3, <2>1
<1> QED BY <1>4 DEF Min

(* Each value of g from the one before, over an interval.                      *)
Recurs(g, a, n, start, step) == g = [k \in a..(a + n) |-> IF k = a THEN start ELSE step[k][g[k - 1]]]

(* A recursion over an interval, each value from the one before, has a solution. *)
LEMMA RecursionSolved ==
    ASSUME NEW T, NEW start \in T, NEW step \in [Nat -> [T -> T]], NEW a \in Nat
    PROVE  \A n \in Nat : \E g \in [a..(a + n) -> T] : Recurs(g, a, n, start, step)
<1> DEFINE Failing == {n \in Nat : ~\E g \in [a..(a + n) -> T] : Recurs(g, a, n, start, step)}
<1> SUFFICES ASSUME Failing # {} PROVE FALSE
  OBVIOUS
<1>1. PICK n \in Failing : \A m \in Failing : n <= m
  <2>1. Failing \in SUBSET Nat
    OBVIOUS
  <2> QED BY <2>1, LeastNatural
<1>2. n \in Nat /\ ~\E g \in [a..(a + n) -> T] : Recurs(g, a, n, start, step)
  BY <1>1
<1>3. CASE n = 0
  <2> DEFINE g == [k \in a..(a + 0) |-> start]
  <2>1. g \in [a..(a + 0) -> T]
    OBVIOUS
  <2>2. \A k \in a..(a + 0) : k = a
    OBVIOUS
  <2>3. g = [k \in a..(a + 0) |-> IF k = a THEN start ELSE step[k][g[k - 1]]]
    BY <2>2
  <2> QED BY <1>2, <1>3, <2>1, <2>3 DEF Recurs
<1>4. CASE n # 0
  <2>1. n - 1 \in Nat /\ n - 1 \notin Failing
    <3>1. n - 1 \in Nat /\ ~(n <= n - 1)
      BY <1>2, <1>4
    <3> HIDE DEF Failing
    <3> QED BY <1>1, <3>1
  <2>2. PICK g \in [a..(a + (n - 1)) -> T] : Recurs(g, a, n - 1, start, step)
    BY <2>1
  <2> DEFINE h == [k \in a..(a + n) |-> IF k = a + n THEN step[k][g[k - 1]] ELSE g[k]]
  <2>3. \A k \in a..(a + n) : k # a + n => k \in a..(a + (n - 1))
    BY <1>2
  <2>4. a + n \in Nat /\ (a + n) - 1 \in a..(a + (n - 1)) /\ (a + n) - 1 # a + n
    BY <1>2, <2>1
  <2>5. h \in [a..(a + n) -> T]
    <3>1. step[a + n][g[(a + n) - 1]] \in T
      BY <2>4
    <3> QED BY <2>3, <3>1
  <2>6. \A k \in a..(a + n) : h[k] = IF k = a THEN start ELSE step[k][h[k - 1]]
    <3> TAKE k \in a..(a + n)
    <3>1. CASE k = a + n
      <4>1. k # a /\ (a + n) - 1 \in a..(a + n)
        BY <1>2, <1>4, <3>1
      <4>2. h[(a + n) - 1] = g[(a + n) - 1]
        BY <2>4, <4>1
      <4> QED BY <3>1, <4>1, <4>2
    <3>2. CASE k # a + n
      <4>1. h[k] = g[k] /\ k \in a..(a + (n - 1))
        BY <2>3, <3>2
      <4>2. g[k] = IF k = a THEN start ELSE step[k][g[k - 1]]
        BY <2>2, <4>1 DEF Recurs
      <4>3. k # a => k - 1 \in a..(a + n) /\ k - 1 # a + n
        BY <1>2, <3>2
      <4>4. k # a => h[k - 1] = g[k - 1]
        BY <4>3
      <4> QED BY <4>1, <4>2, <4>4
    <3> QED BY <3>1, <3>2
  <2> HIDE DEF h
  <2>7. h = [k \in a..(a + n) |-> h[k]]
    BY <2>5
  <2>8. h = [k \in a..(a + n) |-> IF k = a THEN start ELSE step[k][h[k - 1]]]
    BY <2>6, <2>7
  <2> QED BY <1>2, <2>5, <2>8 DEF Recurs
<1> QED BY <1>3, <1>4
=============================================================================
