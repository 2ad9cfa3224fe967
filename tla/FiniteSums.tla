----------------------------- MODULE FiniteSums -----------------------------
(***************************************************************************)
(* What SumFunction of the community modules, which the markets' books are *)
(* stated with, computes over a finite set.  Its definition is a fold that *)
(* takes the elements in the order CHOOSE gives them.  The facts below do  *)
(* not depend on that order; they follow by induction over subsets, which  *)
(* is used in the form that a set of counterexamples would have a minimal  *)
(* element.  At the end: what shares of an amount, each rounded down, add  *)
(* up to.                                                                  *)
(***************************************************************************)
EXTENDS Integers, FiniteSets, Functions, FiniteSetTheorems, WellFoundedInduction, TLAPS

(* One step of the fold: the term of the element chosen first, and the rest.*)
FoldTerm(f, it, s) ==
    IF s = {} THEN 0 ELSE f[CHOOSE x \in s : TRUE] + it[s \ {CHOOSE x \in s : TRUE}]

(* SumFunctionOnSet is the function that CHOOSE finds for the fold's equation.*)
LEMMA SumIsFold ==
    ASSUME NEW f, NEW S
    PROVE  SumFunctionOnSet(f, S) = (CHOOSE it : it = [s \in SUBSET S |-> FoldTerm(f, it, s)])[S]
BY DEF SumFunctionOnSet, FoldFunctionOnSet, MapThenFoldSet, FoldTerm

(* Induction over the naturals, with a set in the place of a predicate.     *)
LEMMA NatSetInduction ==
    ASSUME NEW Q, 0 \in Q, \A n \in Nat : n \in Q => n + 1 \in Q
    PROVE  \A n \in Nat : n \in Q
<1> DEFINE Bad == Nat \ Q
<1>1. SUFFICES ASSUME Bad # {} PROVE FALSE
  OBVIOUS
<1>2. PICK n \in Bad : \A k \in Bad : <<k, n>> \notin OpToRel(<, Nat)
  <2>1. Bad \subseteq Nat
    OBVIOUS
  <2> HIDE DEF Bad
  <2>2. QED BY <1>1, <2>1, NatLessThanWellFounded, WFMin
<1>3. n \in Nat /\ n \notin Q /\ n - 1 \in Nat
  <2>1. n \in Nat /\ n \notin Q
    BY Zenon
  <2>2. n # 0
    BY <2>1
  <2>3. QED BY <2>1, <2>2
<1>4. <<n - 1, n>> \in OpToRel(<, Nat)
  BY <1>3 DEF OpToRel
<1>5. n - 1 \in Q
  BY <1>2, <1>3, <1>4
<1>6. (n - 1) + 1 \in Q
  BY <1>3, <1>5
<1>7. QED BY <1>3, <1>6

(* The equation of the fold has a solution on all subsets of a finite set:  *)
(* built up from the empty set, one cardinality after the other.            *)
LEMMA FoldExists ==
    ASSUME NEW f, NEW S, IsFiniteSet(S)
    PROVE  \E it : it = [s \in SUBSET S |-> FoldTerm(f, it, s)]
<1> DEFINE Upto(n) == {s \in SUBSET S : Cardinality(s) <= n}
           Q == {n \in Nat : \E it : it = [s \in Upto(n) |-> FoldTerm(f, it, s)]}
           c(s) == CHOOSE x \in s : TRUE
<1>0. \A s \in SUBSET S : IsFiniteSet(s) /\ Cardinality(s) \in Nat
  BY FS_Subset, FS_CardinalityType
<1>c. \A s \in SUBSET S : s # {} => c(s) \in s
  OBVIOUS
<1>t. \A s, it : s # {} => FoldTerm(f, it, s) = f[c(s)] + it[s \ {c(s)}]
  BY DEF FoldTerm
<1> HIDE DEF c
<1>1. 0 \in Q
  <2>1. ASSUME NEW s \in Upto(0) PROVE s = {}
    <3>1. IsFiniteSet(s) /\ Cardinality(s) \in Nat /\ Cardinality(s) <= 0
      BY <1>0
    <3>2. QED BY <3>1, FS_EmptySet
  <2>2. [s \in Upto(0) |-> 0] = [s \in Upto(0) |-> FoldTerm(f, [r \in Upto(0) |-> 0], s)]
    BY <2>1 DEF FoldTerm
  <2>3. QED BY <2>2
<1>2. ASSUME NEW n \in Nat, n \in Q PROVE n + 1 \in Q
  <2>1. PICK it : it = [s \in Upto(n) |-> FoldTerm(f, it, s)]
    BY <1>2
  <2> DEFINE jt == [s \in Upto(n + 1) |-> FoldTerm(f, it, s)]
  <2>2. \A s \in Upto(n) : s \in Upto(n + 1) /\ jt[s] = it[s]
    <3> TAKE s \in Upto(n)
    <3>1. s \in SUBSET S /\ Cardinality(s) \in Nat /\ Cardinality(s) <= n
      BY <1>0
    <3>2. s \in Upto(n + 1)
      BY <3>1
    <3>3. it[s] = FoldTerm(f, it, s)
      BY <2>1, Zenon
    <3>4. QED BY <3>2, <3>3
  <2>3. ASSUME NEW s \in Upto(n + 1) PROVE FoldTerm(f, it, s) = FoldTerm(f, jt, s)
    <3>1. CASE s = {}
      BY <3>1 DEF FoldTerm
    <3>2. CASE s # {}
      <4>1. s \ {c(s)} \in Upto(n)
        <5>1. /\ s \in SUBSET S /\ Cardinality(s) \in Nat /\ Cardinality(s) <= n + 1
              /\ IsFiniteSet(s) /\ c(s) \in s
          BY <1>0, <1>c, <3>2
        <5>2. s \ {c(s)} \in SUBSET S /\ Cardinality(s \ {c(s)}) = Cardinality(s) - 1
          BY <5>1, FS_RemoveElement
        <5>3. QED BY <5>1, <5>2
      <4>2. QED BY <1>t, <2>2, <3>2, <4>1
    <3>3. QED BY <3>1, <3>2
  <2>4. jt = [s \in Upto(n + 1) |-> FoldTerm(f, jt, s)]
    BY <2>3
  <2> HIDE DEF jt
  <2>5. \E g : g = [s \in Upto(n + 1) |-> FoldTerm(f, g, s)]
    BY <2>4, Zenon
  <2> HIDE DEF Upto
  <2>6. QED BY <2>5
<1>3. \A n \in Nat : n \in Q
  <2> HIDE DEF Q
  <2>1. QED BY <1>1, <1>2, NatSetInduction
<1>4. Cardinality(S) \in Nat /\ Upto(Cardinality(S)) = SUBSET S
  BY FS_CardinalityType, FS_Subset
<1>5. QED BY <1>3, <1>4

(* Of a non-empty set of finite sets one is minimal: each of its subsets with*)
(* one element less is outside.                                             *)
LEMMA MinimalSubset ==
    ASSUME NEW S, IsFiniteSet(S), NEW Bad, Bad \subseteq SUBSET S, Bad # {}
    PROVE  \E T \in Bad : IsFiniteSet(T) /\ \A x \in T : T \ {x} \notin Bad
<1>1. IsWellFoundedOn(StrictSubsetOrdering(S), SUBSET S)
  BY FS_StrictSubsetOrderingWellFounded, FS_FiniteSubsetsOfFinite
<1>2. PICK T \in Bad : \A U \in Bad : <<U, T>> \notin StrictSubsetOrdering(S)
  BY <1>1, WFMin
<1>3. ASSUME NEW x \in T, T \ {x} \in Bad PROVE FALSE
  <2>1. <<T \ {x}, T>> \in StrictSubsetOrdering(S)
    BY DEF StrictSubsetOrdering
  <2>2. QED BY <1>2, <1>3, <2>1
<1>4. IsFiniteSet(T)
  BY FS_Subset
<1>5. QED BY <1>3, <1>4

(* So SumFunctionOnSet is a solution's value.                               *)
LEMMA SumEquation ==
    ASSUME NEW f, NEW S, IsFiniteSet(S)
    PROVE  \E it : /\ it = [s \in SUBSET S |-> FoldTerm(f, it, s)]
                   /\ SumFunctionOnSet(f, S) = it[S]
<1> DEFINE it == CHOOSE g : g = [s \in SUBSET S |-> FoldTerm(f, g, s)]
<1>1. \E g : g = [s \in SUBSET S |-> FoldTerm(f, g, s)]
  BY FoldExists
<1>2. it = [s \in SUBSET S |-> FoldTerm(f, it, s)]
  BY <1>1, Zenon
<1>3. SumFunctionOnSet(f, S) = it[S]
  BY SumIsFold
<1> HIDE DEF it
<1>4. QED BY <1>2, <1>3

(* The empty sum.                                                           *)
LEMMA SumEmpty ==
    ASSUME NEW f
    PROVE  SumFunctionOnSet(f, {}) = 0
<1>1. PICK it : /\ it = [s \in SUBSET {} |-> FoldTerm(f, it, s)]
                /\ SumFunctionOnSet(f, {}) = it[{}]
  BY SumEquation, FS_EmptySet
<1>2. it[{}] = FoldTerm(f, it, {})
  BY <1>1, Zenon
<1>3. QED BY <1>1, <1>2 DEF FoldTerm

(* A sum is that of some element and the others; it need not be any element *)
(* until SumRemove.                                                         *)
LEMMA SumChosen ==
    ASSUME NEW f, NEW S, IsFiniteSet(S), S # {}
    PROVE  \E x \in S : SumFunctionOnSet(f, S) = f[x] + SumFunctionOnSet(f, S \ {x})
<1> DEFINE c(s) == CHOOSE x \in s : TRUE
           R == S \ {c(S)}
<1>c. \A s : s # {} => c(s) \in s
  OBVIOUS
<1>t. \A s, it : s # {} => FoldTerm(f, it, s) = f[c(s)] + it[s \ {c(s)}]
  BY DEF FoldTerm
<1>e. \A it : FoldTerm(f, it, {}) = 0
  BY DEF FoldTerm
<1> HIDE DEF c
<1>1. IsFiniteSet(R) /\ R \in SUBSET S
  BY FS_RemoveElement
<1>2. PICK it : /\ it = [s \in SUBSET S |-> FoldTerm(f, it, s)]
                /\ SumFunctionOnSet(f, S) = it[S]
  BY SumEquation
<1> HIDE DEF R
<1>3. PICK jt : /\ jt = [s \in SUBSET R |-> FoldTerm(f, jt, s)]
                /\ SumFunctionOnSet(f, R) = jt[R]
  BY <1>1, SumEquation
<1>4. /\ \A s \in SUBSET S : it[s] = FoldTerm(f, it, s)
      /\ \A s \in SUBSET R : jt[s] = FoldTerm(f, jt, s)
  BY <1>2, <1>3, Zenon
<1>5. \A s \in SUBSET R : it[s] = jt[s]
  <2> DEFINE Bad == {s \in SUBSET R : it[s] # jt[s]}
  <2>1. SUFFICES ASSUME Bad # {} PROVE FALSE
    OBVIOUS
  <2>2. PICK s \in Bad : \A x \in s : s \ {x} \notin Bad
    <3>1. Bad \subseteq SUBSET R
      OBVIOUS
    <3> HIDE DEF Bad
    <3>2. QED BY <1>1, <2>1, <3>1, MinimalSubset
  <2>3. s \in SUBSET R /\ s \in SUBSET S /\ it[s] # jt[s]
    BY <1>1
  <2>4. s # {}
    BY <1>4, <1>e, <2>3
  <2>5. it[s \ {c(s)}] = jt[s \ {c(s)}]
    BY <1>c, <2>2, <2>3, <2>4
  <2> HIDE DEF Bad
  <2>6. it[s] = f[c(s)] + it[s \ {c(s)}] /\ jt[s] = f[c(s)] + jt[s \ {c(s)}]
    <3>1. it[s] = FoldTerm(f, it, s) /\ jt[s] = FoldTerm(f, jt, s)
      BY <1>4, <2>3
    <3>2. QED BY <1>t, <2>4, <3>1
  <2>7. QED BY <2>3, <2>5, <2>6
<1>6. SumFunctionOnSet(f, S) = f[c(S)] + it[R]
  <2>1. it[S] = FoldTerm(f, it, S)
    BY <1>4
  <2>2. QED BY <1>2, <1>t, <2>1 DEF R
<1>7. QED BY <1>3, <1>5, <1>6, <1>c DEF R

(* A sum of integers is an integer, and a natural if no term is negative.   *)
LEMMA SumType ==
    ASSUME NEW S, IsFiniteSet(S), NEW f, \A x \in S : f[x] \in Int
    PROVE  /\ SumFunctionOnSet(f, S) \in Int
           /\ (\A x \in S : f[x] >= 0) => SumFunctionOnSet(f, S) \in Nat
<1> DEFINE Sum(T) == SumFunctionOnSet(f, T)
           Bad == {T \in SUBSET S : ~ /\ Sum(T) \in Int
                                      /\ (\A x \in T : f[x] >= 0) => Sum(T) \in Nat}
<1>1. \A T \in SUBSET S : T # {} => IsFiniteSet(T) /\ \E x \in T : Sum(T) = f[x] + Sum(T \ {x})
  BY SumChosen, FS_Subset
<1>2. Sum({}) = 0
  BY SumEmpty
<1> HIDE DEF Sum
<1>3. Bad = {}
  <2>1. SUFFICES ASSUME Bad # {} PROVE FALSE
    OBVIOUS
  <2>2. PICK T \in Bad : \A x \in T : T \ {x} \notin Bad
    <3>1. Bad \subseteq SUBSET S
      OBVIOUS
    <3> HIDE DEF Bad
    <3>2. QED BY <2>1, <3>1, MinimalSubset
  <2>3. T \in SUBSET S /\ T # {}
    BY <1>2
  <2>4. PICK x \in T : Sum(T) = f[x] + Sum(T \ {x})
    BY <1>1, <2>3
  <2>5. /\ Sum(T \ {x}) \in Int
        /\ (\A y \in T \ {x} : f[y] >= 0) => Sum(T \ {x}) \in Nat
    BY <2>2, <2>3, <2>4
  <2>6. QED BY <2>2, <2>3, <2>4, <2>5
<1>4. S \notin Bad
  BY <1>3
<1>5. QED BY <1>4 DEF Sum

(* Any element may be taken out of a sum: the order does not matter.        *)
LEMMA SumRemove ==
    ASSUME NEW S, IsFiniteSet(S), NEW f, \A x \in S : f[x] \in Int, NEW x \in S
    PROVE  SumFunctionOnSet(f, S) = f[x] + SumFunctionOnSet(f, S \ {x})
<1> DEFINE Sum(T) == SumFunctionOnSet(f, T)
           Bad == {T \in SUBSET S : \E y \in T : Sum(T) # f[y] + Sum(T \ {y})}
<1>1. \A T \in SUBSET S : /\ T # {} => \E y \in T : Sum(T) = f[y] + Sum(T \ {y})
                          /\ Sum(T) \in Int
  <2> TAKE T \in SUBSET S
  <2>1. IsFiniteSet(T)
    BY FS_Subset
  <2>2. QED BY <2>1, SumChosen, SumType
<1> HIDE DEF Sum
<1>2. Bad = {}
  <2>1. SUFFICES ASSUME Bad # {} PROVE FALSE
    OBVIOUS
  <2>2. PICK T \in Bad : \A y \in T : T \ {y} \notin Bad
    <3>1. Bad \subseteq SUBSET S
      OBVIOUS
    <3> HIDE DEF Bad
    <3>2. QED BY <2>1, <3>1, MinimalSubset
  <2>3. T \in SUBSET S
    OBVIOUS
  <2>4. PICK y \in T : Sum(T) # f[y] + Sum(T \ {y})
    OBVIOUS
  <2>5. PICK z \in T : Sum(T) = f[z] + Sum(T \ {z})
    BY <1>1, <2>3, <2>4
  <2>6. y # z
    BY <2>4, <2>5
  <2>7. Sum(T \ {z}) = f[y] + Sum((T \ {z}) \ {y})
    BY <2>2, <2>3, <2>6
  <2>8. Sum(T \ {y}) = f[z] + Sum((T \ {y}) \ {z})
    BY <2>2, <2>3, <2>6
  <2>9. Sum((T \ {z}) \ {y}) = Sum((T \ {y}) \ {z})
    <3>1. (T \ {z}) \ {y} = (T \ {y}) \ {z}
      OBVIOUS
    <3>2. QED BY <3>1, Zenon
  <2>10. /\ f[y] \in Int /\ f[z] \in Int
         /\ Sum((T \ {y}) \ {z}) \in Int
    BY <1>1, <2>3
  <2> HIDE DEF Bad
  <2>11. QED BY <2>4, <2>5, <2>7, <2>8, <2>9, <2>10
<1>3. S \notin Bad
  BY <1>2
<1>4. QED BY <1>3 DEF Sum

(* What holds between the terms of three sums holds between the sums.       *)
LEMMA SumLinear ==
    ASSUME NEW S, IsFiniteSet(S), NEW f, NEW g, NEW h,
           NEW a \in Int, NEW b \in Int, NEW c \in Int,
           \A x \in S : /\ f[x] \in Int /\ g[x] \in Int /\ h[x] \in Int
                        /\ a * f[x] <= b * g[x] + c * h[x]
    PROVE  a * SumFunctionOnSet(f, S)
             <= b * SumFunctionOnSet(g, S) + c * SumFunctionOnSet(h, S)
<1> DEFINE F(T) == SumFunctionOnSet(f, T)
           G(T) == SumFunctionOnSet(g, T)
           H(T) == SumFunctionOnSet(h, T)
           Bad == {T \in SUBSET S : ~ (a * F(T) <= b * G(T) + c * H(T))}
<1>1. \A T \in SUBSET S : /\ F(T) \in Int /\ G(T) \in Int /\ H(T) \in Int
                          /\ \A x \in T : /\ F(T) = f[x] + F(T \ {x})
                                          /\ G(T) = g[x] + G(T \ {x})
                                          /\ H(T) = h[x] + H(T \ {x})
  <2> TAKE T \in SUBSET S
  <2>1. IsFiniteSet(T)
    BY FS_Subset
  <2>2. F(T) \in Int /\ G(T) \in Int /\ H(T) \in Int
    BY <2>1, SumType
  <2>3. QED BY <2>1, <2>2, SumRemove
<1>2. F({}) = 0 /\ G({}) = 0 /\ H({}) = 0
  BY SumEmpty
<1> HIDE DEF F, G, H
<1>3. Bad = {}
  <2>1. SUFFICES ASSUME Bad # {} PROVE FALSE
    OBVIOUS
  <2>2. PICK T \in Bad : \A y \in T : T \ {y} \notin Bad
    <3>1. Bad \subseteq SUBSET S
      OBVIOUS
    <3> HIDE DEF Bad
    <3>2. QED BY <2>1, <3>1, MinimalSubset
  <2>3. T \in SUBSET S /\ ~ (a * F(T) <= b * G(T) + c * H(T))
    OBVIOUS
  <2>4. T # {}
    BY <1>2, <2>3
  <2>5. PICK x \in T : TRUE
    BY <2>4
  <2>6. a * F(T \ {x}) <= b * G(T \ {x}) + c * H(T \ {x})
    BY <2>2, <2>3
  <2> HIDE DEF Bad
  <2>7. /\ F(T) = f[x] + F(T \ {x})
        /\ G(T) = g[x] + G(T \ {x})
        /\ H(T) = h[x] + H(T \ {x})
        /\ F(T \ {x}) \in Int /\ G(T \ {x}) \in Int /\ H(T \ {x}) \in Int
    BY <1>1, <2>3
  <2>8. /\ f[x] \in Int /\ g[x] \in Int /\ h[x] \in Int
        /\ a * f[x] <= b * g[x] + c * h[x]
    BY <2>3
  <2>9. \A k, p, q \in Int : k * (p + q) = k * p + k * q /\ k * p \in Int
    BY Z3
  <2>10. QED BY <2>3, <2>6, <2>7, <2>8, <2>9
<1>4. S \notin Bad
  BY <1>3
<1>5. QED BY <1>4 DEF F, G, H
-----------------------------------------------------------------------------
(* SumFunction sums over the domain.                                        *)
LEMMA SumOverDomain ==
    ASSUME NEW S, NEW f \in [S -> Int]
    PROVE  SumFunction(f) = SumFunctionOnSet(f, S)
<1>1. DOMAIN f = S
  OBVIOUS
<1>2. QED BY <1>1, Zenon DEF SumFunction

(* SumType, for SumFunction.                                                *)
LEMMA SumFunctionType ==
    ASSUME NEW S, IsFiniteSet(S), NEW f \in [S -> Int]
    PROVE  /\ SumFunction(f) \in Int
           /\ f \in [S -> Nat] => SumFunction(f) \in Nat
<1>1. \A x \in S : f[x] \in Int
  OBVIOUS
<1>2. ASSUME f \in [S -> Nat] PROVE \A x \in S : f[x] >= 0
  BY <1>2
<1>3. QED BY <1>1, <1>2, SumOverDomain, SumType

(* Changing one value changes the sum by the difference.                    *)
LEMMA SumUpdate ==
    ASSUME NEW S, IsFiniteSet(S), NEW f \in [S -> Int], NEW g \in [S -> Int], NEW x \in S,
           \A y \in S \ {x} : g[y] = f[y]
    PROVE  SumFunction(g) = SumFunction(f) - f[x] + g[x]
<1> DEFINE R == S \ {x}
           F == SumFunctionOnSet(f, R)
           G == SumFunctionOnSet(g, R)
<1>1. IsFiniteSet(R)
  BY FS_RemoveElement
<1>2. SumFunction(f) = f[x] + F /\ SumFunction(g) = g[x] + G
  <2>1. \A y \in S : f[y] \in Int /\ g[y] \in Int
    OBVIOUS
  <2>2. QED BY <2>1, SumRemove, SumOverDomain
<1>3. F \in Int /\ G \in Int
  <2>1. \A y \in R : f[y] \in Int /\ g[y] \in Int
    OBVIOUS
  <2>2. QED BY <1>1, <2>1, SumType
<1>4. 1 * F <= 1 * G + 0 * F /\ 1 * G <= 1 * F + 0 * G
  <2>1. \A y \in R : /\ f[y] \in Int /\ g[y] \in Int
                     /\ 1 * f[y] <= 1 * g[y] + 0 * f[y]
                     /\ 1 * g[y] <= 1 * f[y] + 0 * g[y]
    OBVIOUS
  <2> HIDE DEF R
  <2>2. 1 * F <= 1 * G + 0 * F
    BY <1>1, <2>1, SumLinear
  <2>3. 1 * G <= 1 * F + 0 * G
    BY <1>1, <2>1, SumLinear
  <2>4. QED BY <2>2, <2>3
<1> HIDE DEF F, G
<1>5. F = G
  BY <1>3, <1>4
<1>6. f[x] \in Int /\ g[x] \in Int
  OBVIOUS
<1>7. QED BY <1>2, <1>3, <1>5, <1>6

(* SumLinear, for SumFunction.                                              *)
LEMMA SumFunctionLinear ==
    ASSUME NEW S, IsFiniteSet(S), NEW f \in [S -> Int], NEW g \in [S -> Int], NEW h \in [S -> Int],
           NEW a \in Int, NEW b \in Int, NEW c \in Int,
           \A x \in S : a * f[x] <= b * g[x] + c * h[x]
    PROVE  a * SumFunction(f) <= b * SumFunction(g) + c * SumFunction(h)
<1>1. \A x \in S : /\ f[x] \in Int /\ g[x] \in Int /\ h[x] \in Int
                   /\ a * f[x] <= b * g[x] + c * h[x]
  OBVIOUS
<1>2. a * SumFunctionOnSet(f, S) <= b * SumFunctionOnSet(g, S) + c * SumFunctionOnSet(h, S)
  BY <1>1, SumLinear
<1>3. /\ SumFunction(f) = SumFunctionOnSet(f, S)
      /\ SumFunction(g) = SumFunctionOnSet(g, S)
      /\ SumFunction(h) = SumFunctionOnSet(h, S)
  BY SumOverDomain
<1>4. QED BY <1>2, <1>3

(* A sum of zeros is zero.                                                  *)
LEMMA SumOfZeros ==
    ASSUME NEW S, IsFiniteSet(S), NEW f \in [S -> Int], \A x \in S : f[x] = 0
    PROVE  SumFunction(f) = 0
<1>1. SumFunction(f) \in Int
  BY SumFunctionType
<1>2. \A k \in Int : k * SumFunction(f) <= 0 * SumFunction(f) + 0 * SumFunction(f)
  <2> TAKE k \in Int
  <2>1. 0 \in Int
    OBVIOUS
  <2>2. \A x \in S : k * f[x] <= 0 * f[x] + 0 * f[x]
    OBVIOUS
  <2>3. QED BY <2>1, <2>2, SumFunctionLinear
<1>3. 1 * SumFunction(f) <= 0 * SumFunction(f) + 0 * SumFunction(f)
  BY <1>2
<1>4. (-1) * SumFunction(f) <= 0 * SumFunction(f) + 0 * SumFunction(f)
  BY <1>2
<1>5. QED BY <1>1, <1>3, <1>4

(* Of naturals, no term is larger than the sum.                             *)
LEMMA SumBoundsTerm ==
    ASSUME NEW S, IsFiniteSet(S), NEW f \in [S -> Nat], NEW x \in S
    PROVE  f[x] <= SumFunction(f)
<1> DEFINE g == [f EXCEPT ![x] = 0]
<1>1. f \in [S -> Int] /\ g \in [S -> Int] /\ g \in [S -> Nat] /\ g[x] = 0
      /\ \A y \in S \ {x} : g[y] = f[y]
  OBVIOUS
<1> HIDE DEF g
<1>2. SumFunction(g) = SumFunction(f) - f[x] + 0
  BY <1>1, SumUpdate
<1>3. SumFunction(g) \in Nat /\ SumFunction(f) \in Nat /\ f[x] \in Nat
  BY <1>1, SumFunctionType
<1>4. QED BY <1>2, <1>3

(* The sum of sums, term by term.                                           *)
LEMMA SumAddition ==
    ASSUME NEW S, IsFiniteSet(S), NEW f \in [S -> Int], NEW g \in [S -> Int], NEW h \in [S -> Int],
           \A x \in S : f[x] = g[x] + h[x]
    PROVE  SumFunction(f) = SumFunction(g) + SumFunction(h)
<1>1. SumFunction(f) \in Int /\ SumFunction(g) \in Int /\ SumFunction(h) \in Int
  BY SumFunctionType
<1>2. \A k \in {1, -1} : k * SumFunction(f) <= k * SumFunction(g) + k * SumFunction(h)
  <2> TAKE k \in {1, -1}
  <2>1. k \in Int
    OBVIOUS
  <2>2. \A x \in S : k * f[x] <= k * g[x] + k * h[x]
    OBVIOUS
  <2>3. QED BY <2>1, <2>2, SumFunctionLinear
<1>3. 1 * SumFunction(f) <= 1 * SumFunction(g) + 1 * SumFunction(h)
  BY <1>2
<1>4. (-1) * SumFunction(f) <= (-1) * SumFunction(g) + (-1) * SumFunction(h)
  BY <1>2
<1>5. QED BY <1>1, <1>3, <1>4

(* Counting the members of a subset by a sum gives its cardinality.         *)
LEMMA SumOfOnes ==
    ASSUME NEW S, IsFiniteSet(S), NEW T \in SUBSET S
    PROVE  SumFunction([x \in S |-> IF x \in T THEN 1 ELSE 0]) = Cardinality(T)
<1> DEFINE f == [x \in S |-> IF x \in T THEN 1 ELSE 0]
           Sum(U) == SumFunctionOnSet(f, U)
           Bad == {U \in SUBSET S : Sum(U) # Cardinality(U \cap T)}
<1>1. f \in [S -> Int]
  OBVIOUS
<1>2. \A U \in SUBSET S : \A x \in U : Sum(U) = f[x] + Sum(U \ {x})
  <2> TAKE U \in SUBSET S
  <2>1. IsFiniteSet(U)
    BY FS_Subset
  <2>2. \A x \in U : f[x] \in Int
    OBVIOUS
  <2> HIDE DEF f
  <2>3. QED BY <2>1, <2>2, SumRemove
<1>3. Sum({}) = 0
  BY SumEmpty
<1>4. SumFunction(f) = Sum(S)
  BY <1>1, SumOverDomain
<1> HIDE DEF Sum
<1>5. Bad = {}
  <2>1. SUFFICES ASSUME Bad # {} PROVE FALSE
    OBVIOUS
  <2>2. PICK U \in Bad : IsFiniteSet(U) /\ \A y \in U : U \ {y} \notin Bad
    <3>1. Bad \subseteq SUBSET S
      OBVIOUS
    <3> HIDE DEF Bad
    <3>2. QED BY <2>1, <3>1, MinimalSubset
  <2>3. U \in SUBSET S /\ Sum(U) # Cardinality(U \cap T)
    OBVIOUS
  <2>4. U # {}
    <3>1. ASSUME U = {} PROVE FALSE
      <4>1. U \cap T = {}
        BY <3>1
      <4>2. QED BY <1>3, <2>3, <3>1, <4>1, FS_EmptySet
    <3>2. QED BY <3>1
  <2>5. PICK x \in U : TRUE
    BY <2>4
  <2>6. Sum(U \ {x}) = Cardinality((U \ {x}) \cap T)
    BY <2>2, <2>3
  <2>7. Sum(U) = f[x] + Sum(U \ {x})
    BY <1>2, <2>3
  <2> HIDE DEF Bad
  <2>8. IsFiniteSet(U \cap T)
    BY <2>2, FS_Intersection
  <2>9. Cardinality(U \cap T) \in Nat
    BY <2>8, FS_CardinalityType
  <2>10. CASE x \in T
    <3>1. (U \ {x}) \cap T = (U \cap T) \ {x} /\ x \in U \cap T
      BY <2>5, <2>10
    <3>2. Cardinality((U \ {x}) \cap T) = Cardinality(U \cap T) - 1
      <4>1. Cardinality((U \cap T) \ {x}) = Cardinality(U \cap T) - 1
        BY <2>8, <3>1, FS_RemoveElement
      <4>2. QED BY <3>1, <4>1
    <3>3. f[x] = 1
      BY <2>3, <2>10
    <3>4. QED BY <2>3, <2>6, <2>7, <2>9, <3>2, <3>3
  <2>11. CASE x \notin T
    <3>1. (U \ {x}) \cap T = U \cap T
      BY <2>11
    <3>2. f[x] = 0
      BY <2>3, <2>11
    <3>3. QED BY <2>3, <2>6, <2>7, <2>9, <3>1, <3>2
  <2>12. QED BY <2>10, <2>11
<1>6. Sum(S) = Cardinality(S \cap T)
  <2>1. S \notin Bad
    BY <1>5
  <2>2. QED BY <2>1
<1>7. S \cap T = T
  OBVIOUS
<1>8. QED BY <1>4, <1>6, <1>7
(* Integer division.                                                         *)
LEMMA Quotient ==
    ASSUME NEW x \in Nat, NEW d \in Nat \ {0}
    PROVE  /\ x \div d \in Nat
           /\ (x \div d) * d <= x
           /\ x < (x \div d + 1) * d
BY Z3

(* A share of an amount, rounded down, is between zero and the amount.     *)
LEMMA ShareBound ==
    ASSUME NEW t \in Nat, NEW n \in Nat, NEW d \in Nat \ {0}, n <= d
    PROVE  /\ (t * n) \div d \in Nat
           /\ (t * n) \div d <= t
<1> DEFINE q == (t * n) \div d
<1>1. t * n \in Nat /\ t * n <= t * d
  OBVIOUS
<1>2. q \in Int /\ q * d <= t * n /\ t * n < (q + 1) * d
  BY <1>1, Z3
<1>3. q \in Nat
  BY <1>1, <1>2, Z3
<1>4. q <= t
  <2>1. ASSUME q >= t + 1 PROVE FALSE
    <3>1. q * d >= (t + 1) * d
      BY <2>1, <1>3, Z3
    <3>2. (t + 1) * d > t * d
      BY Z3
    <3>3. QED BY <3>1, <3>2, <1>1, <1>2, Z3
  <2>2. QED BY <2>1, <1>3
<1>5. QED BY <1>3, <1>4

(* Sharing n among receipts w that sum to d and rounding down leaves less    *)
(* than one unit per winner.                                                 *)
LEMMA RoundingDust ==
    ASSUME NEW S, IsFiniteSet(S)
    PROVE  \A n \in Nat, d \in Nat \ {0}, w \in [S -> Nat], p \in [S -> Nat] :
             SumFunction(w) = d /\ (\A a \in S : p[a] = (w[a] * n) \div d)
               => /\ SumFunction(p) <= n
                  /\ n < SumFunction(p) + Cardinality({a \in S : w[a] > 0})
<1> TAKE n \in Nat, d \in Nat \ {0}, w \in [S -> Nat], p \in [S -> Nat]
<1> HAVE SumFunction(w) = d /\ (\A a \in S : p[a] = (w[a] * n) \div d)
<1> DEFINE K == {a \in S : w[a] > 0}
           one == [a \in S |-> IF a \in K THEN 1 ELSE 0]
           P == SumFunction(p)
           k == Cardinality(K)
<1>1. one \in [S -> Int] /\ w \in [S -> Int] /\ p \in [S -> Int]
  OBVIOUS
<1>2. SumFunction(one) = k
  BY SumOfOnes
<1>3. IsFiniteSet(K) /\ k \in Nat
  BY FS_Subset, FS_CardinalityType
<1>4. P \in Nat
  BY SumFunctionType
<1>5. ASSUME NEW a \in S
      PROVE  /\ d * p[a] <= n * w[a] + 0 * one[a]
             /\ n * w[a] <= d * p[a] + (d - 1) * one[a]
  <2>1. w[a] \in Nat /\ p[a] \in Nat /\ one[a] \in Int
    BY <1>1
  <2>2. w[a] * n \in Nat /\ w[a] * n = n * w[a]
    BY <2>1, Z3
  <2>3. p[a] * d <= w[a] * n /\ w[a] * n < (p[a] + 1) * d
    <3>1. p[a] = (w[a] * n) \div d
      OBVIOUS
    <3>2. QED BY <2>1, <2>2, <3>1, Quotient
  <2>4. (p[a] + 1) * d = p[a] * d + d /\ p[a] * d = d * p[a] /\ p[a] * d \in Nat
    BY <2>1, Z3
  <2>5. d * p[a] <= n * w[a] + 0 * one[a]
    <3>1. 0 * one[a] = 0
      BY <2>1
    <3>2. QED BY <2>1, <2>2, <2>3, <2>4, <3>1
  <2>6. CASE w[a] > 0
    <3>1. one[a] = 1
      BY <2>6
    <3>2. (d - 1) * one[a] = d - 1
      BY <3>1
    <3>3. QED BY <2>1, <2>2, <2>3, <2>4, <2>5, <3>2
  <2>7. CASE w[a] = 0
    <3>1. n * w[a] = 0
      BY <2>7
    <3>2. one[a] = 0
      BY <2>7
    <3>3. (d - 1) * one[a] = 0
      BY <3>2
    <3>4. d * p[a] \in Nat
      <4>1. d * p[a] = p[a] * d
        BY <2>4
      <4>2. QED BY <2>4, <4>1
    <3>5. n * w[a] <= d * p[a] + (d - 1) * one[a]
      <4>1. \A x, z : \A y \in Nat : x = 0 /\ z = 0 => x <= y + z
        OBVIOUS
      <4> HIDE DEF one, K
      <4>2. QED BY <3>1, <3>3, <3>4, <4>1, Zenon
    <3>6. QED BY <2>5, <3>5
  <2>8. QED BY <2>1, <2>6, <2>7
<1> HIDE DEF one, K, P
<1>6. d * P <= n * d + 0 * k
  <2>1. \A a \in S : d * p[a] <= n * w[a] + 0 * one[a]
    BY <1>5
  <2>2. 0 \in Int /\ d \in Int /\ n \in Int
    OBVIOUS
  <2>3. QED BY <1>1, <1>2, <2>1, <2>2, SumFunctionLinear DEF P
<1>7. n * d <= d * P + (d - 1) * k
  <2>1. \A a \in S : n * w[a] <= d * p[a] + (d - 1) * one[a]
    BY <1>5
  <2>2. d - 1 \in Int /\ d \in Int /\ n \in Int
    OBVIOUS
  <2>3. QED BY <1>1, <1>2, <2>1, <2>2, SumFunctionLinear DEF P
<1>8. k > 0
  <2>1. ASSUME K = {} PROVE FALSE
    <3>1. \A a \in S : w[a] = 0
      BY <2>1 DEF K
    <3>2. SumFunction(w) = 0
      BY <1>1, <3>1, SumOfZeros
    <3>3. QED BY <3>2
  <2>2. QED BY <1>3, <2>1, FS_EmptySet
<1> HIDE DEF k
<1>9. P <= n
  <2>1. SUFFICES ASSUME P >= n + 1 PROVE FALSE
    BY <1>4
  <2>2. d * P >= d * (n + 1)
    BY <1>4, <2>1, Z3
  <2>3. d * (n + 1) = n * d + d /\ n * d \in Nat
    BY Z3
  <2>4. 0 * k = 0
    BY <1>3
  <2>5. d * P \in Nat
    BY <1>4, Z3
  <2>6. QED BY <1>6, <2>2, <2>3, <2>4, <2>5
<1>10. n < P + k
  <2>1. SUFFICES ASSUME n >= P + k PROVE FALSE
    BY <1>3, <1>4
  <2>2. n * d >= (P + k) * d
    BY <1>3, <1>4, <2>1, Z3
  <2>3. (P + k) * d = d * P + d * k /\ (d - 1) * k = d * k - k /\ d * k \in Nat /\ d * P \in Nat
    BY <1>3, <1>4, Z3
  <2>4. n * d \in Nat
    BY Z3
  <2>5. QED BY <1>3, <1>7, <1>8, <2>2, <2>3, <2>4
<1>11. QED BY <1>9, <1>10 DEF P, k, K
=============================================================================
