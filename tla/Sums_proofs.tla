------------------------------ MODULE Sums_proofs ------------------------------
(***************************************************************************)
(* What the proofs of other modules need of sums: the type of a sum, a sum *)
(* of zeroes, and how a sum follows a change of one of its summands.       *)
(*                                                                         *)
(* SumOf is a recursive function on the subsets of its domain.  Induction  *)
(* is needed, and the theorems of the library that have an operator as     *)
(* parameter cannot be used; but a set of natural numbers that is not      *)
(* empty has a least element, because < is well-founded, and a minimal     *)
(* counterexample does the same.                                           *)
(***************************************************************************)
EXTENDS Sums, Integers, FiniteSets, FiniteSetTheorems, WellFoundedInduction, TLAPS

-----------------------------------------------------------------------------
(* Induction.                                                                  *)

\* The least element of a set of natural numbers.
LEMMA Least ==
    ASSUME NEW T \in SUBSET Nat, T # {}
    PROVE  \E n \in T : \A m \in T : n <= m
<1> DEFINE R == {ss \in Nat \X Nat : ss[1] < ss[2]}
<1>1. IsWellFoundedOn(R, Nat)
  BY NatLessThanWellFounded DEF OpToRel
<1>2. \A m, n \in Nat : m < n => <<m, n>> \in R
  OBVIOUS
<1> HIDE DEF R
<1>3. PICK n \in T : \A m \in T : ~ <<m, n>> \in R
  BY <1>1, WFMin
<1>4. ASSUME NEW m \in T PROVE n <= m
  <2>1. m \in Nat /\ n \in Nat
    OBVIOUS
  <2>2. ~ (m < n)
    BY <1>2, <1>3, <2>1
  <2> QED BY <2>1, <2>2
<1> QED BY <1>4

\* The element that a fold over s takes first.
One(s) == CHOOSE x \in s : TRUE

LEMMA OneOf == ASSUME NEW s, s # {} PROVE One(s) \in s
  BY DEF One

\* It leaves a smaller set.
LEMMA OneLess ==
    ASSUME NEW S, IsFiniteSet(S), NEW s \in SUBSET S
    PROVE  /\ Cardinality(s) \in Nat /\ Cardinality(s) <= Cardinality(S)
           /\ s # {} => /\ s \ {One(s)} \in SUBSET S
                        /\ Cardinality(s) # 0
                        /\ Cardinality(s \ {One(s)}) = Cardinality(s) - 1
<1>1. IsFiniteSet(s) /\ Cardinality(s) \in Nat /\ Cardinality(s) <= Cardinality(S)
  BY FS_Subset, FS_CardinalityType
<1>2. CASE s # {}
  <2>1. One(s) \in s /\ s \ {One(s)} \in SUBSET S
    BY <1>2, OneOf
  <2>2. Cardinality(s \ {One(s)}) = Cardinality(s) - 1
    BY <1>1, <2>1, FS_RemoveElement
  <2>3. Cardinality(s) # 0
    BY <1>1, <1>2, FS_EmptySet
  <2> QED BY <1>1, <2>1, <2>2, <2>3
<1> QED BY <1>1, <1>2

\* Induction over the subsets of a finite set: what holds of the empty set, and of a set
\* when it holds of the set without the element that a fold takes first.
LEMMA SetInduction ==
    ASSUME NEW S, IsFiniteSet(S), NEW Q \in SUBSET (SUBSET S), {} \in Q,
           \A s \in SUBSET S : s # {} /\ s \ {One(s)} \in Q => s \in Q
    PROVE  \A s \in SUBSET S : s \in Q
<1> SUFFICES ASSUME NEW bad \in SUBSET S, bad \notin Q PROVE FALSE
  OBVIOUS
<1> DEFINE T == {n \in Nat : \E s \in SUBSET S : s \notin Q /\ Cardinality(s) = n}
<1>1. Cardinality(bad) \in T
  BY OneLess
<1>2. PICK n \in T : \A m \in T : n <= m
  <2> HIDE DEF T
  <2>1. T \in SUBSET Nat
    BY DEF T
  <2> QED BY <1>1, <2>1, Least
<1>3. PICK s \in SUBSET S : s \notin Q /\ Cardinality(s) = n
  BY <1>2
<1>4. s # {} /\ s \ {One(s)} \notin Q
  BY <1>3
<1>5. Cardinality(s \ {One(s)}) \in T /\ Cardinality(s \ {One(s)}) = n - 1
  BY <1>3, <1>4, OneLess
<1>6. n \in Nat /\ \A m \in T : m \in Nat
  BY <1>2
<1> HIDE DEF T
<1> QED BY <1>2, <1>5, <1>6

\* The same with every smaller set at hand.
LEMMA StrongSetInduction ==
    ASSUME NEW S, IsFiniteSet(S), NEW Q \in SUBSET (SUBSET S),
           \A s \in SUBSET S : (\A x \in s : s \ {x} \in Q) => s \in Q
    PROVE  \A s \in SUBSET S : s \in Q
<1> SUFFICES ASSUME NEW bad \in SUBSET S, bad \notin Q PROVE FALSE
  OBVIOUS
<1> DEFINE T == {n \in Nat : \E s \in SUBSET S : s \notin Q /\ Cardinality(s) = n}
<1>1. Cardinality(bad) \in T
  BY OneLess
<1>2. PICK n \in T : \A m \in T : n <= m
  <2> HIDE DEF T
  <2>1. T \in SUBSET Nat
    BY DEF T
  <2> QED BY <1>1, <2>1, Least
<1>3. PICK s \in SUBSET S : s \notin Q /\ Cardinality(s) = n
  BY <1>2
<1>4. PICK x \in s : s \ {x} \notin Q
  BY <1>3
<1>5. Cardinality(s \ {x}) \in Nat /\ Cardinality(s \ {x}) = n - 1
  <2>1. IsFiniteSet(s)
    BY FS_Subset
  <2> QED BY <1>3, <1>4, <2>1, FS_RemoveElement, FS_CardinalityType
<1>6. Cardinality(s \ {x}) \in T
  BY <1>4, <1>5
<1>7. n \in Nat /\ \A m \in T : m \in Nat
  BY <1>2
<1> HIDE DEF T
<1> QED BY <1>2, <1>5, <1>6, <1>7

-----------------------------------------------------------------------------
(* The function that SumOf is the value of: it exists, and it is made of      *)
(* integers.                                                                   *)

\* sum is the function that SumOf evaluates on the subsets of S.
Adds(g, S, sum) ==
    sum = [s \in SUBSET S |-> IF s = {} THEN 0 ELSE g[One(s)] + sum[s \ {One(s)}]]

\* The same for subsets of at most n elements.
AtMost(S, n) == {s \in SUBSET S : Cardinality(s) <= n}
AddsTo(g, S, n, sum) ==
    /\ sum \in [AtMost(S, n) -> Int]
    /\ \A s \in AtMost(S, n) : sum[s] = IF s = {} THEN 0 ELSE g[One(s)] + sum[s \ {One(s)}]

\* The equation has a solution, one size of subsets after the other.
LEMMA AddsNext ==
    ASSUME NEW S, IsFiniteSet(S), NEW g \in [S -> Int], NEW n \in Nat, NEW sum, AddsTo(g, S, n, sum)
    PROVE  \E next : AddsTo(g, S, n + 1, next)
<1> DEFINE next == [s \in AtMost(S, n + 1) |->
                       IF s = {} THEN 0 ELSE g[One(s)] + sum[s \ {One(s)}]]
<1>1. ASSUME NEW s \in AtMost(S, n + 1), s # {}
      PROVE  s \ {One(s)} \in AtMost(S, n) /\ g[One(s)] \in Int /\ One(s) \in s
  BY <1>1, OneLess, OneOf DEF AtMost
<1>2. next \in [AtMost(S, n + 1) -> Int]
  BY <1>1 DEF AddsTo
<1>3. ASSUME NEW s \in AtMost(S, n) PROVE s \in AtMost(S, n + 1) /\ next[s] = sum[s]
  <2>1. s \in AtMost(S, n + 1)
    <3>1. s \in SUBSET S /\ Cardinality(s) \in Nat /\ Cardinality(s) <= n
      BY OneLess DEF AtMost
    <3> QED BY <3>1 DEF AtMost
  <2> QED BY <2>1 DEF AddsTo
<1>4. ASSUME NEW s \in AtMost(S, n + 1)
      PROVE  next[s] = IF s = {} THEN 0 ELSE g[One(s)] + next[s \ {One(s)}]
  BY <1>1, <1>3
<1> HIDE DEF next
<1> QED BY <1>2, <1>4 DEF AddsTo

\* So the subsets of every size have one.
LEMMA AddsExists ==
    ASSUME NEW S, IsFiniteSet(S), NEW g \in [S -> Int]
    PROVE  \E sum : Adds(g, S, sum)
<1> DEFINE T == {n \in Nat : ~ \E sum : AddsTo(g, S, n, sum)}
<1>1. 0 \notin T
  <2> DEFINE sum == [s \in AtMost(S, 0) |-> 0]
  <2>1. ASSUME NEW s \in AtMost(S, 0) PROVE s = {}
    <3>1. s \in SUBSET S /\ Cardinality(s) <= 0
      BY DEF AtMost
    <3>2. Cardinality(s) \in Nat /\ (s # {} => Cardinality(s) # 0)
      BY <3>1, OneLess
    <3> QED BY <3>1, <3>2
  <2>2. sum \in [AtMost(S, 0) -> Int] /\ \A s \in AtMost(S, 0) : sum[s] = 0
    OBVIOUS
  <2>3. AddsTo(g, S, 0, sum)
    <3> HIDE DEF sum
    <3> QED BY <2>1, <2>2 DEF AddsTo
  <2> QED BY <2>3
<1>2. T = {}
  <2> SUFFICES ASSUME T # {} PROVE FALSE
    OBVIOUS
  <2>1. PICK n \in T : \A m \in T : n <= m
    <3>1. T \in SUBSET Nat
      OBVIOUS
    <3> HIDE DEF T
    <3> QED BY <3>1, Least
  <2>2. n \in Nat /\ n # 0
    BY <1>1
  <2>3. PICK k \in Nat : n = k + 1 /\ ~ n <= k
    <3>1. n - 1 \in Nat /\ n = (n - 1) + 1 /\ ~ n <= n - 1
      BY <2>2
    <3> QED BY <3>1
  <2>4. k \notin T
    <3> HIDE DEF T
    <3> QED BY <2>1, <2>3
  <2>5. \E next : AddsTo(g, S, k + 1, next)
    BY <2>4, AddsNext
  <2> QED BY <2>3, <2>5
<1>3. PICK sum : AddsTo(g, S, Cardinality(S), sum)
  BY <1>2, OneLess
<1>4. AtMost(S, Cardinality(S)) = SUBSET S
  BY OneLess DEF AtMost
<1>5. Adds(g, S, sum)
  <2>1. sum = [s \in SUBSET S |-> sum[s]]
    BY <1>3, <1>4 DEF AddsTo
  <2>2. \A s \in SUBSET S : sum[s] = IF s = {} THEN 0 ELSE g[One(s)] + sum[s \ {One(s)}]
    BY <1>3, <1>4 DEF AddsTo
  <2> QED BY <2>1, <2>2 DEF Adds
<1> QED BY <1>5

\* What is known of it.
PartialSums(g, S, sum) ==
    \A s \in SUBSET S :
        sum[s] \in Int /\ sum[s] = IF s = {} THEN 0 ELSE g[One(s)] + sum[s \ {One(s)}]

LEMMA AddsType ==
    ASSUME NEW S, IsFiniteSet(S), NEW g \in [S -> Int], NEW sum, Adds(g, S, sum)
    PROVE  PartialSums(g, S, sum)
<1>1. \A s \in SUBSET S : sum[s] = IF s = {} THEN 0 ELSE g[One(s)] + sum[s \ {One(s)}]
  BY DEF Adds
<1> DEFINE Q == {s \in SUBSET S : sum[s] \in Int}
<1>2. {} \in Q
  <2>1. {} \in SUBSET S /\ sum[{}] = 0
    BY <1>1
  <2> QED BY <2>1
<1>3. ASSUME NEW s \in SUBSET S, s # {}, s \ {One(s)} \in Q PROVE s \in Q
  <2>1. PICK y \in S : y = One(s) /\ g[y] \in Int
    BY <1>3, OneOf
  <2>2. sum[s] = g[y] + sum[s \ {y}] /\ sum[s \ {y}] \in Int
    BY <1>1, <1>3, <2>1
  <2> QED BY <2>1, <2>2
<1>4. Q \in SUBSET (SUBSET S)
  OBVIOUS
<1>5. \A s \in SUBSET S : s \in Q
  <2> HIDE DEF Q
  <2> QED BY <1>2, <1>3, <1>4, SetInduction
<1> QED BY <1>1, <1>5 DEF PartialSums

\* The function that the sum is the value of.
LEMMA SumUnfold ==
    ASSUME NEW S, IsFiniteSet(S), NEW g \in [S -> Int]
    PROVE  \E sum : PartialSums(g, S, sum) /\ SumOf(g) = sum[S]
<1> DEFINE it == CHOOSE sum : Adds(g, S, sum)
<1>1. Adds(g, S, it)
  BY AddsExists
<1>2. SumOf(g) = it[S]
  <2>1. DOMAIN g = S
    OBVIOUS
  <2> QED BY <2>1 DEF SumOf, MapThenSumSet, MapThenFoldSet, Adds, One
<1> HIDE DEF it
<1> QED BY <1>1, <1>2, AddsType

-----------------------------------------------------------------------------
(* Facts about sums.                                                           *)

LEMMA SumIsInteger ==
    ASSUME NEW S, IsFiniteSet(S), NEW g \in [S -> Int]
    PROVE  SumOf(g) \in Int
<1>1. PICK sum : PartialSums(g, S, sum) /\ SumOf(g) = sum[S]
  BY SumUnfold
<1> QED BY <1>1 DEF PartialSums

LEMMA SumType ==
    ASSUME NEW S, IsFiniteSet(S), NEW g \in [S -> Nat]
    PROVE  SumOf(g) \in Nat
<1>1. g \in [S -> Int]
  OBVIOUS
<1>2. PICK sum : PartialSums(g, S, sum) /\ SumOf(g) = sum[S]
  BY <1>1, SumUnfold
<1>3. \A s \in SUBSET S : sum[s] = IF s = {} THEN 0 ELSE g[One(s)] + sum[s \ {One(s)}]
  BY <1>2 DEF PartialSums
<1> DEFINE Q == {s \in SUBSET S : sum[s] \in Nat}
<1>4. {} \in Q
  <2>1. {} \in SUBSET S /\ sum[{}] = 0
    BY <1>3
  <2> QED BY <2>1
<1>5. ASSUME NEW s \in SUBSET S, s # {}, s \ {One(s)} \in Q PROVE s \in Q
  <2>1. PICK y \in S : y = One(s) /\ g[y] \in Nat
    BY <1>5, OneOf
  <2>2. sum[s] = g[y] + sum[s \ {y}] /\ sum[s \ {y}] \in Nat
    BY <1>3, <1>5, <2>1
  <2> QED BY <2>1, <2>2
<1>6. Q \in SUBSET (SUBSET S)
  OBVIOUS
<1>7. \A s \in SUBSET S : s \in Q
  <2> HIDE DEF Q
  <2> QED BY <1>4, <1>5, <1>6, SetInduction
<1> QED BY <1>2, <1>7

\* A sum of zeroes.
LEMMA SumZero ==
    ASSUME NEW S, IsFiniteSet(S), NEW g \in [S -> Int], \A x \in S : g[x] = 0
    PROVE  SumOf(g) = 0
<1>1. PICK sum : PartialSums(g, S, sum) /\ SumOf(g) = sum[S]
  BY SumUnfold
<1>2. \A s \in SUBSET S :
         sum[s] \in Int /\ sum[s] = IF s = {} THEN 0 ELSE g[One(s)] + sum[s \ {One(s)}]
  BY <1>1 DEF PartialSums
<1> DEFINE Q == {s \in SUBSET S : sum[s] = 0}
<1>3. {} \in Q
  BY <1>2
<1>4. ASSUME NEW s \in SUBSET S, s # {}, s \ {One(s)} \in Q PROVE s \in Q
  <2>1. One(s) \in S /\ g[One(s)] = 0
    BY <1>4, OneOf
  <2> QED BY <1>2, <1>4, <2>1
<1>5. Q \in SUBSET (SUBSET S)
  OBVIOUS
<1>6. \A s \in SUBSET S : s \in Q
  <2> HIDE DEF Q
  <2> QED BY <1>3, <1>4, <1>5, SetInduction
<1> QED BY <1>1, <1>6

\* Two functions that differ at one place have sums that differ by as much.
LEMMA SumChange ==
    ASSUME NEW S, IsFiniteSet(S), NEW g \in [S -> Int], NEW h \in [S -> Int], NEW c \in S,
           \A x \in S \ {c} : g[x] = h[x]
    PROVE  SumOf(g) + h[c] = SumOf(h) + g[c]
<1>1. PICK a : PartialSums(g, S, a) /\ SumOf(g) = a[S]
  BY SumUnfold
<1>2. PICK b : PartialSums(h, S, b) /\ SumOf(h) = b[S]
  BY SumUnfold
<1>3. \A s \in SUBSET S :
         a[s] \in Int /\ a[s] = IF s = {} THEN 0 ELSE g[One(s)] + a[s \ {One(s)}]
  BY <1>1 DEF PartialSums
<1>4. \A s \in SUBSET S :
         b[s] \in Int /\ b[s] = IF s = {} THEN 0 ELSE h[One(s)] + b[s \ {One(s)}]
  BY <1>2 DEF PartialSums
<1> DEFINE Q == {s \in SUBSET S : IF c \in s THEN a[s] + h[c] = b[s] + g[c] ELSE a[s] = b[s]}
<1>5. {} \in Q
  BY <1>3, <1>4
<1>6. ASSUME NEW s \in SUBSET S, s # {}, s \ {One(s)} \in Q PROVE s \in Q
  <2>1. One(s) \in s /\ One(s) \in S
    BY <1>6, OneOf
  <2>2. PICK t \in SUBSET S : t = s \ {One(s)}
    BY <1>6
  <2>3. /\ a[s] = g[One(s)] + a[t] /\ a[s] \in Int /\ a[t] \in Int
        /\ b[s] = h[One(s)] + b[t] /\ b[s] \in Int /\ b[t] \in Int
        /\ g[One(s)] \in Int /\ h[One(s)] \in Int /\ g[c] \in Int /\ h[c] \in Int
    BY <1>3, <1>4, <1>6, <2>1, <2>2
  <2>4. IF c \in t THEN a[t] + h[c] = b[t] + g[c] ELSE a[t] = b[t]
    BY <1>6, <2>2
  <2>5. CASE One(s) = c
    BY <2>1, <2>2, <2>3, <2>4, <2>5
  <2>6. CASE One(s) # c
    <3>1. (c \in s <=> c \in t) /\ g[One(s)] = h[One(s)]
      BY <2>1, <2>2, <2>6
    <3> QED BY <2>3, <2>4, <3>1
  <2> QED BY <2>5, <2>6
<1>7. Q \in SUBSET (SUBSET S)
  OBVIOUS
<1>8. \A s \in SUBSET S : s \in Q
  <2> HIDE DEF Q
  <2> QED BY <1>5, <1>6, <1>7, SetInduction
<1>9. S \in Q
  BY <1>8
<1> QED BY <1>1, <1>2, <1>9

\* No summand exceeds the sum.
LEMMA SumBounds ==
    ASSUME NEW S, IsFiniteSet(S), NEW g \in [S -> Nat], NEW c \in S
    PROVE  g[c] <= SumOf(g)
<1> DEFINE h == [g EXCEPT ![c] = 0]
<1>1. h \in [S -> Nat] /\ h[c] = 0 /\ \A x \in S \ {c} : g[x] = h[x]
  OBVIOUS
<1>2. SumOf(g) + h[c] = SumOf(h) + g[c]
  <2> HIDE DEF h
  <2>1. g \in [S -> Int] /\ h \in [S -> Int]
    BY <1>1
  <2> QED BY <1>1, <2>1, SumChange
<1>3. SumOf(g) \in Nat /\ SumOf(h) \in Nat /\ g[c] \in Nat
  <2> HIDE DEF h
  <2> QED BY <1>1, SumType
<1> HIDE DEF h
<1> QED BY <1>1, <1>2, <1>3

\* Whichever element is taken first.
LEMMA AnyFirst ==
    ASSUME NEW S, IsFiniteSet(S), NEW g \in [S -> Int], NEW sum, PartialSums(g, S, sum)
    PROVE  \A z \in S : sum[S] = g[z] + sum[S \ {z}]
<1>1. \A s \in SUBSET S :
         sum[s] \in Int /\ sum[s] = IF s = {} THEN 0 ELSE g[One(s)] + sum[s \ {One(s)}]
  BY DEF PartialSums
<1> DEFINE Q == {s \in SUBSET S : \A x \in s : sum[s] = g[x] + sum[s \ {x}]}
<1>2. ASSUME NEW s \in SUBSET S, \A x \in s : s \ {x} \in Q, NEW x \in s
      PROVE  sum[s] = g[x] + sum[s \ {x}]
  <2>1. PICK y \in s : y = One(s)
    BY OneOf
  <2>2. PICK p \in SUBSET S, t \in SUBSET S, u \in SUBSET S :
           p = s \ {x} /\ t = s \ {y} /\ u = (s \ {x}) \ {y}
    OBVIOUS
  <2>3. sum[s] = g[y] + sum[t]
    BY <1>1, <2>1, <2>2
  <2>4. CASE x = y
    BY <2>2, <2>3, <2>4
  <2>5. CASE x # y
    <3>1. sum[p] = g[y] + sum[u]
      BY <1>2, <2>2, <2>5
    <3>2. (s \ {y}) \ {x} = u
      BY <2>2
    <3>3. sum[t] = g[x] + sum[u]
      BY <1>2, <2>2, <2>5, <3>2
    <3>4. g[x] \in Int /\ g[y] \in Int /\ sum[u] \in Int
      BY <1>1
    <3> QED BY <2>2, <2>3, <3>1, <3>3, <3>4
  <2> QED BY <2>4, <2>5
<1>3. \A s \in SUBSET S : (\A x \in s : s \ {x} \in Q) => s \in Q
  BY <1>2
<1>4. Q \in SUBSET (SUBSET S)
  OBVIOUS
<1>5. \A s \in SUBSET S : s \in Q
  <2> HIDE DEF Q
  <2> QED BY <1>3, <1>4, StrongSetInduction
<1> QED BY <1>5

\* A sum without one of its rows.
LEMMA SumOfRest ==
    ASSUME NEW S, IsFiniteSet(S), NEW c \in S, NEW g \in [S -> Int]
    PROVE  SumOf(g) = SumOf([x \in S \ {c} |-> g[x]]) + g[c]
<1> DEFINE R == S \ {c}
           h == [x \in R |-> g[x]]
<1>0. h \in [R -> Int] /\ \A x \in R : g[x] = h[x]
  OBVIOUS
<1> HIDE DEF h
<1>1. IsFiniteSet(R)
  BY FS_RemoveElement
<1>2. PICK a : PartialSums(g, S, a) /\ SumOf(g) = a[S]
  BY SumUnfold
<1>3. PICK b : PartialSums(h, R, b) /\ SumOf(h) = b[R]
  BY <1>0, <1>1, SumUnfold
<1>4. \A s \in SUBSET R :
         a[s] \in Int /\ a[s] = IF s = {} THEN 0 ELSE g[One(s)] + a[s \ {One(s)}]
  BY <1>2 DEF PartialSums
<1>5. \A s \in SUBSET R :
         b[s] \in Int /\ b[s] = IF s = {} THEN 0 ELSE h[One(s)] + b[s \ {One(s)}]
  BY <1>3 DEF PartialSums
<1> DEFINE Q == {s \in SUBSET R : a[s] = b[s]}
<1>6. {} \in Q
  BY <1>4, <1>5
<1>7. ASSUME NEW s \in SUBSET R, s # {}, s \ {One(s)} \in Q PROVE s \in Q
  <2>1. One(s) \in R /\ g[One(s)] = h[One(s)]
    BY <1>0, <1>7, OneOf
  <2> QED BY <1>4, <1>5, <1>7, <2>1
<1>8. Q \in SUBSET (SUBSET R)
  OBVIOUS
<1>9. \A s \in SUBSET R : s \in Q
  <2> HIDE DEF Q, R
  <2> QED BY <1>1, <1>6, <1>7, <1>8, SetInduction
<1>10. a[R] = b[R] /\ a[R] \in Int
  BY <1>4, <1>9
<1>11. a[S] = g[c] + a[R]
  BY <1>2, AnyFirst
<1>12. SumOf(g) = SumOf(h) + g[c]
  BY <1>2, <1>3, <1>10, <1>11
<1> QED BY <1>12 DEF h

\* One row more.
LEMMA SumAppend ==
    ASSUME NEW n \in Nat, NEW g \in [1..n -> Int], NEW h \in [1..n + 1 -> Int],
           \A i \in 1..n : h[i] = g[i]
    PROVE  SumOf(h) = SumOf(g) + h[n + 1]
<1>1. IsFiniteSet(1..n + 1) /\ n + 1 \in 1..n + 1
  BY FS_Interval
<1>2. SumOf(h) = SumOf([i \in (1..n + 1) \ {n + 1} |-> h[i]]) + h[n + 1]
  BY <1>1, SumOfRest
<1>3. (1..n + 1) \ {n + 1} = 1..n
  OBVIOUS
<1>4. [i \in 1..n |-> h[i]] = g
  OBVIOUS
<1> QED BY <1>2, <1>3, <1>4

\* A sum over rows of which each adds up.
LEMMA SumOfSums ==
    ASSUME NEW S, IsFiniteSet(S), NEW f \in [S -> Int], NEW g \in [S -> Int],
           NEW h \in [S -> Int], \A x \in S : f[x] = g[x] + h[x]
    PROVE  SumOf(f) = SumOf(g) + SumOf(h)
<1>1. PICK a : PartialSums(f, S, a) /\ SumOf(f) = a[S]
  BY SumUnfold
<1>2. PICK b : PartialSums(g, S, b) /\ SumOf(g) = b[S]
  BY SumUnfold
<1>3. PICK d : PartialSums(h, S, d) /\ SumOf(h) = d[S]
  BY SumUnfold
<1>4. \A s \in SUBSET S :
         /\ a[s] \in Int /\ a[s] = IF s = {} THEN 0 ELSE f[One(s)] + a[s \ {One(s)}]
         /\ b[s] \in Int /\ b[s] = IF s = {} THEN 0 ELSE g[One(s)] + b[s \ {One(s)}]
         /\ d[s] \in Int /\ d[s] = IF s = {} THEN 0 ELSE h[One(s)] + d[s \ {One(s)}]
  BY <1>1, <1>2, <1>3 DEF PartialSums
<1> DEFINE Q == {s \in SUBSET S : a[s] = b[s] + d[s]}
<1>5. {} \in Q
  <2>1. {} \in SUBSET S /\ a[{}] = 0 /\ b[{}] = 0 /\ d[{}] = 0
    BY <1>4
  <2> QED BY <2>1
<1>6. ASSUME NEW s \in SUBSET S, s # {}, s \ {One(s)} \in Q PROVE s \in Q
  <2>1. PICK y \in S, t \in SUBSET S : y = One(s) /\ t = s \ {One(s)}
    BY <1>6, OneOf
  <2>2. /\ a[s] = f[y] + a[t] /\ b[s] = g[y] + b[t] /\ d[s] = h[y] + d[t]
        /\ a[t] \in Int /\ b[t] \in Int /\ d[t] \in Int
        /\ f[y] = g[y] + h[y] /\ f[y] \in Int /\ g[y] \in Int /\ h[y] \in Int
    BY <1>4, <1>6, <2>1
  <2>3. a[t] = b[t] + d[t]
    BY <1>6, <2>1
  <2> QED BY <2>2, <2>3
<1>7. Q \in SUBSET (SUBSET S)
  OBVIOUS
<1>8. \A s \in SUBSET S : s \in Q
  <2> HIDE DEF Q
  <2> QED BY <1>5, <1>6, <1>7, SetInduction
<1> QED BY <1>1, <1>2, <1>3, <1>8

\* A sum of numbers none of which is positive.
LEMMA SumNegative ==
    ASSUME NEW S, IsFiniteSet(S), NEW g \in [S -> Int], \A x \in S : g[x] <= 0
    PROVE  -SumOf(g) \in Nat
<1> DEFINE h == [x \in S |-> -g[x]]
           z == [x \in S |-> 0]
<1>1. h \in [S -> Nat] /\ h \in [S -> Int] /\ z \in [S -> Int]
  OBVIOUS
<1>2. \A x \in S : z[x] = 0 /\ z[x] = g[x] + h[x]
  OBVIOUS
<1> HIDE DEF h, z
<1>3. SumOf(z) = 0
  BY <1>1, <1>2, SumZero
<1>4. SumOf(z) = SumOf(g) + SumOf(h)
  BY <1>1, <1>2, SumOfSums
<1>5. SumOf(h) \in Nat /\ SumOf(g) \in Int
  BY <1>1, SumType, SumIsInteger
<1> QED BY <1>3, <1>4, <1>5
================================================================================
