----------------------------- MODULE CommonLemmas -----------------------------
(***************************************************************************)
(* Facts about numbers, folds, sums and lists that the proofs of several   *)
(* components need.  The library states induction for operators; here it is*)
(* for sets, which the provers can be given.                               *)
(***************************************************************************)
EXTENDS Integers, FiniteSets, FiniteSetsExt, Ordering, FiniteSetTheorems,
        WellFoundedInduction, TLAPS

\* A set of naturals that is not empty has a least element.
LEMMA LeastNat ==
  ASSUME NEW T, T \subseteq Nat, T # {}
  PROVE  \E m \in T : \A n \in T : m <= n
<1>1. \E m \in T : \A n \in T : ~ (<<n, m>> \in OpToRel(<, Nat))
  BY NatLessThanWellFounded, WFMin, Zenon
<1>2. PICK m \in T : \A n \in T : ~ (<<n, m>> \in OpToRel(<, Nat))
  BY <1>1
<1>3. \A n \in T : ~ (n < m)
  BY <1>2 DEF OpToRel
<1> QED  BY <1>3

\* A bounded one has a greatest element.
LEMMA GreatestNat ==
  ASSUME NEW T, T \subseteq Nat, T # {}, NEW bound \in Nat, \A n \in T : n <= bound
  PROVE  \E m \in T : \A n \in T : n <= m
<1> DEFINE B == {k \in Nat : \A n \in T : n <= k}
<1>1. PICK k \in B : \A j \in B : k <= j
  <2>1. bound \in B /\ B \subseteq Nat
    OBVIOUS
  <2> QED  BY <2>1, LeastNat
<1>2. k \in T
  <2> SUFFICES ASSUME k \notin T PROVE FALSE
    OBVIOUS
  <2>1. PICK n \in T : TRUE
    OBVIOUS
  <2>2. n < k /\ n \in Nat /\ k \in Nat /\ k - 1 \in B
    OBVIOUS
  <2> QED  BY <1>1, <2>2
<1> QED  BY <1>2

\* Induction, for the set of the naturals at which a formula holds.
LEMMA SetInduction ==
  ASSUME NEW S, 0 \in S, \A n \in Nat : n \in S => n + 1 \in S
  PROVE  Nat \subseteq S
<1> SUFFICES ASSUME Nat \ S # {} PROVE FALSE
  OBVIOUS
<1>1. PICK n \in Nat \ S : \A m \in Nat \ S : n <= m
  BY LeastNat
<1>2. n # 0 /\ n - 1 \in Nat
  BY <1>1
<1>3. n - 1 \in S
  BY <1>1, <1>2
<1> QED  BY <1>1, <1>2, <1>3

\* The greatest of a bounded set, by its name.
LEMMA MaxOf ==
  ASSUME NEW S, S \subseteq Nat, S # {}, NEW bound \in Nat, \A x \in S : x <= bound
  PROVE  Max(S) \in S /\ \A x \in S : x <= Max(S)
<1>1. PICK m \in S : \A x \in S : x <= m
  BY GreatestNat
<1>2. \A x, y \in S : x <= y <=> y >= x
  OBVIOUS
<1>3. \E x \in S : \A y \in S : x >= y
  BY <1>1, <1>2
<1>4. Max(S) = CHOOSE x \in S : \A y \in S : x >= y
  BY DEF Max
<1>5. Max(S) \in S /\ \A y \in S : Max(S) >= y
  BY <1>3, <1>4
<1> QED  BY <1>2, <1>5

\* An interval ends in its greatest element.
LEMMA LastOfInterval ==
  ASSUME NEW k \in Nat, k >= 1
  PROVE  Max(1..k) = k
<1>1. 1..k \subseteq Nat /\ 1..k # {} /\ k \in 1..k /\ \A x \in 1..k : x <= k
  OBVIOUS
<1>2. Max(1..k) \in 1..k /\ k <= Max(1..k)
  BY <1>1, MaxOf
<1> QED  BY <1>2

-----------------------------------------------------------------------------
(* Folds.                                                                  *)

\* The equation of a fold over the subsets of S: the elements are taken one at
\* a time, c[s] from the set s, and h is applied to them from b on.
FoldsUp(f, S, c, h, b) ==
  f = [s \in SUBSET S |-> IF s = {} THEN b ELSE h[<<c[s], f[s \ {c[s]}]>>]]

\* On a finite set it has a solution.
LEMMA FoldIsDefined ==
  ASSUME NEW S, IsFiniteSet(S), NEW V, NEW c, NEW h, NEW b \in V,
         \A s \in SUBSET S : s # {} => c[s] \in s,
         \A x \in S : \A y \in V : h[<<x, y>>] \in V
  PROVE  \E f \in [SUBSET S -> V] : FoldsUp(f, S, c, h, b)
<1> DEFINE Upto(n) == {s \in SUBSET S : Cardinality(s) <= n}
           Folds(n, f) ==
             /\ f = [s \in Upto(n) |-> IF s = {} THEN b ELSE h[<<c[s], f[s \ {c[s]}]>>]]
             /\ \A s \in Upto(n) : f[s] \in V
           G == {n \in Nat : \E f : Folds(n, f)}
<1>1. \A s \in SUBSET S : IsFiniteSet(s) /\ Cardinality(s) \in Nat
  BY FS_Subset, FS_CardinalityType
<1>2. ASSUME NEW s \in SUBSET S, s # {}
      PROVE  /\ c[s] \in S /\ s \ {c[s]} \in SUBSET S
             /\ Cardinality(s \ {c[s]}) = Cardinality(s) - 1
  <2>1. c[s] \in s /\ IsFiniteSet(s)
    BY <1>1, <1>2
  <2> QED  BY <2>1, FS_RemoveElement
<1>3. 0 \in G
  <2> DEFINE z == [s \in Upto(0) |-> b]
  <2>1. \A s \in Upto(0) : s = {}
    <3> SUFFICES ASSUME NEW s \in Upto(0) PROVE s = {}
      OBVIOUS
    <3>1. Cardinality(s) = 0 /\ IsFiniteSet(s)
      BY <1>1
    <3> QED  BY <3>1, FS_EmptySet
  <2>2. Folds(0, z)
    BY <2>1
  <2> QED  BY <2>2
<1>4. ASSUME NEW n \in Nat, n \in G PROVE n + 1 \in G
  <2>1. PICK f : Folds(n, f)
    BY <1>4
  <2> DEFINE g == [s \in Upto(n + 1) |-> IF s = {} THEN b ELSE h[<<c[s], f[s \ {c[s]}]>>]]
  <2>2. \A s \in Upto(n) : s \in Upto(n + 1)
    BY <1>1
  <2>3. \A s \in Upto(n) : g[s] = f[s]
    BY <2>1, <2>2
  <2>4. \A s \in Upto(n + 1) : s # {} => c[s] \in S /\ s \ {c[s]} \in Upto(n)
    BY <1>1, <1>2
  <2>5. Folds(n + 1, g)
    <3>1. ASSUME NEW s \in Upto(n + 1) PROVE g[s] \in V
      <4>1. CASE s = {}
        BY <4>1
      <4>2. CASE s # {}
        <5>1. f[s \ {c[s]}] \in V /\ c[s] \in S
          BY <2>1, <2>4, <4>2
        <5>2. h[<<c[s], f[s \ {c[s]}]>>] \in V
          BY <5>1
        <5> QED  BY <4>2, <5>2
      <4> QED  BY <4>1, <4>2
    <3>2. g = [s \in Upto(n + 1) |-> IF s = {} THEN b ELSE h[<<c[s], g[s \ {c[s]}]>>]]
      BY <2>3, <2>4
    <3> QED  BY <3>1, <3>2
  <2> HIDE DEF g, Folds
  <2>6. \E x : Folds(n + 1, x)
    BY <2>5
  <2>7. n + 1 \in Nat
    OBVIOUS
  <2> QED  BY <2>6, <2>7
<1>5. Cardinality(S) \in G
  <2>1. \A n \in Nat : n \in G => n + 1 \in G
    BY <1>4
  <2> HIDE DEF G
  <2>2. Nat \subseteq G
    BY <1>3, <2>1, SetInduction
  <2>3. Cardinality(S) \in Nat
    BY FS_CardinalityType
  <2> QED  BY <2>2, <2>3
<1>6. Upto(Cardinality(S)) = SUBSET S
  BY FS_Subset
<1>7. PICK U : U = SUBSET S
  OBVIOUS
<1>8. PICK f : /\ f = [s \in U |-> IF s = {} THEN b ELSE h[<<c[s], f[s \ {c[s]}]>>]]
               /\ \A s \in U : f[s] \in V
  BY <1>5, <1>6, <1>7
<1>9. f \in [SUBSET S -> V] /\ FoldsUp(f, S, c, h, b)
  BY <1>7, <1>8 DEF FoldsUp
<1> QED  BY <1>9

\* Induction over the subsets of a finite set.
LEMMA SubsetInduction ==
  ASSUME NEW S, IsFiniteSet(S), NEW T, {} \in T,
         \A s \in SUBSET S : \A x \in S \ s : s \in T => s \cup {x} \in T
  PROVE  SUBSET S \subseteq T
<1> DEFINE G == {n \in Nat : \A s \in SUBSET S : Cardinality(s) = n => s \in T}
<1>1. \A s \in SUBSET S : IsFiniteSet(s) /\ Cardinality(s) \in Nat
  BY FS_Subset, FS_CardinalityType
<1>2. 0 \in G
  <2>1. \A s \in SUBSET S : Cardinality(s) = 0 => s = {}
    <3> SUFFICES ASSUME NEW s \in SUBSET S, Cardinality(s) = 0 PROVE s = {}
      OBVIOUS
    <3>1. IsFiniteSet(s)
      BY <1>1
    <3> QED  BY <3>1, FS_EmptySet
  <2> QED  BY <2>1
<1>3. ASSUME NEW n \in Nat, n \in G, NEW s \in SUBSET S, Cardinality(s) = n + 1
      PROVE  s \in T
  <2>1. s # {}
    <3> SUFFICES ASSUME s = {} PROVE FALSE
      OBVIOUS
    <3>1. Cardinality(s) = 0
      BY FS_EmptySet
    <3> QED  BY <3>1, <1>3
  <2>2. PICK x \in s : TRUE
    BY <2>1
  <2>3. Cardinality(s \ {x}) = n
    <3>1. IsFiniteSet(s)
      BY <1>1
    <3>2. Cardinality(s \ {x}) = Cardinality(s) - 1
      BY <3>1, FS_RemoveElement
    <3> QED  BY <3>2, <1>3
  <2>4. s \ {x} \in T /\ s \ {x} \in SUBSET S /\ x \in S \ (s \ {x})
    BY <1>3, <2>3
  <2>5. (s \ {x}) \cup {x} \in T
    BY <2>4
  <2>6. (s \ {x}) \cup {x} = s
    OBVIOUS
  <2> QED  BY <2>5, <2>6
<1>4. Nat \subseteq G
  <2>1. \A n \in Nat : n \in G => n + 1 \in G
    <3> SUFFICES ASSUME NEW n \in Nat, n \in G PROVE n + 1 \in G
      OBVIOUS
    <3>1. n + 1 \in Nat
      OBVIOUS
    <3> QED  BY <1>3, <3>1
  <2> HIDE DEF G
  <2> QED  BY <1>2, <2>1, SetInduction
<1> QED  BY <1>1, <1>4

\* c picks an element of each set; f sums v over the sets, in the order in which
\* c picks.
Picks(c, S) == \A s \in SUBSET S : s # {} => c[s] \in s
SumsUp(f, S, v, c) ==
  /\ f[{}] = 0
  /\ \A s \in SUBSET S : s # {} => f[s] = v[c[s]] + f[s \ {c[s]}]

LEMMA SumIsDefined ==
  ASSUME NEW S, IsFiniteSet(S), NEW v, NEW c, \A x \in S : v[x] \in Int, Picks(c, S)
  PROVE  \E f \in [SUBSET S -> Int] : SumsUp(f, S, v, c)
<1>1. PICK h : h = [p \in S \X Int |-> v[p[1]] + p[2]]
  OBVIOUS
<1>2. \A x \in S : \A y \in Int : h[<<x, y>>] = v[x] + y /\ h[<<x, y>>] \in Int
  BY <1>1
<1>3. 0 \in Int
  OBVIOUS
<1>4. PICK f \in [SUBSET S -> Int] : FoldsUp(f, S, c, h, 0)
  <2>1. \A x \in S : \A y \in Int : h[<<x, y>>] \in Int
    BY <1>2
  <2> QED  BY <1>3, <2>1, FoldIsDefined DEF Picks
<1>5. ASSUME NEW s \in SUBSET S
      PROVE  (IF s = {} THEN 0 ELSE h[<<c[s], f[s \ {c[s]}]>>])
               = (IF s = {} THEN 0 ELSE v[c[s]] + f[s \ {c[s]}])
  <2>1. CASE s = {}
    BY <2>1
  <2>2. CASE s # {}
    <3>1. c[s] \in S /\ f[s \ {c[s]}] \in Int
      BY <2>2 DEF Picks
    <3> QED  BY <1>2, <2>2, <3>1
  <2> QED  BY <2>1, <2>2
<1>6. f = [s \in SUBSET S |-> IF s = {} THEN 0 ELSE v[c[s]] + f[s \ {c[s]}]]
  BY <1>4, <1>5 DEF FoldsUp
<1>7. f[{}] = 0
  BY <1>6
<1>8. \A s \in SUBSET S : s # {} => f[s] = v[c[s]] + f[s \ {c[s]}]
  BY <1>6
<1> QED  BY <1>7, <1>8 DEF SumsUp

\* Two solutions agree.
LEMMA SumsAgree ==
  ASSUME NEW S, IsFiniteSet(S), NEW f, NEW g, NEW v, NEW c, Picks(c, S),
         SumsUp(f, S, v, c), SumsUp(g, S, v, c)
  PROVE  \A s \in SUBSET S : f[s] = g[s]
<1> DEFINE G == {n \in Nat : \A s \in SUBSET S : Cardinality(s) = n => f[s] = g[s]}
<1>1. \A s \in SUBSET S : IsFiniteSet(s) /\ Cardinality(s) \in Nat
  BY FS_Subset, FS_CardinalityType
<1>2. 0 \in G
  <2>1. \A s \in SUBSET S : Cardinality(s) = 0 => s = {}
    <3> SUFFICES ASSUME NEW s \in SUBSET S, Cardinality(s) = 0 PROVE s = {}
      OBVIOUS
    <3>1. IsFiniteSet(s)
      BY <1>1
    <3> QED  BY <3>1, FS_EmptySet
  <2> QED  BY <2>1 DEF SumsUp
<1>3. ASSUME NEW n \in Nat, n \in G, NEW s \in SUBSET S, Cardinality(s) = n + 1
      PROVE  f[s] = g[s]
  <2>1. s # {}
    <3> SUFFICES ASSUME s = {} PROVE FALSE
      OBVIOUS
    <3>1. Cardinality(s) = 0
      BY FS_EmptySet
    <3> QED  BY <3>1, <1>3
  <2>2. PICK x : x = c[s]
    OBVIOUS
  <2>3. x \in s
    BY <2>1, <2>2 DEF Picks
  <2>4. Cardinality(s \ {x}) = n
    <3>1. IsFiniteSet(s)
      BY <1>1
    <3>2. Cardinality(s \ {x}) = Cardinality(s) - 1
      BY <2>3, <3>1, FS_RemoveElement
    <3> QED  BY <3>2, <1>3
  <2>5. f[s \ {x}] = g[s \ {x}]
    BY <1>3, <2>4
  <2> QED  BY <2>1, <2>2, <2>5 DEF SumsUp
<1>4. Nat \subseteq G
  <2>1. \A n \in Nat : n \in G => n + 1 \in G
    <3> SUFFICES ASSUME NEW n \in Nat, n \in G PROVE n + 1 \in G
      OBVIOUS
    <3>1. n + 1 \in Nat
      OBVIOUS
    <3> QED  BY <1>3, <3>1
  <2> HIDE DEF G
  <2> QED  BY <1>2, <2>1, SetInduction
<1> QED  BY <1>1, <1>4

\* A sum does not depend on the order in which elements are taken.
OrderIsFree(f, S, v) == \A s \in SUBSET S : \A x \in s : f[s] = v[x] + f[s \ {x}]

LEMMA SumInAnyOrder ==
  ASSUME NEW S, IsFiniteSet(S), NEW f \in [SUBSET S -> Int], NEW c, NEW v,
         \A x \in S : v[x] \in Int, Picks(c, S), SumsUp(f, S, v, c)
  PROVE  OrderIsFree(f, S, v)
<1> DEFINE G == {n \in Nat : \A s \in SUBSET S : Cardinality(s) = n =>
                               \A x \in s : f[s] = v[x] + f[s \ {x}]}
<1>1. \A s \in SUBSET S : IsFiniteSet(s) /\ Cardinality(s) \in Nat
  BY FS_Subset, FS_CardinalityType
<1>2. 0 \in G
  <2>1. \A s \in SUBSET S : Cardinality(s) = 0 => s = {}
    <3> SUFFICES ASSUME NEW s \in SUBSET S, Cardinality(s) = 0 PROVE s = {}
      OBVIOUS
    <3>1. IsFiniteSet(s)
      BY <1>1
    <3> QED  BY <3>1, FS_EmptySet
  <2> QED  BY <2>1
<1>3. ASSUME NEW n \in Nat, n \in G, NEW s \in SUBSET S, Cardinality(s) = n + 1, NEW x \in s
      PROVE  f[s] = v[x] + f[s \ {x}]
  <2>1. PICK y : y = c[s]
    OBVIOUS
  <2>2. y \in s /\ f[s] = v[y] + f[s \ {y}]
    BY <2>1 DEF Picks, SumsUp
  <2>3. CASE x = y
    BY <2>2, <2>3
  <2>4. CASE x # y
    <3>1. /\ s \ {y} \in SUBSET S /\ Cardinality(s \ {y}) = n /\ x \in s \ {y}
          /\ s \ {x} \in SUBSET S /\ Cardinality(s \ {x}) = n /\ y \in s \ {x}
      <4>1. IsFiniteSet(s)
        BY <1>1
      <4>2. Cardinality(s \ {y}) = Cardinality(s) - 1
        BY <2>2, <4>1, FS_RemoveElement
      <4>3. Cardinality(s \ {x}) = Cardinality(s) - 1
        BY <4>1, FS_RemoveElement
      <4> QED  BY <4>2, <4>3, <1>3, <2>2, <2>4
    <3>2. f[s \ {y}] = v[x] + f[(s \ {y}) \ {x}]
      BY <1>3, <3>1
    <3>3. f[s \ {x}] = v[y] + f[(s \ {x}) \ {y}]
      BY <1>3, <3>1
    <3>4. (s \ {y}) \ {x} = (s \ {x}) \ {y} /\ (s \ {x}) \ {y} \in SUBSET S
      OBVIOUS
    <3>5. f[(s \ {x}) \ {y}] \in Int /\ v[x] \in Int /\ v[y] \in Int
      BY <2>2, <3>4
    <3>6. f[s] = v[y] + (v[x] + f[(s \ {x}) \ {y}])
      BY <2>2, <3>2, <3>4
    <3>7. v[x] + f[s \ {x}] = v[x] + (v[y] + f[(s \ {x}) \ {y}])
      BY <3>3
    <3>8. \A i, j, k \in Int : i + (j + k) = j + (i + k)
      OBVIOUS
    <3>9. v[y] + (v[x] + f[(s \ {x}) \ {y}]) = v[x] + (v[y] + f[(s \ {x}) \ {y}])
      BY <3>5, <3>8
    <3> QED  BY <3>6, <3>7, <3>9
  <2> QED  BY <2>3, <2>4
<1>4. Nat \subseteq G
  <2>1. \A n \in Nat : n \in G => n + 1 \in G
    <3> SUFFICES ASSUME NEW n \in Nat, n \in G PROVE n + 1 \in G
      OBVIOUS
    <3>1. n + 1 \in Nat
      OBVIOUS
    <3> QED  BY <1>3, <3>1
  <2> HIDE DEF G
  <2> QED  BY <1>2, <2>1, SetInduction
<1> QED  BY <1>1, <1>4 DEF OrderIsFree

-----------------------------------------------------------------------------
(* Lists.                                                                  *)

StrictOrder(S, R) ==
  /\ \A x \in S : <<x, x>> \notin R
  /\ \A x, y \in S : x # y => <<x, y>> \in R \/ <<y, x>> \in R
  /\ \A x, y, z \in S : <<x, y>> \in R /\ <<y, z>> \in R => <<x, z>> \in R
Below(S, R, x) == {y \in S : <<y, x>> \in R}

\* In a strict order, what is higher has more below it.
LEMMA FewerBelow ==
  ASSUME NEW S, NEW R, IsFiniteSet(S), StrictOrder(S, R), NEW x \in S, NEW y \in S, <<x, y>> \in R
  PROVE  Cardinality(Below(S, R, x)) < Cardinality(Below(S, R, y))
<1>1. IsFiniteSet(Below(S, R, x)) /\ IsFiniteSet(Below(S, R, y))
  BY FS_Subset DEF Below
<1>2. x \notin Below(S, R, x)
  BY DEF Below, StrictOrder
<1>3. Below(S, R, x) \cup {x} \subseteq Below(S, R, y)
  BY DEF Below, StrictOrder
<1>4. /\ IsFiniteSet(Below(S, R, x) \cup {x})
      /\ Cardinality(Below(S, R, x) \cup {x}) = Cardinality(Below(S, R, x)) + 1
  BY <1>1, <1>2, FS_AddElement
<1>5. Cardinality(Below(S, R, x) \cup {x}) <= Cardinality(Below(S, R, y))
  BY <1>1, <1>3, FS_Subset
<1>6. Cardinality(Below(S, R, x)) \in Nat /\ Cardinality(Below(S, R, y)) \in Nat
  BY <1>1, FS_CardinalityType
<1> QED  BY <1>4, <1>5, <1>6

\* Every place of a list is taken.
LEMMA EveryPlaceIsTaken ==
  ASSUME NEW S, NEW R, IsFiniteSet(S), StrictOrder(S, R), NEW n \in 1..Cardinality(S)
  PROVE  \E x \in S : Cardinality(Below(S, R, x)) = n - 1
<1> DEFINE size == Cardinality(S)
           place == [x \in S |-> Cardinality(Below(S, R, x)) + 1]
<1>1. size \in Nat
  BY FS_CardinalityType
<1>2. \A x \in S : Cardinality(Below(S, R, x)) \in Nat /\ Cardinality(Below(S, R, x)) < size
  <2> SUFFICES ASSUME NEW x \in S
               PROVE  Cardinality(Below(S, R, x)) \in Nat /\ Cardinality(Below(S, R, x)) < size
    OBVIOUS
  <2>1. Below(S, R, x) \subseteq S \ {x}
    BY DEF Below, StrictOrder
  <2>2. IsFiniteSet(S \ {x}) /\ Cardinality(S \ {x}) = size - 1
    BY FS_RemoveElement
  <2>3. IsFiniteSet(Below(S, R, x)) /\ Cardinality(Below(S, R, x)) <= size - 1
    BY <2>1, <2>2, FS_Subset
  <2>4. Cardinality(Below(S, R, x)) \in Nat
    BY <2>3, FS_CardinalityType
  <2> QED  BY <1>1, <2>3, <2>4
<1>3. place \in [S -> 1..size]
  BY <1>1, <1>2
<1>4. \A x, y \in S : x # y => place[x] # place[y]
  <2> SUFFICES ASSUME NEW x \in S, NEW y \in S, x # y PROVE place[x] # place[y]
    OBVIOUS
  <2>1. <<x, y>> \in R \/ <<y, x>> \in R
    BY DEF StrictOrder
  <2>2. Cardinality(Below(S, R, x)) # Cardinality(Below(S, R, y))
    BY <1>2, <2>1, FewerBelow
  <2> QED  BY <1>2, <2>2
<1>5. IsFiniteSet(1..size) /\ Cardinality(1..size) = size
  BY <1>1, FS_Interval
<1> HIDE DEF place
<1>6. place \in Injection(S, 1..size)
  BY <1>3, <1>4 DEF Injection, IsInjective
<1>7. place \in Surjection(S, 1..size)
  BY <1>5, <1>6, FS_Injection
<1>8. PICK x \in S : place[x] = n
  BY <1>7 DEF Surjection
<1>9. Cardinality(Below(S, R, x)) + 1 = n
  BY <1>8 DEF place
<1> QED  BY <1>2, <1>9

\* A list in order holds the members of its set.
LEMMA ListedIsMember ==
  ASSUME NEW S, NEW R, IsFiniteSet(S), StrictOrder(S, R)
  PROVE  /\ Cardinality(S) \in Nat
         /\ \A n \in 1..Cardinality(S) : InOrder(S, R)[n] \in S
<1>1. Cardinality(S) \in Nat
  BY FS_CardinalityType
<1>2. ASSUME NEW n \in 1..Cardinality(S) PROVE InOrder(S, R)[n] \in S
  <2>1. \E x \in S : Cardinality({y \in S : <<y, x>> \in R}) = n - 1
    BY EveryPlaceIsTaken DEF Below
  <2>2. InOrder(S, R)[n] = CHOOSE x \in S : Cardinality({y \in S : <<y, x>> \in R}) = n - 1
    BY DEF InOrder
  <2> QED  BY <2>1, <2>2
<1> QED  BY <1>1, <1>2

\* And every member of its set.
LEMMA MemberIsListed ==
  ASSUME NEW S, NEW R, IsFiniteSet(S), StrictOrder(S, R), NEW x \in S
  PROVE  \E n \in 1..Cardinality(S) : InOrder(S, R)[n] = x
<1>1. PICK n : n = Cardinality(Below(S, R, x)) + 1
  OBVIOUS
<1>2. \A y \in S : IsFiniteSet(Below(S, R, y)) /\ Cardinality(Below(S, R, y)) \in Nat
  BY FS_Subset, FS_CardinalityType DEF Below
<1>3. n \in 1..Cardinality(S)
  <2>1. Below(S, R, x) \subseteq S \ {x}
    BY DEF Below, StrictOrder
  <2>2. IsFiniteSet(S \ {x}) /\ Cardinality(S \ {x}) = Cardinality(S) - 1
    BY FS_RemoveElement
  <2>3. Cardinality(Below(S, R, x)) <= Cardinality(S) - 1
    BY <2>1, <2>2, FS_Subset
  <2>4. Cardinality(S) \in Nat
    BY FS_CardinalityType
  <2> QED  BY <1>1, <1>2, <2>3, <2>4
<1>4. ASSUME NEW y \in S, Cardinality(Below(S, R, y)) = n - 1 PROVE y = x
  <2> SUFFICES ASSUME y # x PROVE FALSE
    OBVIOUS
  <2>1. <<x, y>> \in R \/ <<y, x>> \in R
    BY DEF StrictOrder
  <2>2. Cardinality(Below(S, R, x)) # Cardinality(Below(S, R, y))
    BY <1>2, <2>1, FewerBelow
  <2> QED  BY <1>1, <1>2, <1>4, <2>2
<1>5. InOrder(S, R)[n] = CHOOSE y \in S : Cardinality(Below(S, R, y)) = n - 1
  BY <1>3 DEF InOrder, Below
<1>6. Cardinality(Below(S, R, x)) = n - 1
  BY <1>1, <1>2
<1> QED  BY <1>3, <1>4, <1>5, <1>6
=============================================================================
