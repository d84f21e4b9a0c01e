----------------------------- MODULE SizingProofs -----------------------------
(***************************************************************************)
(* The gate and the sizer, for every universe, every market and any number *)
(* of passes, heals, snipes and exits: what the passes have sized is within*)
(* the caps up to the slippage, a pass counts the whole book, and the gate *)
(* keeps the best of what is correlated.                                   *)
(***************************************************************************)
EXTENDS Sizing, CommonLemmas, SequenceTheorems

-----------------------------------------------------------------------------
(* Weights.                                                                *)

\* The weight of a set is the sum of those of its members, in any order.
LEMMA WeightAddsUp ==
  ASSUME NEW S, IsFiniteSet(S), NEW w, \A x \in S : w[x] \in Int
  PROVE  /\ WeightOf(w, {}) = 0
         /\ \A T \in SUBSET S : WeightOf(w, T) \in Int
         /\ \A T \in SUBSET S : \A x \in T : WeightOf(w, T) = w[x] + WeightOf(w, T \ {x})
<1>1. PICK c : c = [s \in SUBSET S |-> CHOOSE x \in s : TRUE]
  OBVIOUS
<1>2. Picks(c, S)
  BY <1>1 DEF Picks
<1>3. PICK f \in [SUBSET S -> Int] : SumsUp(f, S, w, c)
  BY <1>2, SumIsDefined
<1>4. f[{}] = 0
  BY <1>3 DEF SumsUp
<1>9. \A s \in SUBSET S : s # {} => f[s] = w[c[s]] + f[s \ {c[s]}]
  BY <1>3 DEF SumsUp
<1>5. ASSUME NEW T \in SUBSET S PROVE WeightOf(w, T) = f[T]
  <2>1. PICK it :
          /\ it = CHOOSE g : g = [s \in SUBSET T |-> IF s = {} THEN 0
                                    ELSE w[CHOOSE x \in s : TRUE] + g[s \ {CHOOSE x \in s : TRUE}]]
          /\ WeightOf(w, T) = it[T]
    BY DEF WeightOf, MapThenSumSet, MapThenFoldSet
  <2>2. PICK e : e = [s \in SUBSET T |-> f[s]]
    OBVIOUS
  <2>3. e = [s \in SUBSET T |-> IF s = {} THEN 0
                ELSE w[CHOOSE x \in s : TRUE] + e[s \ {CHOOSE x \in s : TRUE}]]
    <3>1. ASSUME NEW s \in SUBSET T
          PROVE  f[s] = (IF s = {} THEN 0
                         ELSE w[CHOOSE x \in s : TRUE] + e[s \ {CHOOSE x \in s : TRUE}])
      <4>1. CASE s = {}
        BY <4>1, <1>4
      <4>2. CASE s # {}
        <5>1. c[s] = (CHOOSE x \in s : TRUE) /\ f[s] = w[c[s]] + f[s \ {c[s]}]
          BY <1>1, <1>9, <4>2
        <5>2. f[s \ {c[s]}] = e[s \ {c[s]}]
          BY <2>2
        <5> QED  BY <4>2, <5>1, <5>2
      <4> QED  BY <4>1, <4>2
    <3> QED  BY <2>2, <3>1
  <2>4. it = [s \in SUBSET T |-> IF s = {} THEN 0
                ELSE w[CHOOSE x \in s : TRUE] + it[s \ {CHOOSE x \in s : TRUE}]]
    <3>1. \E g : g = [s \in SUBSET T |-> IF s = {} THEN 0
                         ELSE w[CHOOSE x \in s : TRUE] + g[s \ {CHOOSE x \in s : TRUE}]]
      BY <2>3
    <3>2. it = CHOOSE g : g = [s \in SUBSET T |-> IF s = {} THEN 0
                         ELSE w[CHOOSE x \in s : TRUE] + g[s \ {CHOOSE x \in s : TRUE}]]
      BY <2>1
    <3> QED  BY <3>1, <3>2
  <2>5. SumsUp(it, T, w, c)
    <3>1. \A s \in SUBSET T : s # {} => c[s] = (CHOOSE x \in s : TRUE)
      BY <1>1
    <3>2. \A s \in SUBSET T : s # {} => it[s] = w[c[s]] + it[s \ {c[s]}]
      BY <2>4, <3>1
    <3>3. it[{}] = 0
      BY <2>4
    <3> QED  BY <3>2, <3>3 DEF SumsUp
  <2>6. IsFiniteSet(T)
    BY FS_Subset
  <2>7. Picks(c, T) /\ SumsUp(f, T, w, c)
    BY <1>2, <1>4, <1>9 DEF Picks, SumsUp
  <2>8. \A s \in SUBSET T : it[s] = f[s]
    BY <2>5, <2>6, <2>7, SumsAgree
  <2> QED  BY <2>1, <2>8
<1>6. \A T \in SUBSET S : \A x \in T : f[T] = w[x] + f[T \ {x}]
  <2>1. OrderIsFree(f, S, w)
    BY <1>2, <1>3, SumInAnyOrder
  <2> QED  BY <2>1 DEF OrderIsFree
<1>7. WeightOf(w, {}) = 0 /\ \A T \in SUBSET S : WeightOf(w, T) \in Int
  BY <1>4, <1>5
<1>8. ASSUME NEW T \in SUBSET S, NEW x \in T
      PROVE  WeightOf(w, T) = w[x] + WeightOf(w, T \ {x})
  <2>1. T \ {x} \in SUBSET S
    OBVIOUS
  <2>2. WeightOf(w, T \ {x}) = f[T \ {x}]
    BY <1>5, <2>1
  <2> QED  BY <1>5, <1>6, <2>2
<1> QED  BY <1>7, <1>8

\* A member more.
LEMMA WeightGrows ==
  ASSUME NEW S, IsFiniteSet(S), NEW w, \A x \in S : w[x] \in Int,
         NEW T \in SUBSET S, NEW x \in S \ T
  PROVE  WeightOf(w, T \cup {x}) = w[x] + WeightOf(w, T)
<1>1. T \cup {x} \in SUBSET S /\ x \in T \cup {x} /\ (T \cup {x}) \ {x} = T
  OBVIOUS
<1>2. WeightOf(w, T \cup {x}) = w[x] + WeightOf(w, (T \cup {x}) \ {x})
  BY <1>1, WeightAddsUp
<1> QED  BY <1>1, <1>2

\* What is no more for each, up to factors, is no more for all.
LEMMA WeightCompares ==
  ASSUME NEW S, IsFiniteSet(S), NEW u, NEW w, NEW j \in Nat, NEW k \in Nat,
         \A x \in S : u[x] \in Int /\ w[x] \in Int /\ j * u[x] <= k * w[x]
  PROVE  j * WeightOf(u, S) <= k * WeightOf(w, S)
<1> DEFINE G == {T \in SUBSET S : j * WeightOf(u, T) <= k * WeightOf(w, T)}
<1>1. {} \in G
  <2>1. WeightOf(u, {}) = 0 /\ WeightOf(w, {}) = 0
    BY WeightAddsUp
  <2> QED  BY <2>1
<1>2. ASSUME NEW T \in SUBSET S, NEW x \in S \ T, T \in G PROVE T \cup {x} \in G
  <2>1. PICK a, b, c, d : a = u[x] /\ b = WeightOf(u, T) /\ c = w[x] /\ d = WeightOf(w, T)
    OBVIOUS
  <2>2. WeightOf(u, T \cup {x}) = a + b
    BY <2>1, WeightGrows
  <2>3. WeightOf(w, T \cup {x}) = c + d
    BY <2>1, WeightGrows
  <2>4. WeightOf(u, T) \in Int /\ WeightOf(w, T) \in Int
    BY WeightAddsUp
  <2>5. a \in Int /\ b \in Int /\ c \in Int /\ d \in Int /\ j * a <= k * c /\ j * b <= k * d
    BY <1>2, <2>1, <2>4
  <2>6. j * (a + b) = j * a + j * b /\ k * (c + d) = k * c + k * d
    BY <2>5
  <2>7. j * (a + b) <= k * (c + d)
    <3>1. PICK p, q, r, s : p = j * a /\ q = j * b /\ r = k * c /\ s = k * d
      OBVIOUS
    <3>2. p \in Int /\ q \in Int /\ r \in Int /\ s \in Int
      BY <2>5, <3>1
    <3>3. p + q <= r + s
      BY <2>5, <3>1, <3>2
    <3> QED  BY <2>6, <3>1, <3>3
  <2>8. T \cup {x} \in SUBSET S
    OBVIOUS
  <2> QED  BY <2>2, <2>3, <2>7, <2>8
<1>3. SUBSET S \subseteq G
  <2>1. \A T \in SUBSET S : \A x \in S \ T : T \in G => T \cup {x} \in G
    BY <1>2
  <2> HIDE DEF G
  <2> QED  BY <1>1, <2>1, SubsetInduction
<1> QED  BY <1>3

\* Two disjoint sets weigh what both do.
LEMMA WeightOfBoth ==
  ASSUME NEW S, IsFiniteSet(S), NEW w, \A x \in S : w[x] \in Int,
         NEW A \in SUBSET S, NEW B \in SUBSET S, A \cap B = {}
  PROVE  WeightOf(w, A \cup B) = WeightOf(w, A) + WeightOf(w, B)
<1> DEFINE G == {T \in SUBSET S : A \cap T = {} =>
                   WeightOf(w, A \cup T) = WeightOf(w, A) + WeightOf(w, T)}
<1>1. {} \in G
  <2>1. WeightOf(w, {}) = 0 /\ WeightOf(w, A) \in Int /\ A \cup {} = A
    BY WeightAddsUp
  <2> QED  BY <2>1
<1>2. ASSUME NEW T \in SUBSET S, NEW x \in S \ T, T \in G PROVE T \cup {x} \in G
  <2> SUFFICES ASSUME A \cap (T \cup {x}) = {}
               PROVE  WeightOf(w, A \cup (T \cup {x})) = WeightOf(w, A) + WeightOf(w, T \cup {x})
    OBVIOUS
  <2>1. /\ A \cup T \in SUBSET S /\ x \in S \ (A \cup T) /\ A \cap T = {}
        /\ A \cup (T \cup {x}) = (A \cup T) \cup {x}
    OBVIOUS
  <2>2. WeightOf(w, (A \cup T) \cup {x}) = w[x] + WeightOf(w, A \cup T)
    BY <2>1, WeightGrows
  <2>3. WeightOf(w, T \cup {x}) = w[x] + WeightOf(w, T)
    BY <2>1, WeightGrows
  <2>4. WeightOf(w, A) \in Int /\ WeightOf(w, T) \in Int /\ w[x] \in Int
    BY <2>1, WeightAddsUp
  <2>5. w[x] + (WeightOf(w, A) + WeightOf(w, T)) = WeightOf(w, A) + (w[x] + WeightOf(w, T))
    BY <2>4
  <2> QED  BY <1>2, <2>1, <2>2, <2>3, <2>5
<1>3. SUBSET S \subseteq G
  <2>1. \A T \in SUBSET S : \A x \in S \ T : T \in G => T \cup {x} \in G
    BY <1>2
  <2> HIDE DEF G
  <2> QED  BY <1>1, <2>1, SubsetInduction
<1>4. B \in G
  BY <1>3
<1> QED  BY <1>4

\* A part of what weighs something weighs no more.
LEMMA PartWeighsLess ==
  ASSUME NEW S, IsFiniteSet(S), NEW w, \A x \in S : w[x] \in Nat, NEW A \in SUBSET S
  PROVE  WeightOf(w, A) \in Nat /\ WeightOf(w, A) <= WeightOf(w, S)
<1> DEFINE G == {T \in SUBSET S : WeightOf(w, T) \in Nat}
<1>1. {} \in G
  BY WeightAddsUp
<1>2. ASSUME NEW T \in SUBSET S, NEW x \in S \ T, T \in G PROVE T \cup {x} \in G
  <2>1. WeightOf(w, T \cup {x}) = w[x] + WeightOf(w, T)
    BY WeightGrows
  <2> QED  BY <1>2, <2>1
<1>3. SUBSET S \subseteq G
  <2>1. \A T \in SUBSET S : \A x \in S \ T : T \in G => T \cup {x} \in G
    BY <1>2
  <2> HIDE DEF G
  <2> QED  BY <1>1, <2>1, SubsetInduction
<1>4. WeightOf(w, A) \in Nat /\ WeightOf(w, S \ A) \in Nat
  BY <1>3
<1>5. WeightOf(w, A \cup (S \ A)) = WeightOf(w, A) + WeightOf(w, S \ A)
  <2>1. S \ A \in SUBSET S /\ A \cap (S \ A) = {}
    OBVIOUS
  <2> QED  BY <2>1, WeightOfBoth
<1>6. A \cup (S \ A) = S
  OBVIOUS
<1>7. WeightOf(w, S) = WeightOf(w, A) + WeightOf(w, S \ A)
  BY <1>5, <1>6
<1> QED  BY <1>4, <1>7

-----------------------------------------------------------------------------
(* The universe and what is selected of it.                                *)

LEMMA UniverseIsFinite == IsFiniteSet(All)
<1>1. PICK n : n = Len(Tradables)
  OBVIOUS
<1>2. n \in Nat /\ DOMAIN Tradables = 1..n
  BY <1>1, LenProperties, SizingAssumption
<1>3. IsFiniteSet(1..n)
  BY <1>2, FS_Interval
<1>4. Tradables \in [1..n -> All] /\ \A s \in All : \E k \in 1..n : Tradables[k] = s
  <2>1. \A k \in 1..n : Tradables[k] \in All
    BY <1>2 DEF All, Range
  <2>2. Tradables = [k \in 1..n |-> Tradables[k]]
    BY <1>1, <1>2, SizingAssumption
  <2>3. \A s \in All : \E k \in 1..n : Tradables[k] = s
    BY <1>2 DEF All, Range
  <2> QED  BY <2>1, <2>2, <2>3
<1>5. Tradables \in Surjection(1..n, All)
  BY <1>4 DEF Surjection
<1> QED  BY <1>3, <1>5, FS_Surjection

LEMMA PositionInUniverse ==
  ASSUME NEW s \in All
  PROVE  Position(s) \in Nat /\ Tradables[Position(s)] = s
<1>1. DOMAIN Tradables \subseteq Nat
  BY LenProperties, SizingAssumption
<1>2. \E k \in DOMAIN Tradables : Tradables[k] = s
  BY DEF All, Range
<1> QED  BY <1>1, <1>2 DEF Position

\* The ranking, as a relation.
Better(m, S) ==
  {pair \in S \X S : \/ m.score[pair[1]] > m.score[pair[2]]
                     \/ /\ m.score[pair[1]] = m.score[pair[2]]
                        /\ Position(pair[1]) < Position(pair[2])}

LEMMA RankingIsStrict ==
  ASSUME NEW m \in Markets, NEW S \in SUBSET All
  PROVE  StrictOrder(S, Better(m, S))
<1>1. \A s \in S : m.score[s] \in Int /\ Position(s) \in Nat /\ Tradables[Position(s)] = s
  BY SizingAssumption, PositionInUniverse
<1>2. \A s, t \in S : <<s, t>> \in Better(m, S) <=>
        \/ m.score[s] > m.score[t]
        \/ m.score[s] = m.score[t] /\ Position(s) < Position(t)
  <2> SUFFICES ASSUME NEW s \in S, NEW t \in S
               PROVE  <<s, t>> \in Better(m, S) <=>
                        \/ m.score[s] > m.score[t]
                        \/ m.score[s] = m.score[t] /\ Position(s) < Position(t)
    OBVIOUS
  <2>1. <<s, t>> \in S \X S /\ <<s, t>>[1] = s /\ <<s, t>>[2] = t
    OBVIOUS
  <2> QED  BY <2>1 DEF Better
<1>3. \A s, t \in S : s # t => Position(s) # Position(t)
  BY <1>1
<1> QED  BY <1>1, <1>2, <1>3 DEF StrictOrder

\* No more are selected than there are slots.
LEMMA SelectedFits ==
  ASSUME NEW m \in Markets, NEW S \in SUBSET All, Cardinality(Open) \in Nat
  PROVE  /\ Selected(m, S) \subseteq S
         /\ IsFiniteSet(Selected(m, S))
         /\ Cardinality(Selected(m, S)) \in Nat
         /\ Cardinality(Selected(m, S)) <= GreaterOf(0, TopN - Cardinality(Open))
<1>1. PICK ranked : ranked = InOrder(S, Better(m, S))
  OBVIOUS
<1>2. IsFiniteSet(S)
  BY UniverseIsFinite, FS_Subset
<1>3. Cardinality(S) \in Nat /\ \A k \in 1..Cardinality(S) : ranked[k] \in S
  BY <1>1, <1>2, RankingIsStrict, ListedIsMember
<1>4. PICK slots : slots = GreaterOf(0, TopN - Cardinality(Open))
  OBVIOUS
<1>5. PICK n : n = LesserOf(Cardinality(S), slots)
  OBVIOUS
<1>6. slots \in Nat /\ n \in Nat /\ n <= slots /\ n <= Cardinality(S)
  BY <1>3, <1>4, <1>5, SizingAssumption DEF GreaterOf, LesserOf
<1>7. PICK chosen : chosen = {ranked[k] : k \in 1..n}
  OBVIOUS
<1>8. Selected(m, S) = chosen
  BY <1>1, <1>4, <1>5, <1>7 DEF Selected, Better
<1>9. chosen \subseteq S
  BY <1>3, <1>6, <1>7
<1>10. PICK g : g = [k \in 1..n |-> ranked[k]]
  OBVIOUS
<1>11. g \in Surjection(1..n, chosen)
  BY <1>7, <1>10 DEF Surjection
<1>12. IsFiniteSet(1..n) /\ Cardinality(1..n) = n
  BY <1>6, FS_Interval
<1>13. IsFiniteSet(chosen) /\ Cardinality(chosen) <= n
  BY <1>11, <1>12, FS_Surjection
<1>14. Cardinality(chosen) \in Nat
  BY <1>13, FS_CardinalityType
<1> QED  BY <1>4, <1>6, <1>8, <1>9, <1>13, <1>14

-----------------------------------------------------------------------------
(* Sizes.                                                                  *)

LEMMA Quotient ==
  ASSUME NEW a \in Nat, NEW c \in Nat, c > 0
  PROVE  a \div c \in Nat /\ c * (a \div c) <= a
OBVIOUS

\* Shares of an amount, in proportion to the parts, do not exceed it together.
LEMMA SharesFit ==
  ASSUME NEW S, IsFiniteSet(S), NEW parts, NEW shares, NEW amount \in Nat, NEW whole \in Nat,
         \A s \in S : parts[s] \in Nat /\ shares[s] \in Nat
                      /\ whole * shares[s] <= amount * parts[s],
         whole = WeightOf(parts, S), whole > 0
  PROVE  WeightOf(shares, S) <= amount
<1>1. whole * WeightOf(shares, S) <= amount * whole
  <2>1. \A s \in S : shares[s] \in Int /\ parts[s] \in Int
                     /\ whole * shares[s] <= amount * parts[s]
    OBVIOUS
  <2> QED  BY <2>1, WeightCompares
<1>2. PICK x : x = WeightOf(shares, S)
  OBVIOUS
<1>3. x \in Nat
  BY <1>2, PartWeighsLess
<1>4. ASSUME x > amount PROVE FALSE
  <2>1. x - amount > 0 /\ x - amount \in Nat
    BY <1>3, <1>4
  <2>2. whole * (x - amount) > 0
    BY <2>1
  <2>3. whole * (x - amount) = whole * x - amount * whole
    BY <1>3
  <2>4. PICK p, q : p = whole * x /\ q = amount * whole
    OBVIOUS
  <2>5. p \in Int /\ q \in Int /\ p <= q /\ p - q > 0
    BY <1>1, <1>2, <1>3, <2>2, <2>3, <2>4
  <2> QED  BY <2>5
<1> QED  BY <1>2, <1>3, <1>4

BookInv ==
  /\ DOMAIN book \in SUBSET (All \cup Snipes) /\ book \in [DOMAIN book -> Nat]
  /\ DOMAIN orphans \in SUBSET Stocks /\ orphans \in [DOMAIN orphans -> Nat]
  /\ sizedIn \in SUBSET DOMAIN book
  /\ BookWithinCaps

\* What the reserve and the open positions leave.
Available == GreaterOf(0, 1000 - CashReserve - WeightOf(book, Open))

LEMMA BookFacts ==
  ASSUME BookInv
  PROVE  /\ Open = DOMAIN book /\ IsFiniteSet(Open) /\ Cardinality(Open) \in Nat
         /\ \A P \in SUBSET Open : WeightOf(book, P) \in Nat
         /\ Memecoins(Open) \subseteq Open
         /\ Available \in Nat /\ MemecoinRoom \in Nat
         /\ {TopN, SingleCap, MemecoinCap, 1000 - CashReserve, 100 + MaxSlippage} \subseteq Nat
<1>1. PICK D : D = DOMAIN book
  OBVIOUS
<1>2. D \in SUBSET (All \cup Snipes) /\ \A s \in D : book[s] \in Nat
  BY <1>1 DEF BookInv
<1>3. IsFiniteSet(D)
  <2>1. IsFiniteSet(Snipes)
    BY SizingAssumption
  <2>2. IsFiniteSet(All \cup Snipes)
    BY <2>1, UniverseIsFinite, FS_Union
  <2> QED  BY <1>2, <2>2, FS_Subset
<1>4. Cardinality(D) \in Nat
  BY <1>3, FS_CardinalityType
<1>5. Memecoins(D) \in SUBSET D
  BY DEF Memecoins
<1>6. \A P \in SUBSET D : WeightOf(book, P) \in Nat
  BY <1>2, <1>3, PartWeighsLess
<1>7. PICK x, y : x = WeightOf(book, D) /\ y = WeightOf(book, Memecoins(D))
  OBVIOUS
<1>8. {TopN, SingleCap, MemecoinCap, CashReserve, MaxSlippage} \subseteq Nat /\ CashReserve <= 1000
  BY SizingAssumption
<1>9. x \in Nat /\ y \in Nat
  BY <1>5, <1>6, <1>7
<1>10. /\ Available = GreaterOf(0, 1000 - CashReserve - x)
       /\ MemecoinRoom = GreaterOf(0, MemecoinCap - y)
  BY <1>1, <1>7 DEF Available, MemecoinRoom, Open
<1>11. Available \in Nat /\ MemecoinRoom \in Nat
  BY <1>8, <1>9, <1>10 DEF GreaterOf
<1> QED  BY <1>1, <1>3, <1>4, <1>5, <1>6, <1>8, <1>11 DEF Open

\* The sizes of a pass keep every cap beside the open book.
LEMMA SizesFit ==
  ASSUME BookInv, NEW m \in Markets, NEW S \in SUBSET All, NEW sized, sized = SizePositions(m, S)
  PROVE  /\ DOMAIN sized = Selected(m, S)
         /\ \A s \in DOMAIN sized : sized[s] \in Nat /\ sized[s] <= SingleCap
         /\ WeightOf(sized, DOMAIN sized) <= Available
         /\ WeightOf(sized, Memecoins(DOMAIN sized)) <= MemecoinRoom
<1>1. PICK chosen, available, room : chosen = Selected(m, S) /\ available = Available
                                     /\ room = MemecoinRoom
  OBVIOUS
<1>2. PICK rawSum : rawSum = WeightOf(m.raw, chosen)
  OBVIOUS
<1>3. PICK capped : capped = [s \in chosen |-> IF rawSum = 0 THEN 0
                                ELSE LesserOf(SingleCap, (m.raw[s] * available) \div rawSum)]
  OBVIOUS
<1>4. PICK coins : coins = Memecoins(chosen)
  OBVIOUS
<1>5. PICK fresh : fresh = WeightOf(capped, coins)
  OBVIOUS
<1>6. sized = [s \in chosen |-> IF s \in coins /\ fresh > room
                 THEN (capped[s] * room) \div fresh ELSE capped[s]]
  BY <1>1, <1>2, <1>3, <1>4, <1>5 DEF SizePositions, Available
<1>7. /\ IsFiniteSet(chosen) /\ chosen \in SUBSET All
      /\ available \in Nat /\ room \in Nat /\ SingleCap \in Nat
  BY <1>1, BookFacts, SelectedFits, SizingAssumption
<1>8. IsFiniteSet(coins) /\ coins \in SUBSET chosen
  <2>1. coins \in SUBSET chosen
    BY <1>4 DEF Memecoins
  <2> QED  BY <1>7, <2>1, FS_Subset
<1>9. \A s \in chosen : m.raw[s] \in Nat
  BY <1>7, SizingAssumption
<1>10. rawSum \in Nat
  BY <1>2, <1>7, <1>9, PartWeighsLess
<1>11. ASSUME NEW s \in chosen
       PROVE  capped[s] \in Nat /\ capped[s] <= SingleCap /\ rawSum * capped[s] <= available * m.raw[s]
  <2>1. CASE rawSum = 0
    <3>1. capped[s] = 0 /\ m.raw[s] \in Nat
      BY <1>3, <1>9, <2>1
    <3>2. available * m.raw[s] \in Nat
      BY <1>7, <3>1
    <3> QED  BY <1>7, <2>1, <3>1, <3>2
  <2>2. CASE rawSum # 0
    <3>1. PICK a : a = m.raw[s] * available
      OBVIOUS
    <3>2. a \in Nat /\ a = available * m.raw[s]
      BY <1>7, <1>9, <3>1
    <3>3. PICK q : q = a \div rawSum
      OBVIOUS
    <3>4. q \in Nat /\ rawSum * q <= a
      BY <1>10, <2>2, <3>2, <3>3, Quotient
    <3>5. capped[s] = LesserOf(SingleCap, q)
      BY <1>3, <2>2, <3>1, <3>3
    <3>6. capped[s] \in Nat /\ capped[s] <= SingleCap /\ capped[s] <= q
      BY <1>7, <3>4, <3>5 DEF LesserOf
    <3>7. rawSum * capped[s] <= rawSum * q
      BY <1>10, <3>4, <3>6
    <3>8. PICK p, r : p = rawSum * capped[s] /\ r = rawSum * q
      OBVIOUS
    <3>9. p \in Int /\ r \in Int
      BY <1>10, <3>4, <3>6, <3>8
    <3> QED  BY <3>2, <3>4, <3>6, <3>7, <3>8, <3>9
  <2> QED  BY <2>1, <2>2
<1>12. WeightOf(capped, chosen) <= available
  <2>1. CASE rawSum = 0
    <3>1. \A s \in chosen : capped[s] = 0
      BY <1>3, <2>1
    <3>2. PICK none : none = [s \in chosen |-> 0]
      OBVIOUS
    <3>3. \A s \in chosen : none[s] \in Int /\ capped[s] \in Int /\ 1 * capped[s] <= 0 * none[s]
      BY <3>1, <3>2
    <3>4. 1 * WeightOf(capped, chosen) <= 0 * WeightOf(none, chosen)
      BY <1>7, <3>3, WeightCompares
    <3>5. WeightOf(capped, chosen) \in Int /\ WeightOf(none, chosen) \in Int
      BY <1>7, <3>3, WeightAddsUp
    <3> QED  BY <1>7, <3>4, <3>5
  <2>2. CASE rawSum # 0
    <3>1. rawSum > 0
      BY <1>10, <2>2
    <3> QED  BY <1>2, <1>7, <1>9, <1>10, <1>11, <3>1, SharesFit
  <2> QED  BY <2>1, <2>2
<1>13. fresh \in Nat /\ fresh <= WeightOf(capped, chosen)
  BY <1>5, <1>7, <1>8, <1>11, PartWeighsLess
<1>14. ASSUME NEW s \in chosen
       PROVE  /\ sized[s] \in Nat /\ sized[s] <= capped[s]
              /\ s \in coins /\ fresh > room => fresh * sized[s] <= room * capped[s]
  <2>1. CASE s \in coins /\ fresh > room
    <3>1. PICK a : a = capped[s] * room
      OBVIOUS
    <3>2. a \in Nat /\ a = room * capped[s]
      BY <1>7, <1>11, <3>1
    <3>3. sized[s] = a \div fresh
      BY <1>6, <2>1, <3>1
    <3>4. sized[s] \in Nat /\ fresh * sized[s] <= a
      BY <1>7, <1>13, <2>1, <3>2, <3>3, Quotient
    <3>5. sized[s] <= capped[s]
      <4>1. PICK x, c : x = sized[s] /\ c = capped[s]
        OBVIOUS
      <4>2. x \in Nat /\ c \in Nat /\ fresh * x <= room * c
        BY <1>11, <3>2, <3>4, <4>1
      <4>3. ASSUME x > c PROVE FALSE
        <5>1. fresh * x >= fresh * (c + 1)
          BY <1>13, <4>2, <4>3
        <5>2. fresh * (c + 1) = fresh * c + fresh
          BY <1>13, <4>2
        <5>3. fresh * c >= room * c
          BY <1>7, <1>13, <2>1, <4>2
        <5>4. PICK p, q, r, t : p = fresh * x /\ q = fresh * (c + 1) /\ r = fresh * c /\ t = room * c
          OBVIOUS
        <5>5. p \in Int /\ q \in Int /\ r \in Int /\ t \in Int
          BY <1>7, <1>13, <4>2, <5>4
        <5> QED  BY <1>7, <1>13, <2>1, <4>2, <5>1, <5>2, <5>3, <5>4, <5>5
      <4> QED  BY <4>1, <4>2, <4>3
    <3> QED  BY <3>2, <3>4, <3>5
  <2>2. CASE ~(s \in coins /\ fresh > room)
    <3>1. sized[s] = capped[s]
      BY <1>6, <2>2
    <3> QED  BY <1>11, <2>2, <3>1
  <2> QED  BY <2>1, <2>2
<1>15. /\ DOMAIN sized = chosen
       /\ \A s \in chosen : sized[s] \in Nat /\ sized[s] <= SingleCap
  <2>1. DOMAIN sized = chosen
    BY <1>6
  <2> QED  BY <1>7, <1>11, <1>14, <2>1
<1>16. WeightOf(sized, chosen) <= available
  <2>1. \A s \in chosen : sized[s] \in Int /\ capped[s] \in Int /\ 1 * sized[s] <= 1 * capped[s]
    BY <1>11, <1>14
  <2>2. 1 * WeightOf(sized, chosen) <= 1 * WeightOf(capped, chosen)
    BY <1>7, <2>1, WeightCompares
  <2>3. WeightOf(sized, chosen) \in Int /\ WeightOf(capped, chosen) \in Int
    BY <1>7, <2>1, WeightAddsUp
  <2> QED  BY <1>7, <1>12, <2>2, <2>3
<1>17. WeightOf(sized, coins) <= room
  <2>1. CASE fresh > room
    <3>1. \A s \in coins : capped[s] \in Nat /\ sized[s] \in Nat /\ fresh * sized[s] <= room * capped[s]
      BY <1>8, <1>11, <1>14, <2>1
    <3>2. fresh > 0
      BY <1>7, <1>13, <2>1
    <3> QED  BY <1>5, <1>7, <1>8, <1>13, <3>1, <3>2, SharesFit
  <2>2. CASE ~(fresh > room)
    <3>1. \A s \in coins : sized[s] \in Int /\ capped[s] \in Int /\ 1 * sized[s] <= 1 * capped[s]
      BY <1>8, <1>11, <1>14
    <3>2. 1 * WeightOf(sized, coins) <= 1 * WeightOf(capped, coins)
      BY <1>8, <3>1, WeightCompares
    <3>3. WeightOf(sized, coins) \in Int
      BY <1>8, <3>1, WeightAddsUp
    <3> QED  BY <1>5, <1>7, <1>13, <2>2, <3>2, <3>3
  <2> QED  BY <2>1, <2>2
<1> QED  BY <1>1, <1>4, <1>15, <1>16, <1>17

-----------------------------------------------------------------------------
(* The correlation check.                                                  *)

Above(m, S) ==
  {p \in S \X S : /\ Position(p[1]) < Position(p[2])
                  /\ m.correlation[{p[1], p[2]}] > Threshold}
MoreCorrelated(m, S) ==
  {pq \in Above(m, S) \X Above(m, S) :
     LET p == pq[1]  q == pq[2]
         c == m.correlation[{p[1], p[2]}]
         d == m.correlation[{q[1], q[2]}] IN
     \/ c > d
     \/ c = d /\ Position(p[1]) < Position(q[1])
     \/ c = d /\ p[1] = q[1] /\ Position(p[2]) < Position(q[2])}

LEMMA PairsAreStrict ==
  ASSUME NEW m \in Markets, NEW S \in SUBSET All
  PROVE  StrictOrder(Above(m, S), MoreCorrelated(m, S))
<1>1. PICK A : A = Above(m, S)
  OBVIOUS
<1>2. PICK c, x, y : /\ c = [p \in A |-> m.correlation[{p[1], p[2]}]]
                     /\ x = [p \in A |-> Position(p[1])] /\ y = [p \in A |-> Position(p[2])]
  OBVIOUS
<1>3. ASSUME NEW p \in A
      PROVE  /\ p = <<p[1], p[2]>> /\ p[1] \in All /\ p[2] \in All
             /\ c[p] \in Int /\ x[p] \in Nat /\ y[p] \in Nat
             /\ p[1] = Tradables[x[p]] /\ p[2] = Tradables[y[p]]
  <2>1. p = <<p[1], p[2]>> /\ p[1] \in All /\ p[2] \in All
    BY <1>1 DEF Above
  <2>2. m.correlation[{p[1], p[2]}] \in Nat
    BY <2>1, SizingAssumption
  <2> QED  BY <1>2, <2>1, <2>2, PositionInUniverse
<1>4. \A p, q \in A : p[1] = q[1] <=> x[p] = x[q]
  <2> SUFFICES ASSUME NEW p \in A, NEW q \in A PROVE p[1] = q[1] <=> x[p] = x[q]
    OBVIOUS
  <2>1. x[p] = Position(p[1]) /\ x[q] = Position(q[1])
    BY <1>2
  <2> QED  BY <1>3, <2>1
<1>5. \A p, q \in A : x[p] = x[q] /\ y[p] = y[q] => p = q
  BY <1>3
<1>6. ASSUME NEW p \in A, NEW q \in A
      PROVE  <<p, q>> \in MoreCorrelated(m, S) <=>
               \/ c[p] > c[q]
               \/ c[p] = c[q] /\ x[p] < x[q]
               \/ c[p] = c[q] /\ x[p] = x[q] /\ y[p] < y[q]
  <2>1. PICK pq : pq = <<p, q>>
    OBVIOUS
  <2>2. pq \in Above(m, S) \X Above(m, S) /\ pq[1] = p /\ pq[2] = q
    BY <1>1, <2>1
  <2>3. pq \in MoreCorrelated(m, S) <=>
          \/ m.correlation[{p[1], p[2]}] > m.correlation[{q[1], q[2]}]
          \/ /\ m.correlation[{p[1], p[2]}] = m.correlation[{q[1], q[2]}]
             /\ Position(p[1]) < Position(q[1])
          \/ /\ m.correlation[{p[1], p[2]}] = m.correlation[{q[1], q[2]}]
             /\ p[1] = q[1] /\ Position(p[2]) < Position(q[2])
    BY <2>2 DEF MoreCorrelated
  <2>4. /\ c[p] = m.correlation[{p[1], p[2]}] /\ c[q] = m.correlation[{q[1], q[2]}]
        /\ x[p] = Position(p[1]) /\ x[q] = Position(q[1])
        /\ y[p] = Position(p[2]) /\ y[q] = Position(q[2])
    BY <1>2
  <2> QED  BY <1>4, <2>1, <2>3, <2>4
<1>7. \A p \in A : c[p] \in Int /\ x[p] \in Int /\ y[p] \in Int
  BY <1>3
<1>8. StrictOrder(A, MoreCorrelated(m, S))
  <2>1. \A p \in A : <<p, p>> \notin MoreCorrelated(m, S)
    BY <1>6, <1>7
  <2>2. \A p, q \in A : p # q => \/ <<p, q>> \in MoreCorrelated(m, S)
                                 \/ <<q, p>> \in MoreCorrelated(m, S)
    BY <1>5, <1>6, <1>7
  <2>3. \A p, q, r \in A :
          <<p, q>> \in MoreCorrelated(m, S) /\ <<q, r>> \in MoreCorrelated(m, S)
            => <<p, r>> \in MoreCorrelated(m, S)
    BY <1>6, <1>7
  <2> QED  BY <2>1, <2>2, <2>3 DEF StrictOrder
<1> QED  BY <1>1, <1>8

\* The list has each pair above the threshold.
LEMMA PairsAreListed ==
  ASSUME NEW m \in Markets, NEW S \in SUBSET All
  PROVE  \E n \in Nat :
           /\ DOMAIN Pairs(m, S) = 1..n
           /\ \A k \in 1..n : Pairs(m, S)[k] \in Above(m, S)
           /\ \A p \in Above(m, S) : \E k \in 1..n : Pairs(m, S)[k] = p
<1>1. Pairs(m, S) = InOrder(Above(m, S), MoreCorrelated(m, S))
  BY DEF Pairs, Above, MoreCorrelated
<1>2. IsFiniteSet(Above(m, S))
  <2>1. IsFiniteSet(S)
    BY UniverseIsFinite, FS_Subset
  <2>2. IsFiniteSet(S \X S)
    BY <2>1, FS_Product
  <2>3. Above(m, S) \subseteq S \X S
    BY DEF Above
  <2> QED  BY <2>2, <2>3, FS_Subset
<1>3. PICK n : n = Cardinality(Above(m, S))
  OBVIOUS
<1>4. StrictOrder(Above(m, S), MoreCorrelated(m, S))
  BY PairsAreStrict
<1>5. n \in Nat /\ \A k \in 1..n : Pairs(m, S)[k] \in Above(m, S)
  BY <1>1, <1>2, <1>3, <1>4, ListedIsMember
<1>6. \A p \in Above(m, S) : \E k \in 1..n : Pairs(m, S)[k] = p
  BY <1>1, <1>2, <1>3, <1>4, MemberIsListed
<1>7. DOMAIN Pairs(m, S) = 1..n
  BY <1>1, <1>3 DEF InOrder
<1> QED  BY <1>5, <1>6, <1>7

\* What a pair leaves.
Left(m, left, p) == IF {p[1], p[2]} \subseteq left THEN left \ {Loser(m, p)} ELSE left

Elimination(m, S, q, n, G) ==
  /\ G \in [0..n -> SUBSET S] /\ G[0] = S
  /\ \A k \in 1..n : G[k] = Left(m, G[k - 1], q[k])

LEMMA EliminationSteps ==
  ASSUME NEW m, NEW S, NEW n \in Nat, DOMAIN Pairs(m, S) = 1..n
  PROVE  \E G : Elimination(m, S, Pairs(m, S), n, G) /\ Uncorrelated(m, S) = G[n]
<1>0. PICK D, q : D = 1..n /\ q = Pairs(m, S)
  OBVIOUS
<1>1. Picks([s \in SUBSET D |-> Max(s)], D)
  <2> SUFFICES ASSUME NEW s \in SUBSET D, s # {} PROVE Max(s) \in s
    BY DEF Picks
  <2>1. \A x \in s : x \in 1..n
    BY <1>0
  <2>2. s \subseteq Nat /\ \A x \in s : x <= n
    BY <2>1
  <2> QED  BY <2>2, MaxOf
<1>2. PICK c : c = [s \in SUBSET D |-> Max(s)]
  OBVIOUS
<1>3. PICK h : h = [kl \in D \X SUBSET S |-> Left(m, kl[2], q[kl[1]])]
  OBVIOUS
<1>4. \A k \in D : \A left \in SUBSET S :
        h[<<k, left>>] = Left(m, left, q[k]) /\ h[<<k, left>>] \in SUBSET S
  BY <1>3 DEF Left
<1>5. IsFiniteSet(D)
  BY <1>0, FS_Interval
<1>6. PICK f \in [SUBSET D -> SUBSET S] : FoldsUp(f, D, c, h, S)
  <2>1. S \in SUBSET S
    OBVIOUS
  <2>2. \A s \in SUBSET D : s # {} => c[s] \in s
    BY <1>1, <1>2 DEF Picks
  <2>3. \A k \in D : \A left \in SUBSET S : h[<<k, left>>] \in SUBSET S
    BY <1>4
  <2> QED  BY <1>5, <2>1, <2>2, <2>3, FoldIsDefined
<1>7. f = [s \in SUBSET D |-> IF s = {} THEN S
             ELSE Left(m, f[s \ {Max(s)}], q[Max(s)])]
  <2>1. ASSUME NEW s \in SUBSET D
        PROVE  (IF s = {} THEN S ELSE h[<<c[s], f[s \ {c[s]}]>>])
                 = (IF s = {} THEN S ELSE Left(m, f[s \ {Max(s)}], q[Max(s)]))
    <3>1. CASE s = {}
      BY <3>1
    <3>2. CASE s # {}
      <4>1. c[s] = Max(s) /\ c[s] \in D
        BY <1>1, <1>2, <3>2 DEF Picks
      <4>2. f[s \ {Max(s)}] \in SUBSET S
        OBVIOUS
      <4>3. h[<<Max(s), f[s \ {Max(s)}]>>] = Left(m, f[s \ {Max(s)}], q[Max(s)])
        BY <1>4, <4>1, <4>2
      <4> QED  BY <3>2, <4>1, <4>3
    <3> QED  BY <3>1, <3>2
  <2> QED  BY <1>6, <2>1 DEF FoldsUp
<1>8. PICK it :
        /\ it = CHOOSE g : g = [s \in SUBSET (DOMAIN Pairs(m, S)) |->
                  IF s = {} THEN S
                  ELSE IF {Pairs(m, S)[Max(s)][1], Pairs(m, S)[Max(s)][2]} \subseteq g[s \ {Max(s)}]
                         THEN g[s \ {Max(s)}] \ {Loser(m, Pairs(m, S)[Max(s)])}
                         ELSE g[s \ {Max(s)}]]
        /\ Uncorrelated(m, S) = it[DOMAIN Pairs(m, S)]
  BY DEF Uncorrelated, FoldLeft, MapThenFoldSet
<1>9. it = [s \in SUBSET D |-> IF s = {} THEN S
              ELSE Left(m, it[s \ {Max(s)}], q[Max(s)])]
  <2>1. f = [s \in SUBSET (DOMAIN Pairs(m, S)) |->
               IF s = {} THEN S
               ELSE IF {Pairs(m, S)[Max(s)][1], Pairs(m, S)[Max(s)][2]} \subseteq f[s \ {Max(s)}]
                      THEN f[s \ {Max(s)}] \ {Loser(m, Pairs(m, S)[Max(s)])}
                      ELSE f[s \ {Max(s)}]]
    BY <1>0, <1>7 DEF Left
  <2>2. it = [s \in SUBSET (DOMAIN Pairs(m, S)) |->
               IF s = {} THEN S
               ELSE IF {Pairs(m, S)[Max(s)][1], Pairs(m, S)[Max(s)][2]} \subseteq it[s \ {Max(s)}]
                      THEN it[s \ {Max(s)}] \ {Loser(m, Pairs(m, S)[Max(s)])}
                      ELSE it[s \ {Max(s)}]]
    BY <1>8, <2>1
  <2> QED  BY <1>0, <2>2 DEF Left
<1>10. it[{}] = S
  BY <1>9
<1>11. ASSUME NEW k \in 1..n PROVE it[1..k] = Left(m, it[1..(k - 1)], q[k])
  <2>1. Max(1..k) = k
    <3>1. k \in Nat /\ k >= 1
      OBVIOUS
    <3> QED  BY <3>1, LastOfInterval
  <2>2. (1..k) \ {k} = 1..(k - 1)
    OBVIOUS
  <2>3. 1..k \in SUBSET D /\ 1..k # {}
    <3>1. k \in 1..k /\ \A x \in 1..k : x \in 1..n
      OBVIOUS
    <3> QED  BY <1>0, <3>1
  <2>4. it[1..k] = Left(m, it[(1..k) \ {Max(1..k)}], q[Max(1..k)])
    BY <1>9, <2>3
  <2> QED  BY <2>1, <2>2, <2>4
<1> DEFINE G == [k \in 0..n |-> it[1..k]]
           T == {k \in Nat : k <= n => it[1..k] \in SUBSET S}
<1>12. 1..0 = {}
  OBVIOUS
<1>13. Nat \subseteq T
  <2>1. 0 \in T
    BY <1>10, <1>12
  <2>2. ASSUME NEW k \in Nat, k \in T PROVE k + 1 \in T
    <3>1. CASE k + 1 <= n
      <4>1. PICK j \in 1..n : j = k + 1 /\ j - 1 = k
        BY <3>1
      <4>2. it[1..j] = Left(m, it[1..k], q[j])
        BY <4>1, <1>11
      <4>3. it[1..k] \in SUBSET S
        BY <2>2, <3>1
      <4> QED  BY <4>1, <4>2, <4>3 DEF Left
    <3> QED  BY <3>1
  <2>3. \A k \in Nat : k \in T => k + 1 \in T
    BY <2>2
  <2> HIDE DEF T
  <2> QED  BY <2>1, <2>3, SetInduction
<1>14. G \in [0..n -> SUBSET S]
  BY <1>13
<1>15. G[0] = S /\ G[n] = Uncorrelated(m, S)
  BY <1>0, <1>8, <1>10, <1>12
<1>16. \A k \in 1..n : G[k] = Left(m, G[k - 1], q[k])
  BY <1>11
<1> HIDE DEF G
<1> QED  BY <1>0, <1>14, <1>15, <1>16 DEF Elimination

Rivals(m, S, s) == {t \in S \ {s} : m.correlation[{s, t}] > Threshold}

\* What the check keeps: no two rivals, and whoever beats all of theirs.
LEMMA TheBestSurvive ==
  ASSUME NEW m \in Markets, NEW S \in SUBSET All, NEW left, left = Uncorrelated(m, S)
  PROVE  /\ left \subseteq S
         /\ \A s \in left : Rivals(m, S, s) \cap left = {}
         /\ \A s \in S : (\A t \in Rivals(m, S, s) : m.score[t] < m.score[s]) => s \in left
         /\ S # {} => left # {}
<1>0. PICK q : q = Pairs(m, S)
  OBVIOUS
<1>1. PICK n \in Nat : /\ DOMAIN q = 1..n
                       /\ \A k \in 1..n : q[k] \in Above(m, S)
                       /\ \A p \in Above(m, S) : \E k \in 1..n : q[k] = p
  BY <1>0, PairsAreListed
<1>2. PICK G : Elimination(m, S, q, n, G) /\ left = G[n]
  BY <1>0, <1>1, EliminationSteps
<1>3. /\ \A k \in 0..n : G[k] \subseteq S
      /\ G[0] = S
      /\ \A k \in 1..n : G[k] = Left(m, G[k - 1], q[k])
  BY <1>2 DEF Elimination
<1>4. \A s \in S : m.score[s] \in Int /\ Position(s) \in Nat /\ Tradables[Position(s)] = s
  BY PositionInUniverse, SizingAssumption
<1>5. \A p \in Above(m, S) : /\ p[1] \in S /\ p[2] \in S /\ p[1] # p[2]
                             /\ m.correlation[{p[1], p[2]}] > Threshold
  <2> SUFFICES ASSUME NEW p \in Above(m, S)
               PROVE  /\ p[1] \in S /\ p[2] \in S /\ p[1] # p[2]
                      /\ m.correlation[{p[1], p[2]}] > Threshold
    OBVIOUS
  <2>1. /\ p[1] \in S /\ p[2] \in S /\ Position(p[1]) < Position(p[2])
        /\ m.correlation[{p[1], p[2]}] > Threshold
    BY DEF Above
  <2>2. p[1] # p[2]
    <3> SUFFICES ASSUME p[1] = p[2] PROVE FALSE
      OBVIOUS
    <3>1. Position(p[1]) = Position(p[2]) /\ Position(p[1]) \in Nat
      BY <1>4, <2>1
    <3> QED  BY <2>1, <3>1
  <2> QED  BY <2>1, <2>2
\* Who is out stays out.
<1>6. ASSUME NEW j \in 0..n PROVE left \subseteq G[j]
  <2> DEFINE T == {k \in Nat : j + k <= n => G[j + k] \subseteq G[j]}
  <2>1. 0 \in T
    OBVIOUS
  <2>2. ASSUME NEW k \in Nat, k \in T PROVE k + 1 \in T
    <3> SUFFICES ASSUME j + (k + 1) <= n PROVE G[j + (k + 1)] \subseteq G[j]
      OBVIOUS
    <3>1. PICK i : i = j + (k + 1)
      OBVIOUS
    <3>2. i \in 1..n /\ i - 1 = j + k
      BY <3>1
    <3>3. G[i] = Left(m, G[i - 1], q[i])
      BY <1>3, <3>2
    <3>4. G[i] \subseteq G[j + k]
      BY <3>2, <3>3 DEF Left
    <3>5. G[j + k] \subseteq G[j]
      BY <2>2
    <3> QED  BY <3>1, <3>4, <3>5
  <2>3. n - j \in T
    <3>1. \A k \in Nat : k \in T => k + 1 \in T
      BY <2>2
    <3>2. n - j \in Nat
      OBVIOUS
    <3> HIDE DEF T
    <3> QED  BY <2>1, <3>1, <3>2, SetInduction
  <2>4. j + (n - j) = n
    OBVIOUS
  <2> QED  BY <1>2, <2>3, <2>4
<1>7. ASSUME NEW p \in Above(m, S), p[1] \in left, p[2] \in left PROVE FALSE
  <2>1. PICK k \in 1..n : q[k] = p
    BY <1>1
  <2>2. k \in 0..n /\ k - 1 \in 0..n
    OBVIOUS
  <2>3. p[1] \in G[k] /\ p[2] \in G[k] /\ p[1] \in G[k - 1] /\ p[2] \in G[k - 1]
    BY <1>6, <1>7, <2>2
  <2>4. G[k] = G[k - 1] \ {Loser(m, p)}
    BY <1>3, <2>1, <2>3 DEF Left
  <2>5. Loser(m, p) \in {p[1], p[2]}
    BY DEF Loser
  <2> QED  BY <2>3, <2>4, <2>5
<1>8. left \subseteq S
  BY <1>3, <1>6
<1>9. ASSUME NEW s \in left, NEW t \in Rivals(m, S, s), t \in left PROVE FALSE
  <2>1. s \in S /\ t \in S /\ s # t /\ m.correlation[{s, t}] > Threshold /\ {s, t} = {t, s}
    BY <1>8 DEF Rivals
  <2>2. Position(s) < Position(t) \/ Position(t) < Position(s)
    <3>1. Position(s) # Position(t)
      BY <1>4, <2>1
    <3>2. Position(s) \in Nat /\ Position(t) \in Nat
      BY <1>4, <2>1
    <3> QED  BY <3>1, <3>2
  <2>3. CASE Position(s) < Position(t)
    <3>1. PICK p : p = <<s, t>>
      OBVIOUS
    <3>2. p \in S \X S /\ p[1] = s /\ p[2] = t
      BY <2>1, <3>1
    <3>3. p \in Above(m, S)
      BY <2>1, <2>3, <3>2 DEF Above
    <3> QED  BY <1>7, <1>9, <3>2, <3>3
  <2>4. CASE Position(t) < Position(s)
    <3>1. PICK p : p = <<t, s>>
      OBVIOUS
    <3>2. p \in S \X S /\ p[1] = t /\ p[2] = s
      BY <2>1, <3>1
    <3>3. p \in Above(m, S)
      BY <2>1, <2>4, <3>2 DEF Above
    <3> QED  BY <1>7, <1>9, <3>2, <3>3
  <2> QED  BY <2>2, <2>3, <2>4
<1>10. ASSUME NEW s \in S, \A t \in Rivals(m, S, s) : m.score[t] < m.score[s] PROVE s \in left
  <2> DEFINE T == {k \in Nat : k <= n => s \in G[k]}
  <2>1. 0 \in T
    BY <1>3
  <2>2. ASSUME NEW k \in Nat, k \in T PROVE k + 1 \in T
    <3> SUFFICES ASSUME k + 1 <= n PROVE s \in G[k + 1]
      OBVIOUS
    <3>1. PICK i : i = k + 1
      OBVIOUS
    <3>2. i \in 1..n /\ i - 1 = k /\ s \in G[k]
      BY <2>2, <3>1
    <3>3. PICK p \in Above(m, S) : p = q[i]
      BY <1>1, <3>2
    <3>4. G[i] = Left(m, G[k], p)
      BY <1>3, <3>2, <3>3
    <3>5. s # Loser(m, p)
      <4> SUFFICES ASSUME s = Loser(m, p) PROVE FALSE
        OBVIOUS
      <4>1. /\ p[1] \in S /\ p[2] \in S /\ p[1] # p[2]
            /\ m.correlation[{p[1], p[2]}] > Threshold /\ {p[1], p[2]} = {p[2], p[1]}
        BY <1>5
      <4>2. m.score[p[1]] \in Int /\ m.score[p[2]] \in Int
        BY <1>4, <4>1
      <4>3. CASE m.score[p[1]] < m.score[p[2]]
        <5>1. s = p[1]
          BY <4>3 DEF Loser
        <5>2. p[2] \in Rivals(m, S, s)
          BY <4>1, <5>1 DEF Rivals
        <5> QED  BY <1>10, <4>2, <4>3, <5>1, <5>2
      <4>4. CASE ~(m.score[p[1]] < m.score[p[2]])
        <5>1. s = p[2]
          BY <4>4 DEF Loser
        <5>2. p[1] \in Rivals(m, S, s)
          BY <4>1, <5>1 DEF Rivals
        <5> QED  BY <1>10, <4>4, <5>1, <5>2
      <4> QED  BY <4>3, <4>4
    <3> QED  BY <3>1, <3>2, <3>4, <3>5 DEF Left
  <2>3. \A k \in Nat : k \in T => k + 1 \in T
    BY <2>2
  <2>4. n \in T
    <3> HIDE DEF T
    <3> QED  BY <2>1, <2>3, SetInduction
  <2> QED  BY <1>2, <2>4
\* Whoever goes leaves the other one of the pair.
<1>11. ASSUME S # {} PROVE left # {}
  <2> DEFINE T == {k \in Nat : k <= n => G[k] # {}}
  <2>1. 0 \in T
    BY <1>3, <1>11
  <2>2. ASSUME NEW k \in Nat, k \in T PROVE k + 1 \in T
    <3> SUFFICES ASSUME k + 1 <= n PROVE G[k + 1] # {}
      OBVIOUS
    <3>1. PICK i : i = k + 1
      OBVIOUS
    <3>2. i \in 1..n /\ i - 1 = k /\ G[k] # {}
      BY <2>2, <3>1
    <3>3. PICK p \in Above(m, S) : p = q[i]
      BY <1>1, <3>2
    <3>4. G[i] = Left(m, G[k], p)
      BY <1>3, <3>2, <3>3
    <3>5. p[1] # p[2] /\ Loser(m, p) \in {p[1], p[2]}
      BY <1>5 DEF Loser
    <3> QED  BY <3>1, <3>2, <3>4, <3>5 DEF Left
  <2>3. \A k \in Nat : k \in T => k + 1 \in T
    BY <2>2
  <2>4. n \in T
    <3> HIDE DEF T
    <3> QED  BY <2>1, <2>3, SetInduction
  <2> QED  BY <1>2, <2>4
<1> QED  BY <1>8, <1>9, <1>10, <1>11

-----------------------------------------------------------------------------
(* Passes, and what else opens and closes positions.                       *)

\* A size is booked at no more than the slippage above it.
LEMMA BookedAtSlippage ==
  ASSUME NEW s \in All, NEW size \in Nat, NEW w \in Booking(s, size)
  PROVE  w \in Nat /\ 100 * w <= (100 + MaxSlippage) * size
<1>1. MaxSlippage \in Nat /\ SlippagePct[s] \in 0..MaxSlippage
  BY SizingAssumption
<1>2. PICK most : most = (100 + MaxSlippage) * size
  OBVIOUS
<1>3. most \in Nat /\ 100 * size <= most
  <2>1. MaxSlippage * size \in Nat /\ (100 + MaxSlippage) * size = 100 * size + MaxSlippage * size
    BY <1>1
  <2> QED  BY <1>2, <2>1
<1>4. CASE w = 0
  BY <1>2, <1>3, <1>4
<1>5. CASE w # 0 /\ s \in Stocks
  <2>1. PICK p : p = SharePrice[s]
    OBVIOUS
  <2>2. p \in Nat /\ p > 0
    BY <1>5, <2>1, SizingAssumption
  <2>3. PICK q : q = size \div p
    OBVIOUS
  <2>4. q \in Nat /\ p * q <= size
    BY <2>2, <2>3, Quotient
  <2>5. PICK n \in 1..q : w = n * p
    BY <1>5, <2>1, <2>3 DEF Booking
  <2>6. w \in Nat /\ w <= p * q
    <3>1. n * p <= q * p /\ q * p = p * q
      BY <2>2, <2>4, <2>5
    <3>2. n * p \in Nat
      BY <2>2, <2>4, <2>5
    <3> QED  BY <2>5, <3>1, <3>2
  <2>7. p * q \in Nat
    BY <2>2, <2>4
  <2> QED  BY <1>2, <1>3, <2>4, <2>6, <2>7
<1>6. CASE w # 0 /\ s \notin Stocks
  <2>1. PICK v \in {size, size \div 4} : w = (v * (100 + SlippagePct[s])) \div 100
    BY <1>6 DEF Booking
  <2>2. v \in Nat /\ v <= size
    BY <2>1
  <2>3. PICK a : a = v * (100 + SlippagePct[s])
    OBVIOUS
  <2>4. a \in Nat /\ a <= most
    <3>1. PICK k : k = 100 + SlippagePct[s]
      OBVIOUS
    <3>2. k \in Nat /\ k <= 100 + MaxSlippage
      BY <1>1, <3>1
    <3>3. v * k <= size * k
      BY <2>2, <3>2
    <3>4. size * k <= size * (100 + MaxSlippage)
      BY <1>1, <3>2
    <3>5. v * k \in Nat /\ size * k \in Nat /\ size * (100 + MaxSlippage) = most
      BY <1>1, <1>2, <2>2, <3>2
    <3> QED  BY <1>3, <2>3, <3>1, <3>3, <3>4, <3>5
  <2>5. w \in Nat /\ 100 * w <= a
    BY <2>1, <2>3, <2>4
  <2> QED  BY <1>2, <1>3, <2>4, <2>5
<1> QED  BY <1>4, <1>5, <1>6

\* A set with a member that weighs something weighs something.
LEMMA WeighsSomething ==
  ASSUME NEW S, IsFiniteSet(S), NEW w, \A x \in S : w[x] \in Nat,
         NEW T \in SUBSET S, NEW s \in T, w[s] > 0
  PROVE  WeightOf(w, T) > 0
<1>1. \A x \in S : w[x] \in Int
  OBVIOUS
<1>2. WeightOf(w, T) = w[s] + WeightOf(w, T \ {s})
  BY <1>1, WeightAddsUp
<1>3. WeightOf(w, T \ {s}) \in Nat
  <2>1. T \ {s} \in SUBSET S
    OBVIOUS
  <2> QED  BY <2>1, PartWeighsLess
<1>4. w[s] \in Nat
  OBVIOUS
<1> QED  BY <1>2, <1>3, <1>4

\* What is booked for sizes that fit in the room beside what is held fits in the
\* slipped cap together with it.
LEMMA BookedFits ==
  ASSUME NEW S, IsFiniteSet(S), NEW w, \A s \in S : w[s] \in Nat,
         NEW P \in SUBSET S, NEW Q \in SUBSET S, P \cap Q = {}, Q # {},
         NEW C, IsFiniteSet(C), Q \subseteq C, NEW sized, \A s \in C : sized[s] \in Nat,
         \A s \in Q : w[s] > 0 /\ 100 * w[s] <= (100 + MaxSlippage) * sized[s],
         NEW cap \in Nat, NEW held \in Nat, WeightOf(w, P) <= held,
         WeightOf(sized, C) <= GreaterOf(0, cap - held)
  PROVE  Slipped(WeightOf(w, P \cup Q), cap)
<1>1. PICK k : k = 100 + MaxSlippage
  OBVIOUS
<1>2. k \in Nat /\ k >= 100
  BY <1>1, SizingAssumption
<1>3. PICK x, y, z : x = WeightOf(w, P) /\ y = WeightOf(w, Q) /\ z = WeightOf(sized, C)
  OBVIOUS
<1>4. WeightOf(w, P \cup Q) = x + y
  BY <1>3, WeightOfBoth
<1>5. x \in Nat /\ y \in Nat
  BY <1>3, PartWeighsLess
<1>6. z \in Nat
  BY <1>3, PartWeighsLess
<1>7. 100 * y <= k * z
  <2>1. IsFiniteSet(Q) /\ Q \in SUBSET C
    BY FS_Subset
  <2>2. \A s \in Q : w[s] \in Int /\ sized[s] \in Int /\ 100 * w[s] <= k * sized[s]
    BY <1>1
  <2>3. 100 * y <= k * WeightOf(sized, Q)
    BY <1>2, <1>3, <2>1, <2>2, WeightCompares
  <2>4. PICK u : u = WeightOf(sized, Q)
    OBVIOUS
  <2>5. u \in Nat /\ u <= z
    BY <1>3, <2>1, <2>4, PartWeighsLess
  <2>6. k * u <= k * z /\ k * u \in Nat /\ k * z \in Nat
    BY <1>2, <1>6, <2>5
  <2> QED  BY <1>5, <2>3, <2>4, <2>6
<1>8. y > 0
  <2>1. PICK s \in Q : w[s] > 0
    OBVIOUS
  <2>2. Q \in SUBSET S
    OBVIOUS
  <2>3. WeightOf(w, Q) > 0
    BY <2>1, <2>2, WeighsSomething
  <2> QED  BY <1>3, <2>3
<1>9. z # 0
  <2> SUFFICES ASSUME z = 0 PROVE FALSE
    OBVIOUS
  <2>1. k * z = 0
    BY <1>2
  <2> QED  BY <1>5, <1>7, <1>8, <2>1
<1>10. held + z <= cap
  BY <1>3, <1>6, <1>9 DEF GreaterOf
<1>11. 100 * (x + y) <= k * cap
  <2>1. 100 * x <= k * held
    <3>1. 100 * x <= 100 * held
      BY <1>3, <1>5
    <3>2. 100 * held <= k * held
      BY <1>2
    <3>3. k * held \in Nat
      BY <1>2
    <3> QED  BY <1>5, <3>1, <3>2, <3>3
  <2>2. k * held + k * z = k * (held + z)
    BY <1>2, <1>6
  <2>3. k * (held + z) <= k * cap
    BY <1>2, <1>6, <1>10
  <2>4. PICK p, q, r, t : p = k * held /\ q = k * z /\ r = k * (held + z) /\ t = k * cap
    OBVIOUS
  <2>5. p \in Nat /\ q \in Nat /\ r \in Nat /\ t \in Nat
    BY <1>2, <1>6, <2>4
  <2> QED  BY <1>5, <1>7, <2>1, <2>2, <2>3, <2>4, <2>5
<1> QED  BY <1>1, <1>4, <1>11 DEF Slipped

\* Positions are opened as booked, of the sizes of what the gate has left.
PassBooks(m, S, booked, opened) ==
  /\ booked \in Bookings(SizePositions(m, S))
  /\ opened \subseteq {s \in DOMAIN SizePositions(m, S) : booked[s] > 0}
  /\ book' = [s \in DOMAIN book \cup opened |-> IF s \in opened THEN booked[s] ELSE book[s]]

\* With a part of the book that is within the caps, or as soon as something is
\* opened, what is opened is within them.
PassLeaves(E, opened) ==
  /\ (Slipped(WeightOf(book, E), 1000 - CashReserve) \/ opened # {})
       => Slipped(WeightOf(book', E \cup opened), 1000 - CashReserve)
  /\ (Slipped(WeightOf(book, Memecoins(E)), MemecoinCap) \/ Memecoins(opened) # {})
       => Slipped(WeightOf(book', Memecoins(E \cup opened)), MemecoinCap)
  /\ (Cardinality(E) <= TopN \/ opened # {}) => Cardinality(E \cup opened) <= TopN
  /\ (\A s \in E : Slipped(book[s], SingleCap))
       => \A s \in E \cup opened : Slipped(book'[s], SingleCap)

\* What a pass opens, beside a part of the open positions: the whole of the
\* book is within the caps as soon as something is opened, and a part of it
\* that is within them stays so.
LEMMA PassFits ==
  ASSUME BookInv, NEW m \in Markets, NEW S \in SUBSET (All \ DOMAIN book),
         NEW booked, NEW opened, PassBooks(m, S, booked, opened),
         NEW E \in SUBSET DOMAIN book
  PROVE  /\ DOMAIN book' = DOMAIN book \cup opened /\ DOMAIN book \cap opened = {}
         /\ DOMAIN book' \in SUBSET (All \cup Snipes) /\ book' \in [DOMAIN book' -> Nat]
         /\ PassLeaves(E, opened)
<1>0. PICK sized : sized = SizePositions(m, S)
  OBVIOUS
<1>1. PICK D, b, n : D = DOMAIN book /\ b = book /\ n = book'
  OBVIOUS
<1>2. PICK chosen : chosen = DOMAIN sized
  OBVIOUS
<1>3. /\ chosen = Selected(m, S) /\ chosen \subseteq S
      /\ \A s \in chosen : sized[s] \in Nat /\ sized[s] <= SingleCap
      /\ WeightOf(sized, chosen) <= Available
      /\ WeightOf(sized, Memecoins(chosen)) <= MemecoinRoom
      /\ IsFiniteSet(chosen) /\ Cardinality(chosen) \in Nat
      /\ Cardinality(chosen) <= GreaterOf(0, TopN - Cardinality(D))
  <2>1. S \in SUBSET All /\ Cardinality(Open) \in Nat /\ Open = D
    BY <1>1, BookFacts
  <2> QED  BY <1>0, <1>1, <1>2, <2>1, SizesFit, SelectedFits
<1>4. /\ D \in SUBSET (All \cup Snipes) /\ b \in [D -> Nat] /\ IsFiniteSet(D)
      /\ Cardinality(D) \in Nat /\ \A P \in SUBSET D : WeightOf(b, P) \in Nat
      /\ E \in SUBSET D
      /\ TopN \in Nat /\ SingleCap \in Nat /\ MemecoinCap \in Nat /\ 1000 - CashReserve \in Nat
      /\ MaxSlippage \in Nat
  <2>1. D \in SUBSET (All \cup Snipes) /\ b \in [D -> Nat] /\ E \in SUBSET D
    BY <1>1 DEF BookInv
  <2>2. MaxSlippage \in Nat
    BY SizingAssumption
  <2> QED  BY <1>1, <2>1, <2>2, BookFacts
<1>5. /\ opened \in SUBSET chosen /\ D \cap opened = {} /\ D \cup opened \in SUBSET (All \cup Snipes)
      /\ \A s \in opened : booked[s] > 0
  BY <1>0, <1>1, <1>2, <1>3, <1>4 DEF PassBooks
<1>6. \A s \in chosen : booked[s] \in Nat /\ 100 * booked[s] <= (100 + MaxSlippage) * sized[s]
  <2> SUFFICES ASSUME NEW s \in chosen
               PROVE  booked[s] \in Nat /\ 100 * booked[s] <= (100 + MaxSlippage) * sized[s]
    OBVIOUS
  <2>1. s \in All /\ sized[s] \in Nat /\ booked[s] \in Booking(s, sized[s])
    BY <1>0, <1>2, <1>3 DEF Bookings, PassBooks
  <2> QED  BY <2>1, BookedAtSlippage
<1>7. /\ n \in [D \cup opened -> Nat] /\ DOMAIN n = D \cup opened
      /\ \A s \in D : n[s] = b[s]
      /\ \A s \in opened : n[s] = booked[s]
  <2>1. n = [s \in D \cup opened |-> IF s \in opened THEN booked[s] ELSE b[s]]
    BY <1>1 DEF PassBooks
  <2> QED  BY <1>4, <1>5, <1>6, <2>1
<1>8. PICK U : U = D \cup opened
  OBVIOUS
<1>9. /\ IsFiniteSet(U) /\ IsFiniteSet(opened) /\ D \in SUBSET U /\ opened \in SUBSET U
      /\ \A s \in U : n[s] \in Nat
  <2>1. IsFiniteSet(opened)
    BY <1>3, <1>5, FS_Subset
  <2>2. IsFiniteSet(D \cup opened)
    BY <1>4, <2>1, FS_Union
  <2> QED  BY <1>7, <1>8, <2>1, <2>2
\* What was open weighs what it weighed.
<1>10. ASSUME NEW P \in SUBSET D
       PROVE  WeightOf(n, P) \in Nat /\ WeightOf(n, P) <= WeightOf(b, P)
  <2>1. \A s \in P : n[s] \in Int /\ b[s] \in Int /\ 1 * n[s] <= 1 * b[s]
    BY <1>4, <1>7
  <2>2. IsFiniteSet(P)
    BY <1>4, FS_Subset
  <2>3. 1 * WeightOf(n, P) <= 1 * WeightOf(b, P)
    BY <2>1, <2>2, WeightCompares
  <2>4. WeightOf(b, P) \in Nat
    BY <1>4
  <2>5. P \in SUBSET U
    BY <1>9
  <2>6. WeightOf(n, P) \in Nat
    BY <1>9, <2>5, PartWeighsLess
  <2> QED  BY <2>3, <2>4, <2>6
\* A part P of the open positions, all of their kind being in H, with what is
\* opened of the kind.
<1>11. ASSUME NEW H \in SUBSET D, NEW P \in SUBSET H, NEW Q \in SUBSET opened,
              NEW C \in SUBSET chosen, Q \subseteq C, NEW cap \in Nat,
              WeightOf(sized, C) <= GreaterOf(0, cap - WeightOf(b, H)),
              Slipped(WeightOf(b, P), cap) \/ Q # {}
       PROVE  Slipped(WeightOf(n, P \cup Q), cap)
  <2>1. P \in SUBSET D /\ WeightOf(n, P) \in Nat /\ WeightOf(n, P) <= WeightOf(b, P)
        /\ WeightOf(b, P) \in Nat
    <3>1. P \in SUBSET D
      OBVIOUS
    <3> QED  BY <1>4, <1>10, <3>1
  <2>2. CASE Q = {}
    <3>1. P \cup Q = P /\ Slipped(WeightOf(b, P), cap)
      BY <1>11, <2>2
    <3>2. PICK x, y, z : x = WeightOf(n, P) /\ y = WeightOf(b, P) /\ z = (100 + MaxSlippage) * cap
      OBVIOUS
    <3>3. x \in Nat /\ y \in Nat /\ x <= y /\ z \in Int /\ 100 * y <= z
      BY <1>4, <2>1, <3>1, <3>2 DEF Slipped
    <3>4. 100 * x <= z
      BY <3>3
    <3> QED  BY <3>1, <3>2, <3>4 DEF Slipped
  <2>3. CASE Q # {}
    <3>1. PICK held : held = WeightOf(b, H)
      OBVIOUS
    <3>2. held \in Nat
      BY <1>4, <3>1
    <3>3. WeightOf(n, P) <= held
      <4>1. IsFiniteSet(H) /\ \A s \in H : b[s] \in Nat
        BY <1>4, FS_Subset
      <4>2. WeightOf(b, P) <= held
        BY <3>1, <4>1, PartWeighsLess
      <4> QED  BY <2>1, <3>2, <4>2
    <3>4. /\ P \in SUBSET U /\ Q \in SUBSET U /\ P \cap Q = {} /\ IsFiniteSet(C)
          /\ \A s \in C : sized[s] \in Nat
      <4>1. IsFiniteSet(C)
        BY <1>3, FS_Subset
      <4> QED  BY <1>3, <1>5, <1>9, <4>1
    <3>5. \A s \in Q : n[s] > 0 /\ 100 * n[s] <= (100 + MaxSlippage) * sized[s]
      BY <1>5, <1>6, <1>7
    <3>6. WeightOf(sized, C) <= GreaterOf(0, cap - held)
      BY <1>11, <3>1
    <3> QED  BY <1>9, <1>11, <2>3, <3>2, <3>3, <3>4, <3>5, <3>6, BookedFits
  <2> QED  BY <2>2, <2>3
<1>12. Slipped(WeightOf(b, E), 1000 - CashReserve) \/ opened # {}
         => Slipped(WeightOf(n, E \cup opened), 1000 - CashReserve)
  <2>1. D \in SUBSET D /\ E \in SUBSET D /\ opened \in SUBSET opened /\ chosen \in SUBSET chosen
    BY <1>4
  <2>2. WeightOf(sized, chosen) <= GreaterOf(0, 1000 - CashReserve - WeightOf(b, D))
    BY <1>1, <1>3 DEF Available, Open
  <2>3. PICK cap : cap = 1000 - CashReserve
    OBVIOUS
  <2>4. cap \in Nat /\ WeightOf(sized, chosen) <= GreaterOf(0, cap - WeightOf(b, D))
    BY <1>4, <2>2, <2>3
  <2> QED  BY <1>5, <1>11, <2>1, <2>3, <2>4
<1>13. Slipped(WeightOf(b, Memecoins(E)), MemecoinCap) \/ Memecoins(opened) # {}
         => Slipped(WeightOf(n, Memecoins(E \cup opened)), MemecoinCap)
  <2>1. PICK H, P, Q, C : H = Memecoins(D) /\ P = Memecoins(E) /\ Q = Memecoins(opened)
                          /\ C = Memecoins(chosen)
    OBVIOUS
  <2>2. /\ H \in SUBSET D /\ P \in SUBSET H /\ Q \in SUBSET opened /\ C \in SUBSET chosen
        /\ Q \subseteq C /\ Memecoins(E \cup opened) = P \cup Q
    BY <1>4, <1>5, <2>1 DEF Memecoins
  <2>3. WeightOf(sized, C) <= GreaterOf(0, MemecoinCap - WeightOf(b, H))
    BY <1>1, <1>3, <2>1 DEF MemecoinRoom, Open
  <2> QED  BY <1>4, <1>11, <2>1, <2>2, <2>3
<1>14. Cardinality(E) <= TopN \/ opened # {} => Cardinality(E \cup opened) <= TopN
  <2>1. Cardinality(opened) \in Nat /\ Cardinality(opened) <= Cardinality(chosen)
    <3>1. Cardinality(opened) <= Cardinality(chosen)
      BY <1>3, <1>5, FS_Subset
    <3> QED  BY <1>9, <3>1, FS_CardinalityType
  <2>2. IsFiniteSet(E) /\ Cardinality(E) \in Nat /\ Cardinality(E) <= Cardinality(D)
    <3>1. IsFiniteSet(E) /\ Cardinality(E) <= Cardinality(D)
      BY <1>4, FS_Subset
    <3> QED  BY <3>1, FS_CardinalityType
  <2>3. Cardinality(E \cup opened) = Cardinality(E) + Cardinality(opened) - Cardinality(E \cap opened)
    BY <1>9, <2>2, FS_Union
  <2>4. Cardinality(E \cap opened) = 0
    <3>1. E \cap opened = {}
      BY <1>4, <1>5
    <3> QED  BY <3>1, FS_EmptySet
  <2>5. opened # {} => Cardinality(opened) # 0
    BY <1>9, FS_EmptySet
  <2> QED  BY <1>3, <1>4, <2>1, <2>2, <2>3, <2>4, <2>5 DEF GreaterOf
<1>15. ASSUME \A s \in E : Slipped(b[s], SingleCap), NEW s \in E \cup opened
       PROVE  Slipped(n[s], SingleCap)
  <2>1. CASE s \in E
    BY <1>4, <1>7, <1>15, <2>1
  <2>2. CASE s \in opened
    <3>1. PICK w, z, k : w = n[s] /\ z = sized[s] /\ k = 100 + MaxSlippage
      OBVIOUS
    <3>2. w \in Nat /\ z \in Nat /\ k \in Nat /\ z <= SingleCap /\ 100 * w <= k * z
      BY <1>3, <1>4, <1>5, <1>6, <1>7, <2>2, <3>1
    <3>3. k * z <= k * SingleCap /\ k * z \in Nat /\ k * SingleCap \in Nat
      BY <1>4, <3>2
    <3>4. 100 * w <= k * SingleCap
      BY <3>2, <3>3
    <3> QED  BY <3>1, <3>4 DEF Slipped
  <2> QED  BY <2>1, <2>2
<1>16. DOMAIN n = U /\ n \in [U -> Nat] /\ U \in SUBSET (All \cup Snipes)
  BY <1>5, <1>7, <1>8
<1>17. PassLeaves(E, opened)
  BY <1>1, <1>12, <1>13, <1>14, <1>15 DEF PassLeaves
<1> QED  BY <1>1, <1>5, <1>8, <1>16, <1>17

\* The facts of a pass, with its sizes named.
LEMMA PassIsSized ==
  ASSUME EntryPass
  PROVE  \E m \in Markets : \E S \in SUBSET (All \ DOMAIN book) : \E booked, opened, lost :
           /\ PassBooks(m, S, booked, opened) /\ sizedIn' = sizedIn \cup opened
           /\ lost \subseteq DOMAIN SizePositions(m, S) /\ lost \subseteq Stocks
           /\ orphans' = [s \in DOMAIN orphans \cup lost |->
                            IF s \in lost THEN booked[s] ELSE orphans[s]]
<1>1. PICK m \in Markets,
           offered \in (SUBSET (Stocks \ DOMAIN book)) \cup (SUBSET (All \ (Stocks \cup DOMAIN book))) :
        LET sized == SizePositions(m, Accepted(m, offered)) IN
        \E booked \in Bookings(sized) : \E lost \in {{}} \cup {{s} : s \in Stocks} :
          LET bought == {s \in DOMAIN sized \ DOMAIN orphans : booked[s] > 0}
              opened == bought \ lost IN
          /\ lost \subseteq bought /\ \A s \in opened, t \in lost : m.score[s] >= m.score[t]
          /\ passes < MaxPasses /\ passes' = passes + 1
          /\ book' = [s \in DOMAIN book \cup opened |-> IF s \in opened THEN booked[s] ELSE book[s]]
          /\ sizedIn' = sizedIn \cup opened
          /\ orphans' = [s \in DOMAIN orphans \cup lost |-> IF s \in lost THEN booked[s] ELSE orphans[s]]
          /\ lastPass' = [market |-> m, offered |-> offered, accepted |-> Accepted(m, offered)]
  BY Zenon DEF EntryPass
<1>2. PICK S : S = Accepted(m, offered)
  OBVIOUS
<1>3. offered \in SUBSET (All \ DOMAIN book)
  BY DEF Stocks
<1>4. Passing(m, offered) \in SUBSET All /\ Passing(m, offered) \subseteq offered
  BY <1>3 DEF Passing
<1>5. S \in SUBSET (All \ DOMAIN book)
  <2>1. Uncorrelated(m, Passing(m, offered)) \subseteq Passing(m, offered)
    BY <1>4, TheBestSurvive
  <2> QED  BY <1>2, <1>3, <1>4, <2>1 DEF Accepted
<1>6. PICK sized : sized = SizePositions(m, S)
  OBVIOUS
<1>7. PICK booked \in Bookings(sized), lost \in {{}} \cup {{s} : s \in Stocks} :
        LET bought == {s \in DOMAIN sized \ DOMAIN orphans : booked[s] > 0}
            opened == bought \ lost IN
        /\ lost \subseteq bought
        /\ book' = [s \in DOMAIN book \cup opened |-> IF s \in opened THEN booked[s] ELSE book[s]]
        /\ sizedIn' = sizedIn \cup opened
        /\ orphans' = [s \in DOMAIN orphans \cup lost |-> IF s \in lost THEN booked[s] ELSE orphans[s]]
  BY <1>1, <1>2, <1>6
<1>8. PICK bought, opened : /\ bought = {s \in DOMAIN sized \ DOMAIN orphans : booked[s] > 0}
                            /\ opened = bought \ lost
  OBVIOUS
<1>9. /\ opened \subseteq {s \in DOMAIN sized : booked[s] > 0} /\ lost \subseteq DOMAIN sized
  <2>1. lost \subseteq bought
    BY <1>7, <1>8
  <2> QED  BY <1>8, <2>1
<1>10. /\ book' = [s \in DOMAIN book \cup opened |-> IF s \in opened THEN booked[s] ELSE book[s]]
       /\ sizedIn' = sizedIn \cup opened
       /\ orphans' = [s \in DOMAIN orphans \cup lost |-> IF s \in lost THEN booked[s] ELSE orphans[s]]
  BY <1>7, <1>8
<1>11. /\ PassBooks(m, S, booked, opened)
       /\ lost \subseteq DOMAIN SizePositions(m, S) /\ lost \subseteq Stocks
  BY <1>6, <1>7, <1>9, <1>10 DEF PassBooks
<1> QED  BY <1>5, <1>10, <1>11

\* A pass keeps the caps of what passes have sized.
LEMMA PassKeepsCaps ==
  ASSUME BookInv, EntryPass
  PROVE  BookInv'
<1> DEFINE Sizes(m, S, booked, opened, lost) ==
        /\ PassBooks(m, S, booked, opened) /\ sizedIn' = sizedIn \cup opened
        /\ lost \subseteq DOMAIN SizePositions(m, S) /\ lost \subseteq Stocks
        /\ orphans' = [s \in DOMAIN orphans \cup lost |->
                         IF s \in lost THEN booked[s] ELSE orphans[s]]
<1>0. PICK m \in Markets, S \in SUBSET (All \ DOMAIN book) :
        \E booked, opened, lost : Sizes(m, S, booked, opened, lost)
  BY PassIsSized
<1>1. PICK booked, opened, lost : Sizes(m, S, booked, opened, lost)
  BY <1>0
<1>2. PICK sized : sized = SizePositions(m, S)
  OBVIOUS
<1>3. PICK E : E = sizedIn
  OBVIOUS
<1>4. E \in SUBSET DOMAIN book
  BY <1>3 DEF BookInv
<1>5. /\ DOMAIN book' = DOMAIN book \cup opened
      /\ DOMAIN book' \in SUBSET (All \cup Snipes) /\ book' \in [DOMAIN book' -> Nat]
      /\ PassLeaves(E, opened)
  BY <1>1, <1>4, PassFits
<1>6. DOMAIN orphans' \in SUBSET Stocks /\ orphans' \in [DOMAIN orphans' -> Nat]
  <2>1. \A s \in DOMAIN sized : booked[s] \in Nat
    <3> SUFFICES ASSUME NEW s \in DOMAIN sized PROVE booked[s] \in Nat
      OBVIOUS
    <3>1. S \in SUBSET All
      OBVIOUS
    <3>2. Cardinality(Open) \in Nat
      BY BookFacts
    <3>3. s \in All /\ sized[s] \in Nat
      BY <1>2, <3>1, <3>2, SizesFit, SelectedFits
    <3>4. booked[s] \in Booking(s, sized[s])
      BY <1>1, <1>2 DEF PassBooks, Bookings
    <3> QED  BY <3>3, <3>4, BookedAtSlippage
  <2>2. DOMAIN orphans \in SUBSET Stocks /\ orphans \in [DOMAIN orphans -> Nat]
    BY DEF BookInv
  <2> QED  BY <1>1, <1>2, <2>1, <2>2
<1>7. sizedIn' = E \cup opened /\ E \cup opened \in SUBSET DOMAIN book'
  BY <1>1, <1>3, <1>4, <1>5
<1>8. BookWithinCaps'
  <2>1. /\ Slipped(WeightOf(book, E), 1000 - CashReserve)
        /\ Slipped(WeightOf(book, Memecoins(E)), MemecoinCap)
        /\ Cardinality(E) <= TopN /\ \A s \in E : Slipped(book[s], SingleCap)
    BY <1>3 DEF BookInv, BookWithinCaps
  <2>2. PICK F, n : F = E \cup opened /\ n = book'
    OBVIOUS
  <2>3. /\ Slipped(WeightOf(n, F), 1000 - CashReserve)
        /\ Slipped(WeightOf(n, Memecoins(F)), MemecoinCap)
        /\ Cardinality(F) <= TopN /\ \A s \in F : Slipped(n[s], SingleCap)
    BY <1>5, <2>1, <2>2 DEF PassLeaves
  <2> QED  BY <1>7, <2>2, <2>3 DEF BookWithinCaps
<1> QED  BY <1>5, <1>6, <1>7, <1>8 DEF BookInv

\* What happens without a pass leaves the positions that passes have sized as
\* they are, or closes some.
LEMMA OthersKeepCaps ==
  ASSUME BookInv, sizedIn' \in SUBSET sizedIn, sizedIn' \in SUBSET DOMAIN book',
         \A s \in sizedIn' : book'[s] = book[s],
         DOMAIN book' \in SUBSET (All \cup Snipes), book' \in [DOMAIN book' -> Nat],
         DOMAIN orphans' \in SUBSET Stocks, orphans' \in [DOMAIN orphans' -> Nat]
  PROVE  BookInv'
<1>1. PICK b, n, A, E : b = book /\ n = book' /\ A = sizedIn /\ E = sizedIn'
  OBVIOUS
<1>2. /\ A \in SUBSET DOMAIN b /\ E \in SUBSET A /\ IsFiniteSet(A) /\ TopN \in Nat
      /\ MemecoinCap \in Nat /\ 1000 - CashReserve \in Nat /\ 100 + MaxSlippage \in Nat
      /\ (\A s \in A : b[s] \in Nat) /\ \A t \in E : n[t] = b[t]
  <2>1. A \in SUBSET DOMAIN b /\ E \in SUBSET A /\ b \in [DOMAIN b -> Nat]
    BY <1>1 DEF BookInv
  <2>2. IsFiniteSet(DOMAIN b)
    BY <1>1, BookFacts
  <2>3. IsFiniteSet(A)
    BY <2>1, <2>2, FS_Subset
  <2>4. TopN \in Nat /\ MemecoinCap \in Nat /\ 1000 - CashReserve \in Nat /\ 100 + MaxSlippage \in Nat
    BY BookFacts
  <2>5. \A s \in E : n[s] = b[s]
    BY <1>1
  <2> QED  BY <2>1, <2>3, <2>4, <2>5
<1>3. ASSUME NEW P \in SUBSET E, NEW Q \in SUBSET A, P \subseteq Q, NEW cap \in Nat,
             Slipped(WeightOf(b, Q), cap)
      PROVE  Slipped(WeightOf(n, P), cap)
  <2>1. IsFiniteSet(P) /\ IsFiniteSet(Q) /\ P \in SUBSET Q
    <3>1. P \in SUBSET A
      BY <1>2
    <3> QED  BY <1>2, <1>3, <3>1, FS_Subset
  <2>2. \A s \in P : n[s] \in Int /\ b[s] \in Int /\ 1 * n[s] <= 1 * b[s]
    BY <1>2
  <2>3. 1 * WeightOf(n, P) <= 1 * WeightOf(b, P)
    BY <2>1, <2>2, WeightCompares
  <2>4. WeightOf(n, P) \in Int /\ WeightOf(b, P) \in Int
    BY <2>1, <2>2, WeightAddsUp
  <2>5. \A s \in Q : b[s] \in Nat
    BY <1>2
  <2>6. WeightOf(b, P) <= WeightOf(b, Q) /\ WeightOf(b, Q) \in Nat
    <3>1. WeightOf(b, P) <= WeightOf(b, Q)
      BY <2>1, <2>5, PartWeighsLess
    <3>2. Q \in SUBSET Q
      OBVIOUS
    <3>3. WeightOf(b, Q) \in Nat
      BY <2>1, <2>5, <3>2, PartWeighsLess
    <3> QED  BY <3>1, <3>3
  <2>7. PICK x, y, z : x = WeightOf(n, P) /\ y = WeightOf(b, Q) /\ z = (100 + MaxSlippage) * cap
    OBVIOUS
  <2>8. x \in Int /\ y \in Nat /\ x <= y /\ z \in Int /\ 100 * y <= z
    BY <1>2, <1>3, <2>3, <2>4, <2>6, <2>7 DEF Slipped
  <2>9. 100 * x <= z
    BY <2>8
  <2> QED  BY <2>7, <2>9 DEF Slipped
<1>4. /\ Slipped(WeightOf(b, A), 1000 - CashReserve)
      /\ Slipped(WeightOf(b, Memecoins(A)), MemecoinCap)
      /\ Cardinality(A) <= TopN /\ \A s \in A : Slipped(b[s], SingleCap)
  BY <1>1 DEF BookInv, BookWithinCaps
<1>5. Slipped(WeightOf(n, E), 1000 - CashReserve)
  <2>1. E \in SUBSET E /\ A \in SUBSET A /\ E \subseteq A
    BY <1>2
  <2> QED  BY <1>2, <1>3, <1>4, <2>1
<1>6. Slipped(WeightOf(n, Memecoins(E)), MemecoinCap)
  <2>1. PICK P, Q : P = Memecoins(E) /\ Q = Memecoins(A)
    OBVIOUS
  <2>2. P \in SUBSET E /\ Q \in SUBSET A /\ P \subseteq Q
    BY <1>2, <2>1 DEF Memecoins
  <2> QED  BY <1>2, <1>3, <1>4, <2>1, <2>2
<1>7. Cardinality(E) <= TopN
  <2>1. IsFiniteSet(E) /\ Cardinality(E) <= Cardinality(A)
    BY <1>2, FS_Subset
  <2>2. Cardinality(E) \in Nat /\ Cardinality(A) \in Nat
    BY <1>2, <2>1, FS_CardinalityType
  <2> QED  BY <1>2, <1>4, <2>1, <2>2
<1>8. \A s \in E : Slipped(n[s], SingleCap)
  BY <1>2, <1>4
<1>9. BookWithinCaps'
  BY <1>1, <1>5, <1>6, <1>7, <1>8 DEF BookWithinCaps
<1> QED  BY <1>9 DEF BookInv

LEMMA BookInductive ==
  ASSUME BookInv, [SizingNext]_sizingVars
  PROVE  BookInv'
<1>0. /\ DOMAIN book \in SUBSET (All \cup Snipes) /\ book \in [DOMAIN book -> Nat]
      /\ DOMAIN orphans \in SUBSET Stocks /\ orphans \in [DOMAIN orphans -> Nat]
      /\ sizedIn \in SUBSET DOMAIN book
  BY DEF BookInv
<1>1. CASE EntryPass
  BY <1>1, PassKeepsCaps
<1>2. CASE HealOrphan
  <2>0. PICK s \in DOMAIN orphans \ DOMAIN book :
          \E w \in {orphans[s], (orphans[s] * (100 + SlippagePct[s])) \div 100} :
            /\ book' = [t \in DOMAIN book \cup {s} |-> IF t = s THEN w ELSE book[t]]
            /\ orphans' = [t \in DOMAIN orphans \ {s} |-> orphans[t]]
            /\ sizedIn' = sizedIn
    BY <1>2 DEF HealOrphan
  <2>1. PICK w \in {orphans[s], (orphans[s] * (100 + SlippagePct[s])) \div 100} :
          /\ book' = [t \in DOMAIN book \cup {s} |-> IF t = s THEN w ELSE book[t]]
          /\ orphans' = [t \in DOMAIN orphans \ {s} |-> orphans[t]]
          /\ sizedIn' = sizedIn
    BY <2>0
  <2>2. s \in Stocks /\ orphans[s] \in Nat
    BY <1>0
  <2>3. w \in Nat
    <3>1. SlippagePct[s] \in Nat
      BY <2>2, SizingAssumption DEF Stocks
    <3>2. PICK a : a = orphans[s] * (100 + SlippagePct[s])
      OBVIOUS
    <3>3. a \in Nat
      BY <2>2, <3>1, <3>2
    <3> QED  BY <2>2, <3>2, <3>3
  <2>4. DOMAIN orphans' \in SUBSET Stocks /\ orphans' \in [DOMAIN orphans' -> Nat]
    BY <1>0, <2>1
  <2>5. DOMAIN book' \in SUBSET (All \cup Snipes) /\ book' \in [DOMAIN book' -> Nat]
    <3>1. s \in All
      BY <2>2 DEF Stocks
    <3> QED  BY <1>0, <2>1, <2>3, <3>1
  <2>6. sizedIn' \in SUBSET DOMAIN book' /\ \A t \in sizedIn' : book'[t] = book[t]
    <3>1. s \notin sizedIn
      BY <1>0
    <3> QED  BY <1>0, <2>1, <3>1
  <2> QED  BY <2>1, <2>4, <2>5, <2>6, OthersKeepCaps
<1>3. CASE Snipe
  <2>1. PICK s \in Snipes \ DOMAIN book :
          book' = [t \in DOMAIN book \cup {s} |->
                     IF t = s THEN (SnipeWeight * (100 + SlippagePct[s])) \div 100 ELSE book[t]]
    BY <1>3 DEF Snipe
  <2>2. PICK w : w = (SnipeWeight * (100 + SlippagePct[s])) \div 100
    OBVIOUS
  <2>3. w \in Nat
    <3>1. SlippagePct[s] \in Nat /\ SnipeWeight \in Nat
      BY SizingAssumption
    <3>2. PICK a : a = SnipeWeight * (100 + SlippagePct[s])
      OBVIOUS
    <3>3. a \in Nat
      BY <3>1, <3>2
    <3> QED  BY <2>2, <3>2, <3>3
  <2>4. book' = [t \in DOMAIN book \cup {s} |-> IF t = s THEN w ELSE book[t]]
    BY <2>1, <2>2
  <2>5. sizedIn' = sizedIn /\ orphans' = orphans
    BY <1>3 DEF Snipe
  <2> QED  BY <1>0, <2>3, <2>4, <2>5, OthersKeepCaps
<1>4. CASE ClosePositions
  <2>1. PICK closed \in SUBSET DOMAIN book :
          /\ book' = [s \in DOMAIN book \ closed |-> book[s]]
          /\ sizedIn' = sizedIn \ closed /\ orphans' = orphans
    BY <1>4 DEF ClosePositions
  <2> QED  BY <1>0, <2>1, OthersKeepCaps
<1>5. CASE UNCHANGED sizingVars
  <2>1. book' = book /\ sizedIn' = sizedIn /\ orphans' = orphans
    BY <1>5 DEF sizingVars
  <2> QED  BY <1>0, <2>1, OthersKeepCaps
<1> QED  BY <1>1, <1>2, <1>3, <1>4, <1>5 DEF SizingNext

LEMMA BookInit == SizingInit => BookInv
<1> SUFFICES ASSUME SizingInit PROVE BookInv
  OBVIOUS
<1>1. PICK b, E : b = book /\ E = sizedIn
  OBVIOUS
<1>2. DOMAIN b = {} /\ b \in [{} -> Nat] /\ E = {} /\ Memecoins(E) = {}
      /\ DOMAIN orphans \in SUBSET Stocks /\ orphans \in [DOMAIN orphans -> Nat]
  BY <1>1 DEF SizingInit, Memecoins
<1>3. WeightOf(b, {}) = 0
  <2>1. IsFiniteSet({}) /\ \A s \in {} : b[s] \in Int
    BY FS_EmptySet
  <2> QED  BY <2>1, WeightAddsUp
<1>4. Cardinality({}) = 0
  BY FS_EmptySet
<1>5. {TopN, SingleCap, MemecoinCap, CashReserve, MaxSlippage} \subseteq Nat /\ CashReserve <= 1000
  BY SizingAssumption
<1>6. Slipped(WeightOf(b, E), 1000 - CashReserve) /\ Slipped(WeightOf(b, Memecoins(E)), MemecoinCap)
  <2>1. \A cap \in Nat : (100 + MaxSlippage) * cap \in Nat
    BY <1>5
  <2>2. 1000 - CashReserve \in Nat /\ MemecoinCap \in Nat
    BY <1>5
  <2>3. ASSUME NEW weight, weight = 0, NEW cap \in Nat PROVE Slipped(weight, cap)
    BY <2>1, <2>3 DEF Slipped
  <2>4. WeightOf(b, E) = 0 /\ WeightOf(b, Memecoins(E)) = 0
    BY <1>2, <1>3
  <2> QED  BY <2>2, <2>3, <2>4
<1>7. Cardinality(E) <= TopN
  BY <1>2, <1>4, <1>5
<1>8. BookWithinCaps
  BY <1>1, <1>2, <1>6, <1>7 DEF BookWithinCaps
<1> QED  BY <1>1, <1>2, <1>8 DEF BookInv

\* What the passes have sized stays within the caps, up to the slippage, after
\* any passes, heals, snipes and exits.
THEOREM CapsOfTheBook == SizingSpec => []BookWithinCaps
<1>1. BookInv /\ [SizingNext]_sizingVars => BookInv'
  BY BookInductive
<1>2. BookInv => BookWithinCaps
  BY DEF BookInv
<1> QED  BY BookInit, <1>1, <1>2, PTL DEF SizingSpec

\* A pass that opens a position leaves the whole book, unsized positions too,
\* within the slipped caps.
THEOREM WholeBookIsCounted == SizingSpec => PassesCountTheWholeBook
<1> DEFINE opened == DOMAIN book' \ DOMAIN book
           Counted == passes' # passes =>
             (opened # {} =>
               /\ Slipped(WeightOf(book', DOMAIN book'), 1000 - CashReserve)
               /\ Cardinality(DOMAIN book') <= TopN
               /\ Memecoins(opened) # {} => Slipped(WeightOf(book', Memecoins(DOMAIN book')), MemecoinCap))
<1>1. BookInv /\ [SizingNext]_sizingVars => BookInv'
  BY BookInductive
<1>2. BookInv /\ [SizingNext]_sizingVars => [Counted]_sizingVars
  <2> SUFFICES ASSUME BookInv, SizingNext, passes' # passes PROVE Counted
    OBVIOUS
  <2>1. EntryPass
    BY DEF SizingNext, HealOrphan, Snipe, ClosePositions
  <2>a. PICK m \in Markets, S \in SUBSET (All \ DOMAIN book) :
          \E booked, new : PassBooks(m, S, booked, new)
    BY <2>1, PassIsSized
  <2>2. PICK booked, new : PassBooks(m, S, booked, new)
    BY <2>a
  <2>3. PICK E : E = DOMAIN book
    OBVIOUS
  <2>4. DOMAIN book' = E \cup new /\ E \cap new = {} /\ PassLeaves(E, new)
    BY <2>2, <2>3, PassFits
  <2>5. opened = new
    BY <2>3, <2>4
  <2>6. /\ new # {} => Slipped(WeightOf(book', DOMAIN book'), 1000 - CashReserve)
        /\ Memecoins(new) # {} => Slipped(WeightOf(book', Memecoins(DOMAIN book')), MemecoinCap)
        /\ new # {} => Cardinality(DOMAIN book') <= TopN
    <3>1. PICK D : D = DOMAIN book'
      OBVIOUS
    <3>2. D = E \cup new
      BY <2>4, <3>1
    <3>3. /\ new # {} => Slipped(WeightOf(book', E \cup new), 1000 - CashReserve)
          /\ Memecoins(new) # {} => Slipped(WeightOf(book', Memecoins(E \cup new)), MemecoinCap)
          /\ new # {} => Cardinality(E \cup new) <= TopN
      BY <2>4 DEF PassLeaves
    <3> QED  BY <3>1, <3>2, <3>3
  <2> QED  BY <2>5, <2>6
<1>3. (SizingSpec => [][Counted]_sizingVars) => (SizingSpec => PassesCountTheWholeBook)
  BY DEF PassesCountTheWholeBook
<1>4. SizingSpec => [][Counted]_sizingVars
  BY BookInit, <1>1, <1>2, PTL DEF SizingSpec
<1> QED  BY <1>3, <1>4

-----------------------------------------------------------------------------

LEMMA PassAcceptsTheBest ==
  ASSUME EntryPass
  PROVE  SurvivorsAreTheBest'
<1>0. PICK m \in Markets,
           offered \in (SUBSET (Stocks \ DOMAIN book)) \cup (SUBSET (All \ (Stocks \cup DOMAIN book))) :
        LET sized == SizePositions(m, Accepted(m, offered)) IN
        \E booked \in Bookings(sized) : \E lost \in {{}} \cup {{s} : s \in Stocks} :
          LET bought == {s \in DOMAIN sized \ DOMAIN orphans : booked[s] > 0}
              opened == bought \ lost IN
          /\ lost \subseteq bought /\ \A s \in opened, t \in lost : m.score[s] >= m.score[t]
          /\ passes < MaxPasses /\ passes' = passes + 1
          /\ book' = [s \in DOMAIN book \cup opened |-> IF s \in opened THEN booked[s] ELSE book[s]]
          /\ sizedIn' = sizedIn \cup opened
          /\ orphans' = [s \in DOMAIN orphans \cup lost |-> IF s \in lost THEN booked[s] ELSE orphans[s]]
          /\ lastPass' = [market |-> m, offered |-> offered, accepted |-> Accepted(m, offered)]
  BY Zenon DEF EntryPass
<1>1. /\ offered \in SUBSET All
      /\ lastPass' = [market |-> m, offered |-> offered, accepted |-> Accepted(m, offered)]
  BY <1>0 DEF Stocks
<1>2. PICK S, left : S = Passing(m, offered) /\ left = Uncorrelated(m, S)
  OBVIOUS
<1>3. S \in SUBSET All
  BY <1>1, <1>2 DEF Passing
<1>4. /\ left \subseteq S
      /\ \A s \in left : Rivals(m, S, s) \cap left = {}
      /\ \A s \in S : (\A t \in Rivals(m, S, s) : m.score[t] < m.score[s]) => s \in left
      /\ S # {} => left # {}
  BY <1>2, <1>3, TheBestSurvive
<1>5. /\ lastPass'.market = m /\ lastPass'.accepted = left
      /\ Passing(lastPass'.market, lastPass'.offered) = S
  BY <1>1, <1>2 DEF Accepted
<1> QED  BY <1>4, <1>5 DEF SurvivorsAreTheBest, Rivals, Passing

\* The gate leaves no two correlated candidates, each that beats all its rivals,
\* and somebody if anybody was sound.
THEOREM GateKeepsTheBest == SizingSpec => []SurvivorsAreTheBest
<1>1. SizingInit => SurvivorsAreTheBest
  <2> SUFFICES ASSUME SizingInit PROVE SurvivorsAreTheBest
    OBVIOUS
  <2>1. lastPass.accepted = {} /\ Passing(lastPass.market, lastPass.offered) = {}
    BY DEF SizingInit, Passing
  <2> QED  BY <2>1 DEF SurvivorsAreTheBest
<1>2. SurvivorsAreTheBest /\ [SizingNext]_sizingVars => SurvivorsAreTheBest'
  <2> SUFFICES ASSUME SurvivorsAreTheBest, [SizingNext]_sizingVars
               PROVE  SurvivorsAreTheBest'
    OBVIOUS
  <2>1. CASE EntryPass
    BY <2>1, PassAcceptsTheBest
  <2>2. CASE HealOrphan \/ Snipe \/ ClosePositions \/ UNCHANGED sizingVars
    <3>1. lastPass' = lastPass
      BY <2>2 DEF HealOrphan, Snipe, ClosePositions, sizingVars
    <3> QED  BY <3>1 DEF SurvivorsAreTheBest, Passing
  <2> QED  BY <2>1, <2>2 DEF SizingNext
<1> QED  BY <1>1, <1>2, PTL DEF SizingSpec
=============================================================================
