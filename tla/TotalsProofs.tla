---------------------------- MODULE TotalsProofs ----------------------------
(***************************************************************************)
(* Facts about the operators of module Totals, for every finite set and    *)
(* every function to the naturals, and about the payouts of module Payout, *)
(* which are totals.                                                       *)
(***************************************************************************)
EXTENDS Payout, FiniteSetTheorems, FunctionTheorems, TLAPS

(* A nonempty set of naturals has a least element: the initial segments of *)
(* the naturals up to its members are finite sets, which strict inclusion  *)
(* orders well.                                                            *)
LEMMA LeastElement ==
  ASSUME NEW S \in SUBSET Nat, S # {}
  PROVE  \E m \in S : \A k \in S : m <= k
<1> DEFINE Segments == {0 .. k : k \in S}
           Below    == StrictSubsetOrdering(Nat)
<1>1. IsWellFoundedOn(Below, FiniteSubsetsOf(Nat))
  BY FS_StrictSubsetOrderingWellFounded
<1>2. Segments \subseteq FiniteSubsetsOf(Nat)
  <2>1. SUFFICES ASSUME NEW k \in S PROVE 0 .. k \in FiniteSubsetsOf(Nat)
    OBVIOUS
  <2>2. IsFiniteSet(0 .. k)
    BY FS_Interval
  <2> QED
    BY <2>2 DEF FiniteSubsetsOf
<1>3. Segments # {}
  OBVIOUS
<1>4. PICK s \in Segments : \A t \in Segments : <<t, s>> \notin Below
  BY <1>1, <1>2, <1>3, WFMin
<1>5. PICK m \in S : s = 0 .. m
  OBVIOUS
<1>6. ASSUME NEW k \in S, k < m PROVE FALSE
  <2>1. <<0 .. k, 0 .. m>> \in Below
    BY <1>6 DEF StrictSubsetOrdering
  <2> QED
    BY <1>4, <1>5, <2>1
<1> QED
  BY <1>6

(* A nonempty finite set of naturals has a greatest element.               *)
LEMMA GreatestElement ==
  ASSUME NEW S \in SUBSET Nat, IsFiniteSet(S), S # {}
  PROVE  \E m \in S : \A k \in S : k <= m
<1> DEFINE Above(m) == {k \in S : m < k}
           Tails    == {Above(m) : m \in S}
           Below    == StrictSubsetOrdering(S)
<1>1. IsWellFoundedOn(Below, FiniteSubsetsOf(S))
  BY FS_StrictSubsetOrderingWellFounded
<1>2. Tails \subseteq FiniteSubsetsOf(S)
  <2>1. SUFFICES ASSUME NEW m \in S PROVE Above(m) \in FiniteSubsetsOf(S)
    OBVIOUS
  <2>2. IsFiniteSet(Above(m))
    BY FS_Subset
  <2> QED
    BY <2>2 DEF FiniteSubsetsOf
<1>3. Tails # {}
  OBVIOUS
<1>4. PICK s \in Tails : \A t \in Tails : <<t, s>> \notin Below
  <2> HIDE DEF Tails, Below
  <2> QED
    BY <1>1, <1>2, <1>3, WFMin
<1>5. PICK m \in S : s = Above(m)
  OBVIOUS
<1>6. ASSUME NEW k \in S, m < k PROVE FALSE
  <2>1. /\ Above(k) \subseteq Above(m)
        /\ k \in Above(m)
        /\ k \notin Above(k)
    <3>1. ASSUME NEW j \in Above(k) PROVE j \in Above(m)
      <4>1. j \in Nat /\ k \in Nat /\ m \in Nat /\ j \in S /\ k < j
        OBVIOUS
      <4> QED
        BY <4>1, <1>6
    <3>2. k \in Nat /\ ~(k < k)
      OBVIOUS
    <3> QED
      BY <1>6, <3>1, <3>2
  <2>2. Above(k) \in SUBSET S /\ Above(m) \in SUBSET S
    OBVIOUS
  <2>3. <<Above(k), Above(m)>> \in Below
    <3> HIDE DEF Above
    <3> QED
      BY <2>1, <2>2 DEF StrictSubsetOrdering
  <2> QED
    BY <1>4, <1>5, <2>3
<1> QED
  BY <1>6

-----------------------------------------------------------------------------
(* The tokens of one element are as many as its value.                     *)
LEMMA Column ==
  ASSUME NEW x, NEW n \in Nat
  PROVE  /\ IsFiniteSet({x} \X (1 .. n))
         /\ Cardinality({x} \X (1 .. n)) = n
<1>1. IsFiniteSet({x}) /\ Cardinality({x}) = 1
  BY FS_Singleton
<1>2. IsFiniteSet(1 .. n) /\ Cardinality(1 .. n) = n
  BY FS_Interval
<1>3. /\ IsFiniteSet({x} \X (1 .. n))
      /\ Cardinality({x} \X (1 .. n)) = Cardinality({x}) * Cardinality(1 .. n)
  BY <1>1, <1>2, FS_Product
<1> QED
  BY <1>1, <1>2, <1>3

(* A finite set has finitely many tokens.                                  *)
LEMMA TokensFinite ==
  ASSUME NEW S, IsFiniteSet(S), NEW f \in [S -> Nat]
  PROVE  IsFiniteSet(Tokens(f))
<1> DEFINE Columns == {{x} \X (1 .. f[x]) : x \in S}
           column  == [x \in S |-> {x} \X (1 .. f[x])]
<1>1. column \in Surjection(S, Columns)
  BY DEF Surjection
<1>2. IsFiniteSet(Columns)
  BY <1>1, FS_Surjection
<1>3. \A T \in Columns : IsFiniteSet(T)
  <2>1. SUFFICES ASSUME NEW x \in S PROVE IsFiniteSet({x} \X (1 .. f[x]))
    OBVIOUS
  <2>2. f[x] \in Nat
    OBVIOUS
  <2> QED
    BY <2>2, Column
<1>4. IsFiniteSet(UNION Columns)
  BY <1>2, <1>3, FS_UNION
<1> QED
  BY <1>4 DEF Tokens

(* A total is a natural number.                                            *)
LEMMA TotalType ==
  ASSUME NEW S, IsFiniteSet(S), NEW f \in [S -> Nat]
  PROVE  Total(f) \in Nat
BY TokensFinite, FS_CardinalityType DEF Total

(* A total is a value plus the total of the rest.                          *)
LEMMA TotalSplit ==
  ASSUME NEW S, IsFiniteSet(S), NEW f \in [S -> Nat], NEW x \in S
  PROVE  /\ Total([f EXCEPT ![x] = 0]) \in Nat
         /\ Total(f) = Total([f EXCEPT ![x] = 0]) + f[x]
<1> DEFINE g == [f EXCEPT ![x] = 0]
           C == {x} \X (1 .. f[x])
<1>1. g \in [S -> Nat]
  OBVIOUS
<1>2. IsFiniteSet(Tokens(g)) /\ Cardinality(Tokens(g)) \in Nat
  BY <1>1, TokensFinite, FS_CardinalityType
<1>3. IsFiniteSet(C) /\ Cardinality(C) = f[x]
  BY Column
<1>4. Tokens(f) = Tokens(g) \cup C
  BY DEF Tokens
<1>5. Tokens(g) \cap C = {}
  BY DEF Tokens
<1>6. Cardinality(Tokens(g) \cup C) = Cardinality(Tokens(g)) + f[x]
  <2>1. f[x] \in Nat
    OBVIOUS
  <2>2. Cardinality(Tokens(g) \cup C)
          = Cardinality(Tokens(g)) + Cardinality(C)
              - Cardinality(Tokens(g) \cap C)
    <3> HIDE DEF g, C
    <3> QED
      BY <1>2, <1>3, FS_Union
  <2>3. Cardinality(Tokens(g) \cap C) = 0
    BY <1>5, FS_EmptySet
  <2> HIDE DEF g, C
  <2> QED
    BY <1>2, <1>3, <2>1, <2>2, <2>3
<1> QED
  BY <1>2, <1>4, <1>6 DEF Total

(* Changing one value changes the total by as much.                        *)
THEOREM TotalUpdate ==
  ASSUME NEW S, IsFiniteSet(S), NEW f \in [S -> Nat], NEW x \in S, NEW v \in Nat
  PROVE  /\ Total([f EXCEPT ![x] = v]) \in Nat
         /\ Total([f EXCEPT ![x] = v]) = Total(f) - f[x] + v
<1> DEFINE g == [f EXCEPT ![x] = v]
<1>1. g \in [S -> Nat] /\ g[x] = v
  OBVIOUS
<1>2. [g EXCEPT ![x] = 0] = [f EXCEPT ![x] = 0]
  OBVIOUS
<1>3. /\ Total([f EXCEPT ![x] = 0]) \in Nat
      /\ Total(f) = Total([f EXCEPT ![x] = 0]) + f[x]
  BY TotalSplit
<1>4. Total(g) = Total([g EXCEPT ![x] = 0]) + g[x]
  <2> HIDE DEF g
  <2> QED
    BY <1>1, TotalSplit
<1> QED
  BY <1>1, <1>2, <1>3, <1>4

(* The tokens of a total are pairs of an element and a number.             *)
LEMMA TokensAre ==
  ASSUME NEW S, NEW f \in [S -> Nat]
  PROVE  Tokens(f) = {t \in S \X Nat : t[2] \in 1 .. f[t[1]]}
<1>1. SUFFICES ASSUME NEW t
      PROVE  t \in Tokens(f) <=> t \in S \X Nat /\ t[2] \in 1 .. f[t[1]]
  OBVIOUS
<1>2. t \in Tokens(f) <=> \E x \in S : t \in {x} \X (1 .. f[x])
  BY DEF Tokens
<1>3. ASSUME NEW x \in S, t \in {x} \X (1 .. f[x])
      PROVE  t \in S \X Nat /\ t[2] \in 1 .. f[t[1]]
  BY <1>3
<1>4. ASSUME t \in S \X Nat, t[2] \in 1 .. f[t[1]]
      PROVE  \E x \in S : t \in {x} \X (1 .. f[x])
  <2>1. t[1] \in S /\ t \in {t[1]} \X (1 .. f[t[1]])
    BY <1>4
  <2> QED
    BY <2>1
<1> QED
  BY <1>2, <1>3, <1>4

(* What is larger everywhere has the larger total.                         *)
LEMMA TotalMonotone ==
  ASSUME NEW S, IsFiniteSet(S), NEW f \in [S -> Nat], NEW g \in [S -> Nat],
         \A x \in S : f[x] <= g[x]
  PROVE  Total(f) <= Total(g)
<1>1. Tokens(f) \subseteq Tokens(g)
  BY TokensAre
<1> QED
  BY <1>1, TokensFinite, FS_Subset DEF Total

(* A larger value makes a larger total.                                    *)
LEMMA TotalStrict ==
  ASSUME NEW S, IsFiniteSet(S), NEW f \in [S -> Nat], NEW g \in [S -> Nat],
         \A x \in S : f[x] <= g[x], NEW x \in S, f[x] < g[x]
  PROVE  Total(f) < Total(g)
<1> DEFINE e == [g EXCEPT ![x] = f[x]]
<1>1. e \in [S -> Nat] /\ \A y \in S : f[y] <= e[y]
  OBVIOUS
<1>2. Total(f) <= Total(e)
  <2> HIDE DEF e
  <2> QED
    BY <1>1, TotalMonotone
<1>3. Total(e) = Total(g) - g[x] + f[x] /\ Total(e) \in Nat
  <2>1. f[x] \in Nat
    OBVIOUS
  <2> QED
    BY <2>1, TotalUpdate
<1>4. Total(f) \in Nat /\ Total(g) \in Nat /\ f[x] \in Nat /\ g[x] \in Nat
  BY TotalType
<1> HIDE DEF e
<1> QED
  BY <1>2, <1>3, <1>4

(* The total of a sum is the sum of the totals: the tokens of f + g are    *)
(* those of f and, above them, those of g.                                 *)
LEMMA TotalAdd ==
  ASSUME NEW S, IsFiniteSet(S), NEW f \in [S -> Nat], NEW g \in [S -> Nat]
  PROVE  Total([x \in S |-> f[x] + g[x]]) = Total(f) + Total(g)
<1> DEFINE h     == [x \in S |-> f[x] + g[x]]
           Upper == Tokens(h) \ Tokens(f)
           lift  == [t \in Tokens(g) |-> <<t[1], t[2] + f[t[1]]>>]
<1>1. h \in [S -> Nat]
  OBVIOUS
<1>2. /\ Tokens(f) = {t \in S \X Nat : t[2] \in 1 .. f[t[1]]}
      /\ Tokens(g) = {t \in S \X Nat : t[2] \in 1 .. g[t[1]]}
      /\ Tokens(h) = {t \in S \X Nat : t[2] \in 1 .. f[t[1]] + g[t[1]]}
  <2>1. Tokens(h) = {t \in S \X Nat : t[2] \in 1 .. h[t[1]]}
    BY <1>1, TokensAre
  <2> QED
    BY <2>1, TokensAre
<1>3. Upper = {t \in S \X Nat :
                 t[2] \in f[t[1]] + 1 .. f[t[1]] + g[t[1]]}
  BY <1>2
<1>4. lift \in [Tokens(g) -> Upper]
  <2>1. SUFFICES ASSUME NEW t \in Tokens(g)
                 PROVE  <<t[1], t[2] + f[t[1]]>> \in Upper
    OBVIOUS
  <2>2. t[1] \in S /\ t[2] \in Nat /\ t[2] \in 1 .. g[t[1]]
    BY <1>2
  <2>3. f[t[1]] \in Nat /\ g[t[1]] \in Nat
    BY <2>2
  <2> QED
    BY <1>3, <2>2, <2>3
<1>5. lift \in Injection(Tokens(g), Upper)
  <2>1. SUFFICES ASSUME NEW s \in Tokens(g), NEW t \in Tokens(g),
                        lift[s] = lift[t]
                 PROVE  s = t
    BY <1>4, Fun_IsInj
  <2>2. s \in S \X Nat /\ t \in S \X Nat
    BY <1>2
  <2>3. s[1] = t[1] /\ s[2] + f[s[1]] = t[2] + f[t[1]]
    BY <2>1
  <2>4. f[s[1]] \in Nat
    BY <2>2
  <2> QED
    BY <2>2, <2>3, <2>4
<1>6. lift \in Surjection(Tokens(g), Upper)
  <2>1. SUFFICES ASSUME NEW t \in Upper
                 PROVE  \E s \in Tokens(g) : lift[s] = t
    BY <1>4, Fun_IsSurj
  <2>2. /\ t \in S \X Nat
        /\ t[2] \in f[t[1]] + 1 .. f[t[1]] + g[t[1]]
        /\ f[t[1]] \in Nat /\ g[t[1]] \in Nat
    BY <1>3
  <2>3. <<t[1], t[2] - f[t[1]]>> \in Tokens(g)
    BY <1>2, <2>2
  <2>4. lift[<<t[1], t[2] - f[t[1]]>>] = t
    BY <2>2, <2>3
  <2> QED
    BY <2>3, <2>4
<1>7. /\ IsFiniteSet(Tokens(f)) /\ IsFiniteSet(Tokens(g))
      /\ IsFiniteSet(Upper)
      /\ Cardinality(Upper) = Cardinality(Tokens(g))
  <2>1. IsFiniteSet(Tokens(f)) /\ IsFiniteSet(Tokens(g))
    BY TokensFinite
  <2>2. ExistsBijection(Tokens(g), Upper)
    BY <1>5, <1>6, Fun_ExistsBij DEF Bijection
  <2> QED
    BY <2>1, <2>2, FS_Bijection
<1>8. Tokens(h) = Tokens(f) \cup Upper /\ Tokens(f) \cap Upper = {}
  BY <1>2
<1>9. Cardinality(Tokens(h)) = Cardinality(Tokens(f)) + Cardinality(Upper)
  <2>1. Cardinality(Tokens(f)) \in Nat /\ Cardinality(Upper) \in Nat
    BY <1>7, FS_CardinalityType
  <2>2. Cardinality(Tokens(f) \cup Upper)
          = Cardinality(Tokens(f)) + Cardinality(Upper)
              - Cardinality(Tokens(f) \cap Upper)
    BY <1>7, FS_Union
  <2>3. Cardinality(Tokens(f) \cap Upper) = 0
    BY <1>8, FS_EmptySet
  <2> HIDE DEF h, Upper, lift
  <2> QED
    BY <1>8, <2>1, <2>2, <2>3
<1> QED
  BY <1>7, <1>9 DEF Total

(* The same values in another order have the same total.                   *)
LEMMA TotalReordered ==
  ASSUME NEW S, NEW T, IsFiniteSet(S), IsFiniteSet(T),
         NEW place \in Bijection(S, T), NEW f \in [T -> Nat]
  PROVE  Total([x \in S |-> f[place[x]]]) = Total(f)
<1> DEFINE g    == [x \in S |-> f[place[x]]]
           move == [t \in Tokens(g) |-> <<place[t[1]], t[2]>>]
<1>1. /\ place \in [S -> T]
      /\ \A x, y \in S : place[x] = place[y] => x = y
      /\ \A z \in T : \E x \in S : place[x] = z
  BY DEF Bijection, Injection, Surjection, IsInjective
<1>2. g \in [S -> Nat]
  BY <1>1
<1>3. /\ Tokens(g) = {t \in S \X Nat : t[2] \in 1 .. f[place[t[1]]]}
      /\ Tokens(f) = {t \in T \X Nat : t[2] \in 1 .. f[t[1]]}
  <2>1. Tokens(g) = {t \in S \X Nat : t[2] \in 1 .. g[t[1]]}
    BY <1>2, TokensAre
  <2> QED
    BY <2>1, TokensAre
<1>4. move \in [Tokens(g) -> Tokens(f)]
  BY <1>1, <1>3
<1>5. move \in Injection(Tokens(g), Tokens(f))
  <2>1. SUFFICES ASSUME NEW s \in Tokens(g), NEW t \in Tokens(g),
                        move[s] = move[t]
                 PROVE  s = t
    BY <1>4, Fun_IsInj
  <2>2. s \in S \X Nat /\ t \in S \X Nat
    BY <1>3
  <2>3. place[s[1]] = place[t[1]] /\ s[2] = t[2]
    BY <2>1
  <2> QED
    BY <1>1, <2>2, <2>3
<1>6. move \in Surjection(Tokens(g), Tokens(f))
  <2>1. SUFFICES ASSUME NEW t \in Tokens(f)
                 PROVE  \E s \in Tokens(g) : move[s] = t
    BY <1>4, Fun_IsSurj
  <2>2. t \in T \X Nat /\ t[2] \in 1 .. f[t[1]]
    BY <1>3
  <2>3. PICK x \in S : place[x] = t[1]
    BY <1>1, <2>2
  <2>4. <<x, t[2]>> \in Tokens(g)
    BY <1>3, <2>2, <2>3
  <2>5. move[<<x, t[2]>>] = t
    BY <2>2, <2>3, <2>4
  <2> QED
    BY <2>4, <2>5
<1>7. ExistsBijection(Tokens(g), Tokens(f))
  BY <1>5, <1>6, Fun_ExistsBij DEF Bijection
<1>8. IsFiniteSet(Tokens(g))
  BY <1>2, TokensFinite
<1> QED
  BY <1>7, <1>8, FS_Bijection DEF Total

(* Only where a function is not 0 it adds to the total.                    *)
LEMMA TotalWhereNotZero ==
  ASSUME NEW S, IsFiniteSet(S), NEW f \in [S -> Nat],
         NEW A \in SUBSET S, NEW g \in [A -> Nat],
         \A x \in S : f[x] = IF x \in A THEN g[x] ELSE 0
  PROVE  Total(f) = Total(g)
<1>1. /\ Tokens(f) = {t \in S \X Nat : t[2] \in 1 .. f[t[1]]}
      /\ Tokens(g) = {t \in A \X Nat : t[2] \in 1 .. g[t[1]]}
  BY TokensAre
<1>2. Tokens(f) = Tokens(g)
  <2>1. ASSUME NEW t \in Tokens(f) PROVE t \in Tokens(g)
    <3>1. t \in S \X Nat /\ t[2] \in 1 .. f[t[1]]
      BY <1>1
    <3>2. t[1] \in A
      BY <3>1
    <3> QED
      BY <1>1, <3>1, <3>2
  <2>2. ASSUME NEW t \in Tokens(g) PROVE t \in Tokens(f)
    <3>1. t \in A \X Nat /\ t[2] \in 1 .. g[t[1]]
      BY <1>1
    <3>2. t \in S \X Nat /\ f[t[1]] = g[t[1]]
      BY <3>1
    <3> QED
      BY <1>1, <3>1, <3>2
  <2> QED
    BY <2>1, <2>2
<1> QED
  BY <1>2 DEF Total

(* Nor does it matter by what names the places are called.                 *)
LEMMA TotalRenamed ==
  ASSUME NEW S, NEW T, IsFiniteSet(S), IsFiniteSet(T),
         NEW place \in [T -> S], NEW f \in [S -> Nat], NEW g \in [T -> Nat],
         \A x, y \in T : place[x] = place[y] => x = y,
         \A x \in T : g[x] = f[place[x]],
         \A s \in S : f[s] # 0 => \E x \in T : place[x] = s
  PROVE  Total(f) = Total(g)
<1> DEFINE D == {place[x] : x \in T}
           e == [s \in D |-> f[s]]
<1>1. D \in SUBSET S /\ IsFiniteSet(D)
  BY FS_Subset
<1>2. place \in Bijection(T, D)
  <2>1. place \in [T -> D] /\ \A s \in D : \E x \in T : place[x] = s
    OBVIOUS
  <2> HIDE DEF D
  <2>2. place \in Injection(T, D)
    BY <2>1, Fun_IsInj
  <2>3. place \in Surjection(T, D)
    BY <2>1, Fun_IsSurj
  <2> QED
    BY <2>2, <2>3 DEF Bijection
<1>3. e \in [D -> Nat]
  BY <1>1
<1>4. \A x \in T : e[place[x]] = g[x]
  OBVIOUS
<1>5. \A s \in S : f[s] = IF s \in D THEN e[s] ELSE 0
  <2>1. ASSUME NEW s \in S, s \notin D PROVE f[s] = 0
    BY <2>1
  <2> QED
    BY <2>1
<1> HIDE DEF D, e
<1>6. Total([x \in T |-> e[place[x]]]) = Total(e)
  BY <1>1, <1>2, <1>3, TotalReordered
<1>7. [x \in T |-> e[place[x]]] = g
  BY <1>4
<1>8. Total(f) = Total(e)
  BY <1>1, <1>3, <1>5, TotalWhereNotZero
<1> QED
  BY <1>6, <1>7, <1>8

(* The total of nothing but zeros.                                         *)
LEMMA TotalOfZeros ==
  ASSUME NEW S
  PROVE  Total([x \in S |-> 0]) = 0
<1>1. Tokens([x \in S |-> 0]) = {}
  BY DEF Tokens
<1> QED
  BY <1>1, FS_EmptySet DEF Total

(* A total scales with its values.                                         *)
LEMMA TotalScale ==
  ASSUME NEW S, IsFiniteSet(S), NEW f \in [S -> Nat], NEW n \in Nat
  PROVE  Total([x \in S |-> n * f[x]]) = n * Total(f)
<1> DEFINE scaled(k) == [x \in S |-> k * f[x]]
           Bad == {k \in Nat : Total(scaled(k)) # k * Total(f)}
<1>1. SUFFICES ASSUME Bad # {} PROVE FALSE
  OBVIOUS
<1>2. PICK m \in Bad : \A k \in Bad : m <= k
  BY <1>1, LeastElement
<1>3. Total(f) \in Nat
  BY TotalType
<1>4. CASE m = 0
  <2>1. scaled(m) = [x \in S |-> 0]
    BY <1>4
  <2> QED
    BY <1>2, <1>3, <1>4, <2>1, TotalOfZeros
<1>5. CASE m # 0
  <2>1. m - 1 \in Nat /\ m - 1 \notin Bad
    BY <1>2, <1>5
  <2>2. Total(scaled(m - 1)) = (m - 1) * Total(f)
    BY <2>1
  <2>3. scaled(m - 1) \in [S -> Nat]
    BY <2>1
  <2>4. scaled(m) = [x \in S |-> scaled(m - 1)[x] + f[x]]
    BY <2>1
  <2>5. Total(scaled(m)) = Total(scaled(m - 1)) + Total(f)
    BY <2>3, <2>4, TotalAdd
  <2>6. Total(scaled(m)) = m * Total(f)
    BY <1>3, <2>1, <2>2, <2>5
  <2> QED
    BY <1>2, <2>6
<1> QED
  BY <1>4, <1>5

-----------------------------------------------------------------------------
(* Among some subsets of a finite set there is one without a smaller one.  *)
LEMMA SmallestSubset ==
  ASSUME NEW S, IsFiniteSet(S), NEW Some \in SUBSET SUBSET S, Some # {}
  PROVE  \E U \in Some : \A V \in SUBSET U : V # U => V \notin Some
<1> DEFINE Below == StrictSubsetOrdering(S)
<1>1. IsWellFoundedOn(Below, FiniteSubsetsOf(S))
  BY FS_StrictSubsetOrderingWellFounded
<1>2. Some \subseteq FiniteSubsetsOf(S)
  BY FS_Subset DEF FiniteSubsetsOf
<1>3. PICK U \in Some : \A V \in Some : <<V, U>> \notin Below
  <2> HIDE DEF Below
  <2> QED
    BY <1>1, <1>2, WFMin
<1>4. ASSUME NEW V \in SUBSET U, V # U, V \in Some PROVE FALSE
  BY <1>3, <1>4 DEF StrictSubsetOrdering
<1> QED
  BY <1>4

(* The total over two sets without a common element.                       *)
LEMMA TotalUnion ==
  ASSUME NEW A, NEW B, IsFiniteSet(A), IsFiniteSet(B), A \cap B = {},
         NEW f \in [A \cup B -> Nat]
  PROVE  Total(f) = Total(Restrict(f, A)) + Total(Restrict(f, B))
<1> DEFINE g == [x \in A |-> f[x]]
           h == [x \in B |-> f[x]]
<1>1. g \in [A -> Nat] /\ h \in [B -> Nat]
  OBVIOUS
<1>2. /\ IsFiniteSet(Tokens(g)) /\ IsFiniteSet(Tokens(h))
      /\ Cardinality(Tokens(g)) \in Nat /\ Cardinality(Tokens(h)) \in Nat
  <2> HIDE DEF g, h
  <2> QED
    BY <1>1, TokensFinite, FS_CardinalityType
<1>3. Tokens(f) = Tokens(g) \cup Tokens(h) /\ Tokens(g) \cap Tokens(h) = {}
  BY DEF Tokens
<1> HIDE DEF g, h
<1>4. Cardinality(Tokens(g) \cup Tokens(h))
        = Cardinality(Tokens(g)) + Cardinality(Tokens(h))
            - Cardinality(Tokens(g) \cap Tokens(h))
  BY <1>2, FS_Union
<1>5. Cardinality(Tokens(g) \cap Tokens(h)) = 0
  BY <1>3, FS_EmptySet
<1>6. Total(f) = Total(g) + Total(h)
  BY <1>2, <1>3, <1>4, <1>5 DEF Total
<1> QED
  BY <1>6 DEF g, h, Restrict

(* The total over one element.                                             *)
LEMMA TotalSingle ==
  ASSUME NEW x, NEW f \in [{x} -> Nat]
  PROVE  Total(f) = f[x]
<1>1. Tokens(f) = {x} \X (1 .. f[x])
  BY DEF Tokens
<1>2. f[x] \in Nat
  OBVIOUS
<1> QED
  BY <1>1, <1>2, Column DEF Total

(* The total of a row of a table, and the column of these totals.          *)
RowTotal(f, T, x) == Total([y \in T |-> f[<<x, y>>]])

RowTotals(f, S, T) == [x \in S |-> RowTotal(f, T, x)]

(* The total of a table, row by row.                                       *)
LEMMA TotalOfRows ==
  ASSUME NEW S, NEW T, IsFiniteSet(S), IsFiniteSet(T),
         NEW f \in [S \X T -> Nat]
  PROVE  /\ RowTotals(f, S, T) \in [S -> Nat]
         /\ Total(f) = Total(RowTotals(f, S, T))
<1> DEFINE row(x)   == [y \in T |-> f[<<x, y>>]]
           rows(U)  == [x \in U |-> Total(row(x))]
           table(U) == [z \in U \X T |-> f[z]]
           Bad == {U \in SUBSET S : Total(table(U)) # Total(rows(U))}
<1>1. ASSUME NEW x \in S PROVE row(x) \in [T -> Nat] /\ Total(row(x)) \in Nat
  <2>1. row(x) \in [T -> Nat]
    OBVIOUS
  <2> HIDE DEF row
  <2> QED
    BY <2>1, TotalType
<1>2. ASSUME Bad # {} PROVE FALSE
  <2>1. PICK U \in Bad : \A V \in SUBSET U : V # U => V \notin Bad
    <3> HIDE DEF Bad
    <3>1. Bad \in SUBSET SUBSET S
      BY DEF Bad
    <3> QED
      BY <1>2, <3>1, SmallestSubset
  <2>2. U \in SUBSET S
    OBVIOUS
  <2>3. CASE U = {}
    <3>1. Tokens(table(U)) = {} /\ Tokens(rows(U)) = {}
      BY <2>3 DEF Tokens
    <3> QED
      BY <3>1 DEF Total
  <2>4. CASE U # {}
    <3>1. PICK x \in U : TRUE
      BY <2>4
    <3> DEFINE V == U \ {x}
    <3>2. Total(table(V)) = Total(rows(V))
      BY <2>1, <2>2, <3>1
    <3>3. /\ IsFiniteSet(V) /\ IsFiniteSet({x})
          /\ IsFiniteSet(V \X T) /\ IsFiniteSet({x} \X T)
      BY <2>2, FS_Subset, FS_Singleton, FS_Product
    <3>4. Total(rows(U)) = Total(rows(V)) + Total(row(x))
      <4>1. rows(U) \in [V \cup {x} -> Nat]
        <5> HIDE DEF row
        <5> QED
          BY <1>1, <2>2
      <4>2. Total(rows(U)) = Total([u \in V |-> rows(U)[u]])
                             + Total([u \in {x} |-> rows(U)[u]])
        <5>1. V \cap {x} = {}
          OBVIOUS
        <5> DEFINE whole == rows(U)
        <5>2. Total(whole) = Total(Restrict(whole, V))
                             + Total(Restrict(whole, {x}))
          <6>1. whole \in [V \cup {x} -> Nat]
            BY <4>1
          <6> HIDE DEF whole, V
          <6> QED
            BY <3>3, <5>1, <6>1, TotalUnion
        <5> QED
          BY <5>2 DEF Restrict
      <4>3. [u \in V |-> rows(U)[u]] = rows(V)
        BY <2>2
      <4>4. Total([u \in {x} |-> rows(U)[u]]) = Total(row(x))
        <5>1. [u \in {x} |-> rows(U)[u]] \in [{x} -> Nat]
          BY <4>1
        <5>2. Total([u \in {x} |-> rows(U)[u]]) = rows(U)[x]
          <6> HIDE DEF rows
          <6> QED
            BY <5>1, TotalSingle
        <5> QED
          BY <5>2
      <4> QED
        BY <4>2, <4>3, <4>4
    <3>5. Total(table(U)) = Total(table(V)) + Total([z \in {x} \X T |-> f[z]])
      <4>1. table(U) \in [(V \X T) \cup ({x} \X T) -> Nat]
        BY <2>2
      <4>2. (V \X T) \cap ({x} \X T) = {}
        OBVIOUS
      <4>3. Total(table(U)) = Total([z \in V \X T |-> table(U)[z]])
                              + Total([z \in {x} \X T |-> table(U)[z]])
        <5> DEFINE left  == V \X T
                   right == {x} \X T
                   whole == table(U)
        <5>1. /\ IsFiniteSet(left) /\ IsFiniteSet(right) /\ left \cap right = {}
              /\ whole \in [left \cup right -> Nat]
          BY <3>3, <4>1, <4>2
        <5>2. Total(whole) = Total(Restrict(whole, left))
                             + Total(Restrict(whole, right))
          <6> HIDE DEF left, right, whole
          <6> QED
            BY <5>1, TotalUnion
        <5> QED
          BY <5>2 DEF Restrict
      <4>4. /\ [z \in V \X T |-> table(U)[z]] = table(V)
            /\ [z \in {x} \X T |-> table(U)[z]] = [z \in {x} \X T |-> f[z]]
        BY <2>2
      <4> QED
        BY <4>3, <4>4
    <3>6. Total([z \in {x} \X T |-> f[z]]) = Total(row(x))
      <4> DEFINE place == [y \in T |-> <<x, y>>]
                 g     == [z \in {x} \X T |-> f[z]]
      <4>1. place \in Bijection(T, {x} \X T)
        <5>1. place \in [T -> {x} \X T]
          OBVIOUS
        <5>2. ASSUME NEW a \in T, NEW b \in T, place[a] = place[b]
              PROVE  a = b
          BY <5>2
        <5>3. ASSUME NEW z \in {x} \X T PROVE \E a \in T : place[a] = z
          <6>1. z[2] \in T /\ place[z[2]] = z
            OBVIOUS
          <6> QED
            BY <6>1
        <5> HIDE DEF place
        <5> QED
          BY <5>1, <5>2, <5>3 DEF Bijection, Injection, Surjection, IsInjective
      <4>2. g \in [{x} \X T -> Nat]
        BY <2>2
      <4>3. [y \in T |-> g[place[y]]] = row(x)
        BY <2>2
      <4> HIDE DEF place, g
      <4>4. Total([y \in T |-> g[place[y]]]) = Total(g)
        BY <3>3, <4>1, <4>2, TotalReordered
      <4> QED
        BY <4>3, <4>4 DEF g
    <3> QED
      BY <3>2, <3>4, <3>5, <3>6
  <2> QED
    BY <2>3, <2>4
<1>3. Total(table(S)) = Total(rows(S))
  BY <1>2
<1>4. table(S) = f
  OBVIOUS
<1>5. rows(S) \in [S -> Nat]
  <2> HIDE DEF row
  <2> QED
    BY <1>1
<1>6. rows(S) = RowTotals(f, S, T)
  BY DEF RowTotals, RowTotal
<1> HIDE DEF rows, table
<1> QED
  BY <1>3, <1>4, <1>5, <1>6

ColumnTotals(f, S, T) == [y \in T |-> Total([x \in S |-> f[<<x, y>>]])]

(* Adding up a table by rows or by columns makes no difference.            *)
LEMMA TotalByColumns ==
  ASSUME NEW S, NEW T, IsFiniteSet(S), IsFiniteSet(T),
         NEW f \in [S \X T -> Nat]
  PROVE  Total(RowTotals(f, S, T)) = Total(ColumnTotals(f, S, T))
<1> DEFINE g    == [z \in T \X S |-> f[<<z[2], z[1]>>]]
           flip == [z \in T \X S |-> <<z[2], z[1]>>]
<1>1. g \in [T \X S -> Nat] /\ g = [z \in T \X S |-> f[flip[z]]]
  OBVIOUS
<1>2. flip \in Bijection(T \X S, S \X T)
  <2>1. flip \in [T \X S -> S \X T]
    OBVIOUS
  <2>2. ASSUME NEW a \in T \X S, NEW b \in T \X S, flip[a] = flip[b]
        PROVE  a = b
    BY <2>2
  <2>3. ASSUME NEW c \in S \X T PROVE \E a \in T \X S : flip[a] = c
    <3>1. <<c[2], c[1]>> \in T \X S /\ flip[<<c[2], c[1]>>] = c
      OBVIOUS
    <3> QED
      BY <3>1
  <2> HIDE DEF flip
  <2> QED
    BY <2>1, <2>2, <2>3 DEF Bijection, Injection, Surjection, IsInjective
<1>3. IsFiniteSet(S \X T) /\ IsFiniteSet(T \X S)
  BY FS_Product
<1>4. Total(g) = Total(f)
  <2> HIDE DEF flip, g
  <2>1. Total([z \in T \X S |-> f[flip[z]]]) = Total(f)
    BY <1>2, <1>3, TotalReordered
  <2> QED
    BY <1>1, <2>1
<1>5. Total(g) = Total(RowTotals(g, T, S))
  <2> HIDE DEF g
  <2> QED
    BY <1>1, TotalOfRows
<1>6. RowTotals(g, T, S) = ColumnTotals(f, S, T)
  <2>1. ASSUME NEW y \in T
        PROVE  [x \in S |-> g[<<y, x>>]] = [x \in S |-> f[<<x, y>>]]
    OBVIOUS
  <2> QED
    BY <2>1 DEF RowTotals, RowTotal, ColumnTotals
<1>7. Total(f) = Total(RowTotals(f, S, T))
  BY TotalOfRows
<1> HIDE DEF g
<1> QED
  BY <1>4, <1>5, <1>6, <1>7

(* The total of a function that is c on a part of its domain, 0 elsewhere. *)
LEMMA TotalOn ==
  ASSUME NEW S, IsFiniteSet(S), NEW A \in SUBSET S, NEW c \in Nat
  PROVE  Total([x \in S |-> IF x \in A THEN c ELSE 0]) = Cardinality(A) * c
<1> DEFINE f == [x \in S |-> IF x \in A THEN c ELSE 0]
<1>1. f \in [S -> Nat]
  OBVIOUS
<1>2. Tokens(f) = {t \in S \X Nat : t[2] \in 1 .. f[t[1]]}
  BY <1>1, TokensAre
<1>3. Tokens(f) = A \X (1 .. c)
  <2>1. ASSUME NEW t \in A \X (1 .. c) PROVE t \in Tokens(f)
    <3>1. t \in S \X Nat /\ t[2] \in 1 .. f[t[1]]
      OBVIOUS
    <3> QED
      BY <1>2, <3>1
  <2>2. ASSUME NEW t \in Tokens(f) PROVE t \in A \X (1 .. c)
    <3>1. t \in S \X Nat /\ t[2] \in 1 .. f[t[1]]
      BY <1>2
    <3>2. t[1] \in A
      BY <3>1
    <3> QED
      BY <3>1, <3>2
  <2> QED
    BY <2>1, <2>2
<1>4. IsFiniteSet(A) /\ IsFiniteSet(1 .. c) /\ Cardinality(1 .. c) = c
  BY FS_Subset, FS_Interval
<1>5. Cardinality(A \X (1 .. c)) = Cardinality(A) * Cardinality(1 .. c)
  BY <1>4, FS_Product
<1> QED
  BY <1>3, <1>4, <1>5 DEF Total

(* How many elements of A are below x.                                     *)
Placed(A, x) == Cardinality({y \in A : y < x})

(* Counting the smaller elements numbers a finite set from 0 in its order. *)
LEMMA PlacedIs ==
  ASSUME NEW A \in SUBSET Nat, IsFiniteSet(A)
  PROVE  /\ \A x \in A, y \in A : x < y => Placed(A, x) < Placed(A, y)
         /\ [x \in A |-> Placed(A, x)]
              \in Bijection(A, 0 .. Cardinality(A) - 1)
<1> DEFINE below(x) == {y \in A : y < x}
           place == [x \in A |-> Placed(A, x)]
<1>1. Cardinality(A) \in Nat
  BY FS_CardinalityType
<1>2. ASSUME NEW x \in A
      PROVE  /\ IsFiniteSet(below(x))
             /\ Placed(A, x) \in 0 .. Cardinality(A) - 1
  <2>1. below(x) \in SUBSET A /\ x \notin below(x)
    <3>1. x \in Nat
      OBVIOUS
    <3> QED
      BY <3>1
  <2> HIDE DEF below
  <2>2. /\ IsFiniteSet(below(x)) /\ Cardinality(below(x)) \in Nat
        /\ Cardinality(below(x)) <= Cardinality(A)
        /\ Cardinality(below(x)) # Cardinality(A)
    BY <2>1, FS_Subset, FS_CardinalityType
  <2>3. Placed(A, x) = Cardinality(below(x))
    BY DEF Placed, below
  <2> QED
    BY <1>1, <2>2, <2>3
<1>3. ASSUME NEW x \in A, NEW y \in A, x < y
      PROVE  Placed(A, x) < Placed(A, y)
  <2>1. below(x) \in SUBSET below(y) /\ x \in below(y) /\ x \notin below(x)
    <3>1. x \in Nat /\ y \in Nat /\ A \subseteq Nat
      OBVIOUS
    <3>2. ASSUME NEW z \in below(x) PROVE z \in below(y)
      <4>1. z \in Nat /\ z \in A /\ z < x
        BY <3>1
      <4> QED
        BY <1>3, <3>1, <4>1
    <3>3. x \in below(y) /\ x \notin below(x)
      BY <1>3, <3>1
    <3> HIDE DEF below
    <3> QED
      BY <3>2, <3>3
  <2>2. IsFiniteSet(below(y)) /\ IsFiniteSet(below(x))
    BY <1>2
  <2>3. Placed(A, x) = Cardinality(below(x)) /\ Placed(A, y) = Cardinality(below(y))
    BY DEF Placed
  <2> HIDE DEF below
  <2>4. /\ Cardinality(below(x)) <= Cardinality(below(y))
        /\ Cardinality(below(x)) # Cardinality(below(y))
    BY <2>1, <2>2, FS_Subset
  <2>5. Cardinality(below(x)) \in Nat /\ Cardinality(below(y)) \in Nat
    BY <2>2, FS_CardinalityType
  <2> QED
    BY <2>3, <2>4, <2>5
<1>4. place \in [A -> 0 .. Cardinality(A) - 1]
  BY <1>2
<1>5. ASSUME NEW x \in A, NEW y \in A, place[x] = place[y]
      PROVE  x = y
  <2>1. x \in Nat /\ y \in Nat /\ Placed(A, x) = Placed(A, y)
    BY <1>5
  <2>2. Placed(A, x) \in Nat /\ Placed(A, y) \in Nat
    <3>1. \A z \in 0 .. Cardinality(A) - 1 : z \in Nat
      BY <1>1
    <3> HIDE DEF place
    <3> QED
      BY <1>2, <3>1
  <2>3. ~(x < y) /\ ~(y < x)
    BY <1>3, <2>1, <2>2
  <2> QED
    BY <2>1, <2>3
<1>6. place \in Injection(A, 0 .. Cardinality(A) - 1)
  <2> HIDE DEF place
  <2> QED
    BY <1>4, <1>5 DEF Injection, IsInjective
<1>7. /\ IsFiniteSet(0 .. Cardinality(A) - 1)
      /\ Cardinality(0 .. Cardinality(A) - 1) = Cardinality(A)
  <2>1. Cardinality(A) - 1 \in Int
    BY <1>1
  <2>2. /\ IsFiniteSet(0 .. Cardinality(A) - 1)
        /\ Cardinality(0 .. Cardinality(A) - 1)
             = IF 0 > Cardinality(A) - 1 THEN 0 ELSE Cardinality(A) - 1 - 0 + 1
    BY <2>1, FS_Interval
  <2> QED
    BY <1>1, <2>2
<1>8. place \in Surjection(A, 0 .. Cardinality(A) - 1)
  <2> DEFINE T == 0 .. Cardinality(A) - 1
  <2>1. place \in Injection(A, T) /\ IsFiniteSet(T) /\ Cardinality(A) = Cardinality(T)
    BY <1>6, <1>7
  <2>2. place \in Surjection(A, T)
    <3> HIDE DEF place, T
    <3> QED
      BY <2>1, FS_Injection
  <2> QED
    BY <2>2
<1>9. place \in Bijection(A, 0 .. Cardinality(A) - 1)
  <2> HIDE DEF place
  <2> QED
    BY <1>6, <1>8 DEF Bijection
<1> QED
  BY <1>3, <1>9

(* The first k elements of a finite set are k.                             *)
LEMMA FirstPlaces ==
  ASSUME NEW A \in SUBSET Nat, IsFiniteSet(A), NEW k \in 0 .. Cardinality(A)
  PROVE  Cardinality({x \in A : Placed(A, x) < k}) = k
<1> DEFINE T     == 0 .. Cardinality(A) - 1
           place == [x \in A |-> Placed(A, x)]
           First == {x \in A : Placed(A, x) < k}
           some  == Restrict(place, First)
<1>1. Cardinality(A) \in Nat /\ k \in Nat /\ 0 .. k-1 \subseteq T
  <2>1. Cardinality(A) \in Nat
    BY FS_CardinalityType
  <2> QED
    BY <2>1
<1>2. place \in Bijection(A, T)
  BY PlacedIs
<1>3. /\ place \in [A -> T] /\ \A x \in A : place[x] = Placed(A, x)
      /\ \A x \in A, y \in A : place[x] = place[y] => x = y
      /\ \A j \in T : \E x \in A : place[x] = j
  <2>1. \A x \in A : place[x] = Placed(A, x)
    OBVIOUS
  <2> HIDE DEF place, T
  <2> QED
    BY <1>2, <2>1 DEF Bijection, Injection, Surjection, IsInjective
<1> HIDE DEF place
<1>4. /\ some \in [First -> 0 .. k-1]
      /\ \A x \in First : some[x] = place[x]
  <2>1. \A x \in First : x \in A /\ place[x] \in 0 .. k-1
    BY <1>1, <1>3
  <2> QED
    BY <2>1 DEF Restrict
<1>5. ASSUME NEW j \in 0 .. k-1 PROVE \E x \in First : some[x] = j
  <2>1. PICK x \in A : place[x] = j
    BY <1>1, <1>3
  <2>2. x \in First
    BY <1>1, <1>3, <2>1
  <2> QED
    BY <1>4, <2>1, <2>2
<1>6. \A x \in First, y \in First : some[x] = some[y] => x = y
  BY <1>3, <1>4
<1> HIDE DEF some
<1>7. some \in Bijection(First, 0 .. k-1)
  <2> HIDE DEF First
  <2> QED
    BY <1>4, <1>5, <1>6 DEF Bijection, Injection, Surjection, IsInjective
<1>8. IsFiniteSet(First)
  BY FS_Subset
<1>9. Cardinality(0 .. k-1) = Cardinality(First)
  <2> HIDE DEF First
  <2> QED
    BY <1>7, <1>8, FS_Bijection DEF ExistsBijection
<1>10. Cardinality(0 .. k-1) = k
  <2>1. k-1 \in Int
    BY <1>1
  <2>2. Cardinality(0 .. k-1) = IF 0 > k-1 THEN 0 ELSE k-1 - 0 + 1
    BY <2>1, FS_Interval
  <2> QED
    BY <1>1, <2>2
<1> QED
  BY <1>9, <1>10

(* The total without one element, and that element's value.                *)
LEMMA TotalRemove ==
  ASSUME NEW S, IsFiniteSet(S), NEW f \in [S -> Nat], NEW x \in S
  PROVE  Total(f) = Total(Restrict(f, S \ {x})) + f[x]
<1> DEFINE V == S \ {x}
           one == Restrict(f, {x})
<1>1. /\ IsFiniteSet(V) /\ IsFiniteSet({x}) /\ V \cap {x} = {}
      /\ f \in [V \cup {x} -> Nat]
  <2>1. S = V \cup {x}
    OBVIOUS
  <2>2. IsFiniteSet(V) /\ IsFiniteSet({x})
    BY FS_Subset, FS_Singleton
  <2> HIDE DEF V
  <2>3. f \in [V \cup {x} -> Nat]
    BY <2>1
  <2> QED
    BY <2>2, <2>3 DEF V
<1>2. Total(f) = Total(Restrict(f, V)) + Total(one)
  <2> HIDE DEF V
  <2> QED
    BY <1>1, TotalUnion
<1>3. one \in [{x} -> Nat] /\ one[x] = f[x]
  BY DEF Restrict
<1>4. Total(one) = f[x]
  <2> HIDE DEF one
  <2> QED
    BY <1>3, TotalSingle
<1> QED
  BY <1>2, <1>4

(* The largest of finitely many numbers, and how it is recognised.         *)
LEMMA LargestIs ==
  ASSUME NEW S \in SUBSET Nat, IsFiniteSet(S), S # {}
  PROVE  Largest(S) \in S /\ \A y \in S : y <= Largest(S)
BY GreatestElement DEF Largest

LEMMA LargestEquals ==
  ASSUME NEW S \in SUBSET Nat, NEW m \in S, \A y \in S : y <= m
  PROVE  Largest(S) = m
<1>1. Largest(S) \in S /\ \A y \in S : y <= Largest(S)
  BY DEF Largest
<1>2. /\ Largest(S) \in Nat /\ m \in Nat
      /\ Largest(S) <= m /\ m <= Largest(S)
  BY <1>1
<1> QED
  BY <1>2

(* A number t cut at the levels L: the part of it between a level and the  *)
(* next lower one.                                                         *)
StepBelow(L, l) == Largest({0} \cup {k \in L : k < l})

Slice(L, t, l) == Least(t, l) - Least(t, StepBelow(L, l))

LEMMA SliceIs ==
  ASSUME NEW L \in SUBSET Nat, IsFiniteSet(L), NEW t \in Nat, NEW l \in L
  PROVE  /\ StepBelow(L, l) \in Nat
         /\ StepBelow(L, l) <= l
         /\ Slice(L, t, l) \in Nat
<1> DEFINE Lower == {0} \cup {k \in L : k < l}
<1>1. IsFiniteSet(Lower) /\ Lower \in SUBSET Nat /\ Lower # {}
  <2>1. IsFiniteSet({k \in L : k < l}) /\ IsFiniteSet({0})
    BY FS_Subset, FS_Singleton
  <2>2. IsFiniteSet(Lower)
    BY <2>1, FS_Union
  <2>3. \A k \in L : k \in Nat
    OBVIOUS
  <2>4. \A k \in Lower : k \in Nat
    BY <2>3
  <2> QED
    BY <2>2, <2>4
<1>2. \A k \in Lower : k <= l
  OBVIOUS
<1>3. StepBelow(L, l) \in Lower
  <2> HIDE DEF Lower
  <2>1. Largest(Lower) \in Lower
    BY <1>1, LargestIs
  <2> QED
    BY <2>1 DEF StepBelow, Lower
<1>4. StepBelow(L, l) \in Nat /\ StepBelow(L, l) <= l /\ l \in Nat
  <2> HIDE DEF Lower
  <2> QED
    BY <1>1, <1>2, <1>3
<1> QED
  BY <1>4 DEF Slice, Least

(* The slices up to the top level add up to the part of t below it.        *)
LEMMA SlicesAddUp ==
  ASSUME NEW L \in SUBSET Nat, IsFiniteSet(L), NEW t \in Nat
  PROVE  /\ [l \in L |-> Slice(L, t, l)] \in [L -> Nat]
         /\ Total([l \in L |-> Slice(L, t, l)])
              = Least(t, Largest({0} \cup L))
<1> DEFINE slices(U) == [l \in U |-> Slice(U, t, l)]
           top(U)    == Largest({0} \cup U)
           Bad == {U \in SUBSET L : Total(slices(U)) # Least(t, top(U))}
<1>1. ASSUME NEW U \in SUBSET L
      PROVE  /\ IsFiniteSet(U) /\ U \in SUBSET Nat
             /\ slices(U) \in [U -> Nat]
             /\ top(U) \in {0} \cup U /\ \A k \in {0} \cup U : k <= top(U)
  <2>1. IsFiniteSet(U) /\ U \in SUBSET Nat
    BY FS_Subset
  <2>2. \A l \in U : Slice(U, t, l) \in Nat
    BY <2>1, SliceIs
  <2> DEFINE W == {0} \cup U
  <2>3. IsFiniteSet(W) /\ W \in SUBSET Nat /\ W # {}
    <3>1. IsFiniteSet({0})
      BY FS_Singleton
    <3>2. IsFiniteSet(W)
      BY <2>1, <3>1, FS_Union
    <3>3. \A k \in W : k \in Nat
      BY <2>1
    <3> QED
      BY <3>2, <3>3
  <2>4. Largest(W) \in W /\ \A k \in W : k <= Largest(W)
    <3> HIDE DEF W
    <3> QED
      BY <2>3, LargestIs
  <2> QED
    BY <2>1, <2>2, <2>4
<1>2. ASSUME Bad # {} PROVE FALSE
  <2>1. PICK U \in Bad : \A V \in SUBSET U : V # U => V \notin Bad
    <3> HIDE DEF Bad
    <3>1. Bad \in SUBSET SUBSET L
      BY DEF Bad
    <3> QED
      BY <1>2, <3>1, SmallestSubset
  <2>2. U \in SUBSET L
    OBVIOUS
  <2>3. CASE U = {}
    <3>1. Tokens(slices(U)) = {}
      BY <2>3 DEF Tokens
    <3>2. Total(slices(U)) = 0
      BY <3>1, FS_EmptySet DEF Total
    <3>3. top(U) = 0
      BY <1>1, <2>2, <2>3
    <3>4. Least(t, 0) = 0
      BY DEF Least
    <3> HIDE DEF slices, top
    <3> QED
      BY <3>2, <3>3, <3>4
  <2>4. CASE U # {}
    <3>1. PICK m \in U : \A k \in U : k <= m
      BY <1>1, <2>2, <2>4, GreatestElement
    <3> DEFINE V == U \ {m}
    <3>2. V \in SUBSET L /\ Total(slices(V)) = Least(t, top(V))
      BY <2>1, <2>2, <3>1
    <3>3. Total(slices(U)) = Total(Restrict(slices(U), V)) + slices(U)[m]
      <4> HIDE DEF slices
      <4> QED
        BY <1>1, <2>2, TotalRemove
    <3>4. Restrict(slices(U), V) = slices(V)
      <4>1. ASSUME NEW l \in V PROVE Slice(U, t, l) = Slice(V, t, l)
        <5>1. {k \in U : k < l} = {k \in V : k < l}
          <6>1. m \in Nat /\ l \in Nat /\ l <= m
            BY <1>1, <2>2, <3>1
          <6> QED
            BY <6>1
        <5> QED
          BY <5>1 DEF Slice, StepBelow
      <4> QED
        BY <4>1 DEF Restrict
    <3>5. slices(U)[m] = Least(t, m) - Least(t, top(V))
      <4>1. {k \in U : k < m} = V
        <5>1. m \in Nat /\ \A k \in U : k \in Nat
          BY <1>1, <2>2
        <5>2. ASSUME NEW k \in U, k # m PROVE k < m
          BY <3>1, <5>1, <5>2
        <5>3. ~(m < m)
          BY <5>1
        <5> QED
          BY <5>2, <5>3
      <4> QED
        BY <4>1 DEF Slice, StepBelow
    <3>6. top(U) = m
      <4>1. \A k \in {0} \cup U : k <= m
        BY <1>1, <2>2, <3>1
      <4>2. top(U) \in {0} \cup U /\ m <= top(U)
        BY <1>1, <2>2
      <4>3. m \in Nat /\ \A k \in {0} \cup U : k \in Nat
        BY <1>1, <2>2
      <4> HIDE DEF top
      <4>4. top(U) \in Nat /\ top(U) <= m /\ m <= top(U)
        BY <4>1, <4>2, <4>3
      <4> QED
        BY <4>3, <4>4
    <3>7. Least(t, m) \in Nat /\ Least(t, top(V)) \in Nat
      <4>1. m \in Nat
        BY <1>1, <2>2
      <4>2. top(V) \in Nat
        <5>1. top(V) \in {0} \cup V
          BY <1>1, <3>2
        <5>2. \A k \in {0} \cup V : k \in Nat
          BY <1>1, <3>2
        <5> HIDE DEF top, V
        <5> QED
          BY <5>1, <5>2
      <4> HIDE DEF top
      <4> QED
        BY <4>1, <4>2 DEF Least
    <3>8. Total(slices(U)) = Least(t, top(U))
      <4> HIDE DEF slices, top, V
      <4> QED
        BY <3>2, <3>3, <3>4, <3>5, <3>6, <3>7
    <3> QED
      BY <3>8
  <2> QED
    BY <2>3, <2>4
<1>3. Total(slices(L)) = Least(t, top(L))
  BY <1>2
<1> QED
  BY <1>1, <1>3

-----------------------------------------------------------------------------
(* Both sides of a comparison may be multiplied.                           *)
LEMMA TimesFactor ==
  ASSUME NEW a \in Nat, NEW b \in Nat, NEW n \in Nat, a <= b
  PROVE  n * a <= n * b
<1>1. PICK d \in Nat : b = a + d
  <2>1. b - a \in Nat /\ b = a + (b - a)
    OBVIOUS
  <2> QED
    BY <2>1
<1>2. n * b = n * a + n * d
  BY <1>1
<1>3. n * a \in Nat /\ n * d \in Nat
  OBVIOUS
<1> QED
  BY <1>2, <1>3

(* What is at most as much n times over is at most as much.                *)
LEMMA CancelFactor ==
  ASSUME NEW a \in Nat, NEW b \in Nat, NEW n \in Nat \ {0}, n * a <= n * b
  PROVE  a <= b
<1>1. SUFFICES ASSUME b + 1 <= a PROVE FALSE
  OBVIOUS
<1>2. PICK d \in Nat : a = b + 1 + d
  <2>1. a - (b + 1) \in Nat /\ a = b + 1 + (a - (b + 1))
    BY <1>1
  <2> QED
    BY <2>1
<1>3. n * a = n * b + n + n * d
  BY <1>2
<1>4. n * d \in Nat /\ n * b \in Nat
  OBVIOUS
<1> QED
  BY <1>3, <1>4

(* Rounded payouts are never more than what they round.                    *)
LEMMA RoundedDown ==
  ASSUME NEW c \in Nat, NEW buyIn \in Nat, NEW s \in Nat \ {0}
  PROVE  /\ (c * buyIn) \div s \in Nat
         /\ s * ((c * buyIn) \div s) <= buyIn * c
<1> DEFINE product == c * buyIn
<1>1. product \in Nat /\ product = buyIn * c
  OBVIOUS
<1> HIDE DEF product
<1>2. product \div s \in Nat /\ s * (product \div s) <= product
  BY <1>1
<1> QED
  BY <1>1, <1>2 DEF product

(* The rounded payouts of a game that minted no chips stay within the      *)
(* buy-ins.                                                                *)
LEMMA RawWithin ==
  ASSUME NEW n \in Nat, NEW chips \in [1 .. n -> Nat], NEW buyIn \in Nat,
         NEW startingChips \in Nat \ {0},
         Total(chips) <= n * startingChips
  PROVE  /\ Raw(chips, buyIn, startingChips) \in [1 .. n -> Nat]
         /\ Total(Raw(chips, buyIn, startingChips)) <= n * buyIn
<1> DEFINE raw    == Raw(chips, buyIn, startingChips)
           scaled == [i \in 1 .. n |-> startingChips * raw[i]]
           worth  == [i \in 1 .. n |-> buyIn * chips[i]]
<1>1. IsFiniteSet(1 .. n)
  BY FS_Interval
<1>2. ASSUME NEW i \in 1 .. n
      PROVE  raw[i] \in Nat /\ startingChips * raw[i] <= buyIn * chips[i]
  BY RoundedDown DEF Raw
<1>3. raw \in [1 .. n -> Nat]
  BY <1>2 DEF Raw
<1> HIDE DEF raw
<1>4. scaled \in [1 .. n -> Nat] /\ worth \in [1 .. n -> Nat]
  BY <1>3
<1>5. \A i \in 1 .. n : scaled[i] <= worth[i]
  BY <1>2
<1>6. Total(scaled) = startingChips * Total(raw)
  BY <1>1, <1>3, TotalScale
<1>7. Total(worth) = buyIn * Total(chips)
  BY <1>1, TotalScale
<1> HIDE DEF scaled, worth
<1>8. Total(scaled) <= Total(worth)
  BY <1>1, <1>4, <1>5, TotalMonotone
<1>9. Total(raw) \in Nat /\ Total(chips) \in Nat
  BY <1>1, <1>3, TotalType
<1>10. buyIn * Total(chips) <= buyIn * (n * startingChips)
  <2>1. n * startingChips \in Nat
    OBVIOUS
  <2> QED
    BY <1>9, <2>1, TimesFactor
<1>11. startingChips * Total(raw) <= startingChips * (n * buyIn)
  <2>1. buyIn * (n * startingChips) = startingChips * (n * buyIn)
    OBVIOUS
  <2>2. startingChips * Total(raw) <= buyIn * Total(chips)
    BY <1>6, <1>7, <1>8
  <2>3. /\ startingChips * Total(raw) \in Nat
        /\ buyIn * Total(chips) \in Nat
        /\ startingChips * (n * buyIn) \in Nat
    BY <1>9
  <2> QED
    BY <1>10, <2>1, <2>2, <2>3
<1>12. Total(raw) <= n * buyIn
  BY <1>9, <1>11, CancelFactor
<1> QED
  BY <1>3, <1>12 DEF raw

(* Among the payouts of at least one player there is a first largest one.  *)
LEMMA FirstLargestIs ==
  ASSUME NEW n \in Nat \ {0}, NEW raw \in [1 .. n -> Nat]
  PROVE  /\ FirstLargest(raw) \in 1 .. n
         /\ \A j \in 1 .. n : raw[j] <= raw[FirstLargest(raw)]
<1> DEFINE values == {raw[i] : i \in 1 .. n}
<1>1. values \in SUBSET Nat /\ IsFiniteSet(values) /\ values # {}
  <2>1. IsFiniteSet(1 .. n)
    BY FS_Interval
  <2>2. raw \in Surjection(1 .. n, values)
    BY DEF Surjection
  <2>3. 1 \in 1 .. n
    OBVIOUS
  <2>4. values # {}
    BY <2>3
  <2> QED
    BY <2>1, <2>2, <2>4, FS_Surjection
<1>2. PICK m \in values : \A v \in values : v <= m
  <2> HIDE DEF values
  <2> QED
    BY <1>1, GreatestElement
<1> DEFINE top == {i \in 1 .. n : raw[i] = m}
<1>3. top \in SUBSET Nat /\ top # {}
  BY <1>2
<1>4. PICK first \in top : \A i \in top : first <= i
  <2> HIDE DEF top
  <2> QED
    BY <1>3, LeastElement
<1>5. first \in 1 .. n
      /\ \A j \in 1 .. n :
           raw[j] <= raw[first] /\ (raw[j] = raw[first] => first <= j)
  BY <1>2, <1>4
<1>6. DOMAIN raw = 1 .. n
  OBVIOUS
<1> QED
  BY <1>5, <1>6 DEF FirstLargest

(* Settling pays out exactly the buy-ins, whatever was lost to rounding or *)
(* in the game, as long as no chips were minted (payout.py:25-41).         *)
THEOREM PayoutsComplete ==
  ASSUME NEW n \in Nat \ {0}, NEW chips \in [1 .. n -> Nat], NEW buyIn \in Nat,
         NEW startingChips \in Nat \ {0},
         Total(chips) <= n * startingChips
  PROVE  /\ ComputePayouts(chips, buyIn, startingChips) \in [1 .. n -> Nat]
         /\ Total(ComputePayouts(chips, buyIn, startingChips)) = n * buyIn
<1> DEFINE raw   == Raw(chips, buyIn, startingChips)
           dust  == Cardinality(DOMAIN chips) * buyIn - Total(raw)
           first == FirstLargest(raw)
<1>1. IsFiniteSet(1 .. n) /\ Cardinality(DOMAIN chips) = n
  BY FS_Interval
<1>2. raw \in [1 .. n -> Nat] /\ Total(raw) <= n * buyIn
  BY RawWithin
<1>3. ComputePayouts(chips, buyIn, startingChips)
        = IF dust > 0 THEN [raw EXCEPT ![first] = raw[first] + dust] ELSE raw
  BY DEF ComputePayouts
<1> HIDE DEF raw, first
<1>4. Total(raw) \in Nat /\ dust \in Nat /\ Total(raw) + dust = n * buyIn
  <2>1. Total(raw) \in Nat /\ n * buyIn \in Nat
    BY <1>1, <1>2, TotalType
  <2>2. dust = n * buyIn - Total(raw)
    BY <1>1
  <2> HIDE DEF dust
  <2> QED
    BY <1>2, <2>1, <2>2
<1> HIDE DEF dust
<1>5. CASE dust > 0
  <2>1. first \in 1 .. n
    BY <1>2, FirstLargestIs DEF first
  <2> DEFINE most == raw[first] + dust
  <2>2. raw[first] \in Nat /\ most \in Nat
    BY <1>2, <1>4, <2>1
  <2>3. most = raw[first] + dust
    OBVIOUS
  <2>4. ComputePayouts(chips, buyIn, startingChips)
          = [raw EXCEPT ![first] = most]
    BY <1>3, <1>5
  <2> HIDE DEF most
  <2>5. /\ [raw EXCEPT ![first] = most] \in [1 .. n -> Nat]
        /\ Total([raw EXCEPT ![first] = most]) = Total(raw) - raw[first] + most
    <3>1. ASSUME NEW S, IsFiniteSet(S), raw \in [S -> Nat], first \in S
          PROVE  /\ [raw EXCEPT ![first] = most] \in [S -> Nat]
                 /\ Total([raw EXCEPT ![first] = most])
                      = Total(raw) - raw[first] + most
      BY <2>2, <3>1, TotalUpdate
    <3> QED
      BY <1>1, <1>2, <2>1, <3>1
  <2>6. Total(raw) - raw[first] + most = n * buyIn
    BY <1>4, <2>2, <2>3
  <2> QED
    BY <2>4, <2>5, <2>6
<1>6. CASE ~(dust > 0)
  BY <1>2, <1>3, <1>4, <1>6
<1> QED
  BY <1>5, <1>6

(* Whatever the chips are, every seat gets a number of credits.            *)
LEMMA PayoutsType ==
  ASSUME NEW n \in Nat \ {0}, NEW chips \in [1 .. n -> Nat], NEW buyIn \in Nat,
         NEW startingChips \in Nat \ {0}
  PROVE  ComputePayouts(chips, buyIn, startingChips) \in [1 .. n -> Nat]
<1> DEFINE raw   == Raw(chips, buyIn, startingChips)
           dust  == Cardinality(DOMAIN chips) * buyIn - Total(raw)
           first == FirstLargest(raw)
<1>1. raw \in [1 .. n -> Nat]
  BY RoundedDown DEF Raw
<1>2. ComputePayouts(chips, buyIn, startingChips)
        = IF dust > 0 THEN [raw EXCEPT ![first] = raw[first] + dust] ELSE raw
  BY DEF ComputePayouts
<1>3. dust \in Int
  <2>1. IsFiniteSet(1 .. n) /\ Cardinality(DOMAIN chips) = n
    BY FS_Interval
  <2>2. Total(raw) \in Nat
    <3> HIDE DEF raw
    <3> QED
      BY <1>1, <2>1, TotalType
  <2> HIDE DEF raw
  <2> QED
    BY <2>1, <2>2
<1> HIDE DEF raw, dust
<1>4. first \in 1 .. n
  BY <1>1, FirstLargestIs
<1> HIDE DEF first
<1> QED
  BY <1>1, <1>2, <1>3, <1>4
=============================================================================
