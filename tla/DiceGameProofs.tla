--------------------------- MODULE DiceGameProofs ---------------------------
(***************************************************************************)
(* Every safety property of module DiceGame holds for any number of        *)
(* players, any starting chips and any ante.                               *)
(***************************************************************************)
EXTENDS DiceGame, TotalsProofs

Tables ==
  [chips : [Players -> Nat], round : SUBSET Players,
   bets : UNION {[D -> Categories] : D \in SUBSET Players},
   turn : Int, winners : SUBSET Players, over : BOOLEAN,
   winner : 0 .. MaxPlayers]

(* While a game goes on everybody who has bet, and is still in, is before  *)
(* the turn: a resignation only moves players forward, so the turn never   *)
(* comes back to one of them.                                              *)
Going(t, quitters) ==
  /\ t.winner = Nobody
  /\ t.turn \in 0 .. Cardinality(Order(t, quitters)) - 1
  /\ \A p \in Order(t, quitters) \cap DOMAIN t.bets :
       Cardinality(Before(Order(t, quitters), p)) < t.turn

Ended(t, quitters) ==
  /\ Cardinality(CanPay(t, quitters)) <= 1
  /\ IF Alive(t, quitters) = {}
       THEN t.winner = Nobody
       ELSE t.winner = Richest(t, Alive(t, quitters))

Good(t, quitters) ==
  /\ t \in Tables
  /\ DOMAIN t.bets \subseteq t.round
  /\ IF t.over THEN Ended(t, quitters) ELSE Going(t, quitters)

DiceInv ==
  /\ registered \in 0 .. MaxPlayers
  /\ resigned \in SUBSET Players
  /\ started \in BOOLEAN
  /\ table \in Tables
  /\ IF started
       THEN Good(table, resigned)
       ELSE /\ DOMAIN table.bets \subseteq table.round
            /\ ~table.over /\ table.winner = Nobody

-----------------------------------------------------------------------------
(* Players and their places.                                               *)

LEMMA PlayersFinite ==
  /\ IsFiniteSet(Players) /\ Players \subseteq Nat
  /\ \A S \in SUBSET Players :
       IsFiniteSet(S) /\ S \in SUBSET Nat /\ Cardinality(S) \in Nat
<1>1. MaxPlayers \in Nat
  BY DiceAssumption
<1>2. IsFiniteSet(Players)
  BY <1>1, FS_Interval DEF Players
<1>3. Players \subseteq Nat
  BY <1>1 DEF Players
<1> QED
  BY <1>2, <1>3, FS_Subset, FS_CardinalityType

(* A part of a set of players is not larger than the set.                  *)
LEMMA SmallerSet ==
  ASSUME NEW S \in SUBSET Players, NEW T \in SUBSET S
  PROVE  Cardinality(T) <= Cardinality(S)
BY PlayersFinite, FS_Subset

(* Every index into a list of players is the place of one of them.         *)
LEMMA SomebodyAt ==
  ASSUME NEW S \in SUBSET Players, NEW k \in 0 .. Cardinality(S) - 1
  PROVE  \E p \in S : Cardinality(Before(S, p)) = k
<1> DEFINE T     == 0 .. Cardinality(S) - 1
           place == [x \in S |-> Placed(S, x)]
<1>1. place \in Bijection(S, T)
  BY PlayersFinite, PlacedIs
<1>2. \A x \in S : place[x] = Cardinality(Before(S, x))
  BY DEF Placed, Before
<1>3. k \in T
  OBVIOUS
<1> HIDE DEF place, T
<1> QED
  BY <1>1, <1>2, <1>3 DEF Bijection, Surjection

(* The turn is one player's.                                               *)
LEMMA CurrentIs ==
  ASSUME NEW t \in Tables, NEW q,
         t.turn \in 0 .. Cardinality(Order(t, q)) - 1
  PROVE  /\ Current(t, q) \in Order(t, q)
         /\ Cardinality(Before(Order(t, q), Current(t, q))) = t.turn
<1>1. Order(t, q) \in SUBSET Players
  BY DEF Order, Tables
<1>2. \E p \in Order(t, q) : Cardinality(Before(Order(t, q), p)) = t.turn
  BY <1>1, SomebodyAt
<1> QED
  BY <1>2 DEF Current

(* A player's place does not grow when others leave.                       *)
LEMMA PlaceShrinks ==
  ASSUME NEW S \in SUBSET Players, NEW T \in SUBSET S, NEW p
  PROVE  Cardinality(Before(T, p)) <= Cardinality(Before(S, p))
<1>1. Before(S, p) \in SUBSET Players /\ Before(T, p) \in SUBSET Before(S, p)
  BY DEF Before
<1> QED
  BY <1>1, SmallerSet

(* Who has most chips depends on nothing but the chips.                    *)
LEMMA RichestByChips ==
  ASSUME NEW s, NEW t, NEW S, s.chips = t.chips
  PROVE  Richest(s, S) = Richest(t, S)
BY DEF Richest

(* Among some players there is one with most chips.                        *)
LEMMA RichestIsOne ==
  ASSUME NEW t \in Tables, NEW S \in SUBSET Players, S # {}
  PROVE  Richest(t, S) \in S
<1> DEFINE chips == {t.chips[p] : p \in S}
<1>1. t.chips \in [Players -> Nat]
  BY DEF Tables
<1>2. IsFiniteSet(S) /\ S \in SUBSET Nat
  BY PlayersFinite
<1>3. IsFiniteSet(chips) /\ chips \in SUBSET Nat /\ chips # {}
  <2>1. [p \in S |-> t.chips[p]] \in Surjection(S, chips)
    BY DEF Surjection
  <2>2. IsFiniteSet(chips)
    <3> HIDE DEF chips
    <3> QED
      BY <1>2, <2>1, FS_Surjection
  <2> QED
    BY <1>1, <2>2
<1>4. PICK m \in chips : \A k \in chips : k <= m
  <2> HIDE DEF chips
  <2> QED
    BY <1>3, GreatestElement
<1> DEFINE richest == {p \in S : t.chips[p] = m}
<1>5. richest \in SUBSET Nat /\ richest # {}
  BY <1>2, <1>4
<1>6. PICK p \in richest : \A q \in richest : p <= q
  <2> HIDE DEF richest
  <2> QED
    BY <1>5, LeastElement
<1>7. ASSUME NEW q \in S
      PROVE  t.chips[q] < t.chips[p] \/ (t.chips[q] = t.chips[p] /\ p <= q)
  <2>1. t.chips[q] <= m /\ t.chips[q] \in Nat /\ m \in Nat /\ t.chips[p] = m
    BY <1>1, <1>3, <1>4
  <2>2. CASE t.chips[q] = m
    BY <1>6, <2>1, <2>2
  <2>3. CASE t.chips[q] # m
    BY <2>1, <2>3
  <2> QED
    BY <2>2, <2>3
<1>8. p \in S
  OBVIOUS
<1> HIDE DEF richest, chips
<1> QED
  BY <1>7, <1>8 DEF Richest
-----------------------------------------------------------------------------
(* Antes and pots.                                                         *)

(* Taking an ante from those who can pay one takes as many antes.          *)
LEMMA AntesPaid ==
  ASSUME NEW chips \in [Players -> Nat], NEW able \in SUBSET Players,
         \A p \in able : chips[p] >= Ante
  PROVE  LET paid == [p \in Players |->
                        IF p \in able THEN chips[p] - Ante ELSE chips[p]]
         IN  /\ paid \in [Players -> Nat]
             /\ Total(paid) \in Nat
             /\ Total(paid) + Ante * Cardinality(able) = Total(chips)
<1> DEFINE paid == [p \in Players |->
                      IF p \in able THEN chips[p] - Ante ELSE chips[p]]
           ante == [p \in Players |-> IF p \in able THEN Ante ELSE 0]
<1>1. Ante \in Nat /\ IsFiniteSet(Players) /\ Cardinality(able) \in Nat
  BY DiceAssumption, PlayersFinite
<1>2. paid \in [Players -> Nat] /\ ante \in [Players -> Nat]
  BY <1>1
<1>3. chips = [p \in Players |-> paid[p] + ante[p]]
  <2>1. ASSUME NEW p \in Players PROVE chips[p] = paid[p] + ante[p]
    <3>1. chips[p] \in Nat
      OBVIOUS
    <3> QED
      BY <1>1, <3>1
  <2> HIDE DEF paid, ante
  <2> QED
    BY <2>1
<1>4. Total(ante) = Cardinality(able) * Ante
  BY <1>1, TotalOn
<1> HIDE DEF paid, ante
<1>5. Total(chips) = Total(paid) + Total(ante) /\ Total(paid) \in Nat
  BY <1>1, <1>2, <1>3, TotalAdd, TotalType
<1>6. Total(paid) + Ante * Cardinality(able) = Total(chips)
  BY <1>1, <1>4, <1>5
<1> QED
  BY <1>2, <1>5, <1>6 DEF paid

(* Who bet right, by the category thrown.                                  *)
Right(bets, category) == {q \in DOMAIN bets : bets[q] = category}

(* A pot that is won is paid out to the last chip, one that nobody wins is *)
(* not paid out at all.                                                    *)
LEMMA PotPaid ==
  ASSUME NEW D \in SUBSET Players, NEW bets \in [D -> Categories],
         NEW category \in Categories
  PROVE  LET paid == [p \in Players |-> Payout(bets, category, p)]
         IN  /\ paid \in [Players -> Nat]
             /\ Total(paid) = IF Right(bets, category) = {} THEN 0
                              ELSE Ante * Cardinality(D)
<1> DEFINE right == Right(bets, category)
           n     == Cardinality(right)
           pot   == Ante * Cardinality(D)
           share == [p \in Players |-> IF p \in right THEN pot \div n ELSE 0]
           lucky == {p \in right : Placed(right, p) < pot % n}
           odd   == [p \in Players |-> IF p \in lucky THEN 1 ELSE 0]
           paid  == [p \in Players |-> Payout(bets, category, p)]
<1>1. /\ DOMAIN bets = D /\ right \in SUBSET D /\ right \in SUBSET Players
      /\ lucky \in SUBSET Players
  BY DEF Right
<1>2. /\ IsFiniteSet(right) /\ right \in SUBSET Nat /\ IsFiniteSet(Players)
      /\ n \in Nat /\ pot \in Nat
  <2>1. Ante \in Nat /\ Cardinality(D) \in Nat
    BY DiceAssumption, PlayersFinite
  <2>2. pot \in Nat
    BY <2>1
  <2> HIDE DEF right, pot
  <2> QED
    BY <1>1, <2>2, PlayersFinite
<1>3. ASSUME NEW p \in Players, p \notin right
      PROVE  Payout(bets, category, p) = 0
  BY <1>3 DEF Payout, Right
<1>4. ASSUME NEW p \in right
      PROVE  Payout(bets, category, p)
               = pot \div n + (IF Placed(right, p) < pot % n THEN 1 ELSE 0)
  BY <1>1, <1>4 DEF Payout, Right, Placed, Before
<1>5. CASE right = {}
  <2>1. paid = [p \in Players |-> 0]
    BY <1>3, <1>5
  <2>2. Total(paid) = 0
    BY <2>1, TotalOfZeros
  <2> QED
    BY <1>5, <2>1, <2>2
<1>6. CASE right # {}
  <2>1. n # 0
    <3> HIDE DEF right
    <3> QED
      BY <1>2, <1>6, FS_EmptySet
  <2> HIDE DEF right, n, pot
  <2>2. /\ pot \div n \in Nat /\ pot % n \in 0 .. n
        /\ pot = (pot \div n) * n + (pot % n)
    BY <1>2, <2>1
  <2>3. \A p \in right : Placed(right, p) \in Nat
    <3>1. ASSUME NEW p \in right PROVE Placed(right, p) \in Nat
      <4>1. {y \in right : y < p} \in SUBSET Players
        BY <1>1
      <4> QED
        BY <4>1, PlayersFinite DEF Placed
    <3> QED
      BY <3>1
  <2>4. share \in [Players -> Nat] /\ odd \in [Players -> Nat]
    BY <2>2
  <2>5. ASSUME NEW p \in Players PROVE paid[p] = share[p] + odd[p]
    <3>1. CASE p \in right
      <4>1. paid[p] = pot \div n + (IF Placed(right, p) < pot % n THEN 1 ELSE 0)
        BY <1>4, <3>1
      <4>2. share[p] = pot \div n
        BY <3>1
      <4>3. odd[p] = IF Placed(right, p) < pot % n THEN 1 ELSE 0
        BY <3>1
      <4> QED
        BY <4>1, <4>2, <4>3
    <3>2. CASE p \notin right
      <4>1. paid[p] = 0 /\ share[p] = 0 /\ odd[p] = 0
        BY <1>3, <3>2
      <4> QED
        BY <4>1
    <3> QED
      BY <3>1, <3>2
  <2>6. Total(share) = n * (pot \div n)
    BY <1>1, <1>2, <2>2, TotalOn DEF n
  <2>7. Cardinality(lucky) = pot % n
    BY <1>2, <2>2, FirstPlaces DEF n
  <2>8. Total(odd) = pot % n
    <3>1. Total(odd) = Cardinality(lucky) * 1
      <4> HIDE DEF lucky
      <4> QED
        BY <1>1, <1>2, TotalOn
    <3> QED
      BY <2>2, <2>7, <3>1
  <2>9. /\ paid = [p \in Players |-> share[p] + odd[p]]
        /\ paid \in [Players -> Nat]
    <3>1. paid = [p \in Players |-> paid[p]]
      OBVIOUS
    <3>2. \A p \in Players : share[p] + odd[p] \in Nat
      BY <2>4
    <3> HIDE DEF paid, share, odd
    <3> QED
      BY <2>5, <3>1, <3>2
  <2>10. Total(paid) = Total(share) + Total(odd)
    <3> HIDE DEF paid, share, odd
    <3> QED
      BY <1>2, <2>4, <2>9, TotalAdd
  <2>11. Total(paid) = pot
    <3> HIDE DEF paid, share, odd
    <3>1. n * (pot \div n) = (pot \div n) * n
      BY <1>2, <2>2
    <3> QED
      BY <1>2, <2>2, <2>6, <2>8, <2>10, <3>1
  <2> QED
    BY <1>6, <2>9, <2>11 DEF right, pot
<1> QED
  BY <1>5, <1>6
-----------------------------------------------------------------------------
(* The operators keep a table good.                                        *)

Bets == UNION {[D -> Categories] : D \in SUBSET Players}

(* The type of a table, and of one that a new round begins on.             *)
LEMMA TableFields ==
  /\ Tables = [chips : [Players -> Nat], round : SUBSET Players,
               bets : Bets, turn : Int, winners : SUBSET Players,
               over : BOOLEAN, winner : 0 .. MaxPlayers]
  /\ \A t \in Tables, c \in [Players -> Nat], r \in SUBSET Players,
        b \in Bets, k \in Int :
       [t EXCEPT !.chips = c, !.round = r, !.bets = b, !.turn = k] \in Tables
<1> DEFINE Chips == [Players -> Nat]
           Sets  == SUBSET Players
           Ids   == 0 .. MaxPlayers
<1>1. Tables = [chips : Chips, round : Sets, bets : Bets, turn : Int,
                winners : Sets, over : BOOLEAN, winner : Ids]
  BY DEF Tables, Bets
<1>2. \A t \in Tables, c \in Chips, r \in Sets, b \in Bets, k \in Int :
        [t EXCEPT !.chips = c, !.round = r, !.bets = b, !.turn = k] \in Tables
  <2> HIDE DEF Chips, Sets, Ids
  <2> QED
    BY <1>1
<1> QED
  BY <1>1, <1>2

(* The types of the parts of a table.                                      *)
LEMMA TableTypes ==
  ASSUME NEW t \in Tables, NEW q
  PROVE  /\ t.chips \in [Players -> Nat] /\ t.round \in SUBSET Players
         /\ t.bets \in [DOMAIN t.bets -> Categories]
         /\ DOMAIN t.bets \in SUBSET Players
         /\ t.turn \in Int /\ t.over \in BOOLEAN /\ t.winner \in 0 .. MaxPlayers
         /\ t.winners \in SUBSET Players
         /\ Alive(t, q) \in SUBSET Players
         /\ CanPay(t, q) \in SUBSET Alive(t, q)
         /\ CanPay(t, q) \in SUBSET Players
         /\ Order(t, q) \in SUBSET Players
         /\ Total(t.chips) \in Nat
         /\ Cardinality(t.round) \in Nat
<1>1. /\ t.chips \in [Players -> Nat] /\ t.round \in SUBSET Players
      /\ t.bets \in Bets
      /\ t.turn \in Int /\ t.over \in BOOLEAN /\ t.winner \in 0 .. MaxPlayers
      /\ t.winners \in SUBSET Players
  BY DEF Tables, Bets
<1>2. PICK D \in SUBSET Players : t.bets \in [D -> Categories]
  BY <1>1 DEF Bets
<1>3. /\ Alive(t, q) \in SUBSET Players
      /\ CanPay(t, q) \in SUBSET Alive(t, q)
      /\ Order(t, q) \in SUBSET Players
  BY <1>1 DEF Alive, CanPay, Order
<1>4. Total(t.chips) \in Nat /\ Cardinality(t.round) \in Nat
  BY <1>1, PlayersFinite, TotalType
<1> QED
  BY <1>1, <1>2, <1>3, <1>4

(* A new round: two players or more who have paid, or the end.             *)
LEMMA NewRoundGood ==
  ASSUME NEW t \in Tables, NEW q \in SUBSET Players,
         DOMAIN t.bets \subseteq t.round, ~t.over, t.winner = Nobody
  PROVE  /\ Good(NewRound(t, q), q)
         /\ InPlay(NewRound(t, q)) = Total(t.chips)
<1> DEFINE alive == Alive(t, q)
           able  == CanPay(t, q)
           next  == NewRound(t, q)
<1>1. /\ t.chips \in [Players -> Nat] /\ t.round \in SUBSET Players
      /\ t.bets \in Bets
      /\ t.turn \in Int /\ t.winners \in SUBSET Players
      /\ able \in SUBSET Players /\ alive \in SUBSET Players
      /\ able \cap q = {} /\ Cardinality(able) \in Nat
      /\ Total(t.chips) \in Nat
  <2>1. able \cap q = {}
    BY DEF CanPay, Alive
  <2>2. t.bets \in Bets
    BY DEF Tables, Bets
  <2> HIDE DEF able, alive
  <2> QED
    BY <2>1, <2>2, TableTypes, PlayersFinite DEF able, alive
<1>2. CASE Cardinality(able) < 2
  <2> DEFINE w == IF alive = {} THEN t.winner ELSE Richest(t, alive)
  <2>1. next = [t EXCEPT !.over = TRUE, !.winner = w]
    BY <1>2 DEF NewRound
  <2>2. w \in 0 .. MaxPlayers
    <3>1. CASE alive = {}
      BY <3>1 DEF Tables
    <3>2. CASE alive # {}
      <4>1. Richest(t, alive) \in Players
        <5> HIDE DEF alive
        <5> QED
          BY <1>1, <3>2, RichestIsOne
      <4> QED
        BY <3>2, <4>1 DEF Players
    <3> QED
      BY <3>1, <3>2
  <2>3. /\ next \in Tables /\ next.over /\ next.winner = w
        /\ next.chips = t.chips /\ next.round = t.round /\ next.bets = t.bets
    <3> HIDE DEF w, next
    <3> QED
      BY <2>1, <2>2 DEF Tables
  <2> HIDE DEF next
  <2>4. Alive(next, q) = alive /\ CanPay(next, q) = able
    BY <2>3 DEF Alive, CanPay
  <2>5. Richest(next, alive) = Richest(t, alive)
    <3> HIDE DEF alive
    <3> QED
      BY <2>3, RichestByChips
  <2>6. Ended(next, q)
    BY <1>1, <1>2, <2>3, <2>4, <2>5 DEF Ended
  <2>7. Good(next, q)
    BY <2>3, <2>6 DEF Good
  <2>8. InPlay(next) = Total(t.chips)
    <3>1. InPlay(next) = Total(t.chips) + 0
      BY <2>3 DEF InPlay
    <3> QED
      BY <1>1, <3>1
  <2> QED
    BY <2>7, <2>8 DEF next
<1>3. CASE Cardinality(able) >= 2
  <2> DEFINE paid == [p \in Players |->
                        IF p \in able THEN t.chips[p] - Ante ELSE t.chips[p]]
  <2>1. next = [t EXCEPT !.chips = paid, !.round = able, !.bets = <<>>,
                         !.turn = 0]
    BY <1>1, <1>3 DEF NewRound
  <2>2. \A p \in able : t.chips[p] >= Ante
    BY DEF CanPay
  <2>3. /\ paid \in [Players -> Nat]
        /\ Total(paid) \in Nat
        /\ Total(paid) + Ante * Cardinality(able) = Total(t.chips)
    <3> HIDE DEF able
    <3> QED
      BY <1>1, <2>2, AntesPaid
  <2>4. <<>> \in Bets /\ DOMAIN <<>> = {}
    <3>1. <<>> \in [{} -> Categories]
      OBVIOUS
    <3> QED
      BY <3>1 DEF Bets
  <2>5. /\ next \in Tables /\ ~next.over /\ next.winner = Nobody
        /\ next.chips = paid /\ next.round = able /\ next.turn = 0
        /\ next.bets = <<>>
    <3> DEFINE none == <<>>
    <3>3. none \in Bets
      BY <2>4
    <3>4. next = [t EXCEPT !.chips = paid, !.round = able, !.bets = none,
                           !.turn = 0]
      BY <2>1
    <3> HIDE DEF paid, able, next, none
    <3>5. next \in Tables
      <4>1. paid \in [Players -> Nat] /\ able \in SUBSET Players /\ 0 \in Int
        BY <1>1, <2>3
      <4>2. \A k \in Int :
              [t EXCEPT !.chips = paid, !.round = able, !.bets = none,
                        !.turn = k] \in Tables
        BY <4>1, <3>3, TableFields
      <4> QED
        BY <4>1, <4>2, <3>4
    <3>6. /\ ~next.over /\ next.winner = Nobody
          /\ next.chips = paid /\ next.round = able /\ next.turn = 0
          /\ next.bets = none
      BY <3>4, TableFields
    <3> QED
      BY <3>5, <3>6 DEF none
  <2> HIDE DEF next, paid
  <2>6. Order(next, q) = able
    BY <1>1, <2>5 DEF Order
  <2>7. Going(next, q)
    <3> HIDE DEF able
    <3> QED
      BY <1>1, <1>3, <2>4, <2>5, <2>6 DEF Going
  <2>8. Good(next, q)
    <3> HIDE DEF able
    <3> QED
      BY <2>4, <2>5, <2>7 DEF Good
  <2>9. InPlay(next) = Total(t.chips)
    BY <2>3, <2>5 DEF InPlay, NoTurn
  <2> QED
    BY <2>8, <2>9 DEF next
<1>4. Cardinality(able) < 2 \/ Cardinality(able) >= 2
  <2> HIDE DEF able
  <2> QED
    BY <1>1
<1> QED
  BY <1>2, <1>3, <1>4

(* The end of a round pays out its pot or loses it, and starts the next.   *)
LEMMA ResolveGood ==
  ASSUME NEW t \in Tables, NEW q \in SUBSET Players, NEW c \in Categories,
         DOMAIN t.bets \subseteq t.round, ~t.over, t.winner = Nobody
  PROVE  /\ Good(Resolve(t, q, c), q)
         /\ \E lost \in 0 .. Cardinality(t.round) :
              InPlay(Resolve(t, q, c)) + Ante * lost
                = Total(t.chips) + Ante * Cardinality(t.round)
<1> DEFINE D    == DOMAIN t.bets
           paid == [p \in Players |-> Payout(t.bets, c, p)]
           rich == [p \in Players |-> t.chips[p] + Payout(t.bets, c, p)]
           won  == {p \in DOMAIN t.bets : t.bets[p] = c}
           mid  == [t EXCEPT !.chips = rich, !.winners = won, !.turn = NoTurn]
<1>1. /\ t.chips \in [Players -> Nat] /\ D \in SUBSET Players
      /\ t.bets \in [D -> Categories] /\ won \in SUBSET Players
      /\ Total(t.chips) \in Nat /\ Cardinality(t.round) \in Nat
      /\ t.round \in SUBSET Players
  BY TableTypes
<1>2. /\ paid \in [Players -> Nat]
      /\ Total(paid) = IF Right(t.bets, c) = {} THEN 0
                       ELSE Ante * Cardinality(D)
  <2> HIDE DEF D
  <2> QED
    BY <1>1, PotPaid
<1>3. rich = [p \in Players |-> t.chips[p] + paid[p]]
  OBVIOUS
<1> HIDE DEF paid
<1>4. rich \in [Players -> Nat] /\ Total(rich) = Total(t.chips) + Total(paid)
  <2>1. rich \in [Players -> Nat]
    <3>1. \A p \in Players : t.chips[p] + paid[p] \in Nat
      BY <1>1, <1>2
    <3> HIDE DEF rich
    <3> QED
      BY <1>3, <3>1
  <2> HIDE DEF rich
  <2> QED
    BY <1>1, <1>2, <1>3, <2>1, PlayersFinite, TotalAdd
<1>5. Resolve(t, q, c) = NewRound(mid, q)
  BY DEF Resolve
<1> HIDE DEF rich, won
<1>6. /\ mid \in Tables /\ mid.chips = rich /\ ~mid.over
      /\ mid.winner = Nobody /\ mid.bets = t.bets /\ mid.round = t.round
  <2>1. NoTurn \in Int
    BY DEF NoTurn
  <2> QED
    BY <1>1, <1>4, <2>1, TableFields
<1> HIDE DEF mid, D
<1>7. Good(NewRound(mid, q), q) /\ InPlay(NewRound(mid, q)) = Total(rich)
  BY <1>6, NewRoundGood DEF D
<1>8. /\ Cardinality(D) \in Nat /\ Cardinality(D) <= Cardinality(t.round)
      /\ Ante \in Nat
  BY <1>1, PlayersFinite, SmallerSet, DiceAssumption DEF D
<1>9. \E lost \in 0 .. Cardinality(t.round) :
        Total(rich) + Ante * lost = Total(t.chips) + Ante * Cardinality(t.round)
  <2>1. CASE Right(t.bets, c) = {}
    <3>1. Total(rich) = Total(t.chips) + 0
      BY <1>2, <1>4, <2>1
    <3>2. Cardinality(t.round) \in 0 .. Cardinality(t.round)
      BY <1>1
    <3> QED
      BY <1>1, <3>1, <3>2
  <2>2. CASE Right(t.bets, c) # {}
    <3> DEFINE lost == Cardinality(t.round) - Cardinality(D)
    <3>1. lost \in 0 .. Cardinality(t.round)
      BY <1>1, <1>8
    <3>2. Total(rich) = Total(t.chips) + Ante * Cardinality(D)
      BY <1>2, <1>4, <2>2
    <3>3. Ante * Cardinality(D) + Ante * lost = Ante * Cardinality(t.round)
      BY <1>1, <1>8
    <3>4. Ante * Cardinality(D) \in Nat /\ Ante * lost \in Int
      BY <1>8, <3>1
    <3>5. Total(rich) + Ante * lost
            = Total(t.chips) + Ante * Cardinality(t.round)
      <4> HIDE DEF lost
      <4> QED
        BY <1>1, <3>2, <3>3, <3>4
    <3> QED
      BY <3>1, <3>5
  <2> QED
    BY <2>1, <2>2
<1> QED
  BY <1>5, <1>7, <1>9

(* While a game goes on the antes of its round are in play.                *)
LEMMA InPlayGoing ==
  ASSUME NEW t \in Tables, NEW q, ~t.over, Good(t, q)
  PROVE  /\ InPlay(t) = Total(t.chips) + Ante * Cardinality(t.round)
         /\ t.winner = Nobody /\ DOMAIN t.bets \subseteq t.round
         /\ t.turn \in 0 .. Cardinality(Order(t, q)) - 1
<1>1. Going(t, q) /\ DOMAIN t.bets \subseteq t.round
  BY DEF Good
<1>2. t.turn # NoTurn
  BY <1>1 DEF Going, NoTurn
<1> QED
  BY <1>1, <1>2 DEF InPlay, Going

(* What a call does to a table: it stays good, and whole antes get lost.   *)
Loses(before, after, n) ==
  \E lost \in 0 .. n : InPlay(after) + Ante * lost = InPlay(before)

(* A bet.                                                                  *)
LEMMA BetGood ==
  ASSUME NEW t \in Tables, NEW q \in SUBSET Players, Good(t, q), ~t.over,
         NEW choice \in Categories, NEW c \in Categories
  PROVE  /\ Good(AfterBet(t, q, choice, c), q)
         /\ Loses(t, AfterBet(t, q, choice, c), Cardinality(t.round))
<1> DEFINE p     == Current(t, q)
           order == Order(t, q)
           bets  == [x \in DOMAIN t.bets \cup {p} |->
                       IF x = p THEN choice ELSE t.bets[x]]
           b     == [t EXCEPT !.turn = t.turn + 1, !.bets = bets]
<1>1. /\ t.turn \in 0 .. Cardinality(order) - 1
      /\ InPlay(t) = Total(t.chips) + Ante * Cardinality(t.round)
      /\ t.winner = Nobody /\ DOMAIN t.bets \subseteq t.round
  BY InPlayGoing
<1>2. p \in order /\ Cardinality(Before(order, p)) = t.turn
  BY <1>1, CurrentIs
<1>3. /\ order \in SUBSET t.round /\ order \in SUBSET Players
      /\ DOMAIN t.bets \in SUBSET Players /\ t.turn \in Int
      /\ t.bets \in [DOMAIN t.bets -> Categories]
      /\ Cardinality(order) \in Nat
      /\ Total(t.chips) \in Nat /\ Cardinality(t.round) \in Nat
  <2>1. order \in SUBSET t.round
    BY DEF Order
  <2>2. order \in SUBSET Players
    BY TableTypes
  <2> HIDE DEF order
  <2> QED
    BY <2>1, <2>2, TableTypes, PlayersFinite
<1> HIDE DEF p
<1>4. /\ bets \in Bets /\ DOMAIN bets = DOMAIN t.bets \cup {p}
      /\ DOMAIN bets \subseteq t.round
  <2>1. bets \in [DOMAIN t.bets \cup {p} -> Categories]
    BY <1>3
  <2>2. DOMAIN t.bets \cup {p} \in SUBSET Players
    BY <1>2, <1>3
  <2>3. DOMAIN t.bets \cup {p} \subseteq t.round
    BY <1>1, <1>2, <1>3
  <2> HIDE DEF bets
  <2> QED
    BY <2>1, <2>2, <2>3 DEF Bets
<1> HIDE DEF bets
<1>5. /\ b \in Tables /\ ~b.over /\ b.winner = Nobody /\ b.bets = bets
      /\ b.turn = t.turn + 1 /\ b.round = t.round /\ b.chips = t.chips
  <2>1. t.turn + 1 \in Int
    BY <1>3
  <2> QED
    BY <1>1, <1>4, <2>1, TableFields
<1> HIDE DEF b
<1>6. Order(b, q) = order
  BY <1>5 DEF Order
<1>7. AfterBet(t, q, choice, c)
        = IF b.turn >= Cardinality(Order(b, q)) THEN Resolve(b, q, c) ELSE b
  BY DEF AfterBet, b, bets, p
<1>8. CASE b.turn >= Cardinality(Order(b, q))
  <2>1. AfterBet(t, q, choice, c) = Resolve(b, q, c)
    BY <1>7, <1>8
  <2>2. /\ Good(Resolve(b, q, c), q)
        /\ \E lost \in 0 .. Cardinality(b.round) :
             InPlay(Resolve(b, q, c)) + Ante * lost
               = Total(b.chips) + Ante * Cardinality(b.round)
    BY <1>4, <1>5, ResolveGood
  <2> QED
    BY <1>1, <1>5, <2>1, <2>2 DEF Loses
<1>9. CASE ~(b.turn >= Cardinality(Order(b, q)))
  <2>1. AfterBet(t, q, choice, c) = b
    BY <1>7, <1>9
  <2>2. b.turn \in 0 .. Cardinality(order) - 1
    BY <1>1, <1>3, <1>5, <1>6, <1>9
  <2>3. ASSUME NEW x \in order \cap DOMAIN b.bets
        PROVE  Cardinality(Before(order, x)) < b.turn
    <3>1. CASE x = p
      BY <1>2, <1>3, <1>5, <3>1
    <3>2. CASE x # p
      <4>1. x \in order \cap DOMAIN t.bets
        BY <1>4, <1>5, <3>2
      <4>2. Cardinality(Before(order, x)) < t.turn
        BY <4>1 DEF Good, Going
      <4>3. Before(order, x) \in SUBSET Players
        BY <1>3 DEF Before
      <4>4. Cardinality(Before(order, x)) \in Nat
        BY <4>3, PlayersFinite
      <4> QED
        BY <1>3, <1>5, <4>2, <4>4
    <3> QED
      BY <3>1, <3>2
  <2>4. Good(b, q)
    <3>1. Going(b, q)
      <4> HIDE DEF order
      <4> QED
        BY <1>5, <1>6, <2>2, <2>3 DEF Going
    <3> QED
      BY <1>4, <1>5, <3>1 DEF Good
  <2>5. InPlay(b) = InPlay(t)
    BY <1>1, <1>5, <2>4, InPlayGoing
  <2>6. Loses(t, b, Cardinality(t.round))
    <3>1. 0 \in 0 .. Cardinality(t.round) /\ InPlay(t) \in Int /\ Ante \in Nat
      <4>1. Ante \in Nat
        BY DiceAssumption
      <4> QED
        BY <1>1, <1>3, <4>1
    <3>2. InPlay(b) + Ante * 0 = InPlay(t)
      BY <2>5, <3>1
    <3> QED
      BY <3>1, <3>2 DEF Loses
  <2> QED
    BY <2>1, <2>4, <2>6
<1> QED
  BY <1>8, <1>9

(* A resignation, as far as the round goes.                                *)
LEMMA LeavingGood ==
  ASSUME NEW t \in Tables, NEW old \in SUBSET Players, NEW q \in SUBSET Players,
         old \subseteq q, Good(t, old), ~t.over, NEW c \in Categories
  PROVE  /\ Good(AfterLeaving(t, q, c), q)
         /\ Loses(t, AfterLeaving(t, q, c), Cardinality(t.round))
<1> DEFINE next == AfterLeaving(t, q, c)
           n    == Cardinality(Order(t, q))
<1>1. /\ t.turn \in 0 .. Cardinality(Order(t, old)) - 1
      /\ InPlay(t) = Total(t.chips) + Ante * Cardinality(t.round)
      /\ t.winner = Nobody /\ DOMAIN t.bets \subseteq t.round
  BY InPlayGoing
<1>2. /\ Order(t, q) \in SUBSET Order(t, old)
      /\ Order(t, old) \in SUBSET Players /\ Order(t, q) \in SUBSET Players
      /\ n \in Nat /\ t.turn \in Int
      /\ Total(t.chips) \in Nat /\ Cardinality(t.round) \in Nat
      /\ Ante \in Nat /\ InPlay(t) \in Int
  <2>1. Order(t, q) \in SUBSET Order(t, old)
    BY DEF Order
  <2>2. /\ Order(t, old) \in SUBSET Players /\ Order(t, q) \in SUBSET Players
        /\ t.turn \in Int
        /\ Total(t.chips) \in Nat /\ Cardinality(t.round) \in Nat
    BY TableTypes
  <2>3. Ante \in Nat
    BY DiceAssumption
  <2> QED
    BY <1>1, <2>1, <2>2, <2>3, PlayersFinite
<1>3. t.turn # NoTurn
  BY <1>1 DEF NoTurn
<1>4. CASE t.turn >= n /\ DOMAIN t.bets # {}
  <2>1. next = Resolve(t, q, c)
    BY <1>3, <1>4 DEF AfterLeaving
  <2> HIDE DEF next
  <2> QED
    BY <1>1, <2>1, ResolveGood DEF Loses, next
<1>5. CASE t.turn >= n /\ DOMAIN t.bets = {}
  <2>1. next = NewRound(t, q)
    BY <1>3, <1>5 DEF AfterLeaving
  <2> HIDE DEF next
  <2>2. Good(next, q) /\ InPlay(next) = Total(t.chips)
    BY <1>1, <2>1, NewRoundGood
  <2>3. /\ Cardinality(t.round) \in 0 .. Cardinality(t.round)
        /\ InPlay(next) + Ante * Cardinality(t.round) = InPlay(t)
    BY <1>1, <1>2, <2>2
  <2> QED
    BY <2>2, <2>3 DEF Loses, next
<1>6. CASE t.turn < n
  <2>1. next = t
    BY <1>2, <1>6 DEF AfterLeaving
  <2> HIDE DEF next
  <2>2. t.turn \in 0 .. n - 1
    BY <1>1, <1>2, <1>6
  <2>3. ASSUME NEW x \in Order(t, q) \cap DOMAIN t.bets
        PROVE  Cardinality(Before(Order(t, q), x)) < t.turn
    <3>1. Cardinality(Before(Order(t, old), x)) < t.turn
      BY <1>2 DEF Good, Going
    <3>2. Cardinality(Before(Order(t, q), x))
            <= Cardinality(Before(Order(t, old), x))
      BY <1>2, PlaceShrinks
    <3>3. /\ Before(Order(t, q), x) \in SUBSET Players
          /\ Before(Order(t, old), x) \in SUBSET Players
      BY <1>2 DEF Before
    <3>4. /\ Cardinality(Before(Order(t, q), x)) \in Nat
          /\ Cardinality(Before(Order(t, old), x)) \in Nat
      BY <3>3, PlayersFinite
    <3> QED
      BY <1>2, <3>1, <3>2, <3>4
  <2>4. Good(t, q)
    <3>1. Going(t, q)
      BY <1>1, <2>2, <2>3 DEF Going
    <3> QED
      BY <1>1, <3>1 DEF Good
  <2>5. 0 \in 0 .. Cardinality(t.round) /\ InPlay(t) + Ante * 0 = InPlay(t)
    BY <1>2
  <2> QED
    BY <2>1, <2>4, <2>5 DEF Loses, next
<1> QED
  BY <1>2, <1>4, <1>5, <1>6

(* A resignation, as far as the game goes.                                 *)
LEMMA EndGood ==
  ASSUME NEW t \in Tables, NEW q \in SUBSET Players, Good(t, q)
  PROVE  /\ Good(EndIfAlone(t, q), q)
         /\ EndIfAlone(t, q).round = t.round
         /\ Loses(t, EndIfAlone(t, q), Cardinality(t.round))
<1> DEFINE alive == Alive(t, q)
           next  == EndIfAlone(t, q)
           w     == IF alive = {} THEN t.winner ELSE Richest(t, alive)
<1>1. /\ alive \in SUBSET Players /\ CanPay(t, q) \in SUBSET alive
      /\ Cardinality(alive) \in Nat /\ Cardinality(CanPay(t, q)) \in Nat
      /\ Total(t.chips) \in Nat /\ Cardinality(t.round) \in Nat
      /\ Ante \in Nat /\ InPlay(t) \in Int
  <2>1. /\ alive \in SUBSET Players /\ CanPay(t, q) \in SUBSET alive
        /\ CanPay(t, q) \in SUBSET Players
        /\ Total(t.chips) \in Nat /\ Cardinality(t.round) \in Nat
    BY TableTypes
  <2>2. Ante \in Nat
    BY DiceAssumption
  <2>3. InPlay(t) \in Int
    BY <2>1, <2>2 DEF InPlay
  <2> HIDE DEF alive
  <2> QED
    BY <2>1, <2>2, <2>3, PlayersFinite
<1>2. CASE Cardinality(alive) <= 1 /\ ~t.over
  <2>1. next = [t EXCEPT !.over = TRUE, !.winner = w]
    BY <1>2 DEF EndIfAlone
  <2>2. w \in 0 .. MaxPlayers
    <3>1. CASE alive = {}
      BY <3>1 DEF Tables
    <3>2. CASE alive # {}
      <4>1. Richest(t, alive) \in Players
        <5> HIDE DEF alive
        <5> QED
          BY <1>1, <3>2, RichestIsOne
      <4> QED
        BY <3>2, <4>1 DEF Players
    <3> QED
      BY <3>1, <3>2
  <2>3. /\ next \in Tables /\ next.over /\ next.winner = w
        /\ next.chips = t.chips /\ next.round = t.round /\ next.bets = t.bets
    <3> HIDE DEF w, next
    <3> QED
      BY <2>1, <2>2 DEF Tables
  <2> HIDE DEF next
  <2>4. Alive(next, q) = alive /\ CanPay(next, q) = CanPay(t, q)
    BY <2>3 DEF Alive, CanPay
  <2>5. Richest(next, alive) = Richest(t, alive)
    <3> HIDE DEF alive
    <3> QED
      BY <2>3, RichestByChips
  <2>6. Cardinality(CanPay(t, q)) <= 1
    <3>1. Cardinality(CanPay(t, q)) <= Cardinality(alive)
      <4> HIDE DEF alive
      <4> QED
        BY <1>1, SmallerSet
    <3> QED
      BY <1>1, <1>2, <3>1
  <2>7. /\ InPlay(t) = Total(t.chips) + Ante * Cardinality(t.round)
        /\ t.winner = Nobody /\ DOMAIN t.bets \subseteq t.round
    BY <1>2, InPlayGoing
  <2>8. Good(next, q)
    <3>1. Ended(next, q)
      BY <2>3, <2>4, <2>5, <2>6, <2>7 DEF Ended
    <3> QED
      BY <2>3, <2>7, <3>1 DEF Good
  <2>9. InPlay(next) = Total(t.chips) + 0
    BY <2>3 DEF InPlay
  <2>10. /\ Cardinality(t.round) \in 0 .. Cardinality(t.round)
         /\ InPlay(next) + Ante * Cardinality(t.round) = InPlay(t)
    BY <1>1, <2>7, <2>9
  <2> QED
    BY <2>3, <2>8, <2>10 DEF Loses, next
<1>3. CASE ~(Cardinality(alive) <= 1 /\ ~t.over)
  <2>1. next = t
    BY <1>3 DEF EndIfAlone
  <2>2. 0 \in 0 .. Cardinality(t.round) /\ InPlay(t) + Ante * 0 = InPlay(t)
    BY <1>1
  <2> HIDE DEF next
  <2> QED
    BY <2>1, <2>2 DEF Loses, next
<1> QED
  BY <1>2, <1>3

-----------------------------------------------------------------------------
(* The invariant.                                                          *)

LEMMA DiceInvInit ==
  Init => DiceInv
<1> SUFFICES ASSUME Init PROVE DiceInv
  OBVIOUS
<1> DEFINE chips == [p \in Players |-> 0]
           none  == <<>>
<1>1. /\ chips \in [Players -> Nat] /\ {} \in SUBSET Players
      /\ none \in Bets /\ DOMAIN none = {} /\ NoTurn \in Int
      /\ Nobody \in 0 .. MaxPlayers
  <2>1. none \in [{} -> Categories] /\ DOMAIN none = {}
    OBVIOUS
  <2>2. none \in Bets
    <3> HIDE DEF none
    <3> QED
      BY <2>1 DEF Bets
  <2> QED
    BY <2>1, <2>2, DiceAssumption DEF NoTurn, Nobody
<1>2. table = [chips |-> chips, round |-> {}, bets |-> none, turn |-> NoTurn,
               winners |-> {}, over |-> FALSE, winner |-> Nobody]
  BY DEF Init, EmptyTable
<1>3. /\ registered \in 0 .. MaxPlayers /\ resigned \in SUBSET Players
      /\ started = FALSE
  BY DiceAssumption DEF Init
<1> HIDE DEF chips, none
<1>4. table \in Tables
  BY <1>1, <1>2, TableFields
<1>5. DOMAIN table.bets \subseteq table.round /\ ~table.over
      /\ table.winner = Nobody
  BY <1>1, <1>2
<1> QED
  BY <1>3, <1>4, <1>5 DEF DiceInv

(* Every call preserves it.                                                *)
LEMMA DiceInvStep ==
  DiceInv /\ [Next]_vars => DiceInv'
<1> SUFFICES ASSUME DiceInv, [Next]_vars PROVE DiceInv'
  OBVIOUS
<1> USE DEF DiceInv
<1>1. CASE Register
  <2> DEFINE chips == [table.chips EXCEPT ![registered + 1] = StartingChips]
  <2>1. chips \in [Players -> Nat]
    BY DiceAssumption, TableTypes
  <2>2. table' = [table EXCEPT !.chips = chips]
    BY <1>1 DEF Register
  <2> HIDE DEF chips
  <2>3. /\ table' \in Tables /\ table'.bets = table.bets
        /\ table'.round = table.round /\ table'.over = table.over
        /\ table'.winner = table.winner
    BY <2>1, <2>2, TableFields
  <2>4. registered' \in 0 .. MaxPlayers
    BY <1>1, DiceAssumption DEF Register
  <2> QED
    BY <1>1, <2>3, <2>4 DEF Register
<1>2. CASE Start
  <2>1. Good(table', resigned)
    BY <1>2, NewRoundGood DEF Start
  <2>2. table' \in Tables
    BY <2>1 DEF Good
  <2>3. /\ started' = TRUE /\ resigned' = resigned
        /\ registered' = registered
    BY <1>2 DEF Start
  <2> QED
    BY <2>1, <2>2, <2>3
<1>3. ASSUME NEW choice \in Categories, Bet(choice) PROVE DiceInv'
  <2>1. Good(table, resigned) /\ started /\ ~table.over
    BY <1>3 DEF Bet, Playing
  <2>2. PICK c \in Categories : table' = AfterBet(table, resigned, choice, c)
    BY <1>3 DEF Bet
  <2>3. Good(table', resigned)
    BY <2>1, <2>2, BetGood
  <2>4. table' \in Tables
    BY <2>3 DEF Good
  <2>5. UNCHANGED <<registered, resigned, started>>
    BY <1>3 DEF Bet
  <2> QED
    BY <2>1, <2>3, <2>4, <2>5
<1>4. ASSUME NEW p \in Players, Resign(p) PROVE DiceInv'
  <2>1. Good(table, resigned) /\ started /\ ~table.over
    BY <1>4 DEF Resign, Playing
  <2>2. /\ resigned' \in SUBSET Players /\ resigned \subseteq resigned'
        /\ UNCHANGED <<registered, started>>
    BY <1>4 DEF Resign
  <2>3. PICK c \in Categories :
          table' = EndIfAlone(AfterLeaving(table, resigned', c), resigned')
    BY <1>4 DEF Resign
  <2> DEFINE left == AfterLeaving(table, resigned', c)
  <2>4. Good(left, resigned')
    BY <2>1, <2>2, LeavingGood
  <2> HIDE DEF left
  <2>5. left \in Tables
    BY <2>4 DEF Good
  <2>6. Good(EndIfAlone(left, resigned'), resigned')
    BY <2>2, <2>4, <2>5, EndGood
  <2>7. Good(table', resigned')
    BY <2>3, <2>6 DEF left
  <2>8. table' \in Tables
    BY <2>7 DEF Good
  <2> QED
    BY <2>1, <2>2, <2>7, <2>8
<1>5. CASE UNCHANGED vars
  BY <1>5 DEF vars, Good, Going, Ended, Order, CanPay, Alive, Before, Richest
<1> QED
  BY <1>1, <1>2, <1>3, <1>4, <1>5 DEF Next

(* So it always holds.                                                     *)
LEMMA DiceInvariant ==
  Spec => []DiceInv
BY DiceInvInit, DiceInvStep, PTL DEF Spec

-----------------------------------------------------------------------------
(* As long as the game goes on the turn is within the round and at a       *)
(* player who has not bet, whoever resigned whenever.                      *)
THEOREM TurnCorrect ==
  Spec => []TurnIsDue
<1>1. DiceInv => TurnIsDue
  <2> SUFFICES ASSUME DiceInv, Playing
               PROVE  /\ table.turn \in 0 .. Cardinality(Order(table, resigned)) - 1
                      /\ Current(table, resigned) \notin DOMAIN table.bets
    BY DEF TurnIsDue
  <2>1. /\ table \in Tables /\ resigned \in SUBSET Players
        /\ Going(table, resigned)
    BY DEF DiceInv, Playing, Good
  <2> DEFINE p     == Current(table, resigned)
             order == Order(table, resigned)
  <2>2. table.turn \in 0 .. Cardinality(order) - 1
    BY <2>1 DEF Going
  <2>3. p \in order /\ Cardinality(Before(order, p)) = table.turn
    BY <2>1, <2>2, CurrentIs
  <2>4. ~(table.turn < table.turn)
    <3>1. table.turn \in Int
      BY <2>1, TableTypes
    <3> QED
      BY <3>1
  <2> HIDE DEF p, order
  <2>5. p \notin DOMAIN table.bets
    BY <2>1, <2>3, <2>4 DEF Going, order
  <2> QED
    BY <2>2, <2>5 DEF p, order
<1> QED
  BY <1>1, DiceInvariant, PTL

(* The game ends only when at most one player could pay another ante, and  *)
(* its winner is then the one with most chips.                             *)
THEOREM EndCorrect ==
  Spec => []OverWhenNobodyCanPlay
<1>1. DiceInv => OverWhenNobodyCanPlay
  BY DEF DiceInv, Good, Ended, OverWhenNobodyCanPlay
<1> QED
  BY <1>1, DiceInvariant, PTL

(* Nothing but whole antes gets lost, and no chip is created.              *)
THEOREM AntesCorrect ==
  Spec => OnlyAntesGetLost
<1> DEFINE Kept == Playing =>
                     Loses(table, table', Cardinality(table.round)
                                            + Cardinality(table'.round))
<1>1. DiceInv /\ DiceInv' /\ Next => Kept
  <2> SUFFICES ASSUME DiceInv, DiceInv', Next, Playing
               PROVE  Loses(table, table', Cardinality(table.round)
                                             + Cardinality(table'.round))
    OBVIOUS
  <2> DEFINE m == Cardinality(table.round)
             n == Cardinality(table'.round)
  <2>1. /\ table \in Tables /\ table' \in Tables
        /\ Good(table, resigned) /\ started /\ ~table.over
        /\ resigned \in SUBSET Players /\ resigned' \in SUBSET Players
    BY DEF DiceInv, Playing
  <2>2. m \in Nat /\ n \in Nat /\ Ante \in Nat
    BY <2>1, TableTypes, DiceAssumption
  <2>3. ASSUME NEW choice \in Categories, Bet(choice)
        PROVE  Loses(table, table', m + n)
    <3>1. PICK c \in Categories : table' = AfterBet(table, resigned, choice, c)
      BY <2>3 DEF Bet
    <3>2. Loses(table, table', m)
      BY <2>1, <3>1, BetGood
    <3>3. 0 .. m \subseteq 0 .. m + n
      BY <2>2
    <3> HIDE DEF m, n
    <3> QED
      BY <3>2, <3>3 DEF Loses
  <2>4. ASSUME NEW p \in Players, Resign(p)
        PROVE  Loses(table, table', m + n)
    <3>1. resigned \subseteq resigned'
      BY <2>4 DEF Resign
    <3>2. PICK c \in Categories :
            table' = EndIfAlone(AfterLeaving(table, resigned', c), resigned')
      BY <2>4 DEF Resign
    <3> DEFINE left == AfterLeaving(table, resigned', c)
    <3>3. Good(left, resigned') /\ Loses(table, left, m)
      BY <2>1, <3>1, LeavingGood
    <3> HIDE DEF left
    <3>4. left \in Tables
      BY <3>3 DEF Good
    <3>5. /\ table'.round = left.round
          /\ Loses(left, table', Cardinality(left.round))
      BY <2>1, <3>2, <3>3, <3>4, EndGood DEF left
    <3>6. PICK k \in 0 .. m : InPlay(left) + Ante * k = InPlay(table)
      BY <3>3 DEF Loses
    <3>7. PICK l \in 0 .. n : InPlay(table') + Ante * l = InPlay(left)
      BY <3>5 DEF Loses
    <3>8. InPlay(table') \in Int
      <4>1. Total(table'.chips) \in Nat /\ Cardinality(table'.round) \in Nat
        BY <2>1, TableTypes
      <4> QED
        BY <2>2, <4>1 DEF InPlay
    <3> HIDE DEF m, n
    <3>9. k \in Nat /\ l \in Nat /\ k + l \in 0 .. m + n
      BY <2>2
    <3>10. Ante * (k + l) = Ante * k + Ante * l
      BY <2>2, <3>9
    <3>11. Ante * k \in Nat /\ Ante * l \in Nat
      BY <2>2, <3>9
    <3>12. InPlay(table') + Ante * (k + l) = InPlay(table)
      BY <3>6, <3>7, <3>8, <3>10, <3>11
    <3> QED
      BY <3>9, <3>12 DEF Loses
  <2>5. ~Register /\ ~Start
    BY <2>1 DEF Register, Start
  <2> QED
    BY <2>3, <2>4, <2>5 DEF Next
<1>2. DiceInv /\ DiceInv' /\ [Next]_vars
        => [Playing =>
              \E lost \in 0 .. Cardinality(table.round)
                               + Cardinality(table'.round) :
                InPlay(table') + Ante * lost = InPlay(table)]_vars
  BY <1>1 DEF Loses
<1> QED
  BY <1>2, DiceInvariant, PTL DEF Spec, OnlyAntesGetLost
=============================================================================
