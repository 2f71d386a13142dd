------------------------- MODULE PokerServiceProofs -------------------------
(***************************************************************************)
(* Theorems about modules PokerGame and PokerService, for every number of  *)
(* players, all starting chips, blinds, requests and extensions.           *)
(***************************************************************************)
EXTENDS PokerService, PokerBettingProofs

-----------------------------------------------------------------------------
(* Players and seats.                                                      *)

(* The players are finitely many.                                          *)
LEMMA PlayersFinite ==
  /\ Players \subseteq Nat \ {0} /\ IsFiniteSet(Players)
  /\ \A S \in SUBSET Players : IsFiniteSet(S) /\ Cardinality(S) \in Nat
<1>1. Players \subseteq Nat \ {0} /\ IsFiniteSet(Players)
  BY GameAssumption, FS_Interval DEF Players
<1> QED
  BY <1>1, FS_Subset, FS_CardinalityType

(* Who is alive is a player with chips who has not resigned.               *)
LEMMA AliveIs ==
  ASSUME NEW stacks, NEW quitters
  PROVE  /\ Alive(stacks, quitters) \in SUBSET Players
         /\ \A p \in Players : p \in Alive(stacks, quitters)
                                 <=> stacks[p] > 0 /\ p \notin quitters
BY DEF Alive

(* A finite set has two elements if and only if it has at least two.       *)
LEMMA TwoIn ==
  ASSUME NEW A, IsFiniteSet(A), Cardinality(A) >= 2
  PROVE  \E x, y \in A : x # y
<1>1. Cardinality(A) \in Nat
  BY FS_CardinalityType
<1>2. PICK x \in A : TRUE
  BY <1>1, FS_EmptySet
<1>3. Cardinality(A \ {x}) \in Nat /\ Cardinality(A \ {x}) >= 1
  BY OneFewer
<1>4. A \ {x} # {}
  BY <1>3, FS_EmptySet
<1> QED
  BY <1>2, <1>4

LEMMA TwoOf ==
  ASSUME NEW A, IsFiniteSet(A), NEW x \in A, NEW y \in A, x # y
  PROVE  Cardinality(A) >= 2
<1>1. Cardinality({x, y}) = 2
  <2>1. {x, y} = {x} \cup {y} /\ y \notin {x}
    OBVIOUS
  <2>2. IsFiniteSet({x}) /\ Cardinality({x}) = 1
    BY FS_Singleton
  <2>3. Cardinality({x} \cup {y}) = Cardinality({x}) + 1
    BY <2>1, <2>2, FS_AddElement
  <2> QED
    BY <2>1, <2>2, <2>3
<1>2. {x, y} \subseteq A
  OBVIOUS
<1>3. Cardinality({x, y}) <= Cardinality(A)
  BY <1>2, FS_Subset
<1> QED
  BY <1>1, <1>3, FS_CardinalityType

(* InOrder lists each player of a set once, the lower ids first.           *)
LEMMA InOrderIs ==
  ASSUME NEW S \in SUBSET Players
  PROVE  /\ DOMAIN InOrder(S) = 0 .. Cardinality(S) - 1
         /\ InOrder(S) \in [0 .. Cardinality(S) - 1 -> S]
         /\ \A i, j \in 0 .. Cardinality(S) - 1 :
              i < j => InOrder(S)[i] < InOrder(S)[j]
         /\ \A p \in S :
              \E i \in 0 .. Cardinality(S) - 1 : InOrder(S)[i] = p
<1> DEFINE I     == 0 .. Cardinality(S) - 1
           place == [p \in S |-> Placed(S, p)]
           at(i) == CHOOSE p \in S : Placed(S, p) = i
<1>1. S \in SUBSET Nat /\ IsFiniteSet(S)
  BY PlayersFinite
<1>2. /\ \A p \in S, q \in S : p < q => Placed(S, p) < Placed(S, q)
      /\ place \in Bijection(S, I)
  BY <1>1, PlacedIs
<1>3. /\ place \in [S -> I]
      /\ \A i \in I : \E p \in S : place[p] = i
  BY <1>2 DEF Bijection, Surjection
<1>4. /\ \A p \in S : Placed(S, p) \in I
      /\ \A i \in I : \E p \in S : Placed(S, p) = i
  BY <1>3
<1>5. \A i \in I : at(i) \in S /\ Placed(S, at(i)) = i
  BY <1>4
<1>6. InOrder(S) = [i \in I |-> at(i)]
  BY DEF InOrder, Placed
<1>7. I \subseteq Nat
  BY <1>1, FS_CardinalityType
<1> HIDE DEF I, place, at
<1>8. ASSUME NEW i \in I, NEW j \in I, i < j
      PROVE  at(i) < at(j)
  <2>1. at(i) \in Nat /\ at(j) \in Nat /\ at(i) \in S /\ at(j) \in S
    BY <1>1, <1>5, <1>8
  <2>2. at(i) # at(j)
    BY <1>5, <1>7, <1>8
  <2>3. ~(at(j) < at(i))
    BY <1>2, <1>5, <1>7, <1>8, <2>1
  <2> QED
    BY <2>1, <2>2, <2>3
<1>9. ASSUME NEW p \in S
      PROVE  at(Placed(S, p)) = p
  <2>1. Placed(S, p) \in I
    BY <1>4
  <2>2. /\ at(Placed(S, p)) \in S
        /\ Placed(S, at(Placed(S, p))) = Placed(S, p)
    BY <1>5, <2>1
  <2>3. p \in Nat /\ at(Placed(S, p)) \in Nat /\ Placed(S, p) \in Nat
    BY <1>1, <1>7, <2>1, <2>2
  <2>4. ~(p < at(Placed(S, p))) /\ ~(at(Placed(S, p)) < p)
    BY <1>2, <2>2, <2>3
  <2> QED
    BY <2>3, <2>4
<1>10. \A p \in S : \E i \in I : InOrder(S)[i] = p
  BY <1>4, <1>6, <1>9
<1> QED
  BY <1>5, <1>6, <1>8, <1>10 DEF I

-----------------------------------------------------------------------------
(* The chips of those who resigned.                                        *)

(* An estate is shared out to the last chip.                               *)
LEMMA InheritanceAddsUp ==
  ASSUME NEW A \in SUBSET Players, A # {}, NEW estate \in Nat
  PROVE  /\ \A p \in A : Inheritance(estate, A, p) \in Nat
         /\ Total([p \in A |-> Inheritance(estate, A, p)]) = estate
<1> DEFINE heirs == Cardinality(A)
           share == estate \div heirs
           odd   == estate % heirs
           First == {p \in A : Placed(A, p) < odd}
           even  == [p \in A |-> IF p \in A THEN share ELSE 0]
           extra == [p \in A |-> IF p \in First THEN 1 ELSE 0]
<1>1. A \in SUBSET Nat /\ IsFiniteSet(A) /\ heirs \in Nat \ {0}
  BY PlayersFinite, FS_EmptySet
<1>2. \A p \in A : Inheritance(estate, A, p) = even[p] + extra[p]
  BY DEF Inheritance, Placed
<1> HIDE DEF heirs
<1>3. share \in Nat /\ odd \in 0 .. heirs /\ heirs * share + odd = estate
  BY <1>1
<1> HIDE DEF share, odd
<1>4. even \in [A -> Nat] /\ extra \in [A -> Nat]
  BY <1>3
<1>5. Total(even) = heirs * share
  BY <1>1, <1>3, TotalOn DEF heirs
<1>6. Total(extra) = odd
  <2>1. Cardinality(First) = odd
    BY <1>1, <1>3, FirstPlaces DEF heirs
  <2>2. First \in SUBSET A
    OBVIOUS
  <2> HIDE DEF First
  <2>3. Total(extra) = Cardinality(First) * 1
    BY <1>1, <2>2, TotalOn
  <2> QED
    BY <1>3, <2>1, <2>3
<1> HIDE DEF even, extra
<1>7. Total([p \in A |-> even[p] + extra[p]]) = Total(even) + Total(extra)
  BY <1>1, <1>4, TotalAdd
<1>8. [p \in A |-> even[p] + extra[p]]
        = [p \in A |-> Inheritance(estate, A, p)]
  BY <1>2
<1>9. \A p \in A : Inheritance(estate, A, p) \in Nat
  BY <1>2, <1>4
<1> QED
  BY <1>3, <1>5, <1>6, <1>7, <1>8, <1>9

(* The chips of those who resigned go to those still alive, and nobody's   *)
(* chips go anywhere else.                                                 *)
LEMMA RedistributedIs ==
  ASSUME NEW stacks \in [Players -> Nat], NEW quitters \in SUBSET Players,
         Alive(stacks, quitters) # {}
  PROVE  LET shared == Redistributed(stacks, quitters)
         IN  /\ shared \in [Players -> Nat]
             /\ Alive(shared, quitters) = Alive(stacks, quitters)
             /\ Total(shared) = Total(stacks)
             /\ \A p \in quitters : shared[p] = 0
             /\ \A p \in Players \ Alive(stacks, quitters) :
                  shared[p] <= stacks[p]
<1> DEFINE A      == Alive(stacks, quitters)
           R      == Redistributed(stacks, quitters)
           f      == [z \in A \X quitters |->
                        Inheritance(stacks[z[2]], A, z[1])]
           rows   == RowTotals(f, A, quitters)
           left   == [x \in quitters |-> stacks[x]]
           gain   == [p \in Players |-> IF p \in A THEN rows[p] ELSE 0]
           loss   == [p \in Players |-> IF p \in quitters THEN left[p] ELSE 0]
<1>1. /\ A \in SUBSET Players /\ A # {} /\ IsFiniteSet(A)
      /\ IsFiniteSet(quitters) /\ IsFiniteSet(Players)
      /\ \A p \in Players : p \in A <=> stacks[p] > 0 /\ p \notin quitters
  BY AliveIs, PlayersFinite
<1>2. R = [p \in Players |->
             IF p \in quitters THEN 0
             ELSE IF p \in A
               THEN stacks[p] + Total([x \in quitters |->
                                         Inheritance(stacks[x], A, p)])
               ELSE stacks[p]]
  BY DEF Redistributed
<1> HIDE DEF A, R
<1>3. f \in [A \X quitters -> Nat]
  <2>1. \A x \in quitters : stacks[x] \in Nat
    OBVIOUS
  <2> QED
    BY <1>1, <2>1, InheritanceAddsUp
<1>4. ASSUME NEW p \in A
      PROVE  rows[p] = Total([x \in quitters |-> Inheritance(stacks[x], A, p)])
  <2>1. [x \in quitters |-> f[<<p, x>>]]
          = [x \in quitters |-> Inheritance(stacks[x], A, p)]
    OBVIOUS
  <2> HIDE DEF f
  <2>2. rows[p] = Total([x \in quitters |-> f[<<p, x>>]])
    BY DEF RowTotals, RowTotal
  <2> QED
    BY <2>1, <2>2
<1>5. ASSUME NEW x \in quitters
      PROVE  Total([p \in A |-> f[<<p, x>>]]) = stacks[x]
  <2>1. [p \in A |-> f[<<p, x>>]] = [p \in A |-> Inheritance(stacks[x], A, p)]
    OBVIOUS
  <2>2. stacks[x] \in Nat
    OBVIOUS
  <2>3. Total([p \in A |-> Inheritance(stacks[x], A, p)]) = stacks[x]
    BY <1>1, <2>2, InheritanceAddsUp
  <2> QED
    BY <2>1, <2>3
<1> HIDE DEF f
<1>6. rows \in [A -> Nat] /\ Total(rows) = Total(left)
  <2>1. /\ rows \in [A -> Nat]
        /\ Total(rows) = Total(ColumnTotals(f, A, quitters))
    <3>1. /\ IsFiniteSet(A) /\ IsFiniteSet(quitters)
          /\ f \in [A \X quitters -> Nat]
      BY <1>1, <1>3
    <3>2. RowTotals(f, A, quitters) \in [A -> Nat]
      BY <3>1, TotalOfRows
    <3>3. Total(RowTotals(f, A, quitters))
            = Total(ColumnTotals(f, A, quitters))
      BY <3>1, TotalByColumns
    <3> QED
      BY <3>2, <3>3
  <2>2. ColumnTotals(f, A, quitters) = left
    BY <1>5 DEF ColumnTotals
  <2> QED
    BY <2>1, <2>2
<1>7. left \in [quitters -> Nat]
  OBVIOUS
<1> HIDE DEF rows, left
<1>8. /\ gain \in [Players -> Nat] /\ Total(gain) = Total(rows)
      /\ loss \in [Players -> Nat] /\ Total(loss) = Total(left)
  <2>1. gain \in [Players -> Nat] /\ loss \in [Players -> Nat]
    BY <1>6, <1>7
  <2>2. /\ \A p \in Players : gain[p] = IF p \in A THEN rows[p] ELSE 0
        /\ \A p \in Players : loss[p] = IF p \in quitters THEN left[p] ELSE 0
    OBVIOUS
  <2> HIDE DEF gain, loss
  <2> QED
    BY <1>1, <1>6, <1>7, <2>1, <2>2, TotalWhereNotZero
<1>9. ASSUME NEW p \in Players
      PROVE  /\ R[p] \in Nat
             /\ R[p] = IF p \in quitters THEN 0
                       ELSE IF p \in A THEN stacks[p] + rows[p] ELSE stacks[p]
             /\ R[p] + loss[p] = stacks[p] + gain[p]
  <2>1. R[p] = IF p \in quitters THEN 0
               ELSE IF p \in A THEN stacks[p] + rows[p] ELSE stacks[p]
    BY <1>2, <1>4
  <2>2. stacks[p] \in Nat /\ p \in A => rows[p] \in Nat
    BY <1>6
  <2>3. /\ loss[p] = IF p \in quitters THEN stacks[p] ELSE 0
        /\ gain[p] = IF p \in A THEN rows[p] ELSE 0
    BY DEF left
  <2> HIDE DEF loss, gain
  <2> QED
    BY <1>1, <2>1, <2>2, <2>3
<1> HIDE DEF gain, loss
<1>10. R \in [Players -> Nat]
  BY <1>2, <1>9
<1>11. Total(R) + Total(loss) = Total(stacks) + Total(gain)
  <2>1. [p \in Players |-> R[p] + loss[p]]
          = [p \in Players |-> stacks[p] + gain[p]]
    BY <1>9
  <2>2. Total([p \in Players |-> R[p] + loss[p]]) = Total(R) + Total(loss)
    BY <1>1, <1>8, <1>10, TotalAdd
  <2>3. Total([p \in Players |-> stacks[p] + gain[p]])
          = Total(stacks) + Total(gain)
    BY <1>1, <1>8, TotalAdd
  <2> QED
    BY <2>1, <2>2, <2>3
<1>12. Total(R) = Total(stacks)
  <2>1. Total(R) \in Nat /\ Total(stacks) \in Nat /\ Total(gain) \in Nat
    BY <1>1, <1>8, <1>10, TotalType
  <2> QED
    BY <1>6, <1>8, <1>11, <2>1
<1>13. Alive(R, quitters) = A
  <2>1. ASSUME NEW p \in Players
        PROVE  p \in A <=> R[p] > 0 /\ p \notin quitters
    <3>1. stacks[p] \in Nat /\ p \in A => rows[p] \in Nat
      BY <1>6
    <3> QED
      BY <1>1, <1>9, <3>1
  <2> QED
    BY <1>1, <2>1 DEF Alive
<1>14. /\ \A p \in quitters : R[p] = 0
       /\ \A p \in Players \ A : R[p] <= stacks[p]
  BY <1>9
<1> QED
  BY <1>10, <1>12, <1>13, <1>14 DEF A, R

(* As long as nobody has resigned there is nothing to share out.           *)
LEMMA NothingRedistributed ==
  ASSUME NEW stacks \in [Players -> Nat]
  PROVE  Redistributed(stacks, {}) = stacks
<1>1. \A p \in Players :
        Total([x \in {} |-> Inheritance(stacks[x], Alive(stacks, {}), p)]) = 0
  <2>1. ASSUME NEW p \in Players
        PROVE  [x \in {} |-> Inheritance(stacks[x], Alive(stacks, {}), p)]
                 = [x \in {} |-> 0]
    OBVIOUS
  <2> QED
    BY <2>1, TotalOfZeros
<1>2. \A p \in Players : stacks[p] \in Nat
  OBVIOUS
<1>3. \A p \in Players : Redistributed(stacks, {})[p] = stacks[p]
  BY <1>1, <1>2 DEF Redistributed
<1> QED
  BY <1>3 DEF Redistributed

-----------------------------------------------------------------------------
(* The invariant.                                                          *)

(* What the players in the seats of hand h came with.                      *)
Brought(h, order, stacks) == [i \in Seats(h) |-> stacks[order[i]]]

(* The hand h is sound, each of its seats belongs to one player who came   *)
(* with chips, nobody still in the tournament lacks one, and who resigned  *)
(* has folded.                                                             *)
TableSound(h, order, stacks, quitters) ==
  /\ Sound(h, Brought(h, order, stacks))
  /\ order \in [Seats(h) -> Players]
  /\ \A i, j \in Seats(h) : i < j => order[i] < order[j]
  /\ \A i \in Seats(h) : stacks[order[i]] > 0
  /\ \A p \in Alive(stacks, quitters) : \E i \in Seats(h) : order[i] = p
  /\ \A i \in Seats(h) : order[i] \in quitters => i \in h.folded

GameInv ==
  /\ registered \in 0 .. MaxPlayers
  /\ chips \in [Players -> Nat]
  /\ resigned \in SUBSET (1 .. registered)
  /\ started \in BOOLEAN /\ game_over \in BOOLEAN
  /\ winner \in Players \cup {Nobody}
  /\ dealer_index \in 0 .. MaxPlayers - 1
  /\ \A p \in Players : p > registered => chips[p] = 0
  /\ ~started => /\ resigned = {} /\ ~game_over
                 /\ \A p \in Players : p <= registered => chips[p] > 0
  /\ Playing => /\ TableSound(hand, seated, chips, resigned)
                /\ hand.dealer = dealer_index
  /\ ~Playing => hand = NoHand /\ seated = <<>>

-----------------------------------------------------------------------------
(* Dealing the next hand.                                                  *)

(* With two players alive _start_new_hand deals a hand to all of them and  *)
(* leaves no chips with those who resigned.                                *)
LEMMA StartNewHandSound ==
  ASSUME NEW stacks \in [Players -> Nat], NEW quitters \in SUBSET Players,
         NEW dealer \in Nat, Cardinality(Alive(stacks, quitters)) >= 2,
         StartNewHand(stacks, quitters, dealer)
  PROVE  /\ chips' = Redistributed(stacks, quitters)
         /\ TableSound(hand', seated', chips', quitters)
         /\ hand'.dealer = dealer_index'
         /\ dealer_index' \in 0 .. MaxPlayers - 1
         /\ UNCHANGED <<game_over, winner>>
<1> DEFINE A      == Alive(stacks, quitters)
           shared == Redistributed(stacks, quitters)
           order  == InOrder(Alive(shared, quitters))
           n      == Cardinality(DOMAIN order)
           button == dealer % n
           s      == [i \in 0 .. n-1 |-> shared[order[i]]]
<1>1. /\ chips' = shared /\ dealer_index' = button /\ seated' = order
      /\ hand' = NewHand(s, n, button) /\ UNCHANGED <<game_over, winner>>
  BY DEF StartNewHand
<1>2. /\ A \in SUBSET Players /\ IsFiniteSet(A)
      /\ Cardinality(A) \in Nat \ {0, 1} /\ Cardinality(A) <= MaxPlayers
  <2>1. A \in SUBSET Players /\ IsFiniteSet(A) /\ Cardinality(A) \in Nat
    BY AliveIs, PlayersFinite
  <2>2. Cardinality(A) <= Cardinality(Players)
    BY <2>1, PlayersFinite, FS_Subset
  <2>3. Cardinality(Players) = MaxPlayers
    BY GameAssumption, FS_Interval DEF Players
  <2> QED
    BY <2>1, <2>2, <2>3
<1>3. A # {}
  BY <1>2, FS_EmptySet
<1>4. /\ shared \in [Players -> Nat] /\ Alive(shared, quitters) = A
      /\ \A p \in quitters : shared[p] = 0
  BY <1>3, RedistributedIs
<1>5. order = InOrder(A)
  BY <1>4
<1> HIDE DEF A, shared, order
<1>6. /\ n = Cardinality(A)
      /\ order \in [0 .. n-1 -> A]
      /\ \A i, j \in 0 .. n-1 : i < j => order[i] < order[j]
      /\ \A p \in A : \E i \in 0 .. n-1 : order[i] = p
  <2>1. /\ DOMAIN order = 0 .. Cardinality(A) - 1
        /\ order \in [0 .. Cardinality(A) - 1 -> A]
        /\ \A i, j \in 0 .. Cardinality(A) - 1 : i < j => order[i] < order[j]
        /\ \A p \in A : \E i \in 0 .. Cardinality(A) - 1 : order[i] = p
    BY <1>2, <1>5, InOrderIs
  <2>2. Cardinality(0 .. Cardinality(A) - 1) = Cardinality(A)
    <3> DEFINE c == Cardinality(A)
    <3>1. c \in Nat \ {0, 1}
      BY <1>2
    <3> HIDE DEF c
    <3>2. Cardinality(0 .. c - 1) = c
      BY <3>1, FS_Interval
    <3> QED
      BY <3>2 DEF c
  <2> QED
    BY <2>1, <2>2
<1>7. n \in Nat \ {0, 1} /\ n <= MaxPlayers
  BY <1>2, <1>6
<1> HIDE DEF n
<1>8. button \in 0 .. n-1 /\ button \in 0 .. MaxPlayers - 1
  BY <1>7, GameAssumption
<1>9. s \in [0 .. n-1 -> Nat]
  BY <1>2, <1>4, <1>6
<1> HIDE DEF s, button
<1>10. /\ Sound(hand', s) /\ hand'.n = n /\ hand'.dealer = button
       /\ hand'.folded = {}
  BY <1>1, <1>7, <1>8, <1>9, NewHandSound
<1>11. Seats(hand') = 0 .. n-1
  BY <1>10 DEF Seats
<1>12. Brought(hand', seated', chips') = s
  BY <1>1, <1>11 DEF Brought, s
<1>13. \A i \in 0 .. n-1 : shared[order[i]] > 0 /\ order[i] \notin quitters
  <2>1. \A p \in A : shared[p] > 0 /\ p \notin quitters
    BY <1>4, AliveIs
  <2> QED
    BY <1>6, <2>1
<1>14. order \in [0 .. n-1 -> Players]
  BY <1>2, <1>6
<1>15. Alive(chips', quitters) = A /\ Cardinality(A) >= 2
  BY <1>1, <1>2, <1>4
<1>16. TableSound(hand', seated', chips', quitters)
  BY <1>1, <1>6, <1>10, <1>11, <1>12, <1>13, <1>14, <1>15 DEF TableSound
<1> QED
  BY <1>1, <1>8, <1>10, <1>16 DEF shared

-----------------------------------------------------------------------------
(* The end of a hand.                                                      *)

(* The parts of the invariant that the steps below use most.               *)
LEMMA TableFields ==
  ASSUME GameInv, Playing
  PROVE  /\ HandType(hand) /\ Sound(hand, Brought(hand, seated, chips))
         /\ IsFiniteSet(Seats(hand)) /\ Seats(hand) \subseteq Nat
         /\ seated \in [Seats(hand) -> Players] /\ chips \in [Players -> Nat]
         /\ Brought(hand, seated, chips) \in [Seats(hand) -> Nat]
         /\ \A i, j \in Seats(hand) : seated[i] = seated[j] => i = j
<1>1. /\ TableSound(hand, seated, chips, resigned)
      /\ chips \in [Players -> Nat]
  BY DEF GameInv
<1>2. /\ HandType(hand) /\ Sound(hand, Brought(hand, seated, chips))
      /\ seated \in [Seats(hand) -> Players]
      /\ \A i, j \in Seats(hand) : i < j => seated[i] < seated[j]
  BY <1>1 DEF TableSound, Sound
<1>3. IsFiniteSet(Seats(hand)) /\ Seats(hand) \subseteq Nat
  BY <1>2, CanActSeated, HandFields DEF Seats
<1>4. ASSUME NEW i \in Seats(hand), NEW j \in Seats(hand),
             seated[i] = seated[j], i # j
      PROVE  FALSE
  <2>1. i \in Nat /\ j \in Nat /\ seated[i] \in Nat /\ seated[j] \in Nat
    BY <1>2, <1>3, PlayersFinite
  <2> QED
    BY <1>2, <1>4, <2>1
<1>5. Brought(hand, seated, chips) \in [Seats(hand) -> Nat]
  BY <1>1, <1>2 DEF Brought
<1> QED
  BY <1>1, <1>2, <1>3, <1>4, <1>5

(* Writing back gives each player of the hand the chips of his seat, and   *)
(* changes the total by what the hand has changed.                         *)
LEMMA WrittenBackIs ==
  ASSUME GameInv, Playing, NEW h, HandType(h), h.n = hand.n
  PROVE  /\ WrittenBack(h) \in [Players -> Nat]
         /\ \A i \in Seats(hand) : WrittenBack(h)[seated[i]] = h.chips[i]
         /\ \A p \in Players : (\A i \in Seats(hand) : seated[i] # p)
                                 => WrittenBack(h)[p] = chips[p]
         /\ Total(WrittenBack(h)) + Total(Brought(hand, seated, chips))
              = Total(chips) + Total(h.chips)
<1> DEFINE W      == WrittenBack(h)
           D      == {seated[i] : i \in Seats(hand)}
           b      == Brought(hand, seated, chips)
           before == [p \in Players |-> IF p \in D THEN chips[p] ELSE 0]
           after  == [p \in Players |-> IF p \in D THEN W[p] ELSE 0]
<1>1. /\ Seats(h) = Seats(hand) /\ h.chips \in [Seats(hand) -> Nat]
      /\ IsFiniteSet(Seats(hand)) /\ seated \in [Seats(hand) -> Players]
      /\ chips \in [Players -> Nat] /\ b \in [Seats(hand) -> Nat]
      /\ \A i, j \in Seats(hand) : seated[i] = seated[j] => i = j
  <2>1. Seats(h) = Seats(hand)
    BY DEF Seats
  <2> QED
    BY <2>1, TableFields, HandFields
<1>2. /\ \A i \in Seats(hand) : W[seated[i]] = h.chips[i]
      /\ \A p \in Players \ D : W[p] = chips[p]
      /\ W \in [Players -> Nat]
  <2>1. W = [p \in Players |->
               IF \E i \in Seats(hand) : seated[i] = p
                 THEN h.chips[CHOOSE i \in Seats(hand) : seated[i] = p]
                 ELSE chips[p]]
    BY <1>1 DEF WrittenBack
  <2>2. ASSUME NEW i \in Seats(hand)
        PROVE  W[seated[i]] = h.chips[i]
    <3>1. (CHOOSE j \in Seats(hand) : seated[j] = seated[i]) = i
      BY <1>1
    <3> QED
      BY <1>1, <2>1, <3>1
  <2>3. ASSUME NEW p \in Players \ D PROVE W[p] = chips[p]
    BY <2>1
  <2>4. ASSUME NEW p \in Players PROVE W[p] \in Nat
    <3>1. CASE p \in D
      BY <1>1, <2>2, <3>1
    <3>2. CASE p \notin D
      BY <1>1, <2>3, <3>2
    <3> QED
      BY <3>1, <3>2
  <2> HIDE DEF W
  <2>5. W \in [Players -> Nat]
    BY <2>1, <2>4
  <2> QED
    BY <2>2, <2>3, <2>5
<1> HIDE DEF W
<1>3. before \in [Players -> Nat] /\ after \in [Players -> Nat]
  BY <1>1, <1>2
<1>4. /\ \A i \in Seats(hand) : before[seated[i]] = b[i]
      /\ \A i \in Seats(hand) : after[seated[i]] = h.chips[i]
      /\ \A p \in Players :
           before[p] # 0 => \E i \in Seats(hand) : seated[i] = p
      /\ \A p \in Players :
           after[p] # 0 => \E i \in Seats(hand) : seated[i] = p
  BY <1>1, <1>2 DEF Brought
<1>5. \A p \in Players : W[p] + before[p] = chips[p] + after[p]
  BY <1>1, <1>2
<1> HIDE DEF before, after, b
<1>6. Total(before) = Total(b) /\ Total(after) = Total(h.chips)
  <2>1. /\ IsFiniteSet(Players) /\ IsFiniteSet(Seats(hand))
        /\ seated \in [Seats(hand) -> Players]
        /\ \A i, j \in Seats(hand) : seated[i] = seated[j] => i = j
    BY <1>1, PlayersFinite
  <2>2. Total(before) = Total(b)
    BY <1>1, <1>3, <1>4, <2>1, TotalRenamed
  <2>3. Total(after) = Total(h.chips)
    <3> DEFINE f == h.chips
    <3>1. /\ f \in [Seats(hand) -> Nat]
          /\ \A i \in Seats(hand) : after[seated[i]] = f[i]
      BY <1>1, <1>4
    <3> HIDE DEF f
    <3>2. Total(after) = Total(f)
      BY <1>3, <1>4, <2>1, <3>1, TotalRenamed
    <3> QED
      BY <3>2 DEF f
  <2> QED
    BY <2>2, <2>3
<1>7. Total(W) + Total(before) = Total(chips) + Total(after)
  <2>1. [p \in Players |-> W[p] + before[p]]
          = [p \in Players |-> chips[p] + after[p]]
    BY <1>5
  <2>2. Total([p \in Players |-> W[p] + before[p]]) = Total(W) + Total(before)
    BY <1>2, <1>3, PlayersFinite, TotalAdd
  <2>3. Total([p \in Players |-> chips[p] + after[p]])
          = Total(chips) + Total(after)
    <3>1. IsFiniteSet(Players)
      BY PlayersFinite
    <3> QED
      BY <1>1, <1>3, <3>1, TotalAdd
  <2> QED
    BY <2>1, <2>2, <2>3
<1>8. \A p \in Players : (\A i \in Seats(hand) : seated[i] # p)
                           => W[p] = chips[p]
  BY <1>2
<1> QED
  BY <1>2, <1>6, <1>7, <1>8 DEF W, b

(* Chips are stranded only when somebody who has folded put in more than   *)
(* everybody still in.                                                     *)
LEMMA StrandedIs ==
  ASSUME NEW h, HandType(h)
  PROVE  /\ Stranded(h) \in Nat
         /\ Stranded(h) > 0 =>
              \E i \in h.folded : \A j \in InHand(h) : h.total[j] < h.total[i]
<1> DEFINE top  == Largest({0} \cup BetLevels(h))
           over == [i \in Seats(h) |-> h.total[i] - Least(h.total[i], top)]
<1>1. CASE Cardinality(InHand(h)) = 1
  BY <1>1 DEF Stranded
<1>2. CASE Cardinality(InHand(h)) # 1
  <2>1. Stranded(h) = Total(over)
    BY <1>2 DEF Stranded
  <2>2. top \in Nat /\ \A level \in BetLevels(h) : level <= top
    BY TopIs DEF Top
  <2> HIDE DEF top
  <2>3. h.total \in [Seats(h) -> Nat] /\ IsFiniteSet(Seats(h))
    BY HandFields, CanActSeated
  <2>4. over \in [Seats(h) -> Nat]
    BY <2>2, <2>3 DEF Least
  <2>5. Total(over) \in Nat
    BY <2>3, <2>4, TotalType
  <2>6. ASSUME \A i \in Seats(h) : h.total[i] <= top
        PROVE  Total(over) = 0
    <3>1. \A i \in Seats(h) : h.total[i] - Least(h.total[i], top) = 0
      BY <2>2, <2>3, <2>6 DEF Least
    <3>2. over = [i \in Seats(h) |-> 0]
      BY <3>1
    <3> QED
      BY <3>2, TotalOfZeros
  <2>7. ASSUME NEW i \in Seats(h), ~(h.total[i] <= top)
        PROVE  i \in h.folded /\ \A j \in InHand(h) : h.total[j] < h.total[i]
    <3>1. ASSUME NEW j \in InHand(h) PROVE h.total[j] <= top
      <4>1. h.total[j] \in Nat
        BY <2>3 DEF InHand
      <4>2. h.total[j] # 0 => h.total[j] \in BetLevels(h)
        BY DEF BetLevels
      <4> QED
        BY <2>2, <4>1, <4>2
    <3>2. \A j \in InHand(h) : h.total[j] \in Nat
      BY <2>3 DEF InHand
    <3>3. i \in h.folded
      BY <2>7, <3>1 DEF InHand
    <3> QED
      BY <2>2, <2>3, <2>7, <3>1, <3>2, <3>3
  <2> HIDE DEF over
  <2> QED
    BY <2>1, <2>5, <2>6, <2>7
<1> QED
  BY <1>1, <1>2

(* Somebody who has folded or is on turn has put in more than everybody    *)
(* else still in the hand.                                                 *)
Overbet ==
  \E i \in hand.folded \cup {hand.turn} :
    \A j \in InHand(hand) \ {i} : hand.total[j] < hand.total[i]

(* h is what a call has made of the hand before the hand is concluded, and *)
(* quitters those who have resigned by then.                               *)
Reached(h, quitters) ==
  /\ Sound(h, Brought(hand, seated, chips))
  /\ SameTable(h, hand)
  /\ \A i \in Seats(hand) : seated[i] \in quitters => i \in h.folded
  /\ \/ h.folded \subseteq hand.folded \cup {hand.turn}
     \/ h.phase \in Streets
     \/ Stranded(h) = 0

(* What a call leaves behind: the game goes on at a sound table as long as *)
(* two players are alive, and what the properties say of the chips.        *)
Left(quitters) ==
  /\ chips' \in [Players -> Nat]
  /\ winner' \in Players \cup {Nobody}
  /\ dealer_index' \in 0 .. MaxPlayers - 1
  /\ \/ /\ game_over' = TRUE
        /\ Cardinality(Alive(chips', quitters)) <= 1
        /\ hand' = NoHand /\ seated' = <<>>
     \/ /\ game_over' = FALSE
        /\ ~(Cardinality(Alive(chips', quitters)) <= 1)
        /\ TableSound(hand', seated', chips', quitters)
        /\ hand'.dealer = dealer_index'
  /\ Alive(chips', quitters) # {}
  /\ \A p \in Players \ Alive(chips, resigned) : chips'[p] <= chips[p]
  /\ \/ Total(chips') = Total(chips)
     \/ Total(chips') < Total(chips) /\ Overbet
  /\ \/ chips' = chips /\ game_over' = FALSE
     \/ \A i \in Seats(hand) :
          seated[i] \in quitters => chips'[seated[i]] <= hand.chips[i]

(* Chips are lost only if somebody has been outbet by nobody still in.     *)
LEMMA StrandedOverbet ==
  ASSUME HandType(hand), NEW h, HandType(h), SameTable(h, hand),
         h.folded \subseteq hand.folded \cup {hand.turn}, Stranded(h) > 0
  PROVE  Overbet
<1> DEFINE t == hand.turn
<1>1. PICK x \in h.folded : \A j \in InHand(h) : h.total[j] < h.total[x]
  BY StrandedIs
<1>2. /\ Seats(h) = Seats(hand) /\ hand.total \in [Seats(hand) -> Nat]
      /\ h.total \in [Seats(hand) -> Nat] /\ h.folded \subseteq Seats(hand)
      /\ InHand(h) = Seats(hand) \ h.folded
      /\ InHand(hand) = Seats(hand) \ hand.folded
      /\ \A i \in Seats(hand) : hand.total[i] <= h.total[i]
      /\ \A i \in h.folded : hand.total[i] = h.total[i]
  <2>1. Seats(h) = Seats(hand)
    BY DEF SameTable, Seats
  <2> QED
    BY <2>1, HandFields DEF SameTable, InHand
<1>3. \A j \in InHand(h) : hand.total[j] < hand.total[x]
  BY <1>1, <1>2
<1>4. \A j \in InHand(hand) : j \in InHand(h) \/ j = t
  BY <1>2
<1>5. CASE t \in InHand(hand) /\ hand.total[x] <= hand.total[t]
  <2>1. ASSUME NEW j \in InHand(hand) \ {t}
        PROVE  hand.total[j] < hand.total[t]
    <3>1. j \in InHand(h) /\ t \in Seats(hand) /\ j \in Seats(hand)
      BY <1>2, <1>4, <1>5
    <3> QED
      BY <1>2, <1>3, <1>5, <3>1
  <2> QED
    BY <2>1 DEF Overbet
<1>6. CASE ~(t \in InHand(hand) /\ hand.total[x] <= hand.total[t])
  <2>1. x \in hand.folded
    <3>1. x \in Seats(hand) /\ hand.total[x] <= hand.total[x]
      BY <1>1, <1>2
    <3> QED
      BY <1>1, <1>2, <1>6, <3>1
  <2>2. ASSUME NEW j \in InHand(hand) \ {x}
        PROVE  hand.total[j] < hand.total[x]
    <3>1. CASE j \in InHand(h)
      BY <1>3, <3>1
    <3>2. CASE j = t
      BY <1>1, <1>2, <1>6, <3>2
    <3> QED
      BY <1>4, <3>1, <3>2
  <2> QED
    BY <2>1, <2>2 DEF Overbet
<1> QED
  BY <1>5, <1>6

(* What the players have once a finished hand is written back.             *)
LEMMA WrittenBackSound ==
  ASSUME GameInv, Playing, NEW quitters \in SUBSET Players,
         resigned \subseteq quitters,
         NEW h, Reached(h, quitters), h.phase = "complete"
  PROVE  LET W == WrittenBack(h)
         IN  /\ W \in [Players -> Nat]
             /\ Total(W) = Total(chips) \/ (Total(W) < Total(chips) /\ Overbet)
             /\ \A p \in Players \ Alive(chips, resigned) : W[p] <= chips[p]
             /\ \A i \in Seats(hand) :
                  seated[i] \in quitters => W[seated[i]] <= hand.chips[i]
             /\ Alive(W, quitters) # {}
<1> DEFINE W == WrittenBack(h)
           b == Brought(hand, seated, chips)
<1>1. /\ HandType(h) /\ Settled(h, b) /\ SameTable(h, hand) /\ h.n = hand.n
      /\ \A i \in Seats(hand) : seated[i] \in quitters => i \in h.folded
  BY DEF Reached, Sound, SameTable
<1>2. /\ HandType(hand) /\ IsFiniteSet(Seats(hand))
      /\ seated \in [Seats(hand) -> Players] /\ chips \in [Players -> Nat]
      /\ b \in [Seats(hand) -> Nat]
  BY TableFields
<1>3. /\ Seats(h) = Seats(hand) /\ h.chips \in [Seats(hand) -> Nat]
      /\ InHand(h) = Seats(hand) \ h.folded
  <2>1. Seats(h) = Seats(hand)
    BY <1>1 DEF Seats
  <2> QED
    BY <1>1, <2>1, HandFields DEF InHand
<1>4. /\ W \in [Players -> Nat]
      /\ \A i \in Seats(hand) : W[seated[i]] = h.chips[i]
      /\ \A p \in Players : (\A i \in Seats(hand) : seated[i] # p)
                              => W[p] = chips[p]
      /\ Total(W) + Total(b) = Total(chips) + Total(h.chips)
  BY <1>1, WrittenBackIs
<1>5. \A i \in Seats(hand) : b[i] = chips[seated[i]] /\ chips[seated[i]] > 0
  BY DEF Brought, GameInv, TableSound
<1> HIDE DEF W, b
<1>6. Total(W) = Total(chips) \/ (Total(W) < Total(chips) /\ Overbet)
  <2>1. /\ Total(W) \in Nat /\ Total(b) \in Nat /\ Total(chips) \in Nat
        /\ Total(h.chips) \in Nat /\ Stranded(h) \in Nat
    <3>1. IsFiniteSet(Players)
      BY PlayersFinite
    <3> QED
      BY <1>1, <1>2, <1>3, <1>4, <3>1, TotalType, StrandedIs
  <2>2. Total(W) + Stranded(h) = Total(chips)
    BY <1>1, <1>4, <2>1 DEF Settled
  <2>3. CASE Stranded(h) = 0
    BY <2>1, <2>2, <2>3
  <2>4. CASE Stranded(h) > 0
    <3>1. h.folded \subseteq hand.folded \cup {hand.turn}
      BY <2>1, <2>4 DEF Reached, Streets
    <3>2. Overbet
      BY <1>1, <1>2, <2>4, <3>1, StrandedOverbet
    <3> QED
      BY <2>1, <2>2, <2>4, <3>2
  <2> QED
    BY <2>1, <2>3, <2>4
<1>7. ASSUME NEW p \in Players \ Alive(chips, resigned)
      PROVE  W[p] <= chips[p]
  <2>1. CASE \A i \in Seats(hand) : seated[i] # p
    BY <1>2, <1>4, <2>1
  <2>2. ASSUME NEW i \in Seats(hand), seated[i] = p
        PROVE  W[p] <= chips[p]
    <3>1. i \in h.folded
      BY <1>1, <1>5, <2>2, AliveIs
    <3>2. h.chips[i] <= b[i]
      BY <1>1, <3>1 DEF Settled
    <3> QED
      BY <1>4, <1>5, <2>2, <3>2
  <2> QED
    BY <2>1, <2>2
<1>8. ASSUME NEW i \in Seats(hand), seated[i] \in quitters
      PROVE  W[seated[i]] <= hand.chips[i]
  BY <1>1, <1>4, <1>8 DEF SameTable
<1>9. Alive(W, quitters) # {}
  <2>1. PICK i \in InHand(h) : h.chips[i] > 0
    BY <1>1, <1>3, <1>5 DEF Settled
  <2>2. seated[i] \in Players /\ W[seated[i]] > 0 /\ seated[i] \notin quitters
    BY <1>1, <1>2, <1>3, <1>4, <2>1
  <2> QED
    BY <2>2, AliveIs
<1> QED
  BY <1>4, <1>6, <1>7, <1>8, <1>9 DEF W

(* _finish_hand leaves a finished game or a sound table behind.            *)
LEMMA FinishHandSound ==
  ASSUME GameInv, Playing, NEW quitters \in SUBSET Players,
         resigned \subseteq quitters,
         NEW h, Reached(h, quitters), h.phase = "complete",
         FinishHand(h, quitters)
  PROVE  Left(quitters)
<1> DEFINE W == WrittenBack(h)
           A == Alive(W, quitters)
<1>1. /\ W \in [Players -> Nat]
      /\ Total(W) = Total(chips) \/ (Total(W) < Total(chips) /\ Overbet)
      /\ \A p \in Players \ Alive(chips, resigned) : W[p] <= chips[p]
      /\ \A i \in Seats(hand) :
           seated[i] \in quitters => W[seated[i]] <= hand.chips[i]
      /\ A # {}
  BY WrittenBackSound
<1>2. /\ dealer_index \in Nat /\ dealer_index \in 0 .. MaxPlayers - 1
      /\ winner \in Players \cup {Nobody} /\ game_over = FALSE
      /\ chips \in [Players -> Nat] /\ seated \in [Seats(hand) -> Players]
      /\ hand.chips \in [Seats(hand) -> Nat]
  BY TableFields, HandFields, GameAssumption DEF GameInv, Playing
<1>3. A \in SUBSET Players /\ Cardinality(A) \in Nat
  BY AliveIs, PlayersFinite
<1>4. IF GameEnds(A)
        THEN /\ chips' = W /\ game_over' = TRUE
             /\ winner' = IF A = {} THEN winner ELSE LastStanding(W, quitters)
             /\ hand' = NoHand /\ seated' = <<>> /\ UNCHANGED dealer_index
        ELSE StartNewHand(W, quitters, (dealer_index + 1) % Cardinality(A))
  BY DEF FinishHand
<1>5. CASE GameEnds(A)
  <2>1. winner' \in Players
    BY <1>1, <1>3, <1>4, <1>5 DEF LastStanding
  <2>2. Cardinality(A) <= 1
    BY <1>5 DEF GameEnds
  <2>3. /\ chips' = W /\ game_over' = TRUE /\ hand' = NoHand /\ seated' = <<>>
        /\ dealer_index' = dealer_index
    BY <1>4, <1>5
  <2> HIDE DEF W
  <2> QED
    BY <1>1, <1>2, <2>1, <2>2, <2>3 DEF Left
<1>6. CASE ~GameEnds(A)
  <2>1. Cardinality(A) >= 2 /\ (dealer_index + 1) % Cardinality(A) \in Nat
    <3>1. ~(Cardinality(A) <= 1)
      BY <1>6 DEF GameEnds
    <3> DEFINE c == Cardinality(A)
    <3>2. c \in Nat \ {0, 1}
      BY <1>3, <3>1
    <3> HIDE DEF c
    <3>3. c >= 2 /\ (dealer_index + 1) % c \in Nat
      BY <1>2, <3>2
    <3> QED
      BY <3>3 DEF c
  <2>2. /\ chips' = Redistributed(W, quitters)
        /\ TableSound(hand', seated', chips', quitters)
        /\ hand'.dealer = dealer_index'
        /\ dealer_index' \in 0 .. MaxPlayers - 1
        /\ game_over' = game_over /\ winner' = winner
    BY <1>1, <1>4, <1>6, <2>1, StartNewHandSound
  <2> HIDE DEF W
  <2>3. /\ chips' \in [Players -> Nat] /\ Alive(chips', quitters) = A
        /\ Total(chips') = Total(W)
        /\ \A p \in quitters : chips'[p] = 0
        /\ \A p \in Players \ A : chips'[p] <= W[p]
    BY <1>1, <2>2, RedistributedIs
  <2>4. ASSUME NEW p \in Players \ Alive(chips, resigned)
        PROVE  chips'[p] <= chips[p]
    <3>1. /\ chips[p] \in Nat /\ W[p] \in Nat /\ chips'[p] \in Nat
          /\ W[p] <= chips[p]
      BY <1>1, <1>2, <2>3
    <3>2. p \notin A
      BY <3>1, AliveIs
    <3> QED
      BY <2>3, <3>1, <3>2
  <2>5. ASSUME NEW i \in Seats(hand), seated[i] \in quitters
        PROVE  chips'[seated[i]] <= hand.chips[i]
    BY <1>2, <2>3, <2>5
  <2>6. ~(Cardinality(Alive(chips', quitters)) <= 1)
    BY <1>6, <2>3 DEF GameEnds
  <2>7. \/ Total(chips') = Total(chips)
        \/ Total(chips') < Total(chips) /\ Overbet
    BY <1>1, <2>3
  <2> HIDE DEF A
  <2> QED
    BY <1>1, <1>2, <2>2, <2>3, <2>4, <2>5, <2>6, <2>7 DEF Left
<1> QED
  BY <1>5, <1>6

-----------------------------------------------------------------------------
(* The calls of a request.                                                 *)

(* The table stays sound, whatever the hand has come to.                   *)
LEMMA TableStaysSound ==
  ASSUME GameInv, Playing, NEW quitters \in SUBSET Players,
         resigned \subseteq quitters,
         NEW h, Reached(h, quitters)
  PROVE  TableSound(h, seated, chips, quitters)
<1>1. TableSound(hand, seated, chips, resigned)
  BY DEF GameInv
<1>2. Seats(h) = Seats(hand) /\ Sound(h, Brought(hand, seated, chips))
  BY DEF Reached, SameTable, Seats
<1>3. Alive(chips, quitters) \subseteq Alive(chips, resigned)
  BY AliveIs
<1>4. Brought(h, seated, chips) = Brought(hand, seated, chips)
  BY <1>2 DEF Brought
<1> QED
  BY <1>1, <1>2, <1>3, <1>4 DEF TableSound, Reached

(* While a hand goes on at least two players are alive.                    *)
LEMMA TwoGoOn ==
  ASSUME GameInv, Playing, NEW quitters \in SUBSET Players,
         resigned \subseteq quitters,
         NEW h, Reached(h, quitters), h.phase \in Streets
  PROVE  Cardinality(Alive(chips, quitters)) >= 2
<1> DEFINE A == Alive(chips, quitters)
<1>1. /\ TableSound(hand, seated, chips, resigned)
      /\ seated \in [Seats(hand) -> Players]
      /\ \A i, j \in Seats(hand) : seated[i] = seated[j] => i = j
  BY TableFields DEF GameInv
<1>2. /\ Seats(h) = Seats(hand) /\ HandType(h)
      /\ Cardinality(InHand(h)) >= 2
  BY DEF Reached, SameTable, Seats, Sound, Streets
<1>3. PICK i \in InHand(h), j \in InHand(h) : i # j
  BY <1>2, CanActSeated, TwoIn
<1>4. \A k \in InHand(h) : k \in Seats(hand) /\ seated[k] \in A
  <2>1. ASSUME NEW k \in InHand(h)
        PROVE  /\ k \in Seats(hand) /\ seated[k] \in Players
               /\ chips[seated[k]] > 0 /\ seated[k] \notin quitters
    BY <1>1, <1>2 DEF InHand, TableSound, Reached
  <2> QED
    BY <2>1, AliveIs
<1>5. Cardinality(A) >= 2
  <2>1. seated[i] \in A /\ seated[j] \in A /\ seated[i] # seated[j]
    BY <1>1, <1>3, <1>4
  <2>2. IsFiniteSet(A)
    BY AliveIs, PlayersFinite
  <2> HIDE DEF A
  <2> QED
    BY <2>1, <2>2, TwoOf
<1> QED
  BY <1>5

(* However a call concludes, it leaves what Left says.                     *)
LEMMA ConcludeSound ==
  ASSUME GameInv, Playing, NEW quitters \in SUBSET Players,
         resigned \subseteq quitters,
         NEW h, Reached(h, quitters), Conclude(h, quitters)
  PROVE  Left(quitters)
<1>1. HandType(h) /\ HandType(hand) /\ SameTable(h, hand)
  BY TableFields DEF Reached, Sound
<1>2. CASE h.phase \in Streets
  <2>1. TableSound(h, seated, chips, quitters)
    BY TableStaysSound
  <2>2. /\ hand' = h /\ chips' = chips /\ game_over' = game_over
        /\ winner' = winner /\ dealer_index' = dealer_index /\ seated' = seated
    BY <1>2 DEF Conclude, Streets
  <2>3. /\ chips \in [Players -> Nat] /\ winner \in Players \cup {Nobody}
        /\ dealer_index \in 0 .. MaxPlayers - 1 /\ game_over = FALSE
        /\ h.dealer = dealer_index
    BY <1>1 DEF GameInv, Playing, SameTable
  <2>4. /\ Alive(chips, quitters) # {}
        /\ ~(Cardinality(Alive(chips, quitters)) <= 1)
    <3>1. /\ Cardinality(Alive(chips, quitters)) \in Nat
          /\ Cardinality(Alive(chips, quitters)) >= 2
      BY <1>2, TwoGoOn, AliveIs, PlayersFinite
    <3> QED
      BY <3>1, FS_EmptySet
  <2>5. \A p \in Players : chips[p] <= chips[p]
    BY <2>3
  <2> QED
    BY <2>1, <2>2, <2>3, <2>4, <2>5 DEF Left
<1>3. CASE h.phase = "complete"
  <2>1. FinishHand(h, quitters)
    BY <1>3 DEF Conclude, Streets
  <2> QED
    BY <1>3, <2>1, FinishHandSound
<1>4. CASE h.phase = "showdown"
  <2>1. PICK rank \in Rankings(h) : FinishHand(Showdown(h, rank), quitters)
    BY <1>4 DEF Conclude, Streets
  <2>2. rank \in [InHand(h) -> Nat]
    <3>1. 1 .. Cardinality(InHand(h)) \subseteq Nat
      OBVIOUS
    <3> QED
      BY <3>1 DEF Rankings
  <2> DEFINE g == Showdown(h, rank)
  <2>3. /\ Sound(g, Brought(hand, seated, chips)) /\ SameTable(g, h)
        /\ g.phase = "complete" /\ g.folded = h.folded
        /\ Stranded(g) = Stranded(h)
    BY <1>4, <2>2, ShowdownSound DEF Reached
  <2> HIDE DEF g
  <2>4. HandType(g) /\ SameTable(g, hand)
    BY <1>1, <2>3, SameTableTrans DEF Sound
  <2>5. Reached(g, quitters)
    BY <1>4, <2>3, <2>4 DEF Reached, Streets
  <2> QED
    BY <2>1, <2>3, <2>5, FinishHandSound DEF g
<1> QED
  BY <1>1, <1>2, <1>3, <1>4, HandFields

(* There is a hand only while the game is played.                          *)
LEMMA HandOnlyWhenPlaying ==
  ASSUME GameInv, hand.phase # "none"
  PROVE  Playing
BY DEF GameInv, NoHand

(* What an action on the turn makes of the hand.                           *)
LEMMA FollowsReached ==
  ASSUME GameInv, Playing, NEW h, Sound(h, Brought(hand, seated, chips)),
         Follows(h, hand, hand.turn)
  PROVE  Reached(h, resigned)
BY DEF GameInv, TableSound, Follows, SameTable, Reached

(* do_action, the rest of the call included.                               *)
Acts ==
  \/ Fold
  \/ Check
  \/ Call
  \/ \E amount \in Amounts : Bet(amount) \/ Raise(amount)
  \/ AllIn

(* Whatever the player on turn does.                                       *)
LEMMA ActsSound ==
  ASSUME GameInv, Acts
  PROVE  Playing /\ Left(resigned) /\ UNCHANGED <<lobbyVars, resigned>>
<1> DEFINE Played == \E h : /\ Sound(h, Brought(hand, seated, chips))
                            /\ Follows(h, hand, hand.turn) /\ Act(h)
<1>1. Playing /\ hand.phase \in Streets
  <2>1. hand.phase \in Streets
    BY DEF Acts, Fold, Check, Call, Bet, Raise, AllIn, InProgress
  <2> QED
    BY <2>1, HandOnlyWhenPlaying DEF Streets
<1>2. Sound(hand, Brought(hand, seated, chips))
  BY <1>1, TableFields
<1>3. Played
  <2>1. CASE Fold
    BY <1>1, <1>2, <2>1, AfterFoldSound DEF Fold
  <2>2. CASE Check
    BY <1>1, <1>2, <2>2, AfterCheckSound DEF Check
  <2>3. CASE Call
    BY <1>1, <1>2, <2>3, AfterCallSound DEF Call
  <2>4. ASSUME NEW amount \in Amounts, Bet(amount)
        PROVE  Played
    <3>1. amount \in Nat
      BY GameAssumption DEF Amounts
    <3> QED
      BY <1>1, <1>2, <2>4, <3>1, AfterBetSound DEF Bet
  <2>5. ASSUME NEW amount \in Amounts, Raise(amount)
        PROVE  Played
    <3>1. amount \in Nat
      BY GameAssumption DEF Amounts
    <3> QED
      BY <1>1, <1>2, <2>5, <3>1, AfterRaiseSound DEF Raise
  <2>6. CASE AllIn
    BY <1>1, <1>2, <2>6, AfterAllInSound DEF AllIn
  <2> QED
    BY <2>1, <2>2, <2>3, <2>4, <2>5, <2>6 DEF Acts
<1>4. PICK h : /\ Sound(h, Brought(hand, seated, chips))
               /\ Follows(h, hand, hand.turn) /\ Act(h)
  BY <1>3
<1>5. Reached(h, resigned)
  BY <1>1, <1>4, FollowsReached
<1>6. resigned \in SUBSET Players
  BY GameAssumption DEF GameInv, Players
<1> QED
  BY <1>1, <1>4, <1>5, <1>6, ConcludeSound DEF Act

(* Resigning folds the player's hand.                                      *)
LEMMA AfterResignationSound ==
  ASSUME GameInv, NEW p \in Alive(chips, resigned), InProgress
  PROVE  /\ Playing /\ Reached(AfterResignation(p), resigned \cup {p})
         /\ resigned \cup {p} \in SUBSET Players
<1> DEFINE i == CHOOSE i \in Seats(hand) : seated[i] = p
           h == AfterResignation(p)
           q == resigned \cup {p}
<1>1. hand.phase \in Streets /\ p \in Players
  BY AliveIs DEF InProgress
<1>2. Playing
  BY <1>1, HandOnlyWhenPlaying DEF Streets
<1>3. /\ HandType(hand) /\ Sound(hand, Brought(hand, seated, chips))
      /\ \A k, l \in Seats(hand) : seated[k] = seated[l] => k = l
      /\ \A k \in Seats(hand) : seated[k] \in resigned => k \in hand.folded
      /\ \E k \in Seats(hand) : seated[k] = p
  BY <1>1, <1>2, TableFields DEF GameInv, TableSound
<1>4. i \in Seats(hand) /\ seated[i] = p
  BY <1>3
<1>5. h = IF i \in hand.folded THEN hand
          ELSE IF hand.turn = i THEN AfterFold(hand)
          ELSE AfterForcedFold(hand, i)
  BY DEF AfterResignation
<1> HIDE DEF i, h
<1>6. /\ Sound(h, Brought(hand, seated, chips)) /\ SameTable(h, hand)
      /\ i \in h.folded
      /\ \/ h.folded \subseteq hand.folded \cup {hand.turn}
         \/ h.phase \in Streets
         \/ Stranded(h) = 0
  <2>1. CASE i \in hand.folded
    <3>1. h = hand
      BY <1>5, <2>1
    <3>2. SameTable(hand, hand)
      BY <1>3, TableUntouched
    <3> QED
      BY <1>3, <2>1, <3>1, <3>2
  <2>2. CASE i \notin hand.folded /\ hand.turn = i
    <3>1. h = AfterFold(hand)
      BY <1>5, <2>2
    <3> QED
      BY <1>1, <1>3, <2>2, <3>1, AfterFoldSound DEF Follows
  <2>3. CASE i \notin hand.folded /\ hand.turn # i
    <3>1. h = AfterForcedFold(hand, i) /\ i \in InHand(hand)
      BY <1>4, <1>5, <2>3 DEF InHand
    <3> QED
      BY <1>1, <1>3, <2>3, <3>1, AfterForcedFoldSound DEF Follows, Stranded
  <2> QED
    BY <2>1, <2>2, <2>3
<1>7. Reached(h, q)
  <2>1. ASSUME NEW k \in Seats(hand), seated[k] \in q PROVE k \in h.folded
    <3>1. k = i \/ k \in hand.folded
      BY <1>3, <1>4, <2>1
    <3> QED
      BY <1>6, <3>1 DEF SameTable
  <2> QED
    BY <1>6, <2>1 DEF Reached
<1>8. q \in SUBSET Players
  BY <1>1, GameAssumption DEF GameInv, Players
<1> QED
  BY <1>2, <1>7, <1>8 DEF h

(* The check that ends resign() never finds a hand to drop.                *)
LEMMA ResignSound ==
  ASSUME GameInv, NEW p \in Players, Resign(p)
  PROVE  /\ Playing /\ Left(resigned') /\ UNCHANGED lobbyVars
         /\ resigned' = resigned \cup {p} /\ p \in Alive(chips, resigned)
<1> DEFINE h == AfterResignation(p)
           q == resigned \cup {p}
<1>1. /\ InProgress /\ p \in Alive(chips, resigned)
      /\ resigned' = q /\ UNCHANGED lobbyVars
  BY DEF Resign
<1>2. Playing /\ Reached(h, q) /\ q \in SUBSET Players
  BY <1>1, AfterResignationSound
<1>3. resigned \subseteq q
  OBVIOUS
<1> HIDE DEF h, q
<1>4. ~(h.phase \in Streets /\ GameEnds(Alive(chips, q)))
  <2>1. ASSUME h.phase \in Streets
        PROVE  ~(Cardinality(Alive(chips, q)) <= 1)
    <3>1. /\ Cardinality(Alive(chips, q)) >= 2
          /\ Cardinality(Alive(chips, q)) \in Nat
      BY <1>2, <1>3, <2>1, TwoGoOn, AliveIs, PlayersFinite
    <3> QED
      BY <3>1
  <2> QED
    BY <2>1 DEF GameEnds
<1>5. Conclude(h, q)
  BY <1>1, <1>4 DEF Resign, h, q
<1>6. Left(q)
  BY <1>2, <1>3, <1>5, ConcludeSound
<1> QED
  BY <1>1, <1>2, <1>6 DEF q

(* The rest of a call that dealt a hand which was over at once.            *)
LEMMA RunOutSound ==
  ASSUME GameInv, RunOut
  PROVE  Playing /\ Left(resigned) /\ UNCHANGED <<lobbyVars, resigned>>
<1>1. /\ hand.phase \in {"showdown", "complete"} /\ Conclude(hand, resigned)
      /\ UNCHANGED <<lobbyVars, resigned>>
  BY DEF RunOut
<1>2. Playing
  BY <1>1, HandOnlyWhenPlaying
<1>3. /\ HandType(hand) /\ Sound(hand, Brought(hand, seated, chips))
      /\ \A i \in Seats(hand) : seated[i] \in resigned => i \in hand.folded
      /\ resigned \in SUBSET Players
  BY <1>2, TableFields, GameAssumption DEF GameInv, TableSound, Players
<1>4. SameTable(hand, hand)
  BY <1>3, TableUntouched
<1>5. Reached(hand, resigned)
  BY <1>3, <1>4 DEF Reached
<1> QED
  BY <1>1, <1>2, <1>3, <1>5, ConcludeSound

(* A call once the game has started: at most one player resigns.           *)
TableStep ==
  /\ Playing
  /\ Left(resigned')
  /\ UNCHANGED lobbyVars
  /\ \/ resigned' = resigned
     \/ \E p \in Alive(chips, resigned) : resigned' = resigned \cup {p}

LEMMA StepIs ==
  ASSUME GameInv, Next
  PROVE  Register \/ Start \/ TableStep
<1>1. CASE Acts
  BY <1>1, ActsSound DEF TableStep
<1>2. ASSUME NEW p \in Players, Resign(p)
      PROVE  TableStep
  BY <1>2, ResignSound DEF TableStep
<1>3. CASE RunOut
  BY <1>3, RunOutSound DEF TableStep
<1> QED
  BY <1>1, <1>2, <1>3 DEF Next, Acts

-----------------------------------------------------------------------------
(* The invariant holds throughout every tournament.                        *)
LEMMA GameInvInit ==
  Init => GameInv
<1> SUFFICES ASSUME Init PROVE GameInv
  OBVIOUS
<1>1. /\ registered = 0 /\ chips = [p \in Players |-> 0] /\ resigned = {}
      /\ started = FALSE /\ game_over = FALSE /\ winner = Nobody
      /\ dealer_index = 0 /\ hand = NoHand /\ seated = <<>>
  BY DEF Init
<1>2. /\ registered \in 0 .. MaxPlayers /\ dealer_index \in 0 .. MaxPlayers - 1
      /\ chips \in [Players -> Nat]
  BY <1>1, GameAssumption
<1>3. \A p \in Players : chips[p] = 0 /\ ~(p <= registered)
  BY <1>1, PlayersFinite
<1> QED
  BY <1>1, <1>2, <1>3 DEF GameInv, Playing

(* What registering does.                                                  *)
LEMMA RegisterIs ==
  ASSUME GameInv, Register
  PROVE  /\ ~started /\ registered \in Nat
         /\ registered + 1 \in 1 .. MaxPlayers /\ registered + 1 \in Players
         /\ chips[registered + 1] = 0
         /\ registered' = registered + 1
         /\ chips' = [chips EXCEPT ![registered + 1] = StartingChips]
         /\ UNCHANGED <<resigned, started, game_over, winner, dealer_index,
                        hand, seated>>
<1>1. registered \in Nat /\ registered + 1 \in 1 .. MaxPlayers
  BY GameAssumption DEF GameInv, Register
<1>2. registered + 1 > registered
  BY <1>1
<1> QED
  BY <1>1, <1>2 DEF GameInv, Register, Players

(* What starting does: two players or more are seated, none of whom has    *)
(* resigned.                                                               *)
LEMMA StartIs ==
  ASSUME GameInv, Start
  PROVE  /\ ~started /\ started' = TRUE /\ UNCHANGED <<registered, resigned>>
         /\ resigned = {} /\ game_over = FALSE
         /\ Cardinality(Alive(chips, resigned)) >= 2
         /\ chips' = chips
         /\ TableSound(hand', seated', chips', resigned)
         /\ hand'.dealer = dealer_index'
         /\ dealer_index' \in 0 .. MaxPlayers - 1
         /\ UNCHANGED <<game_over, winner>>
<1>1. /\ ~started /\ started' = TRUE /\ UNCHANGED <<registered, resigned>>
      /\ resigned = {} /\ game_over = FALSE
      /\ StartNewHand(chips, resigned, dealer_index)
      /\ chips \in [Players -> Nat] /\ dealer_index \in Nat
      /\ resigned \in SUBSET Players
  BY GameAssumption DEF Start, GameInv
<1>2. Cardinality(Alive(chips, resigned)) >= 2
  <2>1. 1 \in Players /\ 2 \in Players /\ 1 <= registered /\ 2 <= registered
    BY GameAssumption DEF Start, GameInv, Players
  <2>2. 1 \in Alive(chips, resigned) /\ 2 \in Alive(chips, resigned)
    BY <1>1, <2>1, AliveIs DEF GameInv
  <2>3. IsFiniteSet(Alive(chips, resigned))
    BY AliveIs, PlayersFinite
  <2> QED
    BY <2>2, <2>3, TwoOf
<1>3. chips' = Redistributed(chips, resigned)
  BY <1>1, <1>2, StartNewHandSound
<1> QED
  BY <1>1, <1>2, <1>3, StartNewHandSound, NothingRedistributed

LEMMA GameInvNext ==
  GameInv /\ [Next]_vars => GameInv'
<1> SUFFICES ASSUME GameInv, [Next]_vars PROVE GameInv'
  OBVIOUS
<1>1. CASE Register
  <2>1. /\ registered' \in 0 .. MaxPlayers
        /\ chips' \in [Players -> Nat]
        /\ resigned' \in SUBSET (1 .. registered')
    <3>1. StartingChips \in Nat /\ chips \in [Players -> Nat]
      BY GameAssumption DEF GameInv
    <3>2. registered' \in 0 .. MaxPlayers /\ chips' \in [Players -> Nat]
      BY <1>1, <3>1, RegisterIs
    <3>3. resigned' = {}
      BY <1>1, RegisterIs DEF GameInv
    <3> QED
      BY <3>2, <3>3
  <2>2. \A p \in Players : /\ p > registered' => chips'[p] = 0
                           /\ p <= registered' => chips'[p] > 0
    <3>1. ASSUME NEW p \in Players
          PROVE  /\ p > registered' => chips'[p] = 0
                 /\ p <= registered' => chips'[p] > 0
      <4>1. /\ p \in Nat /\ registered \in Nat /\ registered' = registered + 1
            /\ StartingChips > 0 /\ ~started
            /\ chips' = [chips EXCEPT ![registered + 1] = StartingChips]
        BY <1>1, RegisterIs, PlayersFinite, GameAssumption
      <4>2. /\ p > registered => chips[p] = 0
            /\ p <= registered => chips[p] > 0
        BY <4>1 DEF GameInv
      <4>3. chips'[p] = IF p = registered + 1 THEN StartingChips ELSE chips[p]
        BY <4>1 DEF GameInv
      <4> QED
        BY <4>1, <4>2, <4>3
    <3> QED
      BY <3>1
  <2> QED
    BY <1>1, <2>1, <2>2, RegisterIs DEF GameInv, Playing
<1>2. CASE Start
  <2>1. /\ started' = TRUE /\ game_over' = FALSE /\ resigned = {}
        /\ registered' = registered /\ resigned' = resigned
        /\ chips' = chips /\ winner' = winner
        /\ TableSound(hand', seated', chips', resigned')
        /\ hand'.dealer = dealer_index'
        /\ dealer_index' \in 0 .. MaxPlayers - 1
    BY <1>2, StartIs
  <2> QED
    BY <2>1 DEF GameInv, Playing
<1>3. CASE TableStep
  <2>1. /\ registered' = registered /\ started' = started /\ started = TRUE
        /\ Left(resigned')
    BY <1>3 DEF TableStep, lobbyVars, Playing, GameInv
  <2>2. resigned' \in SUBSET (1 .. registered')
    <3>1. ASSUME NEW p \in Alive(chips, resigned) PROVE p \in 1 .. registered
      <4>1. /\ p \in 1 .. MaxPlayers /\ chips[p] > 0 /\ p \in Players
            /\ registered \in Nat
        BY <3>1, AliveIs, GameAssumption DEF Players, GameInv
      <4>2. ~(p > registered)
        BY <4>1 DEF GameInv
      <4> QED
        BY <4>1, <4>2
    <3> QED
      BY <1>3, <2>1, <3>1 DEF TableStep, GameInv
  <2>3. ASSUME NEW p \in Players, p > registered' PROVE chips'[p] = 0
    <3>1. chips[p] = 0 /\ p \notin Alive(chips, resigned)
      BY <2>1, <2>3, AliveIs DEF GameInv
    <3>2. chips'[p] <= 0 /\ chips'[p] \in Nat
      BY <2>1, <3>1 DEF Left
    <3> QED
      BY <3>2
  <2> QED
    BY <2>1, <2>2, <2>3 DEF GameInv, Left, Playing
<1>4. CASE UNCHANGED vars
  BY <1>4 DEF vars, GameInv, Playing, TableSound, Brought, Alive
<1> QED
  BY <1>1, <1>2, <1>3, <1>4, StepIs

LEMMA GameInvariant ==
  Spec => []GameInv
BY GameInvInit, GameInvNext, PTL DEF Spec

(* A tournament's own variables are well formed, and a hand is going on    *)
(* exactly from the start to the end of the game (game.py:34-59).          *)
THEOREM GameTyped ==
  Spec => []TypeOK
<1>1. ASSUME GameInv PROVE TypeOK
  <2>1. CASE Playing
    <3>1. /\ seated \in [Seats(hand) -> Players]
          /\ hand.phase \in Streets \cup {"showdown", "complete"}
      BY <1>1, <2>1, TableFields, HandFields
    <3> QED
      BY <1>1, <2>1, <3>1 DEF GameInv, TypeOK, Playing
  <2>2. CASE ~Playing
    BY <1>1, <2>2 DEF GameInv, TypeOK, Playing
  <2> QED
    BY <2>1, <2>2
<1> QED
  BY <1>1, GameInvariant, PTL

(* Whatever hands, resignations and redistributions came before, everybody *)
(* still in the tournament has one seat in the current hand, and a player  *)
(* who resigned has folded in it (game.py:249-271, 318).                   *)
THEOREM SeatsCorrect ==
  Spec => []SeatsMatchPlayers
<1>1. ASSUME GameInv PROVE SeatsMatchPlayers
  <2>1. SUFFICES ASSUME Playing
                 PROVE  /\ TableSound(hand, seated, chips, resigned)
                        /\ hand.dealer = dealer_index
    BY DEF SeatsMatchPlayers, TableSound
  <2> QED
    BY <1>1, <2>1 DEF GameInv
<1> QED
  BY <1>1, GameInvariant, PTL

(* Between a player's first and last chip nothing gets lost but bets that  *)
(* no side pot reaches: settling, writing back and sharing out the chips   *)
(* of any number of resigned players keep the total (game.py:375-433).     *)
THEOREM ChipsLostCorrect ==
  Spec => LostChipsAreOverbets
<1> DEFINE Loss == started => \/ Total(chips') = Total(chips)
                              \/ /\ Total(chips') < Total(chips)
                                 /\ Playing
                                 /\ \E i \in hand.folded \cup {hand.turn} :
                                      \A j \in InHand(hand) \ {i} :
                                        hand.total[j] < hand.total[i]
<1>1. ASSUME GameInv, [Next]_vars PROVE [Loss]_vars
  <2>1. CASE Register \/ Start
    <3>1. ~started
      BY <2>1 DEF Register, Start
    <3> QED
      BY <3>1
  <2>2. CASE TableStep
    BY <2>2 DEF TableStep, Left, Overbet
  <2> QED
    BY <1>1, <2>1, <2>2, StepIs
<1> QED
  BY <1>1, GameInvariant, PTL DEF Spec, LostChipsAreOverbets

(* No way a hand can end gives a player who resigned anything of the pot   *)
(* he left (game.py:227-288).                                              *)
THEOREM ForfeitsCorrect ==
  Spec => BetsStayForfeited
<1> DEFINE Forfeit == Playing /\ (chips' # chips \/ game_over') =>
                        \A i \in Seats(hand) :
                          seated[i] \in resigned'
                            => chips'[seated[i]] <= hand.chips[i]
<1>1. ASSUME GameInv, [Next]_vars PROVE [Forfeit]_vars
  <2>1. CASE Register \/ Start
    <3>1. ~Playing
      BY <2>1 DEF Register, Start, Playing
    <3> QED
      BY <3>1
  <2>2. CASE TableStep
    <3>1. Left(resigned')
      BY <2>2 DEF TableStep
    <3> QED
      BY <3>1 DEF Left
  <2> QED
    BY <1>1, <2>1, <2>2, StepIs
<1> QED
  BY <1>1, GameInvariant, PTL DEF Spec, BetsStayForfeited

-----------------------------------------------------------------------------
(* The tournament is what module Tournament promises.                      *)

(* Who is in, and what all have, mean the same to both.                    *)
LEMMA PromiseWords ==
  /\ Promise!Players = Players
  /\ \A s, q : Promise!In(s, q) = Alive(s, q)
  /\ \A s : Promise!Total(s) = Total(s)
  /\ \A S : Promise!Cardinality(S) = Cardinality(S)
<1>1. Promise!Players = Players
  BY DEF Promise!Players, Players
<1>2. \A s, q : Promise!In(s, q) = Alive(s, q)
  BY <1>1 DEF Promise!In, Alive
<1>3. \A S : Promise!Cardinality(S) = Cardinality(S)
  BY DEF Promise!Cardinality, Cardinality, Promise!IsFiniteSet, IsFiniteSet
<1>4. \A s : Promise!Total(s) = Total(s)
  BY <1>3 DEF Promise!Total, Promise!Tokens, Total, Tokens
<1> QED
  BY <1>1, <1>2, <1>3, <1>4

LEMMA StepKeepsPromise ==
  GameInv /\ [Next]_vars => [Promise!Next]_(Promise!vars)
<1> SUFFICES ASSUME GameInv, [Next]_vars PROVE [Promise!Next]_(Promise!vars)
  OBVIOUS
<1>1. CASE Register
  <2>1. Promise!BuyIn
    BY <1>1, RegisterIs, PromiseWords DEF Promise!BuyIn
  <2> QED
    BY <2>1 DEF Promise!Next
<1>2. CASE Start
  <2>1. Promise!Begin
    <3>1. Promise!Cardinality(Promise!In(chips, resigned)) >= 2
      BY <1>2, StartIs, PromiseWords
    <3> QED
      BY <1>2, <3>1, StartIs DEF Promise!Begin
  <2> QED
    BY <2>1 DEF Promise!Next
<1>3. CASE TableStep
  <2>1. /\ started = TRUE /\ game_over = FALSE /\ started' = started
        /\ Left(resigned')
    BY <1>3 DEF TableStep, Playing, lobbyVars, GameInv
  <2>2. /\ resigned \subseteq resigned'
        /\ resigned' \subseteq resigned \cup Alive(chips, resigned)
    BY <1>3 DEF TableStep
  <2>3. Cardinality(resigned' \ resigned) <= 1
    <3>1. CASE resigned' \ resigned = {}
      BY <3>1, FS_EmptySet
    <3>2. ASSUME NEW p, resigned' \ resigned = {p}
          PROVE  Cardinality(resigned' \ resigned) <= 1
      BY <3>2, FS_Singleton
    <3> QED
      BY <1>3, <3>1, <3>2 DEF TableStep
  <2>4. Total(chips') <= Total(chips)
    <3>1. Total(chips') \in Nat /\ Total(chips) \in Nat
      BY <2>1, PlayersFinite, TotalType DEF Left, GameInv
    <3> QED
      BY <2>1, <3>1 DEF Left
  <2>5. game_over' = (Cardinality(Alive(chips', resigned')) <= 1)
    <3> DEFINE few == Cardinality(Alive(chips', resigned')) <= 1
    <3>1. few \in BOOLEAN
      <4>1. Cardinality(Alive(chips', resigned')) \in Nat
        BY AliveIs, PlayersFinite
      <4> QED
        BY <4>1
    <3>2. \/ game_over' = TRUE /\ few
          \/ game_over' = FALSE /\ ~few
      BY <2>1 DEF Left
    <3> HIDE DEF few
    <3>3. game_over' = few
      BY <3>1, <3>2, Zenon
    <3> QED
      BY <3>3 DEF few
  <2>6. /\ Alive(chips', resigned') # {}
        /\ \A p \in Players \ Alive(chips, resigned) : chips'[p] <= chips[p]
    BY <2>1 DEF Left
  <2>7. /\ Promise!In(chips, resigned) = Alive(chips, resigned)
        /\ Promise!In(chips', resigned') = Alive(chips', resigned')
        /\ Promise!Total(chips) = Total(chips)
        /\ Promise!Total(chips') = Total(chips')
        /\ Promise!Players = Players
        /\ \A S : Promise!Cardinality(S) = Cardinality(S)
    BY PromiseWords
  <2>8. Promise!Play
    BY <2>1, <2>2, <2>3, <2>4, <2>5, <2>6, <2>7 DEF Promise!Play
  <2> QED
    BY <2>8 DEF Promise!Next
<1>4. CASE UNCHANGED vars
  BY <1>4 DEF vars, Promise!vars
<1> QED
  BY <1>1, <1>2, <1>3, <1>4, StepIs

(* Seen from outside a tournament is one of module Tournament: chips are   *)
(* bought once and then only change hands among those still in, who is out *)
(* stays out, and the game is over as soon as, and not before, one player  *)
(* is left (game.py:227-288, 375-433).                                     *)
THEOREM TournamentImplementsPromise ==
  Spec => TournamentPromise
<1>1. Init => Promise!Init
  BY PromiseWords DEF Init, Promise!Init
<1> QED
  BY <1>1, StepKeepsPromise, GameInvariant, PTL
     DEF Spec, TournamentPromise, Promise!Spec

-----------------------------------------------------------------------------
(* The requests.                                                           *)

(* The hand has come to what Reached says, and the call goes on.           *)
LEMMA HandBecomes ==
  ASSUME GameInv, Playing, NEW quitters \in SUBSET (1 .. registered),
         resigned \subseteq quitters, Reached(hand', quitters),
         resigned' = quitters,
         UNCHANGED <<lobbyVars, chips, game_over, winner, dealer_index, seated>>
  PROVE  GameInv'
<1>1. quitters \in SUBSET Players
  BY GameAssumption DEF GameInv, Players
<1>2. TableSound(hand', seated, chips, quitters)
  BY <1>1, TableStaysSound
<1>3. hand'.dealer = dealer_index
  BY DEF Reached, SameTable, GameInv
<1>4. /\ registered' = registered /\ started' = started /\ started = TRUE
      /\ game_over' = game_over /\ game_over = FALSE /\ chips' = chips
      /\ winner' = winner /\ dealer_index' = dealer_index /\ seated' = seated
  BY DEF lobbyVars, Playing, GameInv
<1> QED
  BY <1>2, <1>3, <1>4 DEF GameInv, Playing

(* do_action, as far as the hand's own do_action.                          *)
LEMMA DoActionSound ==
  ASSUME GameInv, DoAction
  PROVE  GameInv'
<1> DEFINE Played == \E h : /\ Sound(h, Brought(hand, seated, chips))
                            /\ Follows(h, hand, hand.turn) /\ Plays(h)
<1>1. Playing /\ hand.phase \in Streets
  <2>1. hand.phase \in Streets
    BY DEF DoAction, Plays, InProgress
  <2> QED
    BY <2>1, HandOnlyWhenPlaying DEF Streets
<1>2. Sound(hand, Brought(hand, seated, chips))
  BY <1>1, TableFields
<1>3. Played
  <2>1. CASE Plays(AfterFold(hand))
    BY <1>1, <1>2, <2>1, AfterFoldSound
  <2>2. CASE MayCheck(hand) /\ Plays(AfterCheck(hand))
    BY <1>1, <1>2, <2>2, AfterCheckSound
  <2>3. CASE MayCall(hand) /\ Plays(AfterCall(hand))
    BY <1>1, <1>2, <2>3, AfterCallSound
  <2>4. ASSUME NEW amount \in Amounts,
               MayBet(hand, amount) /\ Plays(AfterBet(hand, amount))
        PROVE  Played
    <3>1. amount \in Nat
      BY GameAssumption DEF Amounts
    <3> QED
      BY <1>1, <1>2, <2>4, <3>1, AfterBetSound
  <2>5. ASSUME NEW amount \in Amounts,
               MayRaise(hand, amount) /\ Plays(AfterRaise(hand, amount))
        PROVE  Played
    <3>1. amount \in Nat
      BY GameAssumption DEF Amounts
    <3> QED
      BY <1>1, <1>2, <2>5, <3>1, AfterRaiseSound
  <2>6. CASE Plays(AfterAllIn(hand))
    BY <1>1, <1>2, <2>6, AfterAllInSound
  <2> QED
    BY <2>1, <2>2, <2>3, <2>4, <2>5, <2>6 DEF DoAction
<1>4. PICK h : /\ Sound(h, Brought(hand, seated, chips))
               /\ Follows(h, hand, hand.turn) /\ Plays(h)
  BY <1>3
<1>5. Reached(h, resigned)
  BY <1>1, <1>4, FollowsReached
<1>6. /\ hand' = h /\ resigned' = resigned
      /\ UNCHANGED <<lobbyVars, chips, game_over, winner, dealer_index, seated>>
  BY <1>4 DEF Plays
<1> QED
  BY <1>1, <1>5, <1>6, HandBecomes DEF GameInv

(* resign, as far as the version or _finish_hand.                          *)
LEMMA GiveUpSound ==
  ASSUME GameInv, NEW p \in Players, GiveUp(p)
  PROVE  GameInv'
<1>1. /\ InProgress /\ p \in Alive(chips, resigned)
      /\ resigned' = resigned \cup {p} /\ hand' = AfterResignation(p)
      /\ UNCHANGED <<lobbyVars, chips, game_over, winner, dealer_index, seated>>
  BY DEF GiveUp
<1>2. Playing /\ Reached(AfterResignation(p), resigned \cup {p})
  BY <1>1, AfterResignationSound
<1>3. p \in 1 .. registered
  <2>1. p \in 1 .. MaxPlayers /\ chips[p] > 0 /\ registered \in Nat
    BY <1>1, AliveIs, GameAssumption DEF Players, GameInv
  <2>2. ~(p > registered)
    BY <2>1 DEF GameInv
  <2> QED
    BY <2>1, <2>2
<1>4. resigned \cup {p} \in SUBSET (1 .. registered)
  BY <1>3 DEF GameInv
<1>5. Reached(hand', resigned \cup {p})
  BY <1>1, <1>2
<1> DEFINE q == resigned \cup {p}
<1>6. resigned \subseteq q /\ resigned' = q
  BY <1>1
<1> HIDE DEF q
<1> QED
  BY <1>1, <1>2, <1>4, <1>5, <1>6, HandBecomes DEF q

(* A game that has started and has no hand yet.                            *)
Starting ==
  /\ registered \in 0 .. MaxPlayers /\ registered >= 2
  /\ chips \in [Players -> Nat]
  /\ \A p \in Players : /\ p > registered => chips[p] = 0
                        /\ p <= registered => chips[p] > 0
  /\ resigned = {} /\ started = TRUE /\ game_over = FALSE
  /\ winner \in Players \cup {Nobody}
  /\ dealer_index \in 0 .. MaxPlayers - 1

LEMMA DealSound ==
  ASSUME Starting, Deal
  PROVE  GameInv'
<1>1. /\ StartNewHand(chips, {}, dealer_index) /\ chips \in [Players -> Nat]
      /\ dealer_index \in Nat /\ UNCHANGED <<lobbyVars, resigned>>
  BY GameAssumption DEF Starting, Deal
<1>2. Cardinality(Alive(chips, {})) >= 2
  <2>1. 1 \in Players /\ 2 \in Players /\ 1 <= registered /\ 2 <= registered
    BY GameAssumption DEF Starting, Players
  <2>2. 1 \in Alive(chips, {}) /\ 2 \in Alive(chips, {})
    BY <2>1, AliveIs DEF Starting
  <2>3. IsFiniteSet(Alive(chips, {}))
    BY AliveIs, PlayersFinite
  <2> QED
    BY <2>2, <2>3, TwoOf
<1>3. /\ chips' = chips /\ TableSound(hand', seated', chips', {})
      /\ hand'.dealer = dealer_index'
      /\ dealer_index' \in 0 .. MaxPlayers - 1
      /\ UNCHANGED <<game_over, winner>>
  BY <1>1, <1>2, StartNewHandSound, NothingRedistributed
<1>4. registered' = registered /\ started' = started /\ resigned' = resigned
  BY <1>1 DEF lobbyVars
<1> QED
  BY <1>3, <1>4 DEF Starting, GameInv, Playing

(* Between the steps of a call, too, the table is sound.                   *)
StagedInv ==
  IF call = "starting" THEN Starting ELSE GameInv

LEMMA StagedInvNext ==
  StagedInv /\ [ServiceNext]_serviceVars => StagedInv'
<1> SUFFICES ASSUME StagedInv, [ServiceNext]_serviceVars PROVE StagedInv'
  OBVIOUS
<1>1. CASE Join
  <2>1. ~started /\ Register /\ call' = call
    BY <1>1 DEF Join, Register, Untouched
  <2>2. call # "starting" /\ GameInv
    BY <2>1 DEF StagedInv, Starting
  <2> QED
    BY <2>1, <2>2, GameInvNext DEF StagedInv, Next
<1>2. CASE StartGame
  <2>1. /\ ~started /\ registered >= 2 /\ started' = TRUE
        /\ call' = "starting"
        /\ UNCHANGED <<registered, chips, resigned, game_over, winner,
                       dealer_index>>
    BY <1>2 DEF StartGame
  <2>2. GameInv
    BY <2>1 DEF StagedInv, Starting
  <2>3. /\ resigned = {} /\ game_over = FALSE
        /\ \A p \in Players : p <= registered => chips[p] > 0
    BY <2>1, <2>2 DEF GameInv
  <2> QED
    BY <2>1, <2>2, <2>3 DEF StagedInv, Starting, GameInv
<1>3. CASE Deal
  <2>1. Starting /\ call' # "starting"
    BY <1>3 DEF Deal, StagedInv
  <2> QED
    BY <1>3, <2>1, DealSound DEF StagedInv
<1>4. ASSUME UNCHANGED vars, call = "starting" <=> call' = "starting"
      PROVE  StagedInv'
  <2>1. GameInv => GameInv'
    BY <1>4, GameInvNext
  <2>2. Starting => Starting'
    BY <1>4 DEF Starting, vars
  <2> QED
    BY <1>4, <2>1, <2>2 DEF StagedInv
<1>5. CASE Grow \/ GrowLast
  BY <1>4, <1>5 DEF Grow, GrowLast, gameVars
<1>6. CASE FinishRunOut
  <2>1. RunOut /\ call # "starting" /\ call' # "starting"
    BY <1>6 DEF FinishRunOut
  <2> QED
    BY <2>1, GameInvNext DEF StagedInv, Next
<1>7. CASE TimeIsUp \/ (\E p \in Players : Extend(p)) \/ UNCHANGED serviceVars
  BY <1>4, <1>7 DEF TimeIsUp, Extend, gameVars, Untouched, serviceVars
<1>8. ASSUME NEW r \in Requests, NEW p \in Players, NEW guarded \in BOOLEAN,
             Poll(r, p) \/ Ask(r, p, guarded) \/ Watch(r)
      PROVE  StagedInv'
  BY <1>4, <1>8 DEF Poll, Ask, Watch, Receive, gameVars
<1>9. ASSUME NEW r \in Requests, Clock(r) \/ Drop(r) \/ Look(r) \/ Answer(r)
      PROVE  StagedInv'
  BY <1>4, <1>9 DEF Clock, Drop, Look, Answer, gameVars
<1>10. ASSUME NEW r \in Requests, FoldLate(r) \/ Perform(r)
       PROVE  StagedInv'
  <2>1. DoAction
    BY <1>10 DEF FoldLate, Perform, DoAction
  <2>2. call # "starting" /\ call' # "starting"
    BY <2>1 DEF DoAction, Plays
  <2> QED
    BY <2>1, <2>2, DoActionSound DEF StagedInv
<1>11. ASSUME NEW p \in Players, GiveUp(p)
       PROVE  StagedInv'
  <2>1. call # "starting" /\ call' # "starting"
    BY <1>11 DEF GiveUp
  <2> QED
    BY <1>11, <2>1, GiveUpSound DEF StagedInv
<1>12. TRUE \in BOOLEAN /\ \E p \in Players : TRUE
  BY GameAssumption DEF Players
<1> QED
  BY <1>1, <1>2, <1>3, <1>5, <1>6, <1>7, <1>8, <1>9, <1>10, <1>11, <1>12
     DEF ServiceNext

(* Whatever requests come in between the steps of a call: in every state   *)
(* in which there is a hand, everybody still in the tournament has one seat*)
(* in it, and who resigned has folded, also while a hand that is over has  *)
(* not been written back (poker/game.py:201-271, 375-433).                 *)
THEOREM ServiceSeats ==
  ServiceSpec => [](call # "starting" => SeatsMatchPlayers)
<1>1. ServiceInit => StagedInv
  BY GameInvInit DEF ServiceInit, StagedInv
<1>2. ASSUME StagedInv, call # "starting"
      PROVE  SeatsMatchPlayers
  BY <1>2 DEF StagedInv, GameInv, TableSound, SeatsMatchPlayers
<1> QED
  BY <1>1, <1>2, StagedInvNext, PTL DEF ServiceSpec

(* The service's own variables.                                            *)
LEMMA ServiceTypeInit ==
  ServiceInit => ServiceTypeOK
<1> SUFFICES ASSUME ServiceInit PROVE ServiceTypeOK
  OBVIOUS
<1>1. /\ late = FALSE /\ extensions = [p \in Players |-> 0]
      /\ call = "none" /\ view = [p \in Players |-> "old"]
      /\ request = [r \in Requests |-> Idle]
  BY DEF ServiceInit
<1>2. Idle \in RequestStates /\ 0 \in 0 .. Extensions
  BY ServiceAssumption DEF Idle, RequestStates
<1> QED
  BY <1>1, <1>2 DEF ServiceTypeOK, Calls, Views

(* What the steps of a request write.                                      *)
LEMMA RequestWritten ==
  ASSUME request \in [Requests -> RequestStates]
  PROVE  /\ TableChanged(request) \in [Requests -> RequestStates]
         /\ Resumed(request) \in [Requests -> RequestStates]
         /\ Resumed(TableChanged(request)) \in [Requests -> RequestStates]
         /\ \A r \in Requests :
              /\ \A at \in {"timeout", "serve", "folding", "answer"} :
                   /\ [request EXCEPT ![r].at = at]
                        \in [Requests -> RequestStates]
                   /\ TableChanged([request EXCEPT ![r].at = at])
                        \in [Requests -> RequestStates]
                   /\ [request EXCEPT ![r].at = at, ![r].intact = TRUE]
                        \in [Requests -> RequestStates]
              /\ [request EXCEPT ![r] = Idle] \in [Requests -> RequestStates]
              /\ TableChanged([request EXCEPT ![r] = Idle])
                   \in [Requests -> RequestStates]
<1>1. \A req \in [Requests -> RequestStates] :
        /\ TableChanged(req) \in [Requests -> RequestStates]
        /\ Resumed(req) \in [Requests -> RequestStates]
  BY DEF TableChanged, Resumed, RequestStates
<1>2. ASSUME NEW r \in Requests
      PROVE  /\ \A at \in {"timeout", "serve", "folding", "answer"} :
                  /\ [request EXCEPT ![r].at = at]
                       \in [Requests -> RequestStates]
                  /\ [request EXCEPT ![r].at = at, ![r].intact = TRUE]
                       \in [Requests -> RequestStates]
             /\ [request EXCEPT ![r] = Idle] \in [Requests -> RequestStates]
  BY DEF RequestStates, Idle
<1> QED
  BY <1>1, <1>2

(* What the steps of a call write.                                         *)
LEMMA ViewWritten ==
  ASSUME view \in [Players -> Views]
  PROVE  /\ ViewsOfChange \in [Players -> Views]
         /\ NewVersion => view' \in [Players -> Views]
         /\ \A p \in Players : /\ ViewsOfChange[p] # "same"
                               /\ view[p] # "same" /\ view[p] # "changed"
                                    => ViewsOfChange[p] # "changed"
BY DEF ViewsOfChange, NewVersion, Views

LEMMA ServiceTypeNext ==
  ServiceTypeOK /\ [ServiceNext]_serviceVars => ServiceTypeOK'
<1> SUFFICES ASSUME ServiceTypeOK, [ServiceNext]_serviceVars
             PROVE  ServiceTypeOK'
  OBVIOUS
<1>0. /\ late \in BOOLEAN /\ (late => InProgress)
      /\ extensions \in [Players -> 0 .. Extensions]
      /\ call \in Calls
      /\ view \in [Players -> Views]
      /\ request \in [Requests -> RequestStates]
  BY DEF ServiceTypeOK
<1>1. CASE Join
  BY <1>0, <1>1 DEF Join, Register, clockVars, Untouched, ServiceTypeOK,
                    InProgress
<1>2. CASE StartGame
  <2>1. extensions' \in [Players -> 0 .. Extensions]
    BY <1>2, ServiceAssumption DEF StartGame
  <2> QED
    BY <1>0, <1>2, <2>1 DEF StartGame, ServiceTypeOK, Calls, InProgress
<1>3. CASE Deal
  <2>1. call' \in Calls
    BY <1>3 DEF Deal, Calls
  <2> QED
    BY <1>0, <1>3, <2>1, ViewWritten, RequestWritten DEF Deal, ServiceTypeOK
<1>4. CASE Grow
  <2>1. call' \in Calls /\ request' \in [Requests -> RequestStates]
    BY <1>0, <1>4, RequestWritten DEF Grow, Calls
  <2> QED
    BY <1>0, <1>4, <2>1, ViewWritten DEF Grow, ServiceTypeOK, gameVars, vars,
                                         clockVars, InProgress
<1>5. CASE FinishRunOut
  <2>1. call' \in Calls /\ request' \in [Requests -> RequestStates]
    BY <1>0, <1>5, RequestWritten DEF FinishRunOut, Calls
  <2> QED
    BY <1>0, <1>5, <2>1, ViewWritten DEF FinishRunOut, ServiceTypeOK
<1>6. CASE GrowLast
  <2>1. call' \in Calls /\ request' \in [Requests -> RequestStates]
    BY <1>0, <1>6, RequestWritten DEF GrowLast, Calls
  <2> QED
    BY <1>0, <1>6, <2>1, ViewWritten
       DEF GrowLast, VersionAfterResign, ServiceTypeOK, gameVars, vars,
           clockVars, InProgress
<1>7. CASE TimeIsUp
  BY <1>0, <1>7 DEF TimeIsUp, Untouched, ServiceTypeOK, gameVars, vars,
                    InProgress
<1>8. ASSUME NEW r \in Requests, NEW wants \in {"nothing", "state", "action"},
             NEW p \in Players \cup {Nobody}, NEW guarded \in BOOLEAN,
             Receive(r, wants, p, guarded)
      PROVE  ServiceTypeOK'
  <2>1. request' \in [Requests -> RequestStates]
    BY <1>0, <1>8 DEF Receive, RequestStates
  <2> QED
    BY <1>0, <1>8, <2>1 DEF Receive, ServiceTypeOK, gameVars, vars, clockVars,
                            InProgress
<1>9. ASSUME NEW r \in Requests, Clock(r) \/ Drop(r) \/ Look(r)
      PROVE  ServiceTypeOK'
  <2>1. request' \in [Requests -> RequestStates]
    <3>1. CASE Clock(r)
      BY <1>0, <3>1, RequestWritten DEF Clock
    <3>2. CASE Drop(r)
      BY <1>0, <3>2, RequestWritten DEF Drop
    <3>3. CASE Look(r)
      BY <1>0, <3>3, RequestWritten DEF Look
    <3> QED
      BY <1>9, <3>1, <3>2, <3>3
  <2> QED
    BY <1>0, <1>9, <2>1 DEF Clock, Drop, Look, ServiceTypeOK, gameVars, vars,
                            clockVars, InProgress
<1>10. ASSUME NEW r \in Requests, Answer(r)
       PROVE  ServiceTypeOK'
  <2>1. request' \in [Requests -> RequestStates]
    BY <1>0, <1>10, RequestWritten DEF Answer
  <2>2. view' \in [Players -> Views]
    BY <1>0, <1>10 DEF Answer, Views
  <2> QED
    BY <1>0, <1>10, <2>1, <2>2 DEF Answer, ServiceTypeOK, gameVars, vars,
                                   clockVars, InProgress
<1>11. ASSUME NEW r \in Requests, FoldLate(r) \/ Perform(r)
       PROVE  ServiceTypeOK'
  <2>1. request' \in [Requests -> RequestStates]
    <3>1. CASE FoldLate(r)
      BY <1>0, <3>1, RequestWritten DEF FoldLate
    <3>2. CASE Perform(r)
      BY <1>0, <3>2, RequestWritten DEF Perform
    <3> QED
      BY <1>11, <3>1, <3>2
  <2>2. DoAction
    BY <1>11 DEF FoldLate, Perform, DoAction
  <2>3. /\ call' = "acting" /\ view' = ViewsOfChange /\ late' = FALSE
        /\ extensions' = extensions
    BY <2>2 DEF DoAction, Plays
  <2> QED
    BY <1>0, <2>1, <2>3, ViewWritten DEF ServiceTypeOK, Calls
<1>12. ASSUME NEW p \in Players, GiveUp(p)
       PROVE  ServiceTypeOK'
  <2>1. request' \in [Requests -> RequestStates] /\ call' \in Calls
    BY <1>0, <1>12, RequestWritten DEF GiveUp, Calls
  <2>2. late' \in BOOLEAN /\ (late' => hand'.phase \in Streets)
    BY <1>12 DEF GiveUp, ClockAfterResign
  <2> QED
    BY <1>0, <1>12, <2>1, <2>2, ViewWritten DEF GiveUp, ServiceTypeOK,
                                                InProgress
<1>13. ASSUME NEW p \in Players, Extend(p)
       PROVE  ServiceTypeOK'
  <2>1. extensions' \in [Players -> 0 .. Extensions]
    BY <1>0, <1>13, ServiceAssumption DEF Extend
  <2> QED
    BY <1>0, <1>13, <2>1 DEF Extend, ServiceTypeOK, gameVars, vars, Untouched,
                             InProgress
<1>14. CASE UNCHANGED serviceVars
  BY <1>0, <1>14 DEF serviceVars, vars, clockVars, ServiceTypeOK, InProgress
<1> QED
  BY <1>1, <1>2, <1>3, <1>4, <1>5, <1>6, <1>7, <1>8, <1>9, <1>10, <1>11,
     <1>12, <1>13, <1>14
     DEF ServiceNext, Poll, Ask, Watch

(* Clocks, views and requests stay well formed, and no clock runs out but  *)
(* that of a turn that is going on (poker/game.py:79-83, 101-120).         *)
THEOREM ServiceTyped ==
  ServiceSpec => []ServiceTypeOK
BY ServiceTypeInit, ServiceTypeNext, PTL DEF ServiceSpec

(* Nobody has a view that the next change of the table would make wrong.   *)
NoneSame == \A p \in Players : view[p] # "same"

(* Nobody has a view that is wrong already.                                *)
NoneChanged == \A p \in Players : view[p] # "changed"

(* A call that has yet to raise the version may leave wrong views behind   *)
(* until then; one that has raised it finds no view left to make wrong.    *)
VersionInv ==
  /\ view \in [Players -> Views]
  /\ ~started => /\ hand = NoHand /\ call = "none"
                 /\ \A p \in Players : view[p] = "old"
                 /\ \A r \in Requests : request[r].at = "idle"
  /\ call \in {"none", "starting", "finishing"} => NoneChanged
  /\ call \in {"starting", "finishing"} => NoneSame

LEMMA VersionInvInit ==
  ServiceInit => VersionInv
BY DEF ServiceInit, Init, VersionInv, NoneChanged, NoneSame, Views, Idle

LEMMA VersionInvNext ==
  VersionInv /\ [ServiceNext]_serviceVars => VersionInv'
<1> SUFFICES ASSUME VersionInv, [ServiceNext]_serviceVars PROVE VersionInv'
  OBVIOUS
<1>0. view \in [Players -> Views]
  BY DEF VersionInv
<1>1. ASSUME UNCHANGED <<hand, started, call, view>>,
             ~started => \A r \in Requests : request'[r].at = "idle"
      PROVE  VersionInv'
  BY <1>1 DEF VersionInv, NoneChanged, NoneSame
<1>2. CASE Join
  BY <1>1, <1>2 DEF Join, Register, Untouched, VersionInv
<1>3. CASE StartGame
  <2>1. ~started /\ started' = TRUE /\ view' = view
    BY <1>3 DEF StartGame
  <2> QED
    BY <2>1 DEF VersionInv, NoneChanged, NoneSame
<1>4. ASSUME started, started' = started, NewVersion
      PROVE  VersionInv'
  BY <1>0, <1>4, ViewWritten DEF VersionInv, NewVersion, NoneChanged, NoneSame
<1>5. CASE Grow \/ GrowLast
  <2>1. started
    BY <1>5 DEF Grow, GrowLast, VersionInv
  <2> QED
    BY <1>4, <1>5, <2>1 DEF Grow, GrowLast, VersionAfterResign, gameVars, vars
<1>6. ASSUME started, started' = started, view' = ViewsOfChange,
             \/ call' \in {"acting", "resigning"}
             \/ call \in {"starting", "finishing"}
      PROVE  VersionInv'
  <2>1. view' \in [Players -> Views] /\ NoneSame'
    BY <1>0, <1>6, ViewWritten DEF NoneSame
  <2>2. call \in {"starting", "finishing"} => NoneChanged'
    BY <1>0, <1>6, ViewWritten DEF VersionInv, NoneSame, NoneChanged
  <2> QED
    BY <1>6, <2>1, <2>2 DEF VersionInv
<1>7. CASE Deal
  <2>1. call = "starting" /\ view' = ViewsOfChange /\ started' = started
    BY <1>7 DEF Deal, lobbyVars
  <2> QED
    BY <1>6, <2>1 DEF VersionInv
<1>8. CASE FinishRunOut
  <2>1. /\ call \in {"finishing", "resigning"} /\ view' = ViewsOfChange
        /\ started' = started /\ (call = "resigning" => call' = "resigning")
    BY <1>8 DEF FinishRunOut, RunOut, lobbyVars
  <2> QED
    BY <1>6, <2>1 DEF VersionInv
<1>9. CASE TimeIsUp \/ (\E p \in Players : Extend(p)) \/ UNCHANGED serviceVars
  BY <1>1, <1>9 DEF TimeIsUp, Extend, gameVars, Untouched, serviceVars, vars,
                    VersionInv
<1>10. ASSUME NEW r \in Requests, NEW p \in Players, NEW guarded \in BOOLEAN,
              Poll(r, p) \/ Ask(r, p, guarded) \/ Watch(r)
       PROVE  VersionInv'
  BY <1>1, <1>10 DEF Poll, Ask, Watch, Receive, gameVars, vars
<1>11. ASSUME NEW r \in Requests, Clock(r) \/ Drop(r) \/ Look(r)
       PROVE  VersionInv'
  <2>1. /\ UNCHANGED <<hand, started, call, view>>
        /\ request[r].at # "idle"
    BY <1>11 DEF Clock, Drop, Look, gameVars, vars
  <2> QED
    BY <1>1, <2>1 DEF VersionInv
<1>12. ASSUME NEW r \in Requests, Answer(r)
       PROVE  VersionInv'
  <2>1. /\ UNCHANGED <<hand, started, call>> /\ request[r].at # "idle"
    BY <1>12 DEF Answer, gameVars, vars
  <2>2. started
    BY <2>1 DEF VersionInv
  <2>3. /\ view' \in [Players -> Views]
        /\ \A p \in Players :
             /\ view'[p] = "changed" => view[p] = "changed"
             /\ view'[p] = "same" /\ call \in {"starting", "finishing"}
                  => view[p] = "same"
    BY <1>0, <1>12 DEF Answer, Views
  <2> QED
    BY <2>1, <2>2, <2>3 DEF VersionInv, NoneChanged, NoneSame
<1>13. ASSUME NEW r \in Requests, FoldLate(r) \/ Perform(r)
       PROVE  VersionInv'
  <2>1. DoAction /\ request[r].at # "idle"
    BY <1>13 DEF FoldLate, Perform, DoAction
  <2>2. call' = "acting" /\ view' = ViewsOfChange /\ started' = started
    BY <2>1 DEF DoAction, Plays, lobbyVars
  <2> QED
    BY <1>6, <2>1, <2>2 DEF VersionInv
<1>14. ASSUME NEW p \in Players, GiveUp(p)
       PROVE  VersionInv'
  <2>1. /\ hand # NoHand /\ call' \in {"acting", "resigning"}
        /\ view' = ViewsOfChange /\ started' = started
    BY <1>14 DEF GiveUp, InProgress, Streets, NoHand, lobbyVars
  <2> QED
    BY <1>6, <2>1 DEF VersionInv
<1>15. TRUE \in BOOLEAN /\ \E p \in Players : TRUE
  BY GameAssumption DEF Players
<1> QED
  BY <1>2, <1>3, <1>5, <1>7, <1>8, <1>9, <1>10, <1>11, <1>12, <1>13, <1>14,
     <1>15
     DEF ServiceNext

(* When no call is under way, a version that is still the one a player     *)
(* polled tells him that nothing on the table has changed since, whenever  *)
(* he polled it but between the last version of a call and its next hand,  *)
(* and unless the table changed while his answer was put together; for any *)
(* number of players, requests and timeouts (poker/game.py:218-223,        *)
(* 249-274).                                                               *)
THEOREM VersionCorrect ==
  ServiceSpec => []VersionTellsTable
<1>1. VersionInv => VersionTellsTable
  BY DEF VersionInv, NoneChanged, VersionTellsTable
<1> QED
  BY <1>1, VersionInvInit, VersionInvNext, PTL DEF ServiceSpec
=============================================================================
