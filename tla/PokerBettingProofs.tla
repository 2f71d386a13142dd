------------------------- MODULE PokerBettingProofs -------------------------
(***************************************************************************)
(* Facts about the operators of module PokerBetting, for every number of   *)
(* seats, all stacks and all blinds.                                       *)
(*                                                                         *)
(* A hand in a betting round is Sound.  Beyond the fields being in step    *)
(* this says how those who have acted sit: counting round from the turn,   *)
(* everybody who still owes an action comes before everybody who has       *)
(* acted.  Without that, _find_next_actor could return a player who has    *)
(* acted already.                                                          *)
(***************************************************************************)
EXTENDS PokerBetting, TotalsProofs

(* s are the stacks the players started the hand with.                     *)
Kept(h, s) ==
  /\ s \in [Seats(h) -> Nat]
  /\ \A i \in Seats(h) : h.chips[i] + h.total[i] = s[i]
  /\ h.pot = Total(h.total)

Matched(h) == \A i \in h.acted \cap CanAct(h) : h.bet[i] >= h.current_bet

(* How far seat i is from seat t, going round.                             *)
Ahead(h, i, t) == (i - t) % h.n

Ordered(h) ==
  \A i \in CanAct(h) \ h.acted, j \in CanAct(h) \cap h.acted :
    Ahead(h, i, h.turn) < Ahead(h, j, h.turn)

(* A hand in the middle of a street, before the turn has moved on.         *)
Betting(h, s) ==
  /\ HandType(h)
  /\ h.phase \in Streets
  /\ Kept(h, s)
  /\ Cardinality(InHand(h)) >= 2

(* A hand that is over.  Its chips are the stacks but for those no side    *)
(* pot reached, who folded has won nothing, and somebody who has not has   *)
(* chips.                                                                  *)
Settled(h, s) ==
  /\ Total(h.chips) + Stranded(h) = Total(s)
  /\ \A i \in h.folded : h.chips[i] <= s[i]
  /\ (\A i \in Seats(h) : s[i] > 0) => \E i \in InHand(h) : h.chips[i] > 0

Sound(h, s) ==
  /\ HandType(h)
  /\ h.phase # "complete" => Kept(h, s) /\ Cardinality(InHand(h)) >= 2
  /\ h.phase = "complete" => Settled(h, s)
  /\ h.phase \in Streets => /\ h.turn \in CanAct(h) \ h.acted
                            /\ Matched(h)
                            /\ Ordered(h)

(* g is h or the same hand later: nobody takes a bet back or returns after *)
(* folding, and who is out neither pays nor wins.                          *)
SameTable(g, h) ==
  /\ g.n = h.n /\ g.dealer = h.dealer /\ h.folded \subseteq g.folded
  /\ \A i \in Seats(h) :
       /\ h.total[i] <= g.total[i]
       /\ i \in g.folded => g.total[i] = h.total[i] /\ g.chips[i] <= h.chips[i]

(* The street of h goes on in g, or the hand is over, or the street has    *)
(* been left in order and whoever can still bet is among the players A.    *)
StreetLeft(g, h, A) ==
  \/ g.phase = h.phase
  \/ g.phase = "complete" /\ Cardinality(InHand(g)) = 1
  \/ /\ g.phase = IF h.phase = "river" \/ CanAct(g) = {}
                   THEN "showdown" ELSE StreetAfter[h.phase]
     /\ CanAct(g) \subseteq A

(* g is what an action of the player in seat i makes of h.                 *)
Follows(g, h, i) ==
  /\ SameTable(g, h)
  /\ StreetLeft(g, h, h.acted \cup {h.turn})
  /\ g.folded \subseteq h.folded \cup {i}

(* A hand whose player on turn has just acted.                             *)
Ready(h, s) ==
  /\ Betting(h, s)
  /\ h.turn \in h.acted
  /\ Matched(h)
  /\ \A i \in CanAct(h) \ h.acted, j \in CanAct(h) \cap h.acted :
       j # h.turn => Ahead(h, i, h.turn) < Ahead(h, j, h.turn)

-----------------------------------------------------------------------------
(* The fields of a well-formed hand, one by one.                           *)
LEMMA HandFields ==
  ASSUME NEW h, HandType(h)
  PROVE  /\ h.n \in Nat /\ h.n >= 2
         /\ h.dealer \in Seats(h)
         /\ h.chips \in [Seats(h) -> Nat]
         /\ h.bet \in [Seats(h) -> Nat]
         /\ h.total \in [Seats(h) -> Nat]
         /\ h.pot \in Nat
         /\ h.folded \in SUBSET Seats(h)
         /\ h.acted \in SUBSET Seats(h)
         /\ h.turn \in Seats(h) \cup {NoSeat}
         /\ h.phase \in Streets \cup {"showdown", "complete"}
         /\ h.current_bet \in Nat
         /\ h.min_raise \in Nat
BY DEF HandType, HandsOf, Seats

(* Who is in the hand has a seat, and seats are finitely many.             *)
LEMMA CanActSeated ==
  ASSUME NEW h, HandType(h)
  PROVE  /\ InHand(h) \subseteq Seats(h)
         /\ CanAct(h) \subseteq InHand(h)
         /\ IsFiniteSet(Seats(h)) /\ IsFiniteSet(InHand(h))
<1>1. IsFiniteSet(Seats(h))
  BY HandFields, FS_Interval DEF Seats
<1> QED
  BY <1>1, FS_Subset DEF InHand, CanAct

(* One player less leaves at least one of two.                             *)
LEMMA OneFewer ==
  ASSUME NEW A, IsFiniteSet(A), Cardinality(A) >= 2, NEW i
  PROVE  Cardinality(A \ {i}) \in Nat /\ Cardinality(A \ {i}) >= 1
<1>1. Cardinality(A) \in Nat
  BY FS_CardinalityType
<1>2. CASE i \in A
  <2>1. Cardinality(A \ {i}) = Cardinality(A) - 1
    BY <1>2, FS_RemoveElement
  <2> QED
    BY <1>1, <2>1
<1>3. CASE i \notin A
  <2>1. A \ {i} = A
    BY <1>3
  <2> QED
    BY <1>1, <2>1
<1> QED
  BY <1>2, <1>3

(* The distance round a table of n seats, without the remainder.           *)
LEMMA GapIs ==
  ASSUME NEW n \in Nat \ {0}, NEW i \in 0 .. n-1, NEW t \in 0 .. n-1
  PROVE  (i - t) % n = IF i >= t THEN i - t ELSE i - t + n
OBVIOUS

(* The seat after t at a table of n seats.                                 *)
LEMMA NextSeatIs ==
  ASSUME NEW n \in Nat \ {0}, NEW t \in 0 .. n-1
  PROVE  /\ (t + 1) % n \in 0 .. n-1
         /\ (t + 1) % n = IF t = n - 1 THEN 0 ELSE t + 1
OBVIOUS

(* How far a seat is from another one, and that this is less than n.       *)
LEMMA AheadIs ==
  ASSUME NEW h, HandType(h), NEW i \in Seats(h), NEW t \in Seats(h)
  PROVE  /\ Ahead(h, i, t) = IF i >= t THEN i - t ELSE i - t + h.n
         /\ Ahead(h, i, t) \in Seats(h)
<1>1. h.n \in Nat \ {0} /\ i \in 0 .. h.n-1 /\ t \in 0 .. h.n-1
  BY HandFields DEF Seats
<1>2. Ahead(h, i, t) = IF i >= t THEN i - t ELSE i - t + h.n
  BY <1>1, GapIs DEF Ahead
<1> QED
  BY <1>1, <1>2 DEF Seats

(* A seat counted from the dealer is a seat.                               *)
LEMMA SeatFromDealerType ==
  ASSUME NEW h, HandType(h), NEW k \in Nat
  PROVE  SeatFromDealer(h, k) \in Seats(h)
BY HandFields DEF SeatFromDealer, Seats

(* _find_next_actor returns the first player who can act, if there is one. *)
LEMMA FirstActorIs ==
  ASSUME NEW h, HandType(h), NEW start \in Seats(h), CanAct(h) # {}
  PROVE  /\ FirstActor(h, start) \in CanAct(h)
         /\ \A j \in CanAct(h) :
              Ahead(h, FirstActor(h, start), start) <= Ahead(h, j, start)
<1> DEFINE D == {Ahead(h, i, start) : i \in CanAct(h)}
<1>1. D \in SUBSET Nat /\ D # {}
  <2>1. \A i \in CanAct(h) : i \in Seats(h)
    BY CanActSeated
  <2>2. \A i \in Seats(h) : Ahead(h, i, start) \in Seats(h)
    BY AheadIs
  <2>3. Seats(h) \subseteq Nat
    BY HandFields DEF Seats
  <2> QED
    BY <2>1, <2>2, <2>3
<1>2. PICK d \in D : \A k \in D : d <= k
  BY <1>1, LeastElement
<1>3. \E i \in CanAct(h) :
        \A j \in CanAct(h) : Ahead(h, i, start) <= Ahead(h, j, start)
  BY <1>2
<1> QED
  BY <1>3 DEF FirstActor, Ahead

-----------------------------------------------------------------------------
(* _place_bet keeps the fields of a hand in step.                          *)
LEMMA PlaceBetKeeps ==
  ASSUME NEW h, HandType(h), NEW i \in Seats(h), NEW amount \in Nat
  PROVE  LET g == PlaceBet(h, i, amount)
         IN  /\ HandType(g)
             /\ \A s : Kept(h, s) => Kept(g, s)
             /\ g.n = h.n /\ g.dealer = h.dealer /\ g.phase = h.phase
             /\ g.folded = h.folded /\ g.acted = h.acted /\ g.turn = h.turn
             /\ g.current_bet = h.current_bet /\ g.min_raise = h.min_raise
             /\ \A j \in Seats(h) \ {i} : g.chips[j] = h.chips[j]
                                          /\ g.bet[j] = h.bet[j]
                                          /\ g.total[j] = h.total[j]
             /\ h.total[i] <= g.total[i]
             /\ g.chips[i] = h.chips[i] - Least(amount, h.chips[i])
             /\ g.bet[i] = h.bet[i] + Least(amount, h.chips[i])
<1> DEFINE actual == Least(amount, h.chips[i])
           g == PlaceBet(h, i, amount)
<1>1. actual \in Nat /\ h.chips[i] - actual \in Nat
  BY HandFields DEF Least
<1>2. g = [h EXCEPT !.chips[i] = @ - actual, !.bet[i] = @ + actual,
                    !.total[i] = @ + actual, !.pot = @ + actual]
  BY DEF PlaceBet
<1> HIDE DEF actual, g
<1>3. /\ [h.chips EXCEPT ![i] = @ - actual] \in [Seats(h) -> Nat]
      /\ [h.bet EXCEPT ![i] = @ + actual] \in [Seats(h) -> Nat]
      /\ [h.total EXCEPT ![i] = @ + actual] \in [Seats(h) -> Nat]
      /\ h.pot + actual \in Nat
  BY <1>1, HandFields
<1>4. /\ g.chips = [h.chips EXCEPT ![i] = @ - actual]
      /\ g.bet = [h.bet EXCEPT ![i] = @ + actual]
      /\ g.total = [h.total EXCEPT ![i] = @ + actual]
      /\ g.pot = h.pot + actual
      /\ g.n = h.n /\ g.dealer = h.dealer /\ g.phase = h.phase
      /\ g.folded = h.folded /\ g.acted = h.acted /\ g.turn = h.turn
      /\ g.current_bet = h.current_bet /\ g.min_raise = h.min_raise
  BY <1>2 DEF HandType, HandsOf
<1>5. HandType(g)
  BY <1>2, <1>3, HandFields DEF HandType, HandsOf, Seats
<1>6. ASSUME NEW s, Kept(h, s) PROVE Kept(g, s)
  <2>1. Total(g.total) = Total(h.total) - h.total[i] + (h.total[i] + actual)
    <3>1. /\ h.total \in [Seats(h) -> Nat] /\ IsFiniteSet(Seats(h))
          /\ h.total[i] + actual \in Nat
      BY <1>1, HandFields, CanActSeated
    <3>2. Total([h.total EXCEPT ![i] = h.total[i] + actual])
            = Total(h.total) - h.total[i] + (h.total[i] + actual)
      BY <3>1, TotalUpdate
    <3> QED
      BY <1>4, <3>2
  <2>2. Total(h.total) \in Nat /\ h.total[i] \in Nat
    BY HandFields, CanActSeated, TotalType
  <2>3. g.pot = Total(g.total)
    BY <1>1, <1>4, <1>6, <2>1, <2>2 DEF Kept
  <2>4. \A j \in Seats(h) : g.chips[j] + g.total[j] = h.chips[j] + h.total[j]
    BY <1>1, <1>4, HandFields
  <2> QED
    BY <1>4, <1>6, <2>3, <2>4 DEF Kept, Seats
<1>7. h.total[i] <= g.total[i]
  BY <1>1, <1>4, HandFields
<1> QED
  BY <1>4, <1>5, <1>6, <1>7, HandFields DEF g, actual

(* Who neither pays nor is paid stays at the same table.                   *)
LEMMA TableUntouched ==
  ASSUME NEW g, NEW h, HandType(h), g.n = h.n, g.dealer = h.dealer,
         h.folded \subseteq g.folded, g.chips = h.chips, g.total = h.total
  PROVE  SameTable(g, h)
BY HandFields DEF SameTable

LEMMA SameTableTrans ==
  ASSUME NEW f, NEW g, NEW h, HandType(f), HandType(g), HandType(h),
         SameTable(f, g), SameTable(g, h), f.folded = g.folded
  PROVE  SameTable(f, h)
<1>1. /\ f.n = h.n /\ f.dealer = h.dealer /\ h.folded \subseteq f.folded
      /\ Seats(f) = Seats(h) /\ Seats(g) = Seats(h)
  BY DEF SameTable, Seats
<1>2. ASSUME NEW i \in Seats(h)
      PROVE  /\ h.total[i] <= f.total[i]
             /\ i \in f.folded => /\ f.total[i] = h.total[i]
                                  /\ f.chips[i] <= h.chips[i]
  <2>1. /\ f.total[i] \in Nat /\ g.total[i] \in Nat /\ h.total[i] \in Nat
        /\ f.chips[i] \in Nat /\ g.chips[i] \in Nat /\ h.chips[i] \in Nat
    BY <1>1, HandFields
  <2>2. /\ g.total[i] <= f.total[i] /\ h.total[i] <= g.total[i]
        /\ i \in f.folded => /\ f.total[i] = g.total[i] /\ g.total[i] = h.total[i]
                             /\ f.chips[i] <= g.chips[i]
                             /\ g.chips[i] <= h.chips[i]
    BY <1>1 DEF SameTable
  <2> QED
    BY <2>1, <2>2
<1> QED
  BY <1>1, <1>2 DEF SameTable

-----------------------------------------------------------------------------
(* Ending a street.                                                        *)

(* What the players hold and what they put in is what they came with.      *)
LEMMA KeptTotals ==
  ASSUME NEW h, NEW s, HandType(h), Kept(h, s)
  PROVE  /\ Total(h.chips) + Total(h.total) = Total(s)
         /\ Total(h.chips) + h.pot = Total(s)
<1>1. /\ h.chips \in [Seats(h) -> Nat] /\ h.total \in [Seats(h) -> Nat]
      /\ IsFiniteSet(Seats(h))
  BY HandFields, CanActSeated
<1>2. s = [i \in Seats(h) |-> h.chips[i] + h.total[i]]
  BY DEF Kept
<1>3. Total([i \in Seats(h) |-> h.chips[i] + h.total[i]])
        = Total(h.chips) + Total(h.total)
  BY <1>1, TotalAdd
<1>4. h.pot = Total(h.total)
  BY DEF Kept
<1> QED
  BY <1>2, <1>3, <1>4

(* The last player in the hand has a seat.                                 *)
LEMMA OneLeft ==
  ASSUME NEW h, HandType(h), Cardinality(InHand(h)) = 1
  PROVE  (CHOOSE i \in InHand(h) : TRUE) \in Seats(h)
<1>1. InHand(h) # {}
  BY FS_EmptySet
<1> QED
  BY <1>1, CanActSeated

(* Paying the last player the pot completes the hand, and he gets what     *)
(* everybody put in.                                                       *)
LEMMA AwardSoleSound ==
  ASSUME NEW h, NEW s, HandType(h), Kept(h, s), Cardinality(InHand(h)) = 1
  PROVE  /\ Sound(AwardSole(h), s)
         /\ SameTable(AwardSole(h), h) /\ InHand(AwardSole(h)) = InHand(h)
         /\ AwardSole(h).folded = h.folded
         /\ AwardSole(h).phase = "complete"
<1> DEFINE winner == CHOOSE i \in InHand(h) : TRUE
           g == AwardSole(h)
<1>1. winner \in Seats(h)
  BY OneLeft
<1>2. g = [h EXCEPT !.chips[winner] = @ + h.pot, !.phase = "complete",
                    !.turn = NoSeat]
  BY DEF AwardSole
<1> HIDE DEF winner, g
<1>3. /\ h.chips[winner] \in Nat /\ h.pot \in Nat
      /\ [h.chips EXCEPT ![winner] = @ + h.pot] \in [Seats(h) -> Nat]
  BY <1>1, HandFields
<1>4. /\ HandType(g) /\ SameTable(g, h) /\ g.phase = "complete"
      /\ g.chips = [h.chips EXCEPT ![winner] = @ + h.pot]
      /\ InHand(g) = InHand(h) /\ g.folded = h.folded
  <2>1. /\ HandType(g) /\ g.phase = "complete"
        /\ g.chips = [h.chips EXCEPT ![winner] = @ + h.pot]
        /\ InHand(g) = InHand(h) /\ g.folded = h.folded
        /\ g.n = h.n /\ g.dealer = h.dealer /\ g.total = h.total
    BY <1>2, <1>3, HandFields DEF HandType, HandsOf, Seats, InHand
  <2>2. winner \notin h.folded
    BY FS_EmptySet DEF winner, InHand
  <2>3. \A i \in Seats(h) : /\ h.total[i] <= g.total[i]
                            /\ i \in g.folded => g.chips[i] <= h.chips[i]
    BY <2>1, <2>2, HandFields
  <2> QED
    BY <2>1, <2>3 DEF SameTable
<1>5. Total(g.chips) = Total(h.chips) + h.pot
  <2>1. /\ h.chips \in [Seats(h) -> Nat] /\ IsFiniteSet(Seats(h))
        /\ h.chips[winner] + h.pot \in Nat
    BY <1>3, HandFields, CanActSeated
  <2>2. Total([h.chips EXCEPT ![winner] = h.chips[winner] + h.pot])
          = Total(h.chips) - h.chips[winner] + (h.chips[winner] + h.pot)
    BY <1>1, <2>1, TotalUpdate
  <2>3. Total(h.chips) \in Nat
    BY <2>1, TotalType
  <2> QED
    BY <1>3, <1>4, <2>2, <2>3
<1>6. Total(h.chips) + h.pot = Total(s)
  BY KeptTotals
<1>7. Stranded(g) = 0
  BY <1>4 DEF Stranded
<1>8. Total(h.chips) \in Nat
  BY HandFields, CanActSeated, TotalType
<1>9. winner \in InHand(h) /\ h.chips[winner] + h.pot >= s[winner]
  <2>1. winner \in InHand(h)
    BY FS_EmptySet DEF winner
  <2>2. /\ Total([h.total EXCEPT ![winner] = 0]) \in Nat
        /\ Total(h.total) = Total([h.total EXCEPT ![winner] = 0])
                            + h.total[winner]
    BY <1>1, HandFields, CanActSeated, TotalSplit
  <2>3. /\ h.pot = Total(h.total) /\ h.total[winner] \in Nat
        /\ h.chips[winner] + h.total[winner] = s[winner]
    BY <1>1, HandFields DEF Kept
  <2> QED
    BY <1>3, <2>1, <2>2, <2>3
<1>10. Settled(g, s)
  <2>1. Total(g.chips) + Stranded(g) = Total(s)
    BY <1>3, <1>5, <1>6, <1>7, <1>8
  <2>2. ASSUME NEW i \in g.folded PROVE g.chips[i] <= s[i]
    <3>1. i \in Seats(h) /\ g.chips[i] = h.chips[i]
      BY <1>4, <1>9, HandFields DEF InHand
    <3>2. /\ h.chips[i] \in Nat /\ h.total[i] \in Nat
          /\ h.chips[i] + h.total[i] = s[i]
      BY <3>1, HandFields DEF Kept
    <3> QED
      BY <3>1, <3>2
  <2>3. ASSUME \A i \in Seats(g) : s[i] > 0
        PROVE  \E i \in InHand(g) : g.chips[i] > 0
    <3>1. s[winner] \in Nat /\ s[winner] > 0
      BY <1>1, <1>4, <2>3 DEF Kept, SameTable, Seats
    <3>2. g.chips[winner] = h.chips[winner] + h.pot
      BY <1>1, <1>4, HandFields
    <3> QED
      BY <1>3, <1>4, <1>9, <3>1, <3>2
  <2> QED
    BY <2>1, <2>2, <2>3 DEF Settled
<1>11. Sound(g, s)
  BY <1>4, <1>10 DEF Sound, Streets
<1> QED
  BY <1>4, <1>11 DEF g

(* Running the board out leaves a showdown between two players or more.    *)
LEMMA AdvanceToShowdownSound ==
  ASSUME NEW h, NEW s, Betting(h, s)
  PROVE  /\ Sound(AdvanceToShowdown(h), s)
         /\ SameTable(AdvanceToShowdown(h), h)
         /\ AdvanceToShowdown(h).folded = h.folded
         /\ AdvanceToShowdown(h).phase = "showdown"
         /\ CanAct(AdvanceToShowdown(h)) = CanAct(h)
<1> DEFINE g == AdvanceToShowdown(h)
<1>1. HandType(h) /\ Kept(h, s) /\ Cardinality(InHand(h)) >= 2
  BY DEF Betting
<1>2. Cardinality(InHand(h)) # 1
  BY <1>1, CanActSeated, FS_CardinalityType
<1>3. g = [h EXCEPT !.phase = "showdown", !.turn = NoSeat]
  BY <1>2 DEF AdvanceToShowdown
<1> HIDE DEF g
<1>4. /\ HandType(g) /\ g.phase = "showdown" /\ InHand(g) = InHand(h)
      /\ g.n = h.n /\ g.dealer = h.dealer /\ g.folded = h.folded
      /\ g.chips = h.chips /\ g.total = h.total /\ g.pot = h.pot
  BY <1>1, <1>3, HandFields DEF HandType, HandsOf, Seats, InHand
<1>5. SameTable(g, h)
  BY <1>1, <1>4, HandFields DEF SameTable
<1>6. Kept(g, s)
  BY <1>1, <1>4 DEF Kept, Seats
<1>7. Sound(g, s) /\ CanAct(g) = CanAct(h)
  BY <1>1, <1>4, <1>6 DEF Sound, Streets, CanAct
<1> QED
  BY <1>4, <1>5, <1>7 DEF g

(* A round starts with nobody having acted.                                *)
LEMMA FreshRoundSound ==
  ASSUME NEW h, NEW s, Betting(h, s), h.acted = {}, h.turn \in CanAct(h)
  PROVE  Sound(h, s)
BY DEF Betting, Sound, Matched, Ordered, Streets

(* A new betting round has a player on turn, or there is a showdown.       *)
LEMMA StartBettingRoundSound ==
  ASSUME NEW h, NEW s, Betting(h, s)
  PROVE  /\ Sound(StartBettingRound(h), s)
         /\ SameTable(StartBettingRound(h), h)
         /\ StartBettingRound(h).folded = h.folded
         /\ CanAct(StartBettingRound(h)) = CanAct(h)
         /\ StartBettingRound(h).phase = IF CanAct(h) = {} THEN "showdown"
                                         ELSE h.phase
<1> DEFINE g == StartBettingRound(h)
<1>0. /\ HandType(h) /\ h.phase \in Streets /\ Kept(h, s)
      /\ Cardinality(InHand(h)) >= 2 /\ ~(Cardinality(InHand(h)) <= 1)
  BY CanActSeated, FS_CardinalityType DEF Betting
<1>1. CASE CanAct(h) = {}
  BY <1>0, <1>1, AdvanceToShowdownSound DEF StartBettingRound
<1>2. CASE CanAct(h) # {}
  <2> DEFINE preflop == FirstActor(h, IF h.n = 2 THEN h.dealer
                                      ELSE SeatFromDealer(h, 3))
             postflop == FirstActor(h, SeatFromDealer(h, 1))
  <2>1. preflop \in CanAct(h) /\ postflop \in CanAct(h)
    BY <1>0, <1>2, HandFields, SeatFromDealerType, FirstActorIs
  <2>2. preflop \in Seats(h) /\ postflop \in Seats(h)
    BY <1>0, <2>1, CanActSeated
  <2>3. \/ g = [h EXCEPT !.acted = {}, !.turn = preflop]
        \/ g = [h EXCEPT !.acted = {}, !.turn = postflop,
                         !.bet = [i \in Seats(h) |-> 0],
                         !.current_bet = 0, !.min_raise = BigBlind]
    BY <1>0, <1>2 DEF StartBettingRound
  <2> HIDE DEF g, preflop, postflop
  <2>4. /\ HandType(g) /\ g.n = h.n /\ g.phase = h.phase /\ g.acted = {}
        /\ g.chips = h.chips /\ g.total = h.total /\ g.pot = h.pot
        /\ g.folded = h.folded /\ g.turn \in {preflop, postflop}
        /\ g.dealer = h.dealer
    <3>1. CASE g = [h EXCEPT !.acted = {}, !.turn = preflop]
      BY <1>0, <2>2, <3>1, HandFields DEF HandType, HandsOf, Seats
    <3>2. CASE g = [h EXCEPT !.acted = {}, !.turn = postflop,
                             !.bet = [i \in Seats(h) |-> 0],
                             !.current_bet = 0, !.min_raise = BigBlind]
      BY <1>0, <2>2, <3>2, HandFields, BlindsAssumption
         DEF HandType, HandsOf, Seats
    <3> QED
      BY <2>3, <3>1, <3>2
  <2>5. CanAct(g) = CanAct(h) /\ Seats(g) = Seats(h) /\ InHand(g) = InHand(h)
    BY <2>4 DEF CanAct, InHand, Seats
  <2>6. Kept(g, s)
    BY <1>0, <2>4, <2>5 DEF Kept
  <2>7. Sound(g, s)
    BY <1>0, <2>1, <2>4, <2>5, <2>6, FreshRoundSound DEF Betting
  <2>8. SameTable(g, h)
    BY <1>0, <2>4, HandFields DEF SameTable
  <2> QED
    BY <1>2, <2>4, <2>5, <2>7, <2>8 DEF g
<1> QED
  BY <1>1, <1>2

(* The end of a betting round leaves the hand sound.                       *)
LEMMA EndBettingRoundSound ==
  ASSUME NEW h, NEW s, Betting(h, s)
  PROVE  /\ Sound(EndBettingRound(h), s)
         /\ SameTable(EndBettingRound(h), h)
         /\ EndBettingRound(h).folded = h.folded
         /\ StreetLeft(EndBettingRound(h), h, CanAct(h))
<1>1. /\ HandType(h) /\ h.phase \in Streets /\ Kept(h, s)
      /\ Cardinality(InHand(h)) >= 2 /\ ~(Cardinality(InHand(h)) <= 1)
  BY CanActSeated, FS_CardinalityType DEF Betting
<1>2. CASE h.phase = "river"
  <2>1. EndBettingRound(h) = AdvanceToShowdown(h)
    BY <1>2 DEF EndBettingRound
  <2> QED
    BY <1>2, <2>1, AdvanceToShowdownSound DEF StreetLeft
<1>3. CASE h.phase # "river"
  <2> DEFINE g == [h EXCEPT !.phase = StreetAfter[@], !.turn = NoSeat]
  <2>1. StreetAfter[h.phase] \in Streets
    BY <1>1, <1>3 DEF Streets, StreetAfter
  <2>2. /\ HandType(g) /\ g.phase = StreetAfter[h.phase]
        /\ g.n = h.n /\ g.dealer = h.dealer /\ g.folded = h.folded
        /\ g.chips = h.chips /\ g.total = h.total /\ g.pot = h.pot
    BY <1>1, <2>1, HandFields DEF HandType, HandsOf, Seats
  <2>3. EndBettingRound(h) = StartBettingRound(g)
    BY <1>1, <1>3 DEF EndBettingRound
  <2> HIDE DEF g
  <2>4. CanAct(g) = CanAct(h) /\ InHand(g) = InHand(h)
    BY <2>2 DEF CanAct, InHand, Seats
  <2>5. Betting(g, s)
    BY <1>1, <2>1, <2>2, <2>4 DEF Betting, Kept, Seats
  <2>6. SameTable(StartBettingRound(g), h)
    BY <2>2, <2>5, StartBettingRoundSound DEF SameTable, Seats
  <2> QED
    BY <1>3, <2>2, <2>3, <2>4, <2>5, <2>6, StartBettingRoundSound
       DEF StreetLeft
<1> QED
  BY <1>2, <1>3

(* The turn passes to somebody who has not acted, and those who have stay  *)
(* behind him.                                                             *)
LEMMA AdvanceTurnSound ==
  ASSUME NEW h, NEW s, Ready(h, s)
  PROVE  /\ Sound(AdvanceTurn(h), s)
         /\ SameTable(AdvanceTurn(h), h)
         /\ StreetLeft(AdvanceTurn(h), h, h.acted)
         /\ AdvanceTurn(h).folded = h.folded
<1>0. /\ HandType(h) /\ h.phase \in Streets /\ Kept(h, s)
      /\ Cardinality(InHand(h)) >= 2
      /\ h.turn \in h.acted /\ Matched(h)
      /\ \A i \in CanAct(h) \ h.acted, j \in CanAct(h) \cap h.acted :
           j # h.turn => Ahead(h, i, h.turn) < Ahead(h, j, h.turn)
  BY DEF Betting, Ready
<1>1. CASE CanAct(h) \subseteq h.acted
  BY <1>1, EndBettingRoundSound DEF AdvanceTurn, Ready, StreetLeft
<1>2. CASE ~(CanAct(h) \subseteq h.acted)
  <2> DEFINE start == (h.turn + 1) % h.n
             next == FirstActor(h, start)
             g == AdvanceTurn(h)
  <2>1. g = [h EXCEPT !.turn = next]
    BY <1>2 DEF AdvanceTurn
  <2>2. h.turn \in Seats(h)
    BY <1>0, HandFields
  <2>3. start \in Seats(h) /\ start = IF h.turn = h.n - 1 THEN 0 ELSE h.turn + 1
    <3>1. h.n \in Nat \ {0} /\ h.turn \in 0 .. h.n-1
      BY <1>0, <2>2, HandFields DEF Seats
    <3> QED
      BY <3>1, NextSeatIs DEF Seats
  <2>4. /\ next \in CanAct(h)
        /\ \A j \in CanAct(h) : Ahead(h, next, start) <= Ahead(h, j, start)
    BY <1>0, <1>2, <2>3, FirstActorIs
  <2> HIDE DEF start, next, g
  <2>5. next \in Seats(h) /\ CanAct(h) \subseteq Seats(h)
    BY <1>0, <2>4, CanActSeated
  <2>6. /\ HandType(g) /\ g.n = h.n /\ g.turn = next /\ g.dealer = h.dealer
        /\ g.phase = h.phase /\ g.chips = h.chips /\ g.total = h.total
        /\ g.pot = h.pot /\ g.folded = h.folded /\ g.acted = h.acted
        /\ g.bet = h.bet /\ g.current_bet = h.current_bet
    BY <1>0, <2>1, <2>5, HandFields DEF HandType, HandsOf, Seats
  <2>7. CanAct(g) = CanAct(h) /\ Seats(g) = Seats(h) /\ InHand(g) = InHand(h)
    BY <2>6 DEF CanAct, InHand, Seats
  <2>8. Kept(g, s) /\ Matched(g)
    BY <1>0, <2>6, <2>7 DEF Kept, Matched
  <2>9. \A i \in Seats(h) :
          /\ Ahead(h, i, start) = IF i = h.turn THEN h.n - 1
                                  ELSE Ahead(h, i, h.turn) - 1
          /\ Ahead(h, i, start) \in 0 .. h.n - 1
          /\ Ahead(h, i, h.turn) \in Int
    <3>1. SUFFICES ASSUME NEW i \in Seats(h)
                   PROVE  /\ Ahead(h, i, start) = IF i = h.turn THEN h.n - 1
                                          ELSE Ahead(h, i, h.turn) - 1
                          /\ Ahead(h, i, start) \in 0 .. h.n - 1
                          /\ Ahead(h, i, h.turn) \in Int
      OBVIOUS
    <3>2. /\ i \in 0 .. h.n-1 /\ h.turn \in 0 .. h.n-1 /\ start \in 0 .. h.n-1
          /\ h.n \in Nat
      BY <1>0, <2>2, <2>3, HandFields DEF Seats
    <3>3. /\ Ahead(h, i, start)
               = IF i >= start THEN i - start ELSE i - start + h.n
          /\ Ahead(h, i, h.turn) = IF i >= h.turn THEN i - h.turn
                                   ELSE i - h.turn + h.n
      BY <1>0, <2>2, <2>3, AheadIs
    <3> QED
      BY <2>3, <3>2, <3>3
  <2>10. ASSUME NEW i \in CanAct(h) \ h.acted, NEW j \in CanAct(h) \cap h.acted
         PROVE  Ahead(h, i, start) < Ahead(h, j, start)
    <3>1. i # h.turn /\ i \in Seats(h) /\ j \in Seats(h)
      BY <1>0, <2>5
    <3>2. CASE j = h.turn
      <4>1. /\ i \in 0 .. h.n-1 /\ j \in 0 .. h.n-1 /\ h.n \in Nat
            /\ start \in 0 .. h.n-1 /\ i # j
        BY <1>0, <3>1, <3>2, <2>3, HandFields DEF Seats
      <4>2. Ahead(h, i, start) = IF i >= start THEN i - start
                                 ELSE i - start + h.n
        BY <1>0, <2>3, <3>1, AheadIs
      <4>3. Ahead(h, j, start) = h.n - 1
        BY <2>9, <3>1, <3>2
      <4> QED
        BY <2>3, <3>2, <4>1, <4>2, <4>3
    <3>3. CASE j # h.turn
      <4>1. Ahead(h, i, h.turn) < Ahead(h, j, h.turn)
        BY <1>0, <3>3
      <4> QED
        BY <2>9, <3>1, <3>3, <4>1
    <3> QED
      BY <3>2, <3>3
  <2>11. next \notin h.acted
    <3>1. PICK i \in CanAct(h) : i \notin h.acted
      BY <1>2
    <3>2. Ahead(h, next, start) <= Ahead(h, i, start)
      BY <2>4, <3>1
    <3>3. Ahead(h, next, start) \in Int /\ Ahead(h, i, start) \in Int
      BY <2>5, <2>9, <3>1
    <3> QED
      BY <2>4, <2>10, <3>1, <3>2, <3>3
  <2>12. ASSUME NEW i \in CanAct(h)
         PROVE  Ahead(h, i, next) = Ahead(h, i, start) - Ahead(h, next, start)
    <3>1. /\ i \in 0 .. h.n-1 /\ next \in 0 .. h.n-1 /\ start \in 0 .. h.n-1
          /\ h.n \in Nat
      BY <1>0, <2>3, <2>5, HandFields DEF Seats
    <3>2. /\ Ahead(h, i, start)
               = IF i >= start THEN i - start ELSE i - start + h.n
          /\ Ahead(h, next, start) = IF next >= start THEN next - start
                                     ELSE next - start + h.n
          /\ Ahead(h, i, next) = IF i >= next THEN i - next ELSE i - next + h.n
      BY <1>0, <2>3, <2>5, AheadIs
    <3>3. Ahead(h, next, start) <= Ahead(h, i, start)
      BY <2>4
    <3> QED
      BY <3>1, <3>2, <3>3
  <2>13. Ordered(g)
    <3>1. SUFFICES ASSUME NEW i \in CanAct(h) \ h.acted,
                          NEW j \in CanAct(h) \cap h.acted
                   PROVE  Ahead(h, i, next) < Ahead(h, j, next)
      BY <2>6, <2>7 DEF Ordered, Ahead
    <3>2. /\ Ahead(h, i, start) \in Int /\ Ahead(h, j, start) \in Int
          /\ Ahead(h, next, start) \in Int
      BY <2>5, <2>9
    <3> QED
      BY <2>10, <2>12, <3>2
  <2>14. Sound(g, s)
    BY <1>0, <2>4, <2>6, <2>7, <2>8, <2>11, <2>13 DEF Sound, Streets
  <2>15. SameTable(g, h)
    BY <1>0, <2>6, HandFields DEF SameTable
  <2> QED
    BY <2>6, <2>14, <2>15 DEF g, StreetLeft
<1> QED
  BY <1>1, <1>2

-----------------------------------------------------------------------------
(* What the player on turn may do.                                         *)

(* An action that raises nothing: the others owe what they owed before.    *)
LEMMA MarkedReady ==
  ASSUME NEW h, NEW s, Sound(h, s), h.phase \in Streets,
         NEW g, HandType(g), Kept(g, s), Cardinality(InHand(g)) >= 2,
         g.n = h.n, g.phase = h.phase, g.turn = h.turn,
         g.acted = h.acted \cup {h.turn},
         CanAct(g) \subseteq CanAct(h),
         g.current_bet = h.current_bet,
         \A j \in Seats(h) \ {h.turn} : g.bet[j] = h.bet[j],
         h.turn \in CanAct(g) => g.bet[h.turn] >= h.current_bet
  PROVE  Ready(g, s)
<1>1. Betting(g, s)
  BY DEF Betting
<1>2. HandType(h) /\ Matched(h) /\ Ordered(h)
  BY DEF Sound
<1>3. Matched(g)
  BY <1>2, CanActSeated DEF Matched
<1>4. \A i \in CanAct(g) \ g.acted, j \in CanAct(g) \cap g.acted :
        j # g.turn => Ahead(g, i, g.turn) < Ahead(g, j, g.turn)
  BY <1>2 DEF Ordered, Ahead
<1> QED
  BY <1>1, <1>3, <1>4 DEF Ready

(* A bet or a raise: all the others owe an action.                         *)
LEMMA ReopenedReady ==
  ASSUME NEW g, NEW s, Betting(g, s),
         g.turn \in Seats(g), g.acted = {g.turn},
         g.current_bet = g.bet[g.turn]
  PROVE  Ready(g, s)
<1>1. g.bet[g.turn] \in Nat
  BY HandFields DEF Betting
<1>2. Matched(g)
  BY <1>1 DEF Matched
<1> QED
  BY <1>2 DEF Ready

(* What soundness says of a hand in a betting round.                       *)
LEMMA SoundFields ==
  ASSUME NEW h, NEW s, Sound(h, s), h.phase \in Streets
  PROVE  /\ HandType(h) /\ Kept(h, s) /\ Cardinality(InHand(h)) >= 2
         /\ h.turn \in CanAct(h) \ h.acted /\ h.turn \in Seats(h)
         /\ h.turn \in InHand(h) /\ h.turn \notin h.folded
         /\ Matched(h) /\ Ordered(h)
<1>1. HandType(h) /\ h.turn \in CanAct(h) \ h.acted /\ Matched(h) /\ Ordered(h)
  BY DEF Sound
<1>2. Kept(h, s) /\ Cardinality(InHand(h)) >= 2
  BY DEF Sound, Streets
<1> QED
  BY <1>1, <1>2, CanActSeated DEF InHand

(* After an action that has turned h into g the turn advances.             *)
LEMMA AdvanceTurnFollows ==
  ASSUME NEW h, HandType(h), NEW g, NEW s, Ready(g, s), SameTable(g, h),
         g.phase = h.phase, g.acted \subseteq h.acted \cup {h.turn},
         g.folded \subseteq h.folded \cup {h.turn}
  PROVE  /\ Sound(AdvanceTurn(g), s)
         /\ Follows(AdvanceTurn(g), h, h.turn)
<1> DEFINE f == AdvanceTurn(g)
<1>1. HandType(g)
  BY DEF Ready, Betting
<1>2. /\ Sound(f, s) /\ SameTable(f, g) /\ StreetLeft(f, g, g.acted)
      /\ f.folded = g.folded
  BY AdvanceTurnSound
<1> HIDE DEF f
<1>3. HandType(f)
  BY <1>2 DEF Sound
<1>4. SameTable(f, h)
  BY <1>1, <1>2, <1>3, SameTableTrans
<1>5. StreetLeft(f, h, h.acted \cup {h.turn})
  BY <1>2 DEF StreetLeft
<1> QED
  BY <1>2, <1>4, <1>5 DEF Follows, f

(* A fold leaves the hand sound (hand.py:359-374).                         *)
LEMMA AfterFoldSound ==
  ASSUME NEW h, NEW s, Sound(h, s), h.phase \in Streets
  PROVE  /\ Sound(AfterFold(h), s) /\ Follows(AfterFold(h), h, h.turn)
         /\ h.turn \in AfterFold(h).folded
<1> DEFINE g == [MarkActed(h) EXCEPT !.folded = @ \cup {h.turn}]
<1>1. /\ HandType(h) /\ Kept(h, s) /\ Cardinality(InHand(h)) >= 2
      /\ h.turn \in CanAct(h) \ h.acted /\ h.turn \in Seats(h)
      /\ h.turn \in InHand(h)
  BY SoundFields
<1>2. /\ HandType(g) /\ g.n = h.n /\ g.phase = h.phase /\ g.turn = h.turn
      /\ g.acted = h.acted \cup {h.turn} /\ g.folded = h.folded \cup {h.turn}
      /\ g.chips = h.chips /\ g.total = h.total /\ g.pot = h.pot
      /\ g.bet = h.bet /\ g.current_bet = h.current_bet
      /\ g.dealer = h.dealer
  BY <1>1, HandFields DEF HandType, HandsOf, Seats, MarkActed
<1>3. AfterFold(h) = IF Cardinality(InHand(g)) = 1 THEN AwardSole(g)
                     ELSE AdvanceTurn(g)
  BY DEF AfterFold
<1> HIDE DEF g
<1>4. Kept(g, s)
  BY <1>1, <1>2 DEF Kept, Seats
<1>5. /\ CanAct(g) \subseteq CanAct(h) /\ h.turn \notin CanAct(g)
      /\ InHand(g) = InHand(h) \ {h.turn}
  BY <1>2 DEF CanAct, InHand, Seats
<1>6. SameTable(g, h)
  BY <1>1, <1>2, TableUntouched
<1>7. Cardinality(InHand(g)) \in Nat /\ Cardinality(InHand(g)) >= 1
  BY <1>1, <1>5, CanActSeated, OneFewer
<1>8. CASE Cardinality(InHand(g)) = 1
  <2>1. /\ Sound(AwardSole(g), s) /\ SameTable(AwardSole(g), g)
        /\ AwardSole(g).phase = "complete" /\ AwardSole(g).folded = g.folded
        /\ InHand(AwardSole(g)) = InHand(g) /\ HandType(AwardSole(g))
    BY <1>2, <1>4, <1>8, AwardSoleSound DEF Sound
  <2>2. SameTable(AwardSole(g), h)
    BY <1>1, <1>2, <1>6, <2>1, SameTableTrans
  <2> QED
    BY <1>2, <1>3, <1>8, <2>1, <2>2 DEF StreetLeft, Follows
<1>9. CASE Cardinality(InHand(g)) # 1
  <2>1. Ready(g, s)
    BY <1>2, <1>4, <1>5, <1>7, <1>9, MarkedReady
  <2>2. AfterFold(h) = AdvanceTurn(g) /\ AdvanceTurn(g).folded = g.folded
    BY <1>3, <1>9, <2>1, AdvanceTurnSound
  <2>3. Sound(AdvanceTurn(g), s) /\ Follows(AdvanceTurn(g), h, h.turn)
    BY <1>1, <1>2, <1>6, <2>1, AdvanceTurnFollows
  <2> QED
    BY <1>2, <2>2, <2>3
<1> QED
  BY <1>8, <1>9

(* A check leaves the hand sound (hand.py:376-383).                        *)
LEMMA AfterCheckSound ==
  ASSUME NEW h, NEW s, Sound(h, s), h.phase \in Streets, MayCheck(h)
  PROVE  Sound(AfterCheck(h), s) /\ Follows(AfterCheck(h), h, h.turn)
<1> DEFINE g == MarkActed(h)
<1>1. /\ HandType(h) /\ Kept(h, s) /\ h.turn \in Seats(h)
      /\ Cardinality(InHand(h)) >= 2
  BY SoundFields
<1>2. /\ HandType(g) /\ g.n = h.n /\ g.phase = h.phase /\ g.turn = h.turn
      /\ g.acted = h.acted \cup {h.turn} /\ g.folded = h.folded
      /\ g.dealer = h.dealer
      /\ g.chips = h.chips /\ g.total = h.total /\ g.pot = h.pot
      /\ g.bet = h.bet /\ g.current_bet = h.current_bet
  BY <1>1, HandFields DEF HandType, HandsOf, Seats, MarkActed
<1> HIDE DEF g
<1>3. Kept(g, s)
  BY <1>1, <1>2 DEF Kept, Seats
<1>4. CanAct(g) = CanAct(h) /\ InHand(g) = InHand(h)
  BY <1>2 DEF CanAct, InHand, Seats
<1>5. Ready(g, s)
  BY <1>1, <1>2, <1>3, <1>4, MarkedReady DEF MayCheck
<1>6. SameTable(g, h)
  BY <1>1, <1>2, TableUntouched
<1> QED
  BY <1>1, <1>2, <1>5, <1>6, AdvanceTurnFollows DEF AfterCheck, g

(* The hand after the player on turn has put in amount, before he is       *)
(* marked as having acted.                                                 *)
LEMMA TurnBetPlaced ==
  ASSUME NEW h, NEW s, Sound(h, s), h.phase \in Streets, NEW amount \in Nat
  PROVE  LET p == PlaceBet(h, h.turn, amount)
         IN  /\ HandType(p) /\ Kept(p, s) /\ p.n = h.n /\ p.phase = h.phase
             /\ p.turn = h.turn /\ p.acted = h.acted /\ p.turn \in Seats(p)
             /\ p.folded = h.folded /\ SameTable(p, h)
             /\ Cardinality(InHand(p)) >= 2
             /\ p.current_bet = h.current_bet /\ p.min_raise = h.min_raise
             /\ CanAct(p) \subseteq CanAct(h)
             /\ \A j \in Seats(h) \ {h.turn} : p.bet[j] = h.bet[j]
             /\ h.turn \in CanAct(p) => p.bet[h.turn] = h.bet[h.turn] + amount
             /\ h.bet[h.turn] \in Nat /\ p.bet[h.turn] \in Nat
             /\ h.current_bet \in Nat /\ h.min_raise \in Nat
             /\ h.chips[h.turn] \in Nat
<1> DEFINE p == PlaceBet(h, h.turn, amount)
<1>1. /\ HandType(h) /\ Kept(h, s) /\ h.turn \in CanAct(h) \ h.acted
      /\ h.turn \in Seats(h) /\ h.turn \notin h.folded
      /\ Cardinality(InHand(h)) >= 2
  BY SoundFields
<1>2. /\ HandType(p) /\ Kept(p, s) /\ p.n = h.n /\ p.phase = h.phase
      /\ p.turn = h.turn /\ p.acted = h.acted /\ p.folded = h.folded
      /\ p.dealer = h.dealer
      /\ p.current_bet = h.current_bet /\ p.min_raise = h.min_raise
      /\ \A j \in Seats(h) \ {h.turn} : p.chips[j] = h.chips[j]
                                         /\ p.bet[j] = h.bet[j]
                                         /\ p.total[j] = h.total[j]
      /\ h.total[h.turn] <= p.total[h.turn]
      /\ p.chips[h.turn] = h.chips[h.turn] - Least(amount, h.chips[h.turn])
      /\ p.bet[h.turn] = h.bet[h.turn] + Least(amount, h.chips[h.turn])
  BY <1>1, PlaceBetKeeps
<1> HIDE DEF p
<1>3. Seats(p) = Seats(h) /\ p.turn \in Seats(p) /\ InHand(p) = InHand(h)
  BY <1>1, <1>2 DEF Seats, InHand
<1>4. CanAct(p) \subseteq CanAct(h)
  <2>1. \A j \in CanAct(p) : j # h.turn => j \in CanAct(h)
    BY <1>2, <1>3 DEF CanAct, InHand
  <2> QED
    BY <1>1, <2>1
<1>5. /\ h.bet[h.turn] \in Nat /\ p.bet[h.turn] \in Nat
      /\ h.current_bet \in Nat /\ h.min_raise \in Nat
      /\ h.chips[h.turn] \in Nat
  BY <1>1, <1>2, <1>3, HandFields
<1>6. h.turn \in CanAct(p) => p.bet[h.turn] = h.bet[h.turn] + amount
  BY <1>2, <1>5 DEF CanAct, Least
<1>7. SameTable(p, h)
  <2>1. ASSUME NEW i \in Seats(h)
        PROVE  /\ h.total[i] <= p.total[i]
               /\ i \in p.folded => /\ p.total[i] = h.total[i]
                                    /\ p.chips[i] <= h.chips[i]
    <3>1. h.total[i] \in Nat /\ h.chips[i] \in Nat
      BY <1>1, HandFields
    <3> QED
      BY <1>1, <1>2, <3>1
  <2> QED
    BY <1>2, <2>1 DEF SameTable
<1> QED
  BY <1>1, <1>2, <1>3, <1>4, <1>5, <1>6, <1>7 DEF p

(* A call, also one for less, leaves it sound (hand.py:385-395).           *)
LEMMA AfterCallSound ==
  ASSUME NEW h, NEW s, Sound(h, s), h.phase \in Streets, MayCall(h)
  PROVE  Sound(AfterCall(h), s) /\ Follows(AfterCall(h), h, h.turn)
<1> DEFINE p == PlaceBet(h, h.turn, ToCall(h))
           g == MarkActed(p)
<1>1. ToCall(h) \in Nat
  BY SoundFields, HandFields DEF MayCall, ToCall
<1>2. /\ HandType(p) /\ Kept(p, s) /\ p.n = h.n /\ p.phase = h.phase
      /\ p.turn = h.turn /\ p.acted = h.acted /\ p.turn \in Seats(p)
      /\ p.folded = h.folded /\ SameTable(p, h) /\ HandType(h)
      /\ Cardinality(InHand(p)) >= 2
      /\ p.current_bet = h.current_bet
      /\ CanAct(p) \subseteq CanAct(h)
      /\ \A j \in Seats(h) \ {h.turn} : p.bet[j] = h.bet[j]
      /\ h.turn \in CanAct(p) => p.bet[h.turn] = h.bet[h.turn] + ToCall(h)
      /\ h.bet[h.turn] \in Nat /\ h.current_bet \in Nat
  BY <1>1, TurnBetPlaced, SoundFields
<1>3. AfterCall(h) = AdvanceTurn(g)
  BY DEF AfterCall
<1> HIDE DEF p
<1>4. /\ HandType(g) /\ g.n = p.n /\ g.phase = p.phase /\ g.turn = p.turn
      /\ g.acted = p.acted \cup {p.turn} /\ g.folded = p.folded
      /\ g.dealer = p.dealer
      /\ g.chips = p.chips /\ g.total = p.total /\ g.pot = p.pot
      /\ g.bet = p.bet /\ g.current_bet = p.current_bet
  BY <1>2, HandFields DEF HandType, HandsOf, Seats, MarkActed
<1> HIDE DEF g
<1>5. Kept(g, s) /\ CanAct(g) = CanAct(p) /\ InHand(g) = InHand(p)
  BY <1>2, <1>4 DEF Kept, CanAct, InHand, Seats
<1>6. h.turn \in CanAct(g) => g.bet[h.turn] >= h.current_bet
  BY <1>2, <1>4, <1>5 DEF ToCall
<1>7. Ready(g, s)
  BY <1>2, <1>4, <1>5, <1>6, MarkedReady
<1>8. SameTable(g, h)
  <2>1. SameTable(g, p)
    BY <1>2, <1>4, TableUntouched
  <2> QED
    BY <1>2, <1>4, <2>1, SameTableTrans
<1> QED
  BY <1>2, <1>3, <1>4, <1>7, <1>8, AdvanceTurnFollows

(* Bets, raises and all-ins that reopen the betting.                       *)
LEMMA ReopenedSound ==
  ASSUME NEW h, NEW s, Sound(h, s), h.phase \in Streets, NEW amount \in Nat,
         NEW m \in Nat
  PROVE  LET g == [ReopenBetting(PlaceBet(h, h.turn, amount)) EXCEPT
                     !.min_raise = m]
         IN  Sound(AdvanceTurn(g), s) /\ Follows(AdvanceTurn(g), h, h.turn)
<1> DEFINE p == PlaceBet(h, h.turn, amount)
           g == [ReopenBetting(p) EXCEPT !.min_raise = m]
<1>1. /\ HandType(p) /\ Kept(p, s) /\ p.n = h.n /\ p.phase = h.phase
      /\ p.turn = h.turn /\ p.turn \in Seats(p) /\ p.bet[p.turn] \in Nat
      /\ p.folded = h.folded /\ SameTable(p, h) /\ HandType(h)
      /\ Cardinality(InHand(p)) >= 2 /\ h.phase \in Streets
  BY TurnBetPlaced, SoundFields
<1> HIDE DEF p
<1>2. /\ HandType(g) /\ g.n = p.n /\ g.phase = p.phase /\ g.turn = p.turn
      /\ g.acted = {p.turn} /\ g.chips = p.chips /\ g.total = p.total
      /\ g.dealer = p.dealer /\ g.folded = p.folded
      /\ g.pot = p.pot /\ g.bet = p.bet /\ g.current_bet = p.bet[p.turn]
  BY <1>1, HandFields DEF HandType, HandsOf, Seats, ReopenBetting
<1> HIDE DEF g
<1>3. Kept(g, s) /\ g.turn \in Seats(g) /\ InHand(g) = InHand(p)
  BY <1>1, <1>2 DEF Kept, Seats, InHand
<1>4. Ready(g, s)
  BY <1>1, <1>2, <1>3, ReopenedReady DEF Betting
<1>5. SameTable(g, h)
  <2>1. SameTable(g, p)
    BY <1>1, <1>2, TableUntouched
  <2> QED
    BY <1>1, <1>2, <2>1, SameTableTrans
<1> QED
  <2>1. Sound(AdvanceTurn(g), s) /\ Follows(AdvanceTurn(g), h, h.turn)
    BY <1>1, <1>2, <1>4, <1>5, AdvanceTurnFollows
  <2> QED
    BY <2>1 DEF g, p

(* A bet leaves the hand sound (hand.py:397-416).                          *)
LEMMA AfterBetSound ==
  ASSUME NEW h, NEW s, Sound(h, s), h.phase \in Streets, NEW amount \in Nat
  PROVE  Sound(AfterBet(h, amount), s) /\ Follows(AfterBet(h, amount), h, h.turn)
BY ReopenedSound DEF AfterBet

(* A raise leaves the hand sound (hand.py:418-442).                        *)
LEMMA AfterRaiseSound ==
  ASSUME NEW h, NEW s, Sound(h, s), h.phase \in Streets, NEW amount \in Nat,
         MayRaise(h, amount)
  PROVE  Sound(AfterRaise(h, amount), s) /\ Follows(AfterRaise(h, amount), h, h.turn)
<1> DEFINE additional == amount - h.bet[h.turn]
           p == PlaceBet(h, h.turn, additional)
           m == Greatest(p.min_raise, amount - p.current_bet)
<1>1. /\ h.bet[h.turn] \in Nat /\ h.current_bet \in Nat /\ h.min_raise \in Nat
  BY SoundFields, HandFields
<1>2. additional \in Nat
  BY <1>1 DEF MayRaise
<1>3. p.min_raise = h.min_raise /\ p.current_bet = h.current_bet
  <2> HIDE DEF additional
  <2> QED
    BY <1>2, TurnBetPlaced
<1>4. m \in Nat
  <2> HIDE DEF p
  <2> QED
    BY <1>1, <1>3 DEF Greatest
<1>5. AfterRaise(h, amount)
        = AdvanceTurn([ReopenBetting(p) EXCEPT !.min_raise = m])
  <2>1. ReopenBetting(p).min_raise = p.min_raise
    BY DEF ReopenBetting, PlaceBet
  <2>2. p.current_bet = h.current_bet
    BY <1>3
  <2> HIDE DEF p
  <2>3. [ReopenBetting(p) EXCEPT
           !.min_raise = Greatest(@, amount - h.current_bet)]
          = [ReopenBetting(p) EXCEPT !.min_raise = m]
    BY <2>1, <2>2
  <2> QED
    BY <2>3 DEF AfterRaise, p
<1> HIDE DEF additional, m
<1>6. Sound(AdvanceTurn([ReopenBetting(p) EXCEPT !.min_raise = m]), s)
      /\ Follows(AdvanceTurn([ReopenBetting(p) EXCEPT !.min_raise = m]), h, h.turn)
  BY <1>2, <1>4, ReopenedSound
<1> QED
  BY <1>5, <1>6

(* An all-in, raising or not, leaves it sound (hand.py:444-458).           *)
LEMMA AfterAllInSound ==
  ASSUME NEW h, NEW s, Sound(h, s), h.phase \in Streets
  PROVE  Sound(AfterAllIn(h), s) /\ Follows(AfterAllIn(h), h, h.turn)
<1> DEFINE chips == h.chips[h.turn]
           p == PlaceBet(h, h.turn, chips)
           increment == p.bet[h.turn] - h.current_bet
           m == Greatest(p.min_raise, increment)
           g == MarkActed(p)
<1>1. chips \in Nat
  BY SoundFields, HandFields
<1>2. /\ HandType(p) /\ Kept(p, s) /\ p.n = h.n /\ p.phase = h.phase
      /\ p.turn = h.turn /\ p.acted = h.acted /\ p.turn \in Seats(p)
      /\ p.folded = h.folded /\ SameTable(p, h) /\ HandType(h)
      /\ Cardinality(InHand(p)) >= 2
      /\ p.current_bet = h.current_bet /\ p.min_raise = h.min_raise
      /\ CanAct(p) \subseteq CanAct(h)
      /\ \A j \in Seats(h) \ {h.turn} : p.bet[j] = h.bet[j]
      /\ p.bet[h.turn] \in Nat /\ h.current_bet \in Nat /\ h.min_raise \in Nat
  <2> HIDE DEF chips
  <2> QED
    BY <1>1, TurnBetPlaced, SoundFields
<1>3. CASE increment > 0
  <2>1. m \in Nat
    <3> HIDE DEF p
    <3> QED
      BY <1>2 DEF Greatest
  <2>2. ReopenBetting(p).min_raise = p.min_raise
    BY DEF ReopenBetting, PlaceBet
  <2>3. AfterAllIn(h) = AdvanceTurn([ReopenBetting(p) EXCEPT !.min_raise = m])
    <3>1. AfterAllIn(h) = AdvanceTurn([ReopenBetting(p) EXCEPT
                                         !.min_raise = Greatest(@, increment)])
      BY <1>3 DEF AfterAllIn
    <3> HIDE DEF p, increment
    <3> QED
      BY <2>2, <3>1
  <2> HIDE DEF m, chips
  <2>4. Sound(AdvanceTurn([ReopenBetting(p) EXCEPT !.min_raise = m]), s)
        /\ Follows(AdvanceTurn([ReopenBetting(p) EXCEPT !.min_raise = m]), h, h.turn)
    BY <1>1, <2>1, ReopenedSound
  <2> QED
    BY <2>3, <2>4
<1>4. CASE ~(increment > 0)
  <2>1. AfterAllIn(h) = AdvanceTurn(g)
    BY <1>4 DEF AfterAllIn
  <2>2. h.turn \notin CanAct(p)
    <3>1. p.chips[h.turn] = chips - Least(chips, chips)
      <4>1. HandType(h) /\ h.turn \in Seats(h)
        BY SoundFields
      <4> QED
        BY <1>1, <4>1, PlaceBetKeeps
    <3> HIDE DEF p, chips
    <3>2. p.chips[h.turn] = 0
      BY <1>1, <3>1 DEF Least
    <3> QED
      BY <3>2 DEF CanAct
  <2> HIDE DEF p
  <2>3. /\ HandType(g) /\ g.n = p.n /\ g.phase = p.phase /\ g.turn = p.turn
        /\ g.acted = p.acted \cup {p.turn} /\ g.folded = p.folded
        /\ g.dealer = p.dealer
        /\ g.chips = p.chips /\ g.total = p.total /\ g.pot = p.pot
        /\ g.bet = p.bet /\ g.current_bet = p.current_bet
    BY <1>2, HandFields DEF HandType, HandsOf, Seats, MarkActed
  <2> HIDE DEF g
  <2>4. Kept(g, s) /\ CanAct(g) = CanAct(p) /\ InHand(g) = InHand(p)
    BY <1>2, <2>3 DEF Kept, CanAct, InHand, Seats
  <2>5. Ready(g, s)
    BY <1>2, <2>2, <2>3, <2>4, MarkedReady
  <2>6. SameTable(g, h)
    <3>1. SameTable(g, p)
      BY <1>2, <2>3, TableUntouched
    <3> QED
      BY <1>2, <2>3, <3>1, SameTableTrans
  <2> QED
    BY <1>2, <2>1, <2>3, <2>5, <2>6, AdvanceTurnFollows
<1> QED
  BY <1>3, <1>4

(* A player who resigns out of turn leaves the turn where it is.           *)
LEMMA AfterForcedFoldSound ==
  ASSUME NEW h, NEW s, Sound(h, s), h.phase \in Streets,
         NEW i \in InHand(h), i # h.turn
  PROVE  /\ Sound(AfterForcedFold(h, i), s)
         /\ Follows(AfterForcedFold(h, i), h, i)
         /\ i \in AfterForcedFold(h, i).folded
         /\ \/ AfterForcedFold(h, i).phase \in Streets
            \/ Cardinality(InHand(AfterForcedFold(h, i))) = 1
<1> DEFINE g == [h EXCEPT !.folded = @ \cup {i}]
<1>1. /\ HandType(h) /\ Kept(h, s) /\ i \in Seats(h)
      /\ Cardinality(InHand(h)) >= 2
      /\ h.turn \in CanAct(h) \ h.acted /\ Matched(h) /\ Ordered(h)
  BY SoundFields, CanActSeated
<1>2. /\ HandType(g) /\ g.n = h.n /\ g.phase = h.phase /\ g.turn = h.turn
      /\ g.acted = h.acted /\ g.folded = h.folded \cup {i}
      /\ g.dealer = h.dealer
      /\ g.chips = h.chips /\ g.total = h.total /\ g.pot = h.pot
      /\ g.bet = h.bet /\ g.current_bet = h.current_bet
  BY <1>1, HandFields DEF HandType, HandsOf, Seats
<1>3. AfterForcedFold(h, i) = IF Cardinality(InHand(g)) = 1 THEN AwardSole(g)
                              ELSE g
  BY DEF AfterForcedFold
<1> HIDE DEF g
<1>4. /\ Kept(g, s) /\ CanAct(g) = CanAct(h) \ {i}
      /\ InHand(g) = InHand(h) \ {i}
  BY <1>1, <1>2 DEF Kept, CanAct, InHand, Seats
<1>5. Matched(g) /\ Ordered(g)
  BY <1>1, <1>2, <1>4 DEF Matched, Ordered, Ahead
<1>6. SameTable(g, h)
  BY <1>1, <1>2, TableUntouched
<1>7. Cardinality(InHand(g)) \in Nat /\ Cardinality(InHand(g)) >= 1
  BY <1>1, <1>4, CanActSeated, OneFewer
<1>8. CASE Cardinality(InHand(g)) = 1
  <2>1. /\ Sound(AwardSole(g), s) /\ SameTable(AwardSole(g), g)
        /\ AwardSole(g).phase = "complete" /\ AwardSole(g).folded = g.folded
        /\ InHand(AwardSole(g)) = InHand(g) /\ HandType(AwardSole(g))
    BY <1>2, <1>4, <1>8, AwardSoleSound DEF Sound
  <2>2. SameTable(AwardSole(g), h)
    BY <1>1, <1>2, <1>6, <2>1, SameTableTrans
  <2> QED
    BY <1>2, <1>3, <1>8, <2>1, <2>2 DEF StreetLeft, Follows
<1>9. CASE Cardinality(InHand(g)) # 1
  <2>1. Sound(g, s)
    BY <1>1, <1>2, <1>4, <1>5, <1>7, <1>9 DEF Sound, Streets
  <2> QED
    BY <1>2, <1>3, <1>6, <1>9, <2>1 DEF StreetLeft, Follows
<1> QED
  BY <1>8, <1>9

-----------------------------------------------------------------------------
(* The deal and the showdown.                                              *)

(* A hand is dealt sound: blinds posted, first player on turn.             *)
LEMMA NewHandSound ==
  ASSUME NEW n \in Nat \ {0, 1}, NEW dealer \in 0 .. n-1,
         NEW s \in [0 .. n-1 -> Nat]
  PROVE  /\ Sound(NewHand(s, n, dealer), s)
         /\ NewHand(s, n, dealer).n = n
         /\ NewHand(s, n, dealer).dealer = dealer
         /\ NewHand(s, n, dealer).folded = {}
<1> DEFINE d == Dealt(s, n, dealer)
           posted == PlaceBet(d, SmallBlindSeat(d), SmallBlind)
           big == BigBlindSeat(d)
           both == PlaceBet(posted, big, BigBlind)
           cap == Least(BigBlind, posted.chips[big])
           h == PostBlinds(d)
<1>1. /\ HandType(d) /\ d.n = n /\ d.phase = "preflop" /\ d.dealer = dealer
      /\ d.chips = s /\ d.total = [i \in 0 .. n-1 |-> 0] /\ d.pot = 0
      /\ d.folded = {}
  BY BlindsAssumption DEF Dealt, HandType, HandsOf, Streets
<1>2. Kept(d, s)
  BY <1>1, TotalOfZeros DEF Kept, Seats
<1> HIDE DEF d
<1>3. SmallBlindSeat(d) \in Seats(d) /\ big \in Seats(d)
  BY <1>1, HandFields, SeatFromDealerType DEF SmallBlindSeat, BigBlindSeat
<1>4. /\ HandType(posted) /\ Kept(posted, s) /\ posted.n = n
      /\ posted.phase = "preflop" /\ posted.dealer = dealer
      /\ posted.folded = {}
  BY <1>1, <1>2, <1>3, PlaceBetKeeps, BlindsAssumption
<1>5. big \in Seats(posted)
  BY <1>1, <1>3, <1>4 DEF Seats
<1> HIDE DEF posted, big
<1>6. /\ HandType(both) /\ Kept(both, s) /\ both.n = n
      /\ both.phase = "preflop" /\ both.dealer = dealer
      /\ both.folded = {}
  BY <1>4, <1>5, PlaceBetKeeps, BlindsAssumption
<1>7. cap \in Nat
  BY <1>4, <1>5, HandFields, BlindsAssumption DEF Least
<1>8. h = [both EXCEPT !.current_bet = cap]
  BY DEF PostBlinds, posted, big
<1> HIDE DEF both, cap, h
<1>9. /\ HandType(h) /\ h.n = n /\ h.phase = "preflop" /\ h.dealer = dealer
      /\ h.folded = {}
      /\ h.chips = both.chips /\ h.total = both.total /\ h.pot = both.pot
  BY <1>6, <1>7, <1>8, HandFields DEF HandType, HandsOf, Seats
<1>10. Betting(h, s)
  <2>1. InHand(h) = 0 .. n-1
    BY <1>9 DEF InHand, Seats
  <2>2. Cardinality(0 .. n-1) = n
    BY FS_Interval
  <2> QED
    BY <1>6, <1>9, <2>1, <2>2 DEF Betting, Kept, Seats, Streets
<1>11. NewHand(s, n, dealer) = StartBettingRound(h)
  BY DEF NewHand, h, d
<1> QED
  BY <1>9, <1>10, <1>11, StartBettingRoundSound DEF SameTable

(* The bet levels are finitely many positive numbers.                      *)
LEMMA BetLevelsAre ==
  ASSUME NEW h, HandType(h)
  PROVE  /\ BetLevels(h) \in SUBSET Nat /\ 0 \notin BetLevels(h)
         /\ IsFiniteSet(BetLevels(h))
<1> DEFINE Totals == {h.total[i] : i \in InHand(h)}
<1>1. [i \in InHand(h) |-> h.total[i]] \in Surjection(InHand(h), Totals)
  BY DEF Surjection
<1>2. IsFiniteSet(Totals)
  BY <1>1, CanActSeated, FS_Surjection
<1>3. BetLevels(h) \in SUBSET Totals /\ 0 \notin BetLevels(h)
  BY DEF BetLevels
<1>4. Totals \in SUBSET Nat
  BY HandFields, CanActSeated
<1> QED
  BY <1>2, <1>3, <1>4, FS_Subset

(* The top bet level, 0 if nobody in the hand has put anything in.         *)
Top(h) == Largest({0} \cup BetLevels(h))

LEMMA TopIs ==
  ASSUME NEW h, HandType(h)
  PROVE  /\ Top(h) \in {0} \cup BetLevels(h) /\ Top(h) \in Nat
         /\ \A level \in BetLevels(h) : level <= Top(h)
<1> DEFINE W == {0} \cup BetLevels(h)
<1>1. IsFiniteSet(W) /\ W # {}
  <2>1. IsFiniteSet({0})
    BY FS_Singleton
  <2> QED
    BY <2>1, BetLevelsAre, FS_Union
<1>2. \A w \in W : w \in Nat
  BY BetLevelsAre
<1>3. Top(h) \in W /\ \A w \in W : w <= Top(h)
  <2>1. W \in SUBSET Nat
    BY <1>2
  <2>2. Top(h) = Largest(W)
    BY DEF Top
  <2> HIDE DEF W
  <2> QED
    BY <1>1, <2>1, <2>2, LargestIs
<1> QED
  BY <1>2, <1>3

(* A side pot is the slice between its level and the next lower one of     *)
(* what each player has put in; it is a number of chips, never a debt.     *)
LEMMA PotAtIs ==
  ASSUME NEW h, HandType(h), NEW level \in BetLevels(h)
  PROVE  /\ PotAt(h, level)
              = Total([i \in Seats(h) |->
                         Slice(BetLevels(h), h.total[i], level)])
         /\ PotAt(h, level) \in Nat
         /\ \A i \in Seats(h) :
              Slice(BetLevels(h), h.total[i], level) \in Nat
<1> DEFINE f == [i \in Seats(h) |-> Slice(BetLevels(h), h.total[i], level)]
<1>1. \A i \in Seats(h) : Slice(BetLevels(h), h.total[i], level) \in Nat
  <2>1. \A i \in Seats(h) : h.total[i] \in Nat
    BY HandFields
  <2> QED
    BY <2>1, BetLevelsAre, SliceIs
<1>2. PotAt(h, level) = Total(f)
  BY DEF PotAt, Slice, StepBelow, LevelBelow
<1>3. f \in [Seats(h) -> Nat]
  BY <1>1
<1> HIDE DEF f
<1>4. Total(f) \in Nat
  BY <1>3, CanActSeated, TotalType
<1> QED
  BY <1>1, <1>2, <1>4 DEF f

(* The side pots up to a level hold what everybody put in up to it.        *)
LEMMA PotsUpTo ==
  ASSUME NEW h, HandType(h), NEW m \in Nat, m \in {0} \cup BetLevels(h),
         NEW P, P = {l \in BetLevels(h) : l <= m}
  PROVE  /\ [l \in P |-> PotAt(h, l)] \in [P -> Nat]
         /\ Total([l \in P |-> PotAt(h, l)])
              = Total([i \in Seats(h) |-> Least(h.total[i], m)])
<1> DEFINE f == [z \in P \X Seats(h) |-> Slice(P, h.total[z[2]], z[1])]
<1>1. /\ P \in SUBSET Nat /\ IsFiniteSet(P) /\ P \subseteq BetLevels(h)
      /\ IsFiniteSet(Seats(h))
      /\ h.total \in [Seats(h) -> Nat]
  <2>1. P \in SUBSET BetLevels(h)
    OBVIOUS
  <2> QED
    BY <2>1, BetLevelsAre, FS_Subset, CanActSeated, HandFields
<1>2. \A l \in P, i \in Seats(h) : Slice(P, h.total[i], l) \in Nat
  BY <1>1, SliceIs
<1>3. f \in [P \X Seats(h) -> Nat]
  BY <1>2
<1>4. Total(RowTotals(f, P, Seats(h))) = Total(ColumnTotals(f, P, Seats(h)))
  <2> HIDE DEF f
  <2> QED
    BY <1>1, <1>3, TotalByColumns
<1>5. ASSUME NEW l \in P
      PROVE  /\ Total([i \in Seats(h) |-> f[<<l, i>>]]) = PotAt(h, l)
             /\ PotAt(h, l) \in Nat
  <2>1. {k \in P : k < l} = {k \in BetLevels(h) : k < l}
    <3>1. l \in Nat /\ l <= m /\ \A k \in BetLevels(h) : k \in Nat
      BY <1>1, BetLevelsAre
    <3>2. \A k \in BetLevels(h) : k < l => k <= m
      BY <3>1
    <3> QED
      BY <3>2
  <2>2. \A i \in Seats(h) :
          Slice(P, h.total[i], l) = Slice(BetLevels(h), h.total[i], l)
    BY <2>1 DEF Slice, StepBelow
  <2>3. [i \in Seats(h) |-> f[<<l, i>>]]
          = [i \in Seats(h) |-> Slice(BetLevels(h), h.total[i], l)]
    BY <2>2
  <2> HIDE DEF f
  <2> QED
    BY <1>1, <2>3, PotAtIs
<1>6. ASSUME NEW i \in Seats(h)
      PROVE  Total([l \in P |-> f[<<l, i>>]]) = Least(h.total[i], m)
  <2>1. [l \in P |-> f[<<l, i>>]] = [l \in P |-> Slice(P, h.total[i], l)]
    OBVIOUS
  <2>2. h.total[i] \in Nat
    BY <1>1
  <2>3. Total([l \in P |-> Slice(P, h.total[i], l)])
          = Least(h.total[i], Largest({0} \cup P))
    BY <1>1, <2>2, SlicesAddUp
  <2>4. Largest({0} \cup P) = m
    <3> DEFINE W == {0} \cup P
    <3>1. \A w \in W : w \in Nat /\ w <= m
      BY <1>1
    <3>2. m \in W
      OBVIOUS
    <3>3. W \in SUBSET Nat
      BY <3>1
    <3> HIDE DEF W
    <3>4. Largest(W) = m
      BY <3>1, <3>2, <3>3, LargestEquals
    <3> QED
      BY <3>4 DEF W
  <2> HIDE DEF f
  <2> QED
    BY <2>1, <2>3, <2>4
<1>7. RowTotals(f, P, Seats(h)) = [l \in P |-> PotAt(h, l)]
  <2> HIDE DEF f
  <2> QED
    BY <1>5 DEF RowTotals, RowTotal
<1>8. ColumnTotals(f, P, Seats(h))
        = [i \in Seats(h) |-> Least(h.total[i], m)]
  <2> HIDE DEF f
  <2> QED
    BY <1>6 DEF ColumnTotals
<1>9. [l \in P |-> PotAt(h, l)] \in [P -> Nat]
  BY <1>5
<1> HIDE DEF f
<1> QED
  BY <1>4, <1>7, <1>8, <1>9

(* Among the players who can win a side pot somebody has the best hand.    *)
LEMMA WinnersExist ==
  ASSUME NEW h, HandType(h), NEW level \in BetLevels(h),
         NEW rank \in [InHand(h) -> Nat]
  PROVE  /\ WinnersAt(h, level, rank) # {}
         /\ WinnersAt(h, level, rank) \in SUBSET EligibleAt(h, level)
         /\ WinnersAt(h, level, rank) \in SUBSET Seats(h)
         /\ IsFiniteSet(WinnersAt(h, level, rank))
         /\ Cardinality(WinnersAt(h, level, rank)) \in Nat \ {0}
<1> DEFINE E == EligibleAt(h, level)
           W == WinnersAt(h, level, rank)
           Ranks == {rank[i] : i \in E}
<1>1. E \in SUBSET InHand(h) /\ E # {} /\ IsFiniteSet(E)
  <2>1. PICK i \in InHand(h) : h.total[i] = level
    BY DEF BetLevels
  <2>2. i \in E
    <3>1. h.total[i] \in Nat
      BY HandFields, CanActSeated
    <3> QED
      BY <2>1, <3>1 DEF EligibleAt
  <2>3. E \in SUBSET InHand(h)
    BY DEF EligibleAt
  <2> HIDE DEF E
  <2> QED
    BY <2>2, <2>3, CanActSeated, FS_Subset
<1> HIDE DEF E
<1>2. [i \in E |-> rank[i]] \in Surjection(E, Ranks)
  BY DEF Surjection
<1>3. IsFiniteSet(Ranks) /\ Ranks \in SUBSET Nat /\ Ranks # {}
  <2>1. IsFiniteSet(Ranks)
    BY <1>1, <1>2, FS_Surjection
  <2> QED
    BY <1>1, <2>1
<1>4. PICK best \in Ranks : \A k \in Ranks : k <= best
  <2> HIDE DEF Ranks
  <2> QED
    BY <1>3, GreatestElement
<1>5. PICK i \in E : rank[i] = best
  OBVIOUS
<1>6. i \in W
  BY <1>4, <1>5 DEF WinnersAt, E
<1>7. W \in SUBSET E
  BY DEF WinnersAt, E
<1> HIDE DEF W
<1>8. W \in SUBSET Seats(h) /\ IsFiniteSet(W)
  BY <1>1, <1>7, CanActSeated, FS_Subset
<1>9. Cardinality(W) \in Nat \ {0}
  BY <1>6, <1>8, FS_CardinalityType, FS_EmptySet
<1> QED
  BY <1>6, <1>7, <1>8, <1>9 DEF W, E

(* The shares of a side pot, odd chips included, add up to it.             *)
LEMMA SharesAddUp ==
  ASSUME NEW h, HandType(h), NEW level \in BetLevels(h),
         NEW rank \in [InHand(h) -> Nat]
  PROVE  /\ \A i \in Seats(h) : ShareAt(h, level, rank, i) \in Nat
         /\ Total([i \in Seats(h) |-> ShareAt(h, level, rank, i)])
              = PotAt(h, level)
<1> DEFINE W     == WinnersAt(h, level, rank)
           w     == Cardinality(W)
           pot   == PotAt(h, level)
           share == pot \div w
           odd   == pot % w
           First == {i \in W : Placed(W, i) < odd}
           even  == [i \in Seats(h) |-> IF i \in W THEN share ELSE 0]
           extra == [i \in Seats(h) |-> IF i \in First THEN 1 ELSE 0]
<1>1. /\ W \in SUBSET Seats(h) /\ IsFiniteSet(W) /\ w \in Nat \ {0}
      /\ pot \in Nat /\ IsFiniteSet(Seats(h)) /\ Seats(h) \subseteq Nat
  <2>1. Seats(h) \subseteq Nat
    BY HandFields DEF Seats
  <2> QED
    BY <2>1, WinnersExist, PotAtIs, CanActSeated
<1>2. ASSUME NEW i \in Seats(h)
      PROVE  ShareAt(h, level, rank, i) = even[i] + extra[i]
  <2>1. share \in Nat /\ odd \in Nat
    <3> HIDE DEF w, pot
    <3> QED
      BY <1>1
  <2>2. ShareAt(h, level, rank, i)
          = IF i \notin W THEN 0
            ELSE IF Placed(W, i) < odd THEN share + 1 ELSE share
    BY DEF ShareAt, Placed
  <2> HIDE DEF W, w, pot, share, odd
  <2> QED
    BY <2>1, <2>2
<1> HIDE DEF W, w, pot
<1>3. share \in Nat /\ odd \in 0 .. w /\ w * share + odd = pot
  BY <1>1
<1> HIDE DEF share, odd
<1>4. even \in [Seats(h) -> Nat] /\ extra \in [Seats(h) -> Nat]
  BY <1>3
<1>5. Total(even) = w * share
  BY <1>1, <1>3, TotalOn DEF w
<1>6. Total(extra) = odd
  <2>1. Cardinality(First) = odd
    BY <1>1, <1>3, FirstPlaces DEF w
  <2>2. First \in SUBSET Seats(h)
    BY <1>1
  <2> HIDE DEF First
  <2>3. Total(extra) = Cardinality(First) * 1
    BY <1>1, <2>2, TotalOn
  <2> QED
    BY <1>3, <2>1, <2>3
<1> HIDE DEF even, extra
<1>7. Total([i \in Seats(h) |-> even[i] + extra[i]]) = pot
  <2>1. Total([i \in Seats(h) |-> even[i] + extra[i]])
          = Total(even) + Total(extra)
    BY <1>1, <1>4, TotalAdd
  <2> QED
    BY <1>3, <1>5, <1>6, <2>1
<1>8. [i \in Seats(h) |-> even[i] + extra[i]]
        = [i \in Seats(h) |-> ShareAt(h, level, rank, i)]
  BY <1>2
<1>9. \A i \in Seats(h) : ShareAt(h, level, rank, i) \in Nat
  BY <1>2, <1>4
<1> QED
  BY <1>7, <1>8, <1>9 DEF pot

(* All that is paid out is what was put in up to the top level.            *)
LEMMA WinningsAddUp ==
  ASSUME NEW h, HandType(h), NEW rank \in [InHand(h) -> Nat]
  PROVE  /\ [i \in Seats(h) |-> Winnings(h, rank, i)] \in [Seats(h) -> Nat]
         /\ Total([i \in Seats(h) |-> Winnings(h, rank, i)])
              = Total([i \in Seats(h) |-> Least(h.total[i], Top(h))])
<1> DEFINE L == BetLevels(h)
           f == [z \in Seats(h) \X L |-> ShareAt(h, z[2], rank, z[1])]
<1>1. IsFiniteSet(Seats(h)) /\ IsFiniteSet(L) /\ L \in SUBSET Nat
  BY CanActSeated, BetLevelsAre
<1>2. \A i \in Seats(h), l \in L : ShareAt(h, l, rank, i) \in Nat
  BY SharesAddUp
<1>3. f \in [Seats(h) \X L -> Nat]
  BY <1>2
<1>4. Total(RowTotals(f, Seats(h), L)) = Total(ColumnTotals(f, Seats(h), L))
  <2> HIDE DEF f, L
  <2> QED
    BY <1>1, <1>3, TotalByColumns
<1>5. ColumnTotals(f, Seats(h), L) = [l \in L |-> PotAt(h, l)]
  <2>1. ASSUME NEW l \in L
        PROVE  Total([i \in Seats(h) |-> f[<<i, l>>]]) = PotAt(h, l)
    <3>1. [i \in Seats(h) |-> f[<<i, l>>]]
            = [i \in Seats(h) |-> ShareAt(h, l, rank, i)]
      OBVIOUS
    <3> HIDE DEF f
    <3> QED
      BY <3>1, SharesAddUp
  <2> HIDE DEF f
  <2> QED
    BY <2>1 DEF ColumnTotals
<1>6. ASSUME NEW i \in Seats(h)
      PROVE  /\ Total([l \in L |-> f[<<i, l>>]]) = Winnings(h, rank, i)
             /\ Winnings(h, rank, i) \in Nat
  <2>1. [l \in L |-> f[<<i, l>>]] = [l \in L |-> ShareAt(h, l, rank, i)]
    OBVIOUS
  <2>2. [l \in L |-> ShareAt(h, l, rank, i)] \in [L -> Nat]
    BY <1>2
  <2> HIDE DEF f, L
  <2>3. Total([l \in L |-> ShareAt(h, l, rank, i)]) \in Nat
    BY <1>1, <2>2, TotalType
  <2> QED
    BY <2>1, <2>3 DEF Winnings, L
<1>7. RowTotals(f, Seats(h), L) = [i \in Seats(h) |-> Winnings(h, rank, i)]
  <2> HIDE DEF f
  <2> QED
    BY <1>6 DEF RowTotals, RowTotal
<1>8. Total([l \in L |-> PotAt(h, l)])
        = Total([i \in Seats(h) |-> Least(h.total[i], Top(h))])
  <2>1. L = {l \in BetLevels(h) : l <= Top(h)}
    BY TopIs
  <2> HIDE DEF L
  <2> QED
    BY <2>1, TopIs, PotsUpTo
<1>9. [i \in Seats(h) |-> Winnings(h, rank, i)] \in [Seats(h) -> Nat]
  BY <1>6
<1> HIDE DEF f, L
<1> QED
  BY <1>4, <1>5, <1>7, <1>8, <1>9

(* At the showdown a player wins at most what his stake matches of the     *)
(* others' stakes and his own, the one best hand exactly that, and a       *)
(* folded player nothing.                                                  *)
LEMMA WinningsMatched ==
  ASSUME NEW h, HandType(h), NEW rank \in [InHand(h) -> Nat],
         NEW i \in Seats(h)
  PROVE  LET matched == Total([j \in Seats(h) |->
                                 Least(h.total[j], h.total[i])])
         IN  /\ Winnings(h, rank, i) \in Nat
             /\ i \notin InHand(h) => Winnings(h, rank, i) = 0
             /\ Winnings(h, rank, i) <= matched
             /\ /\ i \in InHand(h)
                /\ \A j \in InHand(h) \ {i} : rank[j] < rank[i]
                => Winnings(h, rank, i) = matched
<1> DEFINE matched == Total([j \in Seats(h) |-> Least(h.total[j], h.total[i])])
           L     == BetLevels(h)
           P     == {l \in L : l <= h.total[i]}
           share == [l \in L |-> ShareAt(h, l, rank, i)]
           pots  == [l \in P |-> PotAt(h, l)]
           Best  == \A j \in InHand(h) \ {i} : rank[j] < rank[i]
<1>1. /\ IsFiniteSet(Seats(h)) /\ h.total \in [Seats(h) -> Nat]
      /\ L \in SUBSET Nat /\ IsFiniteSet(L) /\ P \in SUBSET L
      /\ IsFiniteSet(P) /\ IsFiniteSet(L \ P)
  <2>1. P \in SUBSET L
    OBVIOUS
  <2> HIDE DEF P
  <2> QED
    BY <2>1, CanActSeated, HandFields, BetLevelsAre, FS_Subset
<1>2. share \in [L -> Nat] /\ Winnings(h, rank, i) = Total(share)
  BY SharesAddUp DEF Winnings
<1>3. Total(share) = Total(Restrict(share, P)) + Total(Restrict(share, L \ P))
  <2> DEFINE Q == L \ P
  <2>1. P \cap Q = {} /\ P \cup Q = L
    BY <1>1
  <2> HIDE DEF P, L, Q, share
  <2>2. share \in [P \cup Q -> Nat] /\ IsFiniteSet(Q)
    BY <1>1, <1>2, <2>1 DEF Q
  <2>3. Total(share) = Total(Restrict(share, P)) + Total(Restrict(share, Q))
    BY <1>1, <2>1, <2>2, TotalUnion
  <2> QED
    BY <2>3 DEF Q
<1>4. ASSUME NEW l \in L, i \notin InHand(h) \/ l \notin P
      PROVE  share[l] = 0
  <2>1. i \notin WinnersAt(h, l, rank)
    <3>1. CASE i \notin InHand(h)
      BY <3>1 DEF WinnersAt, EligibleAt
    <3>2. CASE l \notin P
      <4>1. l \in Nat /\ h.total[i] \in Nat /\ ~(h.total[i] >= l)
        BY <1>1, <3>2
      <4> QED
        BY <4>1 DEF WinnersAt, EligibleAt
    <3> QED
      BY <1>4, <3>1, <3>2
  <2> QED
    BY <2>1 DEF ShareAt
<1>5. Total(Restrict(share, L \ P)) = 0
  <2>1. Restrict(share, L \ P) = [l \in L \ P |-> 0]
    BY <1>4 DEF Restrict
  <2> QED
    BY <1>1, <2>1, TotalOfZeros
<1>6. Total(Restrict(share, P)) \in Nat /\ matched \in Nat
  <2>1. Restrict(share, P) \in [P -> Nat]
    BY <1>1, <1>2 DEF Restrict
  <2>2. [j \in Seats(h) |-> Least(h.total[j], h.total[i])] \in [Seats(h) -> Nat]
    BY <1>1 DEF Least
  <2> HIDE DEF P, share
  <2> QED
    BY <1>1, <2>1, <2>2, TotalType
<1>7. ASSUME i \notin InHand(h) PROVE Winnings(h, rank, i) = 0
  <2>1. share = [l \in L |-> 0]
    BY <1>4, <1>7
  <2> QED
    BY <1>1, <1>2, <2>1, TotalOfZeros
<1>8. ASSUME i \in InHand(h)
      PROVE  /\ pots \in [P -> Nat] /\ Total(pots) = matched
             /\ \A l \in P : share[l] <= pots[l]
             /\ Best => \A l \in P : share[l] = pots[l]
  <2>1. pots \in [P -> Nat] /\ Total(pots) = matched
    <3>1. h.total[i] \in Nat /\ h.total[i] \in {0} \cup BetLevels(h)
      BY <1>1, <1>8 DEF BetLevels
    <3> QED
      BY <3>1, PotsUpTo
  <2>2. ASSUME NEW l \in P PROVE share[l] <= pots[l]
    <3> DEFINE all == [j \in Seats(h) |-> ShareAt(h, l, rank, j)]
    <3>1. l \in BetLevels(h)
      OBVIOUS
    <3>2. all \in [Seats(h) -> Nat] /\ Total(all) = PotAt(h, l)
      BY <3>1, SharesAddUp
    <3>3. all[i] <= Total(all)
      <4> HIDE DEF all
      <4>1. Total([all EXCEPT ![i] = 0]) \in Nat
            /\ Total(all) = Total([all EXCEPT ![i] = 0]) + all[i]
        BY <1>1, <3>2, TotalSplit
      <4>2. all[i] \in Nat
        BY <3>2
      <4> QED
        BY <4>1, <4>2
    <3> QED
      BY <3>2, <3>3
  <2>3. ASSUME Best, NEW l \in P PROVE share[l] = pots[l]
    <3>1. l \in BetLevels(h) /\ l <= h.total[i]
      OBVIOUS
    <3>2. WinnersAt(h, l, rank) # {} /\ PotAt(h, l) \in Nat
          /\ WinnersAt(h, l, rank) \in SUBSET EligibleAt(h, l)
      BY <3>1, WinnersExist, PotAtIs
    <3>3. i \in EligibleAt(h, l)
      BY <1>1, <1>8, <3>1 DEF EligibleAt
    <3>4. WinnersAt(h, l, rank) = {i}
      <4>1. ASSUME NEW j \in WinnersAt(h, l, rank), j # i PROVE FALSE
        <5>1. j \in InHand(h) /\ rank[i] <= rank[j]
          BY <3>3 DEF WinnersAt, EligibleAt
        <5>2. rank[j] < rank[i] /\ rank[i] \in Nat /\ rank[j] \in Nat
          BY <1>8, <2>3, <4>1, <5>1
        <5> QED
          BY <5>1, <5>2
      <4> QED
        BY <3>2, <4>1
    <3>5. Cardinality({i}) = 1
      BY FS_Singleton
    <3>6. PotAt(h, l) \div 1 = PotAt(h, l) /\ PotAt(h, l) % 1 = 0
      BY <3>2
    <3>7. ~(Cardinality({j \in {i} : j < i}) < 0)
      <4>1. IsFiniteSet({j \in {i} : j < i})
        BY FS_Singleton, FS_Subset
      <4>2. Cardinality({j \in {i} : j < i}) \in Nat
        BY <4>1, FS_CardinalityType
      <4> QED
        BY <4>2
    <3>8. ShareAt(h, l, rank, i) = PotAt(h, l)
      BY <3>4, <3>5, <3>6, <3>7 DEF ShareAt
    <3> QED
      BY <3>8
  <2> QED
    BY <2>1, <2>2, <2>3
<1>9. ASSUME i \in InHand(h)
      PROVE  /\ Winnings(h, rank, i) <= matched
             /\ Best => Winnings(h, rank, i) = matched
  <2>1. /\ Winnings(h, rank, i) = Total(Restrict(share, P))
        /\ Restrict(share, P) \in [P -> Nat]
        /\ \A l \in P : Restrict(share, P)[l] = share[l]
    BY <1>1, <1>2, <1>3, <1>5, <1>6 DEF Restrict
  <2>2. Total(Restrict(share, P)) <= Total(pots)
    <3> DEFINE mine == Restrict(share, P)
    <3>1. mine \in [P -> Nat] /\ \A l \in P : mine[l] <= pots[l]
      BY <1>8, <1>9, <2>1
    <3> HIDE DEF mine, pots, P
    <3> QED
      BY <1>1, <1>8, <1>9, <3>1, TotalMonotone DEF mine
  <2>3. Best => Restrict(share, P) = pots
    BY <1>8, <1>9, <2>1 DEF Restrict
  <2> HIDE DEF pots, share, P, Best, matched
  <2> QED
    BY <1>8, <1>9, <2>1, <2>2, <2>3
<1>10. Winnings(h, rank, i) \in Nat
  BY <1>2, <1>3, <1>5, <1>6
<1> HIDE DEF matched, Best
<1>11. Winnings(h, rank, i) <= matched
  BY <1>6, <1>7, <1>9
<1> QED
  BY <1>7, <1>9, <1>10, <1>11 DEF matched, Best

(* The showdown completes the hand, and what it does not pay out is        *)
(* stranded.                                                               *)
LEMMA ShowdownSound ==
  ASSUME NEW h, NEW s, Sound(h, s), h.phase = "showdown",
         NEW rank \in [InHand(h) -> Nat]
  PROVE  /\ Sound(Showdown(h, rank), s) /\ SameTable(Showdown(h, rank), h)
         /\ Showdown(h, rank).phase = "complete"
         /\ Showdown(h, rank).folded = h.folded
         /\ Stranded(Showdown(h, rank)) = Stranded(h)
<1> DEFINE g == Showdown(h, rank)
           won  == [i \in Seats(h) |-> Winnings(h, rank, i)]
           low  == [i \in Seats(h) |-> Least(h.total[i], Top(h))]
           high == [i \in Seats(h) |-> h.total[i] - Least(h.total[i], Top(h))]
           paid == [i \in Seats(h) |-> h.chips[i] + won[i]]
<1>1. /\ HandType(h) /\ Kept(h, s) /\ Cardinality(InHand(h)) >= 2
      /\ Cardinality(InHand(h)) # 1
  BY CanActSeated, FS_CardinalityType DEF Sound
<1>2. /\ h.chips \in [Seats(h) -> Nat] /\ h.total \in [Seats(h) -> Nat]
      /\ IsFiniteSet(Seats(h)) /\ Top(h) \in Nat
  BY <1>1, HandFields, CanActSeated, TopIs
<1>3. won \in [Seats(h) -> Nat] /\ Total(won) = Total(low)
  BY <1>1, WinningsAddUp
<1>4. /\ low \in [Seats(h) -> Nat] /\ high \in [Seats(h) -> Nat]
      /\ \A i \in Seats(h) : h.total[i] = low[i] + high[i]
  <2>1. \A i \in Seats(h) :
          /\ Least(h.total[i], Top(h)) \in Nat
          /\ h.total[i] - Least(h.total[i], Top(h)) \in Nat
          /\ h.total[i] = Least(h.total[i], Top(h))
                          + (h.total[i] - Least(h.total[i], Top(h)))
    BY <1>2 DEF Least
  <2> QED
    BY <2>1
<1>5. Stranded(h) = Total(high)
  BY <1>1 DEF Stranded, Top
<1> HIDE DEF won, low, high
<1>6. Total(h.total) = Total(low) + Total(high)
  <2>1. h.total = [i \in Seats(h) |-> low[i] + high[i]]
    BY <1>2, <1>4
  <2>2. Total([i \in Seats(h) |-> low[i] + high[i]]) = Total(low) + Total(high)
    BY <1>2, <1>4, TotalAdd
  <2> QED
    BY <2>1, <2>2
<1>7. paid \in [Seats(h) -> Nat] /\ Total(paid) = Total(h.chips) + Total(won)
  BY <1>2, <1>3, TotalAdd
<1>8. g = [h EXCEPT !.chips = paid, !.phase = "complete", !.turn = NoSeat]
  <2>1. paid = [i \in Seats(h) |-> h.chips[i] + Winnings(h, rank, i)]
    BY DEF won
  <2> HIDE DEF paid
  <2> QED
    BY <2>1 DEF Showdown
<1> HIDE DEF g, paid
<1>9. /\ HandType(g) /\ g.phase = "complete"
      /\ g.n = h.n /\ g.dealer = h.dealer /\ g.folded = h.folded
      /\ g.chips = paid /\ g.total = h.total
      /\ Seats(g) = Seats(h) /\ InHand(g) = InHand(h)
  BY <1>1, <1>7, <1>8, HandFields
     DEF HandType, HandsOf, Seats, InHand
<1>10. Stranded(g) = Stranded(h)
  BY <1>9 DEF Stranded, BetLevels
<1>11. \A i \in h.folded : paid[i] = h.chips[i]
  <2>1. ASSUME NEW i \in h.folded PROVE paid[i] = h.chips[i]
    <3>1. i \in Seats(h) /\ i \notin InHand(h)
      BY <1>1, HandFields DEF InHand
    <3>2. won[i] = 0
      BY <1>1, <3>1, WinningsMatched DEF won
    <3> QED
      BY <1>2, <3>1, <3>2 DEF paid
  <2> QED
    BY <2>1
<1>12. SameTable(g, h)
  BY <1>1, <1>2, <1>9, <1>11, HandFields DEF SameTable
<1>13. Total(g.chips) + Stranded(g) = Total(s)
  <2>1. /\ Total(h.chips) \in Nat /\ Total(won) \in Nat
        /\ Total(low) \in Nat /\ Total(high) \in Nat
    BY <1>2, <1>3, <1>4, TotalType
  <2>2. Total(h.chips) + Total(h.total) = Total(s)
    BY <1>1, KeptTotals
  <2> QED
    BY <1>3, <1>5, <1>6, <1>7, <1>9, <1>10, <2>1, <2>2
<1>14. ASSUME \A i \in Seats(h) : s[i] > 0
       PROVE  \E i \in InHand(h) : paid[i] > 0
  <2>1. PICK i \in InHand(h) : TRUE
    BY <1>1, FS_EmptySet
  <2>2. /\ i \in Seats(h) /\ h.chips[i] \in Nat /\ h.total[i] \in Nat
        /\ h.chips[i] + h.total[i] > 0
    BY <1>1, <1>2, <1>14, CanActSeated DEF Kept
  <2>3. CASE h.chips[i] > 0
    <3>1. won[i] \in Nat /\ paid[i] = h.chips[i] + won[i]
      BY <1>3, <2>2 DEF paid
    <3> QED
      BY <2>2, <2>3, <3>1
  <2>4. CASE h.total[i] > 0
    <3>1. h.total[i] <= Top(h)
      BY <1>1, <2>4, TopIs DEF BetLevels
    <3>2. low[i] > 0 /\ low[i] \in Nat
      BY <1>2, <2>2, <2>4, <3>1 DEF low, Least
    <3>3. /\ Total([low EXCEPT ![i] = 0]) \in Nat
          /\ Total(low) = Total([low EXCEPT ![i] = 0]) + low[i]
      BY <1>2, <1>4, <2>2, TotalSplit
    <3>4. Total(won) # 0
      BY <1>3, <3>2, <3>3
    <3>5. PICK k \in Seats(h) : won[k] # 0
      <4>1. ASSUME \A k \in Seats(h) : won[k] = 0 PROVE FALSE
        <5>1. won = [k \in Seats(h) |-> 0]
          BY <1>3, <4>1
        <5> QED
          BY <3>4, <5>1, TotalOfZeros
      <4> QED
        BY <4>1
    <3>6. k \in InHand(h)
      BY <1>1, <3>5, WinningsMatched DEF won
    <3>7. paid[k] > 0
      <4>1. h.chips[k] \in Nat /\ won[k] \in Nat
            /\ paid[k] = h.chips[k] + won[k]
        BY <1>2, <1>3, <3>5 DEF paid
      <4> QED
        BY <3>5, <4>1
    <3> QED
      BY <3>6, <3>7
  <2> QED
    BY <2>2, <2>3, <2>4
<1>15. Settled(g, s)
  <2>1. \A i \in g.folded : g.chips[i] <= s[i]
    <3>1. ASSUME NEW i \in h.folded PROVE h.chips[i] <= s[i]
      <4>1. /\ i \in Seats(h) /\ h.chips[i] \in Nat /\ h.total[i] \in Nat
            /\ h.chips[i] + h.total[i] = s[i]
        BY <1>1, HandFields DEF Kept
      <4> QED
        BY <4>1
    <3> QED
      BY <1>9, <1>11, <3>1
  <2> QED
    BY <1>9, <1>13, <1>14, <2>1 DEF Settled
<1>16. Sound(g, s)
  BY <1>9, <1>15 DEF Sound, Streets
<1> QED
  BY <1>9, <1>10, <1>12, <1>16 DEF g
=============================================================================
