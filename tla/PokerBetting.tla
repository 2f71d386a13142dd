---------------------------- MODULE PokerBetting ----------------------------
(***************************************************************************)
(* One hand of No-Limit Hold'em as the class Hand of poker/hand.py plays   *)
(* it.  A hand is a record; every method of the class that changes a hand  *)
(* is an operator from the hand before the call to the hand after it.      *)
(*                                                                         *)
(* Seats are the indices 0 .. n-1 of Hand.players.  is_all_in is not a     *)
(* field: _place_bet sets it exactly when it leaves a player without       *)
(* chips.  Cards are abstracted: how many community cards are out follows  *)
(* from the phase, and what they are matters only at the showdown, where   *)
(* any ranking of the remaining hands may come out.                        *)
(***************************************************************************)
EXTENDS Totals

CONSTANTS
  SmallBlind,  \* SMALL_BLIND of poker/game.py
  BigBlind     \* BIG_BLIND of poker/game.py, also the least first bet

ASSUME BlindsAssumption ==
  /\ SmallBlind \in Nat \ {0}
  /\ BigBlind \in Nat \ {0}
  /\ SmallBlind <= BigBlind

NoSeat == -1  \* current_turn_index is None

Streets == {"preflop", "flop", "turn", "river"}

StreetAfter == [preflop |-> "flop", flop |-> "turn", turn |-> "river"]

Seats(h) == 0 .. h.n - 1

(* active_players, and those among them who are not all-in                 *)
InHand(h) == Seats(h) \ h.folded

CanAct(h) == {i \in InHand(h) : h.chips[i] > 0}

SeatFromDealer(h, offset) == (h.dealer + offset) % h.n

SmallBlindSeat(h) == IF h.n = 2 THEN h.dealer ELSE SeatFromDealer(h, 1)

BigBlindSeat(h) == SeatFromDealer(h, IF h.n = 2 THEN 1 ELSE 2)

-----------------------------------------------------------------------------
(* Moving chips and the turn.                                              *)

(* Seeded fault: more is taken than the player has.                        *)
PlaceBetUncapped(h, i, amount) ==
  [h EXCEPT !.chips[i] = @ - amount,
            !.bet[i] = @ + amount,
            !.total[i] = @ + amount,
            !.pot = @ + amount]

(* Seeded fault: the total over the hand is not kept.                      *)
PlaceBetUntracked(h, i, amount) ==
  LET actual == Least(amount, h.chips[i])
  IN  [h EXCEPT !.chips[i] = @ - actual,
                !.bet[i] = @ + actual,
                !.pot = @ + actual]

PlaceBet(h, i, amount) ==
  LET actual == Least(amount, h.chips[i])
  IN  [h EXCEPT !.chips[i] = @ - actual,
                !.bet[i] = @ + actual,
                !.total[i] = @ + actual,
                !.pot = @ + actual]

(* The first player who can act at or after seat start, going round.       *)
FirstActor(h, start) ==
  CHOOSE i \in CanAct(h) :
    \A j \in CanAct(h) : (i - start) % h.n <= (j - start) % h.n

(* Everyone else folded: the one player left takes the pot.                *)
AwardSole(h) ==
  LET winner == CHOOSE i \in InHand(h) : TRUE
  IN  [h EXCEPT !.chips[winner] = @ + h.pot,
                !.phase = "complete",
                !.turn  = NoSeat]

(* The cards are shown; Showdown below splits the pot.                     *)
AdvanceToShowdown(h) ==
  IF Cardinality(InHand(h)) = 1
    THEN AwardSole(h)
    ELSE [h EXCEPT !.phase = "showdown", !.turn = NoSeat]

StartBettingRound(h) ==
  IF Cardinality(InHand(h)) <= 1 \/ CanAct(h) = {}
    THEN AdvanceToShowdown(h)
    ELSE IF h.phase = "preflop"
      THEN [h EXCEPT !.acted = {},
                     !.turn  = FirstActor(h, IF h.n = 2 THEN h.dealer
                                             ELSE SeatFromDealer(h, 3))]
      ELSE [h EXCEPT !.acted = {},
                     !.turn  = FirstActor(h, SeatFromDealer(h, 1)),
                     !.bet   = [i \in Seats(h) |-> 0],
                     !.current_bet = 0,
                     !.min_raise   = BigBlind]

EndBettingRound(h) ==
  IF Cardinality(InHand(h)) <= 1 \/ h.phase = "river"
    THEN AdvanceToShowdown(h)
    ELSE StartBettingRound([h EXCEPT !.phase = StreetAfter[@], !.turn = NoSeat])

(* Seeded fault: the search for the next actor starts at the turn itself.  *)
AdvanceTurnInPlace(h) ==
  IF CanAct(h) \subseteq h.acted
    THEN EndBettingRound(h)
    ELSE [h EXCEPT !.turn = FirstActor(h, h.turn)]

(* Seeded fault: the round ends as soon as the bets are equal, which takes *)
(* its option from the big blind.                                          *)
AdvanceTurnOnEqualBets(h) ==
  IF \A i \in CanAct(h) : h.bet[i] >= h.current_bet
    THEN EndBettingRound(h)
    ELSE [h EXCEPT !.turn = FirstActor(h, (h.turn + 1) % h.n)]

(* The round ends when all who can act have acted since the last raise.    *)
AdvanceTurn(h) ==
  IF CanAct(h) \subseteq h.acted
    THEN EndBettingRound(h)
    ELSE [h EXCEPT !.turn = FirstActor(h, (h.turn + 1) % h.n)]

-----------------------------------------------------------------------------
(* The start of a hand: blinds, then the first betting round.              *)

Dealt(stacks, n, dealer) ==
  [n |-> n, dealer |-> dealer, chips |-> stacks,
   bet |-> [i \in 0 .. n-1 |-> 0], total |-> [i \in 0 .. n-1 |-> 0],
   pot |-> 0, folded |-> {}, acted |-> {}, turn |-> NoSeat,
   phase |-> "preflop", current_bet |-> 0, min_raise |-> BigBlind]

PostBlinds(h) ==
  LET big    == BigBlindSeat(h)
      posted == PlaceBet(h, SmallBlindSeat(h), SmallBlind)
  IN  [PlaceBet(posted, big, BigBlind) EXCEPT
         !.current_bet = Least(BigBlind, posted.chips[big])]

NewHand(stacks, n, dealer) ==
  StartBettingRound(PostBlinds(Dealt(stacks, n, dealer)))

-----------------------------------------------------------------------------
(* What the player on turn may do, and what becomes of the hand.           *)

MarkActed(h) == [h EXCEPT !.acted = @ \cup {h.turn}]

(* A bet or a raise: everyone else needs to act again.                     *)
ReopenBetting(h) ==
  [h EXCEPT !.acted = {h.turn}, !.current_bet = h.bet[h.turn]]

AfterFold(h) ==
  LET g == [MarkActed(h) EXCEPT !.folded = @ \cup {h.turn}]
  IN  IF Cardinality(InHand(g)) = 1 THEN AwardSole(g) ELSE AdvanceTurn(g)

MayCheck(h) == h.bet[h.turn] >= h.current_bet

(* Seeded fault: a check is not remembered.                                *)
AfterCheckUnmarked(h) == AdvanceTurn(h)

AfterCheck(h) == AdvanceTurn(MarkActed(h))

ToCall(h) == h.current_bet - h.bet[h.turn]

MayCall(h) == ToCall(h) > 0

AfterCall(h) == AdvanceTurn(MarkActed(PlaceBet(h, h.turn, ToCall(h))))

MayBet(h, amount) ==
  /\ h.current_bet = 0
  /\ amount >= BigBlind \/ amount >= h.chips[h.turn]
  /\ amount <= h.chips[h.turn]

AfterBet(h, amount) ==
  AdvanceTurn([ReopenBetting(PlaceBet(h, h.turn, amount)) EXCEPT
                 !.min_raise = amount])

(* amount is the raiser's total bet for the round                          *)
MayRaise(h, amount) ==
  LET additional == amount - h.bet[h.turn]
  IN  /\ h.current_bet # 0
      /\ additional > 0
      /\ \/ amount - h.current_bet >= h.min_raise
         \/ additional >= h.chips[h.turn]
      /\ additional <= h.chips[h.turn]

AfterRaise(h, amount) ==
  AdvanceTurn(
    [ReopenBetting(PlaceBet(h, h.turn, amount - h.bet[h.turn])) EXCEPT
       !.min_raise = Greatest(@, amount - h.current_bet)])

(* Seeded fault: an all-in raise does not make the others act again.       *)
AfterAllInQuiet(h) ==
  LET g == PlaceBet(h, h.turn, h.chips[h.turn])
  IN  AdvanceTurn(MarkActed(
        [g EXCEPT !.current_bet = Greatest(@, g.bet[h.turn])]))

AfterAllIn(h) ==
  LET g         == PlaceBet(h, h.turn, h.chips[h.turn])
      increment == g.bet[h.turn] - h.current_bet
  IN  IF increment > 0
        THEN AdvanceTurn([ReopenBetting(g) EXCEPT
                            !.min_raise = Greatest(@, increment)])
        ELSE AdvanceTurn(MarkActed(g))

(* Seeded fault: the hand goes on with a single player.                    *)
AfterForcedFoldOpen(h, i) == [h EXCEPT !.folded = @ \cup {i}]

(* Game.resign of a player who is not on turn folds his hand directly and  *)
(* leaves the turn and the round alone unless one player remains.          *)
AfterForcedFold(h, i) ==
  LET g == [h EXCEPT !.folded = @ \cup {i}]
  IN  IF Cardinality(InHand(g)) = 1 THEN AwardSole(g) ELSE g

-----------------------------------------------------------------------------
(* The showdown: side pots by the bet levels of the players still in, each *)
(* split among the best hands eligible for it.                             *)

BetLevels(h) == {h.total[i] : i \in InHand(h)} \ {0}

LevelBelow(h, level) == Largest({0} \cup {l \in BetLevels(h) : l < level})

PotAt(h, level) ==
  Total([i \in Seats(h) |-> Least(h.total[i], level)
                            - Least(h.total[i], LevelBelow(h, level))])

(* Seeded fault: whoever is still in may win any side pot.                 *)
EligibleAtAnyStake(h, level) == InHand(h)

EligibleAt(h, level) == {i \in InHand(h) : h.total[i] >= level}

WinnersAt(h, level, rank) ==
  {i \in EligibleAt(h, level) :
     \A j \in EligibleAt(h, level) : rank[j] <= rank[i]}

(* Seeded fault: the odd chips of a split pot go to nobody.                *)
ShareAtWithoutOdd(h, level, rank, i) ==
  IF i \in WinnersAt(h, level, rank)
    THEN PotAt(h, level) \div Cardinality(WinnersAt(h, level, rank))
    ELSE 0

(* Odd chips go to the first winners in seat order.                        *)
ShareAt(h, level, rank, i) ==
  LET winners == WinnersAt(h, level, rank)
      share   == PotAt(h, level) \div Cardinality(winners)
      odd     == PotAt(h, level) % Cardinality(winners)
  IN  IF i \notin winners THEN 0
      ELSE IF Cardinality({j \in winners : j < i}) < odd THEN share + 1
      ELSE share

Winnings(h, rank, i) ==
  Total([level \in BetLevels(h) |-> ShareAt(h, level, rank, i)])

(* All the rankings of the hands shown that the cards may give.            *)
Rankings(h) == [InHand(h) -> 1 .. Cardinality(InHand(h))]

Showdown(h, rank) ==
  [h EXCEPT !.chips = [i \in Seats(h) |-> h.chips[i] + Winnings(h, rank, i)],
            !.phase = "complete",
            !.turn  = NoSeat]

(* What folded players put in beyond the highest bet among the players at  *)
(* the showdown: no side pot reaches up to it (hand.py:490-535).           *)
Stranded(h) ==
  IF Cardinality(InHand(h)) = 1 THEN 0
  ELSE LET top == Largest({0} \cup BetLevels(h))
       IN  Total([i \in Seats(h) |-> h.total[i] - Least(h.total[i], top)])

-----------------------------------------------------------------------------
(* The hands of n players.                                                 *)
HandsOf(n) ==
  [n : {n}, dealer : 0 .. n-1,
   chips : [0 .. n-1 -> Nat], bet : [0 .. n-1 -> Nat],
   total : [0 .. n-1 -> Nat], pot : Nat,
   folded : SUBSET (0 .. n-1), acted : SUBSET (0 .. n-1),
   turn : (0 .. n-1) \cup {NoSeat},
   phase : Streets \cup {"showdown", "complete"},
   current_bet : Nat, min_raise : Nat]

HandType(h) == h.n \in Nat \ {0, 1} /\ h \in HandsOf(h.n)
=============================================================================
