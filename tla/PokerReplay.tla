---------------------------- MODULE PokerReplay ----------------------------
(***************************************************************************)
(* A hand next to its replay.  The hand reports what happens in it as      *)
(* events, which the recorder stores; apply_event of poker/replay.py       *)
(* rebuilds a snapshot of the hand from the events alone.  Here each step  *)
(* of the hand applies the events it reports: the action, with the bet the *)
(* player has made in the round so far, then a street dealt or the end of  *)
(* the hand.                                                               *)
(***************************************************************************)
EXTENDS PokerHand

VARIABLE replay  \* GameSnapshot

replayVars == <<vars, replay>>

NoBets(r) == [i \in DOMAIN r.chips |-> 0]

-----------------------------------------------------------------------------
(* apply_event.                                                            *)

HandStarted(chips) ==
  [phase |-> "preflop", pot |-> 0, chips |-> chips,
   bet |-> [i \in DOMAIN chips |-> 0], folded |-> {}, all_in |-> {}]

Folded(r, i) == [r EXCEPT !.folded = @ \cup {i}]

(* Seeded fault: the amount of a call is taken for what it cost.           *)
BetPlacedAnew(r, i, amount) ==
  [r EXCEPT !.pot = @ + amount,
            !.chips[i] = @ - amount,
            !.bet[i] = @ + amount,
            !.all_in = IF r.chips[i] = amount THEN @ \cup {i} ELSE @ \ {i}]

(* A blind, call, bet or raise: amount is the bet after it, not its cost.  *)
BetPlaced(r, i, amount) ==
  LET cost == amount - r.bet[i]
  IN  [r EXCEPT !.pot = @ + cost,
                !.chips[i] = @ - cost,
                !.bet[i] = amount,
                !.all_in = IF r.chips[i] = cost THEN @ \cup {i} ELSE @ \ {i}]

WentAllIn(r, i, amount) ==
  [r EXCEPT !.pot = @ + amount - r.bet[i],
            !.chips[i] = 0,
            !.bet[i] = amount,
            !.all_in = @ \cup {i}]

CommunityDealt(r, street) == [r EXCEPT !.phase = street, !.bet = NoBets(r)]

HandCompleted(r) == [r EXCEPT !.phase = "complete"]

-----------------------------------------------------------------------------
(* The events of each step.                                                *)

(* The bet of the player on turn once amount more is placed: what          *)
(* _record_action is given.                                                *)
Recorded(amount) == PlaceBet(hand, hand.turn, amount).bet[hand.turn]

(* What follows the action on the way from the hand it was made in to      *)
(* hand h: the next street; all that are missing, when nobody can bet any  *)
(* more; or the end of the hand.                                           *)
Followed(r, h) ==
  LET street == IF h.phase = "showdown" THEN "river" ELSE h.phase
  IN  IF h.phase = "complete" THEN HandCompleted(r)
      ELSE IF street = r.phase THEN r
      ELSE CommunityDealt(r, street)

(* hand_started, small_blind, big_blind                                    *)
ReplayInit ==
  /\ Init
  /\ LET small  == SmallBlindSeat(hand)
         big    == BigBlindSeat(hand)
         blinds == BetPlaced(
                     BetPlaced(HandStarted(stacks), small,
                               Least(SmallBlind, stacks[small])),
                     big, Least(BigBlind, stacks[big]))
     IN  replay = Followed(blinds, hand)

(* The step reported r, and then what follows.                             *)
Reports(r) == replay' = Followed(r, hand')

ReplayNext ==
  \/ Fold /\ Reports(Folded(replay, hand.turn))
  \/ Check /\ Reports(replay)
  \/ Call /\ Reports(BetPlaced(replay, hand.turn, Recorded(ToCall(hand))))
  \/ \E amount \in Amounts :
       \/ /\ Bet(amount)
          /\ Reports(BetPlaced(replay, hand.turn, Recorded(amount)))
       \/ Raise(amount) /\ Reports(BetPlaced(replay, hand.turn, amount))
  \/ AllIn /\ Reports(WentAllIn(replay, hand.turn,
                                Recorded(hand.chips[hand.turn])))
  \/ \E i \in Seats(hand) : ForcedFold(i) /\ Reports(Folded(replay, i))
  \/ \E rank \in Rankings(hand) : ResolveShowdown(rank) /\ Reports(replay)

ReplaySpec == ReplayInit /\ [][ReplayNext]_replayVars

FairReplaySpec == ReplaySpec /\ Fairness

-----------------------------------------------------------------------------
(* The replay shows every moment of the hand as it was - street, pot,      *)
(* stacks, bets, folds and all-ins - and never makes or loses a chip, with *)
(* bets recorded by what they come to, streets that clear them, short      *)
(* blinds and folds out of turn (replay.py:62-122; hand.py:160-178,        *)
(* 359-458).                                                               *)
ReplayShowsHand ==
  /\ Total(replay.chips) + replay.pot = Total(stacks)
  /\ InProgress =>
       /\ replay.phase = hand.phase
       /\ replay.pot = hand.pot
       /\ replay.chips = hand.chips
       /\ replay.bet = hand.bet
       /\ replay.folded = hand.folded
       /\ replay.all_in = {i \in Seats(hand) : hand.chips[i] = 0}
=============================================================================
