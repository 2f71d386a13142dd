----------------------------- MODULE PokerHand -----------------------------
(***************************************************************************)
(* A single hand from the deal to the payout.  The players at the table    *)
(* act one at a time, as Hand.do_action lets them; a player who resigns    *)
(* from the tournament folds whether it is his turn or not.                *)
(***************************************************************************)
EXTENDS PokerBetting

CONSTANTS
  MaxSeats,  \* the hand has 2 .. MaxSeats players
  MaxStack   \* each starts the hand with 1 .. MaxStack chips

ASSUME TableAssumption ==
  /\ MaxSeats \in Nat /\ MaxSeats >= 2
  /\ MaxStack \in Nat \ {0}

VARIABLES
  hand,   \* the hand, a record of module PokerBetting
  stacks  \* RegisteredPlayer.chips of the players, unchanged during the hand

vars == <<hand, stacks>>

InProgress == hand.phase \in Streets

Init ==
  \E n \in 2 .. MaxSeats :
    /\ stacks \in [0 .. n-1 -> 1 .. MaxStack]
    /\ \E dealer \in 0 .. n-1 : hand = NewHand(stacks, n, dealer)

Fold ==
  /\ InProgress
  /\ hand' = AfterFold(hand)
  /\ UNCHANGED stacks

Check ==
  /\ InProgress
  /\ MayCheck(hand)
  /\ hand' = AfterCheck(hand)
  /\ UNCHANGED stacks

Call ==
  /\ InProgress
  /\ MayCall(hand)
  /\ hand' = AfterCall(hand)
  /\ UNCHANGED stacks

Bet(amount) ==
  /\ InProgress
  /\ MayBet(hand, amount)
  /\ hand' = AfterBet(hand, amount)
  /\ UNCHANGED stacks

Raise(amount) ==
  /\ InProgress
  /\ MayRaise(hand, amount)
  /\ hand' = AfterRaise(hand, amount)
  /\ UNCHANGED stacks

AllIn ==
  /\ InProgress
  /\ hand' = AfterAllIn(hand)
  /\ UNCHANGED stacks

ForcedFold(i) ==
  /\ InProgress
  /\ i \in InHand(hand)
  /\ i # hand.turn
  /\ hand' = AfterForcedFold(hand, i)
  /\ UNCHANGED stacks

ResolveShowdown(rank) ==
  /\ hand.phase = "showdown"
  /\ hand' = Showdown(hand, rank)
  /\ UNCHANGED stacks

Amounts == 1 .. MaxSeats * MaxStack

TurnStep ==
  \/ Fold
  \/ Check
  \/ Call
  \/ \E amount \in Amounts : Bet(amount) \/ Raise(amount)
  \/ AllIn

Next ==
  \/ TurnStep
  \/ \E i \in Seats(hand) : ForcedFold(i)
  \/ \E rank \in Rankings(hand) : ResolveShowdown(rank)

Spec == Init /\ [][Next]_vars

(* The turn clock folds a player who does not act (Game._check_timeout,    *)
(* run by every request that reads the game), and the showdown is computed *)
(* within the request that reaches it.                                     *)
Fairness ==
  /\ WF_vars(TurnStep)
  /\ WF_vars(\E rank \in Rankings(hand) : ResolveShowdown(rank))

FairSpec == Spec /\ Fairness

-----------------------------------------------------------------------------
(* Properties.                                                             *)

(* Every reachable hand is well formed (hand.py:47-79).                    *)
TypeOK ==
  /\ HandType(hand)
  /\ stacks \in [Seats(hand) -> Nat \ {0}]

(* Until the hand is over each player's stack, minus what he still holds,  *)
(* is what he put into the pot, and the pot is exactly the sum of these    *)
(* contributions, whatever order of blinds, calls, raises, short all-ins   *)
(* and resignations led here: _place_bet keeps four fields in step, and    *)
(* the side pots are later cut from total alone (hand.py:160, 490).        *)
PotIsContributions ==
  hand.phase # "complete" =>
    /\ \A i \in Seats(hand) : hand.chips[i] + hand.total[i] = stacks[i]
    /\ hand.pot = Total(hand.total)

(* Whoever is on turn can act and has not acted since the last bet or      *)
(* raise.  _find_next_actor only looks for a player who is not folded or   *)
(* all-in; that it never returns one who has already acted rests on the    *)
(* players who acted sitting right behind the turn, which blinds, reopened *)
(* betting and folds out of turn must all preserve (hand.py:243-272).      *)
TurnOwesAction ==
  InProgress => hand.turn \in CanAct(hand) \ hand.acted

(* A player who has acted and still has chips owes nothing: a bet, a raise *)
(* or an all-in above the current bet makes all the others act again       *)
(* (hand.py:355-357, 444-455).                                             *)
ActedHaveMatched ==
  InProgress =>
    \A i \in hand.acted \cap CanAct(hand) : hand.bet[i] >= hand.current_bet

(* A street is left for the next one or for the showdown only in order,    *)
(* and only when each player who could still bet has had his say since the *)
(* last raise, so no player is passed over (hand.py:252-311).              *)
StreetStep ==
  \/ hand'.phase = hand.phase
  \/ /\ hand'.phase = "complete"
     /\ hand.phase = "showdown" \/ Cardinality(InHand(hand')) = 1
  \/ /\ hand'.phase = IF hand.phase = "river" \/ CanAct(hand') = {}
                      THEN "showdown" ELSE StreetAfter[hand.phase]
     /\ CanAct(hand') \subseteq hand.acted \cup {hand.turn}

StreetsInOrder == [][StreetStep]_vars

(* A hand never creates chips.  The only ones it loses are those Stranded  *)
(* names; but for them the side pots, their splits and the odd chips add   *)
(* up to the pot (hand.py:460-535).                                        *)
ChipsAccounted ==
  hand.phase = "complete" =>
    Total(hand.chips) + Stranded(hand) = Total(stacks)

Won(i) == hand'.chips[i] - hand.chips[i]

MatchedBets(i) ==
  Total([j \in Seats(hand) |-> Least(hand.total[j], hand.total[i])])

(* At the showdown a player wins from each opponent at most what he staked *)
(* himself (instructions.md:745), and the one best hand wins exactly that, *)
(* however many players are all-in below or above it (hand.py:460-535).    *)
ShowdownStep(rank) ==
  ResolveShowdown(rank) =>
    /\ \A i \in Seats(hand) : Won(i) <= MatchedBets(i)
    /\ \A i \in InHand(hand) :
         (\A j \in InHand(hand) \ {i} : rank[j] < rank[i])
           => Won(i) = MatchedBets(i)

ShowdownPays == [][\A rank \in Rankings(hand) : ShowdownStep(rank)]_vars

(* How long the hand can still take.  First come the chips that are not    *)
(* paid in and the players who are in, then the streets, then the players  *)
(* who have not acted: a step that lowers one of them may raise only those *)
(* after it.                                                               *)
StreetsLeft ==
  [preflop |-> 5, flop |-> 4, turn |-> 3, river |-> 2, showdown |-> 1,
   complete |-> 0]

StepsLeft ==
  LET stakes == Total(stacks) - Total(hand.total) + Cardinality(InHand(hand))
      unasked == Seats(hand) \ hand.acted
  IN  (6 * stakes + StreetsLeft[hand.phase]) * (hand.n + 1)
        + Cardinality(unasked)

(* Whatever the players do, each action brings the end of the hand nearer: *)
(* raises that reopen the betting cost chips, checks are not forgotten, a  *)
(* street that is left never comes back, and the players who have to act   *)
(* again get fewer at any given bet (hand.py:243-311, 313-458).            *)
HandShortens == [][0 <= StepsLeft' /\ StepsLeft' < StepsLeft]_vars

(* Every hand is played to its end: raises are bounded by the stacks and   *)
(* each street closes once everybody has answered the last one.            *)
HandEnds == <>(hand.phase = "complete")
=============================================================================
