------------------------------ MODULE BotView ------------------------------
(***************************************************************************)
(* What a bot of packages/bot knows when it decides, and the tables its    *)
(* strategies share.                                                       *)
(*                                                                         *)
(* A strategy is modelled by the set of decisions it may take on a view.   *)
(* The chips, the bets, the position and the tier of the two cards are as  *)
(* in the code; every test on the equity, the board, the profiles of the   *)
(* opponents or the mixing number may go either way.                       *)
(***************************************************************************)
EXTENDS PokerBetting

Positions == {"early", "middle", "late", "blind"}

Tiers == {"premium", "strong", "playable", "marginal", "trash"}

Pct(n, percent) == (n * percent) \div 100

(* A size given in tenths of the big blind.                                *)
Blinds(tenths) == (BigBlind * tenths) \div 10

-----------------------------------------------------------------------------
(* The view.                                                               *)

(* The player ids a bot hands to determine_position: all who were dealt in *)
(* and have not resigned since, also those who have folded.                *)
Ranked(h, resigned) == Seats(h) \ resigned

(* determine_position looks the dealer up among these ids and fails when   *)
(* he has resigned, unless so few are left that it does not look.          *)
PositionKnown(h, resigned) ==
  \/ Cardinality(Ranked(h, resigned)) <= 2
  \/ h.dealer \in Ranked(h, resigned)

(* The dealer, at distance 0, counts as a blind too at three or more.      *)
Position(h, resigned, i) ==
  LET ids      == Ranked(h, resigned)
      n        == Cardinality(ids)
      Index(j) == Cardinality({k \in ids : k < j})
      distance == (Index(i) - Index(h.dealer)) % n
  IN  IF n <= 2 THEN IF i = h.dealer THEN "late" ELSE "blind"
      ELSE IF distance <= 2 THEN "blind"
      ELSE IF n <= 4 \/ 3 * (distance - 2) > 2 * (n - 2) THEN "late"
      ELSE IF 3 * (distance - 2) <= n - 2 THEN "early"
      ELSE "middle"

(* Seeded fault: the chips still needed are taken for the bet to match.    *)
AmountToCallGross(h, i) == Least(h.current_bet, h.chips[i])

(* The chips to add to match the bet, as the state response names them;    *)
(* negative for a small blind who posted more than a short big blind.      *)
AmountToCall(h, i) == Least(h.current_bet - h.bet[i], h.chips[i])

View(h, resigned, i) ==
  [phase    |-> h.phase,
   pot      |-> h.pot,
   toCall   |-> AmountToCall(h, i),
   minRaise |-> h.current_bet + h.min_raise,
   chips    |-> h.chips[i],
   position |-> Position(h, resigned, i),
   rivals   |-> {h.chips[j] : j \in InHand(h) \ {i}},
   opponents |-> Cardinality(InHand(h) \ {i})]

-----------------------------------------------------------------------------
(* Decisions, and the ways to settle on one that the strategies share.     *)

Do(action) == [action |-> action, amount |-> 0]

Sized(action, amount) == [action |-> action, amount |-> amount]

(* Seeded fault: the size wanted is not raised to the least legal one.     *)
TargetTooSmall(v, percent) == Pct(v.pot, percent)

Target(v, percent) == Greatest(v.minRaise, Pct(v.pot, percent))

CheckOrFold(v) == IF v.toCall = 0 THEN Do("check") ELSE Do("fold")

CallOrJam(v) == IF v.toCall >= v.chips THEN Do("all_in") ELSE Do("call")

CallOrFold(v) == IF v.toCall >= v.chips THEN Do("fold") ELSE Do("call")

(* Open or raise to a size the stack allows, else call or go all-in.       *)
Open(v, size) ==
  IF v.toCall = 0 THEN Sized("bet", size) ELSE Sized("raise", size)

Aggress(v, target) ==
  IF target >= v.chips THEN Do("all_in")
  ELSE IF v.toCall > 0 /\ target <= v.toCall THEN CallOrJam(v)
  ELSE Open(v, target)

BetIfBelow(v, target, limit) ==
  IF 100 * target < limit * v.chips THEN {Sized("bet", target)} ELSE {}

(* With stack-to-pot ratio below tenths / 10.                              *)
LowSpr(v, tenths) == 10 * v.chips < tenths * Greatest(v.pot, 1)

(* A weak but sufficient hand facing a bet: on a scary board a large bet   *)
(* is not called.                                                          *)
MarginalCall(v) ==
  IF v.toCall <= 0 THEN {}
  ELSE {CallOrJam(v), CallOrFold(v)}
         \cup (IF 2 * v.toCall > v.pot THEN {Do("fold")} ELSE {})

-----------------------------------------------------------------------------
(* The preflop tables.                                                     *)

RaiseTiers(position) ==
  IF position \in {"middle", "late"} THEN {"premium", "strong", "playable"}
  ELSE {"premium", "strong"}

CallTiers(position) ==
  CASE position = "early"              -> {"playable"}
    [] position \in {"middle", "late"} -> {"marginal"}
    [] position = "blind"              -> {"playable", "marginal"}

FacingRaise(v) == v.toCall > BigBlind

PreflopAction(tier, v) ==
  LET position == v.position
      raises   == IF FacingRaise(v) THEN {"premium"} ELSE RaiseTiers(position)
      calls    == IF ~FacingRaise(v) THEN CallTiers(position)
                  ELSE RaiseTiers(position)
                         \cup (IF position \in {"late", "blind"}
                               THEN CallTiers(position) ELSE {})
  IN  IF tier \in raises THEN "raise" ELSE IF tier \in calls THEN "call"
      ELSE "fold"

(* Calling before the flop; isolate is the size of the raise made instead  *)
(* of a limp in late position.                                             *)
PreflopCall(v, tier, isolate) ==
  IF v.toCall = 0
    THEN IF tier \in {"playable", "strong"} /\ v.position = "late"
              /\ isolate < v.chips
           THEN Sized("bet", isolate) ELSE Do("check")
    ELSE IF tier \in {"premium", "strong"} THEN CallOrJam(v) ELSE CallOrFold(v)

(* Raising before the flop; only the tiers in jams go all-in.              *)
PreflopRaise(v, tier, size, jams) ==
  IF size < v.chips THEN Open(v, size)
  ELSE IF tier \in jams THEN Do("all_in")
  ELSE IF v.toCall = 0 THEN Do("check") ELSE Do("call")
=============================================================================
