------------------------------ MODULE DiceGame ------------------------------
(***************************************************************************)
(* The over/under dice game as the class DiceGame of dice/game.py runs it: *)
(* in each round the players who can afford it pay the ante and bet in     *)
(* turn on low, seven or high; then the dice are thrown, those who bet     *)
(* right share the antes of those who bet, and the next round begins.      *)
(*                                                                         *)
(* An action is one call of a method, with all that follows from it: the   *)
(* last bet of a round also resolves it and starts the next.  The two dice *)
(* come out as any of the three categories.                                *)
(***************************************************************************)
EXTENDS Totals

CONSTANTS
  MaxPlayers,     \* players have the ids 1 .. MaxPlayers
  StartingChips,  \* STARTING_CHIPS
  Ante            \* ANTE

ASSUME DiceAssumption ==
  /\ MaxPlayers \in Nat /\ MaxPlayers >= 2
  /\ StartingChips \in Nat \ {0}
  /\ Ante \in Nat \ {0} /\ Ante <= StartingChips

Players == 1 .. MaxPlayers

Nobody == 0

NoTurn == -1  \* _current_turn_index is None; otherwise the phase is "betting"

Categories == {"low", "seven", "high"}  \* of a throw, and VALID_BETS

VARIABLES
  registered,  \* the players 1 .. registered have joined
  resigned,    \* the players who resigned
  started,
  table        \* chips, game_over, winner and the current round

vars == <<registered, resigned, started, table>>

(* round are the players who paid the ante, winners those of the last      *)
(* result; bets holds the bets made in this round.                         *)
EmptyTable ==
  [chips |-> [p \in Players |-> 0], round |-> {}, bets |-> <<>>,
   turn |-> NoTurn, winners |-> {}, over |-> FALSE, winner |-> Nobody]

Playing == started /\ ~table.over

(* alive_players                                                           *)
Alive(t, quitters) == {p \in Players : t.chips[p] > 0} \ quitters

(* The players of a set who come before p in _players.                     *)
Before(S, p) == {q \in S : q < p}

(* The first of the players of a set who have most chips.                  *)
Richest(t, S) ==
  CHOOSE p \in S :
    \A q \in S : t.chips[q] < t.chips[p] \/ (t.chips[q] = t.chips[p] /\ p <= q)

-----------------------------------------------------------------------------
(* Rounds.                                                                 *)

Order(t, quitters) == t.round \ quitters  \* _betting_order, as a set

(* current_player                                                          *)
Current(t, quitters) ==
  CHOOSE p \in Order(t, quitters) :
    Cardinality(Before(Order(t, quitters), p)) = t.turn

(* Who is asked for an ante.                                               *)
CanPay(t, quitters) == {p \in Alive(t, quitters) : t.chips[p] >= Ante}

(* _start_new_round                                                        *)
NewRound(t, quitters) ==
  LET alive == Alive(t, quitters)
      able  == CanPay(t, quitters)
  IN  IF Cardinality(able) < 2
        THEN [t EXCEPT !.over = TRUE,
                       !.winner = IF alive = {} THEN @ ELSE Richest(t, alive)]
        ELSE [t EXCEPT !.chips = [p \in Players |->
                                    IF p \in able THEN @[p] - Ante ELSE @[p]],
                       !.round = able,
                       !.bets  = <<>>,
                       !.turn  = 0]

(* Seeded fault: the odd chips of a shared pot are not paid.               *)
PayoutWithoutOdd(bets, category, p) ==
  LET right == {q \in DOMAIN bets : bets[q] = category}
  IN  IF p \in right
        THEN (Ante * Cardinality(DOMAIN bets)) \div Cardinality(right)
        ELSE 0

(* What resolve_round pays to player p.                                    *)
Payout(bets, category, p) ==
  LET right == {q \in DOMAIN bets : bets[q] = category}
      pot   == Ante * Cardinality(DOMAIN bets)
      odd   == IF Cardinality(Before(right, p)) < pot % Cardinality(right)
               THEN 1 ELSE 0
  IN  IF p \in right THEN pot \div Cardinality(right) + odd ELSE 0

(* _resolve_round                                                          *)
Resolve(t, quitters, category) ==
  NewRound([t EXCEPT
              !.chips = [p \in Players |-> @[p] + Payout(t.bets, category, p)],
              !.winners = {p \in DOMAIN t.bets : t.bets[p] = category},
              !.turn  = NoTurn],
           quitters)

(* The table after the current player's bet; category is what the dice     *)
(* show if it is the last one.                                             *)
AfterBet(t, quitters, choice, category) ==
  LET p == Current(t, quitters)
      b == [t EXCEPT !.turn = @ + 1,
                     !.bets = [q \in DOMAIN @ \cup {p} |->
                                 IF q = p THEN choice ELSE @[q]]]
  IN  IF b.turn >= Cardinality(Order(b, quitters))
        THEN Resolve(b, quitters, category)
        ELSE b

(* Seeded fault: the round waits for a turn that never comes.              *)
AfterLeavingUnresolved(t, quitters, category) == t

(* What a resignation does to the round: a turn index beyond the players   *)
(* who are left ends it, whoever it was that resigned.                     *)
AfterLeaving(t, quitters, category) ==
  IF t.turn # NoTurn /\ t.turn >= Cardinality(Order(t, quitters))
    THEN IF DOMAIN t.bets # {} THEN Resolve(t, quitters, category)
                               ELSE NewRound(t, quitters)
    ELSE t

(* Seeded fault: the game ends as soon as two players are left.            *)
EndIfAloneEarly(t, quitters) ==
  LET alive == Alive(t, quitters)
  IN  IF Cardinality(alive) <= 2 /\ ~t.over
        THEN [t EXCEPT !.over = TRUE,
                       !.winner = IF alive = {} THEN @ ELSE Richest(t, alive)]
        ELSE t

(* The end of resign().                                                    *)
EndIfAlone(t, quitters) ==
  LET alive == Alive(t, quitters)
  IN  IF Cardinality(alive) <= 1 /\ ~t.over
        THEN [t EXCEPT !.over = TRUE,
                       !.winner = IF alive = {} THEN @ ELSE Richest(t, alive)]
        ELSE t

-----------------------------------------------------------------------------
Init ==
  /\ registered = 0
  /\ resigned = {}
  /\ started = FALSE
  /\ table = EmptyTable

Register ==
  /\ ~started
  /\ registered < MaxPlayers
  /\ registered' = registered + 1
  /\ table' = [table EXCEPT !.chips[registered + 1] = StartingChips]
  /\ UNCHANGED <<resigned, started>>

Start ==
  /\ ~started
  /\ registered >= 2
  /\ started' = TRUE
  /\ table' = NewRound(table, resigned)
  /\ UNCHANGED <<registered, resigned>>

(* do_action of the player on turn.                                        *)
Bet(choice) ==
  /\ Playing
  /\ table.turn # NoTurn
  /\ table.turn < Cardinality(Order(table, resigned))
  /\ \E category \in Categories :
       table' = AfterBet(table, resigned, choice, category)
  /\ UNCHANGED <<registered, resigned, started>>

(* _check_timeout bets for a player who takes too long.                    *)
Timeout == Bet("high")

Resign(p) ==
  /\ Playing
  /\ p \notin resigned
  /\ table.chips[p] > 0
  /\ resigned' = resigned \cup {p}
  /\ \E category \in Categories :
       table' = EndIfAlone(AfterLeaving(table, resigned', category), resigned')
  /\ UNCHANGED <<registered, started>>

Next ==
  \/ Register
  \/ Start
  \/ \E choice \in Categories : Bet(choice)
  \/ \E p \in Players : Resign(p)

Spec == Init /\ [][Next]_vars

(* Every request that reads the game runs _check_timeout.                  *)
FairSpec == Spec /\ WF_vars(Timeout)

-----------------------------------------------------------------------------
(* Properties.                                                             *)

(* There is always somebody on turn, and he has not bet yet.  The turn is  *)
(* an index into a list that every resignation shortens, and is not        *)
(* adjusted to it: it must neither run past the end, which would block the *)
(* game for good, nor come back to somebody (dice/game.py:188, 391-424).   *)
TurnIsDue ==
  Playing =>
    /\ table.turn \in 0 .. Cardinality(Order(table, resigned)) - 1
    /\ Current(table, resigned) \notin DOMAIN table.bets

(* Chips and the antes of the round.                                       *)
InPlay(t) ==
  Total(t.chips)
    + IF t.turn # NoTurn /\ ~t.over THEN Ante * Cardinality(t.round) ELSE 0

(* No call creates chips, and what disappears is a number of whole antes,  *)
(* whoever bets, wins, resigns or is skipped: a pot that is won is paid    *)
(* out to the last chip.  The antes are those of the round, and those of   *)
(* the next one when a resignation ends the round and then the game: a     *)
(* player whose last chips went into the new ante counts as eliminated     *)
(* there (round.py:55-64, game.py:338-439).                                *)
OnlyAntesGetLost ==
  [][Playing =>
       \E lost \in 0 .. Cardinality(table.round)
                        + Cardinality(table'.round) :
         InPlay(table') + Ante * lost = InPlay(table)]_vars

(* The game ends only when at most one player who has not resigned could   *)
(* pay another ante, and the winner is then the one with most chips of     *)
(* those who did not resign, if they have any (game.py:235-259, 426-437).  *)
OverWhenNobodyCanPlay ==
  table.over =>
    /\ Cardinality(CanPay(table, resigned)) <= 1
    /\ IF Alive(table, resigned) = {}
         THEN table.winner = Nobody
         ELSE table.winner = Richest(table, Alive(table, resigned))

(* As long as the game goes on one round follows another: no course of     *)
(* bets, timeouts and resignations leaves a round waiting for ever.        *)
RoundsComplete == []<>(~started \/ table.over \/ table.turn = 0)
=============================================================================
