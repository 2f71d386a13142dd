----------------------------- MODULE PokerGame -----------------------------
(***************************************************************************)
(* A poker tournament as the class Game of poker/game.py runs it: players  *)
(* register, the game starts, hands follow one another until at most one   *)
(* player is left, and players may resign at any moment.                   *)
(*                                                                         *)
(* An action is one call of a method of Game by a request, with everything *)
(* the call does: when it ends the hand, the action also resolves the      *)
(* showdown, writes the stacks back, decides whether the game is over,     *)
(* hands out the chips of resigned players and deals the next hand.  A     *)
(* hand that the blinds alone put everybody all-in is over as soon as it   *)
(* is dealt; _finish_hand then calls itself, one round of which is the     *)
(* action RunOut, the only one enabled while the call has not returned.    *)
(* Requests are taken one after the other here.                            *)
(***************************************************************************)
EXTENDS PokerBetting

CONSTANTS
  MaxPlayers,    \* players have the ids 1 .. MaxPlayers
  StartingChips  \* STARTING_CHIPS

ASSUME GameAssumption ==
  /\ MaxPlayers \in Nat /\ MaxPlayers >= 2
  /\ StartingChips \in Nat \ {0}

Players == 1 .. MaxPlayers

Nobody == 0

NoHand == [phase |-> "none"]  \* current_hand is None

VARIABLES
  registered,    \* _next_id - 1: the players 1 .. registered have joined
  chips,         \* RegisteredPlayer.chips, 0 before a player has joined
  resigned,      \* the players who resigned
  started,
  game_over,
  winner,
  dealer_index,
  hand,          \* current_hand
  seated         \* the ids of current_hand.players, by seat

vars == <<registered, chips, resigned, started, game_over, winner,
          dealer_index, hand, seated>>

lobbyVars == <<registered, started>>

(* alive_players                                                           *)
Alive(stacks, quitters) == {p \in Players : stacks[p] > 0} \ quitters

InProgress == hand.phase \in Streets

Turn == seated[hand.turn]

-----------------------------------------------------------------------------
(* Between two hands.                                                      *)

(* The players of a set in the order of _players.                          *)
InOrder(S) ==
  [i \in 0 .. Cardinality(S) - 1 |->
     CHOOSE p \in S : Cardinality({q \in S : q < p}) = i]

(* Seeded fault: the remainder of a shared estate goes to nobody.          *)
InheritanceWithoutOdd(estate, alive, p) == estate \div Cardinality(alive)

(* What player p of alive gets of the chips a resigned player left: all    *)
(* but the remainder in equal shares, one odd chip to each of the first.   *)
Inheritance(estate, alive, p) ==
  LET heirs == Cardinality(alive)
      odd   == IF Cardinality({q \in alive : q < p}) < estate % heirs
               THEN 1 ELSE 0
  IN  estate \div heirs + odd

Redistributed(stacks, quitters) ==
  LET alive == Alive(stacks, quitters)
  IN  [p \in Players |->
         IF p \in quitters THEN 0
         ELSE IF p \in alive
           THEN stacks[p] + Total([q \in quitters |->
                                     Inheritance(stacks[q], alive, p)])
           ELSE stacks[p]]

(* _start_new_hand, given the stacks and the dealer index it starts from.  *)
StartNewHand(stacks, quitters, dealer) ==
  LET shared == Redistributed(stacks, quitters)
      order  == InOrder(Alive(shared, quitters))
      n      == Cardinality(DOMAIN order)
      button == dealer % n
  IN  /\ chips' = shared
      /\ dealer_index' = button
      /\ seated' = order
      /\ hand' = NewHand([i \in 0 .. n-1 |-> shared[order[i]]], n, button)
      /\ UNCHANGED <<game_over, winner>>

(* The registered stacks with those of a finished hand written back.       *)
WrittenBack(h) ==
  [p \in Players |->
     IF \E i \in Seats(h) : seated[i] = p
       THEN h.chips[CHOOSE i \in Seats(h) : seated[i] = p]
       ELSE chips[p]]

(* Seeded fault: the game only ends when nobody at all is left.            *)
GameEndsEmpty(alive) == alive = {}

GameEnds(alive) == Cardinality(alive) <= 1

LastStanding(stacks, quitters) ==
  CHOOSE p \in Alive(stacks, quitters) : TRUE

(* _finish_hand for the completed hand h.                                  *)
FinishHand(h, quitters) ==
  LET stacks == WrittenBack(h)
      alive  == Alive(stacks, quitters)
  IN  IF GameEnds(alive)
        THEN /\ chips' = stacks
             /\ game_over' = TRUE
             /\ winner' = IF alive = {} THEN winner
                          ELSE LastStanding(stacks, quitters)
             /\ hand' = NoHand
             /\ seated' = <<>>
             /\ UNCHANGED dealer_index
        ELSE StartNewHand(stacks, quitters,
                          (dealer_index + 1) % Cardinality(alive))

(* The rest of a call that has brought the hand to h.                      *)
Conclude(h, quitters) ==
  \/ /\ h.phase \in Streets
     /\ hand' = h
     /\ UNCHANGED <<chips, game_over, winner, dealer_index, seated>>
  \/ /\ h.phase = "complete"
     /\ FinishHand(h, quitters)
  \/ /\ h.phase = "showdown"
     /\ \E rank \in Rankings(h) : FinishHand(Showdown(h, rank), quitters)

-----------------------------------------------------------------------------
Init ==
  /\ registered = 0
  /\ chips = [p \in Players |-> 0]
  /\ resigned = {}
  /\ started = FALSE
  /\ game_over = FALSE
  /\ winner = Nobody
  /\ dealer_index = 0
  /\ hand = NoHand
  /\ seated = <<>>

Register ==
  /\ ~started
  /\ registered < MaxPlayers
  /\ registered' = registered + 1
  /\ chips' = [chips EXCEPT ![registered + 1] = StartingChips]
  /\ UNCHANGED <<resigned, started, game_over, winner, dealer_index, hand,
                 seated>>

Start ==
  /\ ~started
  /\ registered >= 2
  /\ started' = TRUE
  /\ StartNewHand(chips, resigned, dealer_index)
  /\ UNCHANGED <<registered, resigned>>

(* do_action, for the player on turn and for each kind of action.  A fold  *)
(* is also what _check_timeout does to a player whose time is up.          *)
Act(h) ==
  /\ Conclude(h, resigned)
  /\ UNCHANGED <<lobbyVars, resigned>>

Fold == InProgress /\ Act(AfterFold(hand))

Check == InProgress /\ MayCheck(hand) /\ Act(AfterCheck(hand))

Call == InProgress /\ MayCall(hand) /\ Act(AfterCall(hand))

Bet(amount) ==
  InProgress /\ MayBet(hand, amount) /\ Act(AfterBet(hand, amount))

Raise(amount) ==
  InProgress /\ MayRaise(hand, amount) /\ Act(AfterRaise(hand, amount))

AllIn == InProgress /\ Act(AfterAllIn(hand))

(* Seeded fault: only the player on turn is folded when he resigns.        *)
AfterResignationOnTurn(p) ==
  IF Turn = p THEN AfterFold(hand) ELSE hand

(* The hand after the resignation of p: folded if he was still in it.      *)
AfterResignation(p) ==
  LET i == CHOOSE i \in Seats(hand) : seated[i] = p
  IN  IF i \in hand.folded THEN hand
      ELSE IF hand.turn = i THEN AfterFold(hand)
      ELSE AfterForcedFold(hand, i)

(* resign.  Its last lines end the game without settling the hand, should  *)
(* one player be left in the tournament and the hand still go on.          *)
Resign(p) ==
  /\ InProgress
  /\ p \in Alive(chips, resigned)
  /\ resigned' = resigned \cup {p}
  /\ LET h     == AfterResignation(p)
         alive == Alive(chips, resigned')
     IN  IF h.phase \in Streets /\ GameEnds(alive)
           THEN /\ game_over' = TRUE
                /\ winner' = IF alive = {} THEN winner
                             ELSE LastStanding(chips, resigned')
                /\ hand' = NoHand
                /\ seated' = <<>>
                /\ UNCHANGED <<chips, dealer_index>>
           ELSE Conclude(h, resigned')
  /\ UNCHANGED lobbyVars

RunOut ==
  /\ hand.phase \in {"showdown", "complete"}
  /\ Conclude(hand, resigned)
  /\ UNCHANGED <<lobbyVars, resigned>>

Amounts == 1 .. MaxPlayers * StartingChips

Next ==
  \/ Register
  \/ Start
  \/ Fold
  \/ Check
  \/ Call
  \/ \E amount \in Amounts : Bet(amount) \/ Raise(amount)
  \/ AllIn
  \/ \E p \in Players : Resign(p)
  \/ RunOut

Spec == Init /\ [][Next]_vars

-----------------------------------------------------------------------------
(* Properties.                                                             *)

(* The tournament's own variables are well formed; a hand is going on      *)
(* exactly from the start to the end of the game (game.py:34-59).          *)
TypeOK ==
  /\ registered \in 0 .. MaxPlayers
  /\ chips \in [Players -> Nat]
  /\ resigned \subseteq 1 .. registered
  /\ started \in BOOLEAN
  /\ game_over \in BOOLEAN
  /\ winner \in Players \cup {Nobody}
  /\ dealer_index \in 0 .. MaxPlayers - 1
  /\ IF started /\ ~game_over
       THEN /\ hand.phase \in Streets \cup {"showdown", "complete"}
            /\ seated \in [Seats(hand) -> Players]
       ELSE hand = NoHand /\ seated = <<>>

Playing == started /\ ~game_over

(* During a hand everybody who is still in the tournament has a seat in    *)
(* it, a seated player who resigned has folded, and nobody sits twice, so  *)
(* that looking a player up by id finds his seat (game.py:249-271, 318).   *)
SeatsMatchPlayers ==
  Playing =>
    /\ \A i, j \in Seats(hand) : i < j => seated[i] < seated[j]
    /\ Alive(chips, resigned) \subseteq {seated[i] : i \in Seats(hand)}
    /\ \A i \in Seats(hand) : seated[i] \in resigned => i \in hand.folded
    /\ hand.dealer = dealer_index

(* A call never creates chips, and chips disappear only when a player who  *)
(* has outbet everyone still in is folded: of the chips in play nothing    *)
(* else gets lost through payouts, write-back or redistribution.           *)
LostChipsAreOverbets ==
  [][started => \/ Total(chips') = Total(chips)
                \/ /\ Total(chips') < Total(chips)
                   /\ Playing
                   /\ \E i \in hand.folded \cup {hand.turn} :
                        \A j \in InHand(hand) \ {i} :
                          hand.total[j] < hand.total[i]]_vars

(* A player who resigned gets nothing of the pot he left: once the hand is *)
(* settled he has at most what he held behind his bets.  In particular the *)
(* check that ends resign() (game.py:276-286), which would drop the hand   *)
(* and give every player his bets back, never finds anything to do.        *)
BetsStayForfeited ==
  [][Playing /\ (chips' # chips \/ game_over') =>
       \A i \in Seats(hand) :
         seated[i] \in resigned' => chips'[seated[i]] <= hand.chips[i]]_vars

(* What the tournament promises, whatever happens inside the hands.  In    *)
(* particular the game is over as soon as one call leaves at most one      *)
(* player with chips who has not resigned, and never before, although      *)
(* alive_players reads stacks that are only written back when a hand ends  *)
(* and several players may resign within one hand (game.py:227-288,        *)
(* 423-433).                                                               *)
Promise == INSTANCE Tournament WITH stack <- chips, quit <- resigned,
                                    begun <- started, over <- game_over

TournamentPromise == Promise!Spec
=============================================================================
