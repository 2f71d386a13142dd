---------------------------- MODULE OffchainGame ----------------------------
(***************************************************************************)
(* The credits of an off-chain game with a buy-in, from the faucet over    *)
(* the join to the settlement (core/game_service.py, balance_store.py,     *)
(* settlement_service.py), while other requests do the same.               *)
(*                                                                         *)
(* Each request runs in a thread of its own without any lock, and waits    *)
(* whenever it calls the database: to debit or credit a balance, or to     *)
(* record an event of the game in the middle of a method of Game.  A step  *)
(* is what a request does between two such calls.  A call may fail,        *)
(* before or after its effect; only ValueErrors are caught, so this ends   *)
(* the request.  A restart keeps the balances and forgets the game.  The   *)
(* records of a hand that is over, of eliminations and of the next hand    *)
(* follow each other and count as one call; a start counts as one step.    *)
(*                                                                         *)
(* The rules of poker are left out: a bet moves any number of chips, the   *)
(* turn goes to anybody who is in, and a showdown has any winner.  What    *)
(* folds, resignations and the end of a hand do is as in poker/game.py.    *)
(***************************************************************************)
EXTENDS Payout, Sequences

CONSTANTS
  Users, Nobody,
  Requests,       \* bound: so many requests are in progress at a time
  MaxPlayers,     \* config.max_players
  BuyIn,          \* config.buy_in
  StartingChips,
  FaucetAmount,
  MaxClaims,      \* bound: successful faucet claims
  MaxFailures,    \* bound: database calls that fail
  MaxRestarts,    \* bound
  Overlap         \* whether requests act at the table at the same time

ASSUME OffchainAssumption ==
  /\ IsFiniteSet(Users) /\ Nobody \notin Users
  /\ IsFiniteSet(Requests)
  /\ MaxPlayers \in Nat /\ MaxPlayers >= 2
  /\ BuyIn \in Nat \ {0} /\ StartingChips \in Nat \ {0}
  /\ FaucetAmount \in Nat \ {0}
  /\ Overlap \in BOOLEAN

VARIABLES
  balance,     \* balances.amount, 0 for those without a row
  rows,        \* the users who have a row in balances
  game,        \* the game and its config, in memory
  hand,        \* current_hand
  request,     \* by request: what it waits for
  claims,      \* successful claims so far
  erased,      \* what a claim overwrote, see GrantFirst
  failures, restarts

vars == <<balance, rows, game, hand, request, claims, erased,
          failures, restarts>>

moneyVars == <<balance, rows, claims, erased>>

faultVars == <<failures, restarts>>

NotSettled == <<>>

(* settled: config.offchain_settlement; paid: what has been credited.      *)
NewGame ==
  [players |-> <<>>, chips |-> <<>>, resigned |-> {}, started |-> FALSE,
   over |-> FALSE, settled |-> NotSettled, paid |-> 0]

NoHand == [open |-> FALSE, dealt |-> {}, folded |-> {}, chips |-> <<>>,
           pot |-> 0, turn |-> 0, complete |-> FALSE]

(* What a request waits for, and the local variables it will then need:    *)
(* its user, or his seat; whether resign() called; whether current_hand is *)
(* still the hand it works on; the payouts, and which of them is next.     *)
Idle == [at |-> "idle", user |-> Nobody, seat |-> 0, resigns |-> FALSE,
         current |-> FALSE, payouts |-> <<>>, due |-> 0]

Seats == DOMAIN game.players

Alive(g) == {i \in DOMAIN g.players : g.chips[i] > 0 /\ i \notin g.resigned}

AtCapacity == Len(game.players) >= MaxPlayers

TableSteps == {"resigning", "acted", "folded", "completed", "recheck",
               "announce", "pay"}

AtTable(r) == request[r].at \in TableSteps

TableFree == Overlap \/ \A r \in Requests : ~AtTable(r)

Goto(r, step) == request' = [request EXCEPT ![r].at = step]

Done(r) == request' = [request EXCEPT ![r] = Idle]

PendingClaims == Cardinality({r \in Requests : request[r].at = "claim"})

(* A database call of r raises.                                            *)
Fails(r) ==
  /\ failures < MaxFailures
  /\ failures' = failures + 1
  /\ Done(r)
  /\ UNCHANGED restarts

Init ==
  /\ balance = [u \in Users |-> 0]
  /\ rows = {}
  /\ game = NewGame
  /\ hand = NoHand
  /\ request = [r \in Requests |-> Idle]
  /\ claims = 0
  /\ erased = 0
  /\ failures = 0
  /\ restarts = 0

-----------------------------------------------------------------------------
(* The balances.                                                           *)

Credit(u, amount) ==
  /\ balance' = [balance EXCEPT ![u] = @ + amount]
  /\ rows' = rows \cup {u}
  /\ UNCHANGED <<claims, erased>>

Debit(u, amount) ==
  /\ balance' = [balance EXCEPT ![u] = @ - amount]
  /\ UNCHANGED <<rows, claims, erased>>

Untouched == UNCHANGED moneyVars

(* A claim, a day after the user's last one; it locks his row, and so      *)
(* reads and writes at once.                                               *)
Claim(u) ==
  /\ claims + PendingClaims < MaxClaims
  /\ u \in rows
  /\ balance' = [balance EXCEPT ![u] = @ + FaucetAmount]
  /\ claims' = claims + 1
  /\ UNCHANGED <<rows, erased, game, hand, request, faultVars>>

(* Where there is no row nothing is locked: the claim reads a balance of   *)
(* nothing and no earlier claim ...                                        *)
FirstClaim(r, u) ==
  /\ request[r] = Idle
  /\ claims + PendingClaims < MaxClaims
  /\ u \notin rows
  /\ request' = [request EXCEPT ![r].at = "claim", ![r].user = u]
  /\ UNCHANGED <<moneyVars, game, hand, faultVars>>

(* ... and later writes what follows from that, whatever there is by then. *)
GrantFirst(r) ==
  LET u == request[r].user
  IN  /\ request[r].at = "claim"
      /\ balance' = [balance EXCEPT ![u] = FaucetAmount]
      /\ rows' = rows \cup {u}
      /\ claims' = claims + 1
      /\ erased' = erased + balance[u]
      /\ Done(r)
      /\ UNCHANGED <<game, hand, faultVars>>

-----------------------------------------------------------------------------
(* Joining and starting.                                                   *)

(* join_game, up to the debit.                                             *)
Join(r, u) ==
  /\ request[r] = Idle
  /\ ~AtCapacity
  /\ request' = [request EXCEPT ![r].at = "debit", ![r].user = u]
  /\ UNCHANGED <<moneyVars, game, hand, faultVars>>

(* Seeded fault: the balance is read without locking it, and found enough. *)
AffordsUnchecked(u) == u \in rows

Affords(u) == u \in rows /\ balance[u] >= BuyIn

DebitBuyIn(r) ==
  /\ request[r].at = "debit"
  /\ IF Affords(request[r].user)
       THEN Debit(request[r].user, BuyIn) /\ Goto(r, "register")
       ELSE Untouched /\ Done(r)
  /\ UNCHANGED <<game, hand, faultVars>>

DebitFails(r) ==
  /\ request[r].at = "debit"
  /\ \/ Untouched
     \/ Affords(request[r].user) /\ Debit(request[r].user, BuyIn)
  /\ Fails(r)
  /\ UNCHANGED <<game, hand>>

MayRegister(u) ==
  /\ ~game.started
  /\ \A i \in Seats : game.players[i] # u

(* What join_game records after that may fail, but undoes nothing.         *)
Register(r) ==
  LET u == request[r].user
  IN  /\ request[r].at = "register"
      /\ IF MayRegister(u)
           THEN /\ game' = [game EXCEPT !.players = Append(@, u),
                                         !.chips = Append(@, StartingChips)]
                /\ Done(r)
           ELSE Goto(r, "refund") /\ UNCHANGED game
      /\ UNCHANGED <<moneyVars, hand, faultVars>>

Refund(r) ==
  /\ request[r].at = "refund"
  /\ Credit(request[r].user, BuyIn)
  /\ Done(r)
  /\ UNCHANGED <<game, hand, faultVars>>

RefundFails(r) ==
  /\ request[r].at = "refund"
  /\ Untouched \/ Credit(request[r].user, BuyIn)
  /\ Fails(r)
  /\ UNCHANGED <<game, hand>>

(* _start_new_hand: the chips of resigned players are shared out, and all  *)
(* who are alive get cards.                                                *)
Shared(g) ==
  LET alive   == Alive(g)
      n       == Cardinality(alive)
      rank(i) == Cardinality({j \in alive : j < i})
      gain(i) == [j \in g.resigned |->
                    g.chips[j] \div n
                      + IF rank(i) < g.chips[j] % n THEN 1 ELSE 0]
  IN  [i \in DOMAIN g.chips |->
         IF i \in g.resigned THEN 0
         ELSE g.chips[i] + IF i \in alive THEN Total(gain(i)) ELSE 0]

NewHand(g) ==
  \E turn \in Alive(g) :
    hand' = [open |-> TRUE, dealt |-> Alive(g), folded |-> {},
             chips |-> g.chips, pot |-> 0, turn |-> turn, complete |-> FALSE]

(* start_game; the buy-ins are paid, so nothing else is to be checked.     *)
Start ==
  /\ ~game.started
  /\ Cardinality(Seats) >= 2
  /\ game' = [game EXCEPT !.started = TRUE]
  /\ NewHand(game)
  /\ UNCHANGED <<moneyVars, request, faultVars>>

Restart ==
  /\ restarts < MaxRestarts
  /\ restarts' = restarts + 1
  /\ game' = NewGame
  /\ hand' = NoHand
  /\ request' = [r \in Requests |-> Idle]
  /\ UNCHANGED <<moneyVars, failures>>

-----------------------------------------------------------------------------
(* At the table.                                                           *)

InHand == hand.dealt \ hand.folded

(* The hand other requests work on is no longer current_hand.              *)
Outdated(requests) == [q \in Requests |-> [requests[q] EXCEPT !.current = FALSE]]

AtWork(r, step, i, resigns) ==
  request' = [request EXCEPT ![r] = [Idle EXCEPT !.at = step, !.seat = i,
                                     !.resigns = resigns, !.current = TRUE]]

(* The rest of resign(), or nothing if this is no resignation.             *)
Return(r) ==
  IF request[r].resigns THEN Goto(r, "recheck") ELSE Done(r)

(* The winner gets the pot, the hand is complete, and _finish_hand writes  *)
(* the stacks back before it reports the hand.                             *)
FinishHand(r, winner) ==
  LET after == [hand.chips EXCEPT ![winner] = @ + hand.pot]
  IN  /\ hand' = [hand EXCEPT !.chips = after, !.complete = TRUE, !.turn = 0]
      /\ game' = [game EXCEPT !.chips = [i \in Seats |->
                     IF i \in hand.dealt THEN after[i] ELSE game.chips[i]]]

MayAct ==
  TableFree /\ game.started /\ ~game.over /\ hand.open /\ ~hand.complete

(* A check, call, bet or raise after which somebody else is on turn.       *)
Bet(amount) ==
  /\ MayAct
  /\ hand.turn # 0
  /\ amount <= hand.chips[hand.turn]
  /\ \E next \in InHand :
       hand' = [hand EXCEPT !.chips[hand.turn] = @ - amount,
                            !.pot = @ + amount, !.turn = next]
  /\ UNCHANGED <<moneyVars, game, request, faultVars>>

(* The last action of a hand that goes to a showdown.                      *)
LastAction(r) ==
  /\ request[r] = Idle
  /\ MayAct
  /\ \E winner \in InHand : FinishHand(r, winner)
  /\ AtWork(r, "completed", hand.turn, FALSE)
  /\ UNCHANGED <<moneyVars, faultVars>>

(* A fold, by the player on turn or by the clock, up to its record.        *)
Fold(r) ==
  /\ request[r] = Idle
  /\ MayAct
  /\ hand' = [hand EXCEPT !.folded = @ \cup {hand.turn}]
  /\ AtWork(r, "acted", hand.turn, FALSE)
  /\ UNCHANGED <<moneyVars, game, faultVars>>

(* resign, up to the record of the resignation.                            *)
Resign(r, i) ==
  /\ request[r] = Idle
  /\ TableFree
  /\ game.started /\ ~game.over
  /\ i \in Alive(game)
  /\ game' = [game EXCEPT !.resigned = @ \cup {i}]
  /\ AtWork(r, "resigning", i, TRUE)
  /\ UNCHANGED <<moneyVars, hand, faultVars>>

(* It folds the player, by do_action if he is on turn.                     *)
ResignFolds(r) ==
  LET i == request[r].seat
  IN  /\ request[r].at = "resigning"
      /\ IF ~hand.open \/ i \notin InHand \/ (hand.turn = i /\ game.over)
           THEN Goto(r, "recheck") /\ UNCHANGED hand
           ELSE /\ hand' = [hand EXCEPT !.folded = @ \cup {i}]
                /\ AtWork(r, IF hand.turn = i THEN "acted" ELSE "folded", i, TRUE)
      /\ UNCHANGED <<moneyVars, game, faultVars>>

(* The rest of a fold: the last player who is in gets the pot, otherwise   *)
(* the next one is on turn.  Once the hand is over or is no longer         *)
(* current_hand, nothing changes.                                          *)
AfterFold(r) ==
  /\ request[r].at \in {"acted", "folded"}
  /\ IF request[r].current /\ Cardinality(InHand) = 1
       THEN /\ \E winner \in InHand : FinishHand(r, winner)
            /\ Goto(r, "completed")
       ELSE /\ Return(r)
            /\ UNCHANGED game
            /\ IF request[r].at = "acted" /\ request[r].current /\ ~hand.complete
                 THEN \E next \in InHand : hand' = [hand EXCEPT !.turn = next]
                 ELSE UNCHANGED hand
  /\ UNCHANGED <<moneyVars, faultVars>>

(* Seeded fault: the end of the game is not reported.                      *)
AfterHandSilent(r) ==
  /\ request[r].at = "completed"
  /\ Cardinality(Alive(game)) <= 1
  /\ game' = [game EXCEPT !.over = TRUE]
  /\ Return(r)
  /\ UNCHANGED <<moneyVars, hand, faultVars>>

(* The rest of _finish_hand: the game is over, or the next hand is dealt.  *)
AfterHand(r) ==
  /\ request[r].at = "completed"
  /\ IF Cardinality(Alive(game)) <= 1
       THEN /\ game' = [game EXCEPT !.over = TRUE]
            /\ Goto(r, "announce")
            /\ UNCHANGED hand
       ELSE /\ game' = [game EXCEPT !.chips = Shared(game)]
            /\ NewHand(game')
            /\ request' = Outdated([request EXCEPT ![r] =
                 IF @.resigns THEN [@ EXCEPT !.at = "recheck"] ELSE Idle])
  /\ UNCHANGED <<moneyVars, faultVars>>

(* The end of resign().                                                    *)
Recheck(r) ==
  /\ request[r].at = "recheck"
  /\ IF Cardinality(Alive(game)) <= 1 /\ ~game.over
       THEN /\ game' = [game EXCEPT !.over = TRUE]
            /\ request' = [request EXCEPT ![r].at = "announce",
                                          ![r].resigns = FALSE]
       ELSE Done(r) /\ UNCHANGED game
  /\ UNCHANGED <<moneyVars, hand, faultVars>>

-----------------------------------------------------------------------------
(* Settling.                                                               *)

(* What follows the event game_over: current_hand = None, and the return.  *)
CloseHand(r) ==
  /\ hand' = NoHand
  /\ request' = Outdated([request EXCEPT ![r] =
       IF @.resigns THEN [@ EXCEPT !.at = "recheck"] ELSE Idle])

(* The event is recorded; settle_offchain_game, up to the first credit.    *)
Announce(r) ==
  /\ request[r].at = "announce"
  /\ IF game.settled # NotSettled
       THEN CloseHand(r)
       ELSE /\ request' = [request EXCEPT
                 ![r].at = "pay", ![r].due = 1,
                 ![r].payouts =
                   ComputePayouts(game.chips, BuyIn, StartingChips)]
            /\ UNCHANGED hand
  /\ UNCHANGED <<moneyVars, game, faultVars>>

Unpaid(r) ==
  {i \in DOMAIN request[r].payouts :
     i >= request[r].due /\ request[r].payouts[i] > 0}

NextDue(r) == CHOOSE i \in Unpaid(r) : \A j \in Unpaid(r) : i <= j

CreditPayout(r) ==
  LET amount == request[r].payouts[NextDue(r)]
  IN  /\ Credit(game.players[NextDue(r)], amount)
      /\ game' = [game EXCEPT !.paid = @ + amount]

Pay(r) ==
  /\ request[r].at = "pay"
  /\ Unpaid(r) # {}
  /\ CreditPayout(r)
  /\ request' = [request EXCEPT ![r].due = NextDue(r) + 1]
  /\ UNCHANGED <<hand, faultVars>>

(* All credits are made.                                                   *)
MarkSettled(r) ==
  /\ request[r].at = "pay"
  /\ Unpaid(r) = {}
  /\ game' = [game EXCEPT !.settled = request[r].payouts]
  /\ CloseHand(r)
  /\ UNCHANGED <<moneyVars, faultVars>>

PayFails(r) ==
  /\ request[r].at = "pay"
  /\ Unpaid(r) # {}
  /\ \/ Untouched /\ UNCHANGED game
     \/ CreditPayout(r)
  /\ Fails(r)
  /\ UNCHANGED hand

(* The record of an event of the game fails, and the method ends there.    *)
RecordFails(r) ==
  /\ AtTable(r) /\ request[r].at \notin {"recheck", "pay"}
  /\ Fails(r)
  /\ UNCHANGED <<moneyVars, game, hand>>

-----------------------------------------------------------------------------
Proceed(r) ==
  \/ GrantFirst(r) \/ DebitBuyIn(r) \/ Register(r) \/ Refund(r)
  \/ ResignFolds(r) \/ AfterFold(r) \/ AfterHand(r) \/ Recheck(r)
  \/ Announce(r) \/ Pay(r) \/ MarkSettled(r)

Next ==
  \/ \E u \in Users : Claim(u)
  \/ \E r \in Requests, u \in Users : FirstClaim(r, u) \/ Join(r, u)
  \/ Start
  \/ \E amount \in 0 .. MaxPlayers * StartingChips : Bet(amount)
  \/ \E r \in Requests :
       \/ LastAction(r) \/ Fold(r)
       \/ \E i \in Seats : Resign(r, i)
       \/ Proceed(r)
       \/ DebitFails(r) \/ RefundFails(r) \/ PayFails(r) \/ RecordFails(r)
  \/ Restart

Spec == Init /\ [][Next]_vars

-----------------------------------------------------------------------------
(* Properties.                                                             *)

(* No balance is ever below zero, whoever debits it at the same time, and  *)
(* nobody owns credits without a row to claim or debit them from           *)
(* (balance_store.py:38-96).                                               *)
TypeOK ==
  /\ balance \in [Users -> Nat]
  /\ rows \subseteq Users
  /\ \A u \in Users : balance[u] > 0 => u \in rows
  /\ game.chips \in [Seats -> Nat]
  /\ game.resigned \subseteq Seats
  /\ hand.folded \subseteq hand.dealt /\ hand.dealt \subseteq Seats

InFlight ==
  Cardinality({r \in Requests : request[r].at \in {"register", "refund"}})

(* What is left of the buy-ins of those who have a seat.                   *)
Pot ==
  IF game.settled # NotSettled THEN 0
  ELSE BuyIn * Cardinality(Seats) - game.paid

(* All credits there are, less those the faucet has given out.             *)
Surplus ==
  Total(balance) + erased + BuyIn * InFlight + Pot - FaucetAmount * claims

ChipsMinted == Total(game.chips) > StartingChips * Cardinality(Seats)

(* However joins, refunds, claims and the start of the game interleave,    *)
(* credits are neither made nor lost on their way from a balance through a *)
(* seat to the winners; only a failed call or a restart loses any, and     *)
(* only chips that were minted at the table bring more than was paid in    *)
(* (game_service.py:88-101, settlement_service.py:26-33, payout.py:25-41). *)
MoneyConserved ==
  [][\/ Surplus' = Surplus
     \/ Surplus' < Surplus /\ <<failures, restarts>>' # <<failures, restarts>>
     \/ ChipsMinted]_vars

(* A game that is over has been settled when the last request has left the *)
(* table, unless a call failed: nothing else will ever settle it, the      *)
(* route for the settlement only reads it (poker/router.py:416-431).       *)
OverIsSettled ==
  game.over /\ failures = 0 /\ (\A r \in Requests : ~AtTable(r)) =>
    game.settled # NotSettled

(* "Idempotent - does nothing if already settled" (settlement_service.py:  *)
(* 19) and "The sum of all payouts equals total deposits" (payout.py:15):  *)
(* a settlement never pays out more than the buy-ins.                      *)
SettledOnce == game.paid <= BuyIn * Cardinality(Seats)
=============================================================================
