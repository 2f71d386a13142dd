-------------------------------- MODULE Bot --------------------------------
(***************************************************************************)
(* A bot of packages/bot at the table: it polls the game, decides by its   *)
(* strategy when it is its turn, and sends the decision, repeating the     *)
(* request on a gateway error and falling back on a check or a fold when   *)
(* the server refuses it; any other error ends it (__main__.py,            *)
(* client.py).                                                             *)
(*                                                                         *)
(* The bot sits in seat 0, which loses nothing as the table is round.  The *)
(* other players act as they like, up to a bound on their raises, and may  *)
(* resign; the turn clock folds whoever is too slow.  One hand of module   *)
(* PokerHand is played, and followed until it leaves the streets.          *)
(***************************************************************************)
EXTENDS PokerHand, BotShark, BotFox, BotWolf, BotHawk

CONSTANTS
  TableSizes,         \* the numbers of players
  Stacks(_),          \* the stacks that many players may start with
  Attempts,           \* _MAX_RETRIES: how often a request is sent at most
  MaxRivalRaises,     \* bound on the bets and raises of the others
  MaxResignations(_)  \* bound: how many of that many players resign

ASSUME BotAssumption ==
  /\ TableSizes \subseteq 2 .. MaxSeats
  /\ \A n \in TableSizes : Stacks(n) \subseteq 1 .. MaxStack
  /\ Attempts \in Nat \ {0}

Me == 0

Strategies == {"shark", "fox", "wolf", "hawk"}

VARIABLES
  resigned,  \* the seats whose players have resigned
  strategy,  \* the one the bot was started with
  tier,      \* what classify_hand says of its two cards; not asked for
             \* after the flop and "unused" then
  plan,      \* what it remembers of its own actions in this hand
  client,    \* the request it is about to send, see Asking
  raises     \* how often the others have bet or raised

botVars == <<vars, resigned, strategy, tier, plan, client, raises>>

(* The hand becomes h.                                                     *)
HandBecomes(h) ==
  /\ hand' = h
  /\ tier' = IF h.phase = "preflop" THEN tier ELSE "unused"
  /\ UNCHANGED <<stacks, strategy>>

(* Before the next poll, or for good: "stopped" by a refusal, "crashed"    *)
(* on a state, or "failed" by an error of the connection or the server.    *)
Resting(at) ==
  [at |-> at, d |-> Do("none"), asked |-> 0, fresh |-> FALSE,
   tries |-> 0]

(* d is to be sent.  asked is amount_to_call of the state it was decided   *)
(* on; fresh: the table has not changed since; tries: the requests that    *)
(* got a gateway error.                                                    *)
Asking(d, asked) ==
  [at |-> "send", d |-> d, asked |-> asked, fresh |-> TRUE,
   tries |-> 0]

BotInit ==
  \E n \in TableSizes :
    /\ stacks \in [0 .. n-1 -> Stacks(n)]
    /\ \E dealer \in 0 .. n-1 : hand = NewHand(stacks, n, dealer)
    /\ resigned = {}
    /\ strategy \in Strategies
    /\ tier \in Tiers
    /\ plan = FreshPlan
    /\ client = Resting("poll")
    /\ raises = 0

-----------------------------------------------------------------------------
(* The server: what do_action accepts, and the hand after it.              *)

Accepts(h, d) ==
  CASE d.action = "check" -> MayCheck(h)
    [] d.action = "call"  -> MayCall(h)
    [] d.action = "bet"   -> MayBet(h, d.amount)
    [] d.action = "raise" -> MayRaise(h, d.amount)
    [] d.action \in {"fold", "all_in"} -> TRUE

After(h, d) ==
  CASE d.action = "check"  -> AfterCheck(h)
    [] d.action = "call"   -> AfterCall(h)
    [] d.action = "bet"    -> AfterBet(h, d.amount)
    [] d.action = "raise"  -> AfterRaise(h, d.amount)
    [] d.action = "fold"   -> AfterFold(h)
    [] d.action = "all_in" -> AfterAllIn(h)

-----------------------------------------------------------------------------
(* The bot.                                                                *)

(* What the strategy may decide, each with the plan it leaves.             *)
Moves(v) ==
  CASE strategy = "shark" -> {<<d, plan>> : d \in SharkDecisions(v, tier)}
    [] strategy = "hawk"  -> {<<d, plan>> : d \in HawkDecisions(v, tier)}
    [] strategy = "fox"   -> {<<d, PlanAfter(plan, v.phase, d.action)>> :
                                d \in FoxDecisions(v, tier, plan)}
    [] strategy = "wolf"  -> {<<move[1], [plan EXCEPT !.raiser = move[2]]>> :
                                move \in WolfMoves(v, tier, plan.raiser)}

(* _game_loop: the bot acts on a state that says it is its turn.           *)
PollAndDecide ==
  /\ client.at = "poll"
  /\ InProgress /\ hand.turn = Me
  /\ PositionKnown(hand, resigned)
  /\ LET v == View(hand, resigned, Me)
     IN  \E move \in Moves(v) :
           /\ client' = Asking(move[1], v.toCall)
           /\ plan' = move[2]
  /\ UNCHANGED <<vars, resigned, strategy, tier, raises>>

(* _get_position raises ValueError, which nothing catches.                 *)
Crash ==
  /\ client.at = "poll"
  /\ InProgress /\ hand.turn = Me
  /\ ~PositionKnown(hand, resigned)
  /\ client' = Resting("crashed")
  /\ UNCHANGED <<vars, resigned, strategy, tier, plan, raises>>

(* Seeded fault: a refused action is always replaced by a check.           *)
FallbackAlwaysCheck(asked) == Do("check")

(* Seeded fault: a refused action is always replaced by a fold.            *)
FallbackAlwaysFold(asked) == Do("fold")

Fallback(asked) == IF asked = 0 THEN Do("check") ELSE Do("fold")

(* get_state fails.  A gateway error is followed by another poll; a 500, a *)
(* timeout or a transport error ends the bot.                              *)
PollFails ==
  /\ client.at = "poll"
  /\ InProgress
  /\ client' = Resting("failed")
  /\ UNCHANGED <<vars, resigned, strategy, tier, plan, raises>>

(* A gateway error, or 429: the same request again, up to the last         *)
(* attempt, whose error ends the bot.                                      *)
AfterGatewayError(c) ==
  IF c.tries + 1 < Attempts THEN [c EXCEPT !.tries = @ + 1]
  ELSE Resting("failed")

(* No answer to c that the bot goes on with: it sends the same again, or   *)
(* ends at once, as by a 500, a timeout or a transport error.              *)
Unanswered(c) == client' \in {AfterGatewayError(c), Resting("failed")}

Asks == client.at \in {"send", "fallback"} /\ InProgress

MyTurnAndLegal == hand.turn = Me /\ Accepts(hand, client.d)

(* The server carries the action out; its answer may get lost.             *)
Accepted ==
  /\ Asks
  /\ MyTurnAndLegal
  /\ HandBecomes(After(hand, client.d))
  /\ \/ client' = Resting("poll")
     \/ Unanswered([client EXCEPT !.fresh = FALSE])
  /\ UNCHANGED <<resigned, plan, raises>>

(* 400: the fallback is sent instead; when that is refused the bot ends.   *)
Refused ==
  /\ Asks
  /\ ~MyTurnAndLegal
  /\ client' = IF client.at = "fallback" THEN [client EXCEPT !.at = "stopped"]
               ELSE [client EXCEPT !.at = "fallback", !.tries = 0,
                                   !.d = Fallback(client.asked)]
  /\ UNCHANGED <<vars, resigned, strategy, tier, plan, raises>>

(* The request does not reach the server.                                  *)
RequestLost ==
  /\ Asks
  /\ Unanswered(client)
  /\ UNCHANGED <<vars, resigned, strategy, tier, plan, raises>>

-----------------------------------------------------------------------------
(* The rest of the table.                                                  *)

(* The hand is not followed further once the bot has folded or is all-in.  *)
Playing == InProgress /\ Me \in CanAct(hand)

Overtaken == client' = [client EXCEPT !.fresh = FALSE]

(* The others bet and raise the least they may, or the whole stack.  The   *)
(* server takes the whole stack as a raise even when it leaves the raiser  *)
(* below the bet; the bet then drops, and those above it are asked again   *)
(* for nothing, or for less (hand.py:418-442).                             *)
RivalSizes(h) ==
  LET stack == h.chips[h.turn]
  IN  {Sized("bet", BigBlind), Sized("bet", stack),
       Sized("raise", h.current_bet + h.min_raise),
       Sized("raise", h.bet[h.turn] + stack)}

RivalMoves(h) ==
  {Do("check"), Do("call"), Do("fold")}
    \cup (IF raises < MaxRivalRaises THEN RivalSizes(h) \cup {Do("all_in")}
          ELSE {})

RivalActs ==
  /\ Playing /\ hand.turn # Me
  /\ \E d \in RivalMoves(hand) :
       /\ Accepts(hand, d)
       /\ HandBecomes(After(hand, d))
       /\ raises' = raises + (IF d.action \in {"bet", "raise", "all_in"}
                              THEN 1 ELSE 0)
  /\ Overtaken
  /\ UNCHANGED <<resigned, plan>>

RivalResigns(i) ==
  /\ Playing
  /\ i \in InHand(hand) \ {Me}
  /\ Cardinality(resigned) < MaxResignations(hand.n)
  /\ resigned' = resigned \cup {i}
  /\ HandBecomes(IF i = hand.turn THEN AfterFold(hand)
                  ELSE AfterForcedFold(hand, i))
  /\ Overtaken
  /\ UNCHANGED <<plan, raises>>

(* The turn clock runs out while the bot's request is on its way.          *)
ClockFoldsMe ==
  /\ Asks
  /\ hand.turn = Me
  /\ HandBecomes(AfterFold(hand))
  /\ Overtaken
  /\ UNCHANGED <<resigned, plan, raises>>

BotNext ==
  \/ PollAndDecide
  \/ Crash
  \/ PollFails
  \/ Accepted
  \/ Refused
  \/ RequestLost
  \/ RivalActs
  \/ \E i \in Seats(hand) : RivalResigns(i)
  \/ ClockFoldsMe

BotSpec == BotInit /\ [][BotNext]_botVars

-----------------------------------------------------------------------------
(* Properties.                                                             *)

(* The server refuses the decision as it was made, with nothing having     *)
(* happened at the table since the poll.                                   *)
RefusedFresh == Refused /\ client.at = "send" /\ client.fresh

(* After the flop a strategy decides on nothing the server refuses, be the *)
(* stack short or deep: every size is at least the least legal one and     *)
(* below the stack, a call has something to call and a check nothing.  The *)
(* exception is a bet that another player's last chips, sent as a raise,   *)
(* took down to the bot's own: the bot reads that it owes nothing as that  *)
(* it may open (strategies/, hand.py:313-458).                             *)
PostflopAccepted ==
  [][RefusedFresh =>
       \/ hand.phase = "preflop"
       \/ hand.current_bet > 0 /\ hand.current_bet <= hand.bet[Me]]_botVars

(* Where a bet stands but nothing is asked, as of a big blind or after     *)
(* such a raise, a decision to open is refused; but only Fox loses a hand  *)
(* by a refusal, and only before the flop: otherwise the fallback is the   *)
(* check that was free (__main__.py:148-151).                              *)
RefusalOnlyChecks ==
  [][RefusedFresh /\ client.asked >= 0
       => \/ strategy = "fox" /\ hand.phase = "preflop"
          \/ client'.d.action = "check" /\ MayCheck(hand)]_botVars

(* A bot does not fold where it could check, neither by its strategy nor   *)
(* by its fallback, as long as amount_to_call is not negative              *)
(* (__main__.py:150, strategies/).                                         *)
NoFreeFold ==
  client.at \in {"send", "fallback"} /\ client.fresh /\ client.asked >= 0
    /\ client.d.action = "fold" => ~MayCheck(hand)

(* As long as the connection and the server do not fail it, the bot leaves *)
(* a game early only for a reason outside of its decision: somebody moved  *)
(* between the poll and the request that was refused, or the dealer of a   *)
(* table of four or more resigned (__main__.py:148-153, client.py:124-161, *)
(* preflop_ranges.py:92-100).                                              *)
StopsOnlyIfOvertaken ==
  /\ client.at = "stopped" => ~client.fresh
  /\ client.at = "crashed" => hand.dealer \in resigned /\ hand.n > 3
=============================================================================
