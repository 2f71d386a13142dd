# A verification project for monte-claude

monte-claude runs poker and dice tournaments that programs play against each
other over HTTP, for chips bought with an off-chain balance or with tokens held
by an escrow contract. This directory holds TLA+ models of its core, their TLC
configurations, and TLAPS proofs. Paths below are relative to `src/packages/`
unless they begin with `src/`; `poker/`, `dice/`, `core/` and `game_api/` are
directories of `server/src/`.

## The system

| Component | State | Operations | Interacts with | Hard behaviours | Correct if |
|---|---|---|---|---|---|
| Betting engine, `poker/hand.py` | stacks, bets, pot, who folded, who acted, turn, street | fold, check, call, bet, raise, all-in; blinds, streets and showdown follow by themselves | called by the tournament, which may fold a player behind its back | folds out of turn, short blinds and raises, several all-ins, odd chips | nobody is passed over or asked twice, the pot is what was put in, side pots pay what was matched, every hand ends |
| Tournament, `poker/game.py` | registered stacks, who resigned, dealer, current hand | register, start, act, resign, time out | engine; callbacks to recorder, settlement, event bus | a call can end a hand, a game, or several hands in a row | chips never appear; the game ends exactly when one is left, who then wins |
| Dice game, `dice/game.py`, `dice/round.py` | stacks, round players, bets, turn index, winner | register, start, bet, resign, time out | as the tournament | the turn index is not adjusted when a resignation shortens the order | somebody is always due; rounds end; only antes get lost |
| Escrow, `contracts/src/Escrow.sol`, `EscrowFactory.sol` | status, deposits, failed claims, token balance | create, deposit, settle, expire, withdraw, claim | ERC-20 token, Permit2, the admin's signature | deadlines racing transactions, failing transfers, fees, gifts | always solvent, exact refunds, payouts once, nothing locked in |
| On-chain service, `core/escrow_service.py`, `core/escrow.py` | escrow config, salt, address, funded flag | escrow info, funding check, signed settlement | escrow contract by RPC, game | chain state read and used later; overlapping first requests; partial failure | what it takes for funded is paid, and what it signs for the deployed escrow is taken there |
| Off-chain money, `core/game_service.py`, `settlement_service.py`, `balance_store.py`, `payout.py` | balances, settlement mark | join, start, settle, faucet | database, games | concurrent joins and claims, partial credits, restarts | no credit is made or lost; each buy-in is paid out once |
| Game manager, `core/game_manager.py` | games, configs, recorders | create, event callback, cleanup | everything | iteration while threads change the games | a running game is not dropped |
| Routers, turn clock, `poker/router.py`, `dice/router.py` | state versions, deadlines, extensions | HTTP handlers in a thread pool | games, without locks | version checked before the timeout is applied | an action applies to the state its sender saw |
| Event bus, web sockets, `core/event_bus.py`, `game_api/ws_router.py` | bounded queues | subscribe, publish, push | games, browsers | full queues, publishing from worker threads, the turn clock run by the connection itself, games removed while they are watched | whoever is subscribed and waits has been sent a state from after the last event |
| Recorder, history, `core/game_recorder.py`, `poker/replay.py` | event log | append, replay | database | replay may differ from the hand | replay shows what happened |
| Limiter, cache, `core/rate_limit.py`, `core/cache.py` | timestamps, entries | check, get, set | handlers | window boundaries | at most so many per window |
| Bot, `bot/bot/` | plan for the hand, last polled state | poll, decide, act, retry, fall back | server | sizes at short stacks, retrying what was already done, acting on a state that has passed | what it decides is accepted; it never folds for nothing and leaves only for outside reasons |
| Frontend hooks, `frontend/src/hooks/` | snapshot queues | ingest, release, replay | server | late and duplicated snapshots | no unfinished hand is shown |
| Accounts, apps, stores, attestation, token, infrastructure | rows, files | single statements or calls | | | |

## The modules

| Module | Models | Correspondence |
|---|---|---|
| `Totals` | sums of chips and tokens | `Total(f)` is a cardinality, so proofs need no recursion |
| `PokerBetting` | `Hand` as a record | each method that changes a hand is an operator from hand to hand; guards are the `May...` operators |
| `PokerHand` | one hand from deal to payout | an action for each kind of `do_action`, the forced fold of `Game.resign`, and the showdown |
| `PokerReplay` | `apply_event` of `poker/replay.py` next to the hand | each action of `PokerHand` also applies the events it reports to a `GameSnapshot` |
| `PokerGame` | `Game` | one action per method call, with all it triggers: the showdown, write-back, game end, redistribution and next deal belong to the action |
| `Tournament` | what a tournament promises | abstract: who is out stays out, nobody who is out gains, chips are never made, play ends when one is left |
| `PokerService` | the poker routes, versions and turn clock around `Game` | composes `PokerGame` with request threads: a request is received, reads the clock, folds a late player, is served; a call that changes the table, and an answer to a poll, have steps of their own, between which other requests come in |
| `LivePush` | `GameEventBus` and the web sockets | calls of the game publish; the coroutine of a connection subscribes, takes an event, runs the clock, builds, sends; the cleanup of completed games unsubscribes |
| `DiceGame` | `DiceGame`, `resolve_round` | as `PokerGame`; the round a bet or resignation completes is resolved in the same action |
| `Payout` | `compute_payouts` | a function from the chips at the end to payouts |
| `OffchainGame` | credits from the faucet to the settlement | composes `Payout` with joins, starts, calls at the table and settlements of concurrent requests; a step is what a request does between two calls of the database |
| `Escrow` | `Escrow.sol` with its deployment | one action per transaction that succeeds |
| `OnchainGame` | `core/escrow_service.py`, the funding gate of the start | composes `Escrow`, whose actions are the transactions, and `Payout` with the requests of the server |
| `BotView` | what the server shows a player, and what the strategies share | `View` is the response of the state route; sizes, calls and preflop tables are operators on it |
| `BotShark`, `BotFox`, `BotWolf`, `BotHawk` | the four strategies | each method is a set of the decisions it may return for a view |
| `Bot` | game loop and client of the bot | composes the strategies with `PokerHand`, whose `hand` it shares: poll and decide, send, retry, fall back, while others act |
| `MCBot`, `MCOffchainGame`, `MCOnchainGame` | | stacks of the tables and symmetry sets for the runs |
| `TotalsProofs` | | lemmas about sums, and the theorem about payouts |
| `PokerBettingProofs` | | what each operator of `PokerBetting` does to a sound hand |
| `PokerHandProofs` | | theorems about `PokerHand`, `PokerReplay` and `Bot`, which are about one and the same hand |
| `PokerServiceProofs` | | theorems about `PokerGame`, `Tournament` and `PokerService` |
| `OnchainGameProofs` | | theorems about `Escrow` and `OnchainGame` |
| `DiceGameProofs`, `OffchainGameProofs`, `LivePushProofs` | | theorems about the module named |

Each operator called a *seeded fault* is a wrong version of the definition after
it. Nothing uses it; put in place of that definition it breaks a property, which
shows that the property notices such a bug.

### Poker

Abstractions common to the poker modules: cards are the ranking they lead to at
the showdown, so every outcome, ties included, is possible; `is_all_in` is
"without chips"; action records, chat, hand numbers and notifications carry no
control and are left out. In `PokerHand` and `PokerGame` a timeout of the poker
clock is an ordinary fold; `PokerService` models deadlines, extensions and
versions. One of the dice clock is an ordinary bet on "high". The check of the
table's capacity is made by the caller of `register`; the constant `MaxPlayers`
stands for it. The branch of `_start_new_hand` for fewer than two players cannot
be reached: both callers check first.

In `PokerReplay` the snapshot gets the events in the order in which the code
reports them: the action with what the bet comes to, then a street or the end of
the hand. When nobody can bet any more the missing streets follow each other in
one call, and the snapshot is compared after the last of them. Hole cards and
board are left out.

In `PokerGame` requests follow one another. A hand that is complete as soon as
its blinds are posted is finished by a recursive call; one level of it is the
action `RunOut`, and no other action is enabled until the recursion returns,
because the hand is not in a betting phase.

In `PokerService` the actions of `PokerGame` become parts of the steps of
requests. FastAPI runs each of the poker handlers in a thread of a pool, and the
game has no lock, so the steps of different requests interleave. `Receive` stands
for the checks up to and including that of `expected_version`; `Clock` and
`FoldLate` are the two halves of `_check_timeout`, between which another request
may change whose turn it is; `Perform` and `Drop` end a request. Whether
`time.time()` has passed the deadline is the variable `late`: time may pass at any
moment of a turn, and a new turn starts anew.

The variable `call` says how far the call that changes the table has got, because
the table and its version do not change together. `do_action` changes the hand
(`DoAction`), then raises the version (`Grow`, `poker/game.py:219`), then writes the
hand to the database and deals the next one (`FinishRunOut`, lines 395 to 417 and
338). A resignation does the same when it is the resigning player's turn; out of
turn it folds, pays and deals first and raises the version last (`GiveUp`,
`FinishRunOut`, `GrowLast`, lines 261-274). `start` puts the game up (`StartGame`)
before the first hand (`Deal`) and never raises the version. Between any two of
these steps clocks are read, polls answered, visits and extensions served, actions
received. An answer to a poll has two steps: `Look` is what it reads of the hand
first, `Answer` the version and the rest (`core/state_builders.py:189`, 219-228).

A version is only ever compared with a polled one, so `view` keeps for each player
what such a comparison can tell. It is "old" once the version has grown. Until then
it is "same", or "changed" once the table has changed: `VersionTellsTable` says that
no version is left that means "changed" when no call is under way. Two kinds of
polls get a version that does not stand for what they show, and are kept apart: one
whose table changed between `Look` and `Answer` ("torn"), and one made
when the version has its last value but the next hand is still to be dealt ("hasty":
the version says nothing of that deal). `Observers` bounds the players who poll;
a poll of another player is no more than a visit.

Calls that change the table follow one another in this model; those that overlap at
the writes of the database are in `OffchainGame`, and pay a hand twice (finding 2).
`action_timeout` is positive.

### Live push

An event only tells a connection that something happened: the state is built
after the event was taken from the queue, and no part of the event is sent. So a
queue is represented by its length, and the state sent last by what the
properties ask: whether it shows the end of the game, and whether an event was
published since it was built. Calls of the game run in threads, so their steps
fall anywhere, also between the steps of a coroutine that has the event loop; two
coroutines never have it at once (`LoopIsFree`). `EndGame` and `GameOver` are
apart, because the record and the settlement of the game come in between; they
are taken to succeed. Begin and end of a call are not told from its other events.

Being connected and being subscribed are not the same. A connection is accepted
before it subscribes, and `cleanup_completed` takes the subscribers of the games it
removes from the bus, while their connections stay open. It runs at the end of a
game before the event of that end is published (`core/game_manager.py:142-145`,
188-202), and removes completed games but the five created last, so it may be the
game that has just ended. `Cleanup` is therefore possible from `EndGame` on. The
properties of the passing run speak of those who are subscribed; that the others are
not shown the end is noted below.

`LastEventIsShown` counts events and not changes: events are published before the
turn moves on, before the version grows and before the next hand is in place
(`poker/hand.py:102`, `poker/game.py:219`, 338), so a state built at that moment
is one from before the end of the call. A publish is one step. The code iterates
over a set that connections change on another thread, and its comment "Thread-safe
for single-threaded asyncio use" (`core/event_bus.py:48`) does not cover that.

### Money

In `OffchainGame` a request waits whenever it calls the database: to debit or
credit, and in the middle of the methods of `Game`, whose event callback records
events. Between two such calls it runs without interruption in the model. The
records of a finished hand, of eliminations and of the next hand follow one
another and count as one call; a start counts as one step. Poker is reduced to
what the credits depend on: a bet moves any number of chips, the turn goes to
anybody who is in, a showdown has any winner; folds, resignations and the end of
a hand do what `poker/game.py` does. Any call may fail, before or after its
effect, which ends the request (only `ValueError` is caught). A restart keeps the
rows of the database and forgets the game. `Overlap` says whether requests may be
at the table at the same time; the passing run has it `FALSE`, because two calls
that end one hand pay it twice (finding 2), and with minted chips nothing about
credits could be said. Claims and joins overlap with everything in both runs.

In `OnchainGame` a configuration is known by the second in which it was built,
since its deadlines follow from the clock and nothing else in it varies; an
address is a function of the configuration and has the same name. One escrow is
deployed. Signatures cannot be forged. The contract refuses a signature for another
address or for payouts that are not its balance (`Settles`), and both occur: the
address kept may be that of a configuration that was replaced (finding 3), and the
chips at the end of the game are any distribution, lost and minted ones included
(finding 2). `SettlementAccepted` says when a signature is taken: without minted
chips (`NothingMinted`) exactly if it is for the deployed escrow and nobody sent that
one tokens. Each call of the chain, the
attestation or the audit log may fail, which ends the request.

In `Escrow` a transaction that reverts is no step. The token is the environment:
a transfer may bring less than asked for, anybody may send tokens to the escrow,
each push of a settlement may fail. Settlements are any table of payouts that
adds up to the balance, since the contract leaves the choice to the signer. A
payout table has one entry per participant (the contract would take several).
Who pays for a participant does not matter to the contract and is not kept.

### Bots

A strategy is modelled by the set of decisions it may return for a view: equity,
board texture, opponent profiles and random mixes only choose among branches, so
each is a free choice; stack, pot, bets, position and the bot's own plan decide
which branches there are and what they size. Sizes are computed as in the code,
with its rounding. The bot sits in seat 0. The others check, call, fold, go all-in,
or bet and raise the least they may or their whole stack; they may resign. A raise by
the whole stack may take the bet down to the bot's own or below, after which the bot
is asked for nothing, or for less, though there is a bet. One hand of `PokerHand` is
played and it is not followed further once the bot has folded or is all-in. A bot
crashes on its turn where the dealer has resigned and three or more players are
left, because it looks the dealer up among those who have not
(`bot/preflop_ranges.py:92-100`); more may resign afterwards, so
`StopsOnlyIfOvertaken` says of a crashed bot only that there were more than three
players. What `classify_hand` says of the cards is asked only before the flop and
forgotten after it. A request may be lost before or after it is carried out. What
the bot does then depends on the answer: after a gateway error or 429 it sends the
same again, up to its last attempt, while a 500, a timeout or an error of the
transport ends it at once (`bot/client.py:104-111`, 143-157; `Unanswered`,
`PollFails`). A bot that ended like this is "failed", and `StopsOnlyIfOvertaken` is
about the others: those that stop although connection and server did not fail them.

## The runs

| Run | Bounds | Shows |
|---|---|---|
| `poker_hand` | 2 and 3 seats, stacks of 1 to 4, blinds 1 and 2, every dealer | the invariants and step properties of a hand; each action shortens it (`HandShortens`); its replay shows it; `HandEnds` under fairness |
| `poker_game` | 3 players with 3 chips, blinds 1 and 2 | whole tournaments; `PokerGame` implements `Tournament` |
| `poker_service` | 2 players with 2 chips, blinds 1 and 2, 2 requests, the polls of player 1, 1 extension | versions vouch for the table; `TableKeepsMoving` under fairness, through every step of requests and calls |
| `live` | 2 connections, 1 request, queues of 2 | the subscribed are shown the last event; `GameOverIsShown` under fairness |
| `dice` | 3 players with 7 chips, ante 3 | whole games; `RoundsComplete` under fairness |
| `bot` | tables of 2 and 3 with stacks of half a small blind or 16 big blinds, at 2 also of 2, one of 4 with stacks of 3.5, 1 raise of the others, 1 resignation at the table of 4, 2 attempts | all four strategies: accepted after the flop unless the bet was taken down, no free fold, no early end |
| `offchain` | 3 users, 2 requests, 2 seats, buy-in 3, 2 chips, 3 claims, 1 failure, 1 restart | credits are conserved; a game that is over is settled |
| `onchain` | 2 players, 2 requests, deposit 3, 2 seconds of configurations, both deadlines, 1 gift, 1 failure | what the server takes for funded is paid; which of its signatures the escrow takes |
| `escrow` | 3 participants, deposit 3, rake 25 %, deadlines 1 and 2, one gift | the invariants of the escrow; `NothingLockedIn` under fairness |
| `stale_action` | 2 players with 3 chips, 1 request | violated: the timeout is applied after the version was checked |
| `settled_once` | as `offchain`, requests overlap at the table, no failures | violated: a hand that two requests end is paid twice, and so is the game |
| `offers_agree` | as `onchain`, no failures or gifts | violated: the address of one configuration with another one |

Why the bounds are enough. With three seats the small blind, the big blind and
the dealer are different players and there can be two side pots and a main pot;
with two seats the heads-up rules apply, and hands turn into these as players
fold or drop out. Stacks of one to four chips around blinds of one and two give
blinds that cannot be paid in full, all-ins below, at and above the current bet,
minimum raises and raises below the minimum, ties with odd chips. Three chips
each give tournaments of many hands, with eliminations, resignations of two
players in one hand, and remainders at redistribution. Seven chips and an ante of
three leave dice players with chips but without an ante, and pots that two
winners cannot share evenly. Two requests suffice for every race of one step
against another request; two players are each other's next player, so that one
who was folded is on turn again right away, which is where stale actions do harm.
Blinds of one and two leave players without chips, so that some hands are over as
they are dealt, inside the call of a request, while others are played. A hand that
goes on after a resignation out of turn needs a third player: for that case versions
rest on `VersionCorrect`.

Two queues of two events fill up while a connection is busy, and one connection holds
the loop while the other waits. Bots get the stacks where their sizes change: too
short to call, deep enough for every fraction of the pot, and at four players, where
positions are looked up, between the two; heads-up an opponent with one big blind left
after the flop can raise to the bot's bet or below it. Three users compete for two
seats, so that a join can fail after its debit; a buy-in of three against two chips
per player gives payouts that have to be rounded, and the faucet grants just one
buy-in. Two seconds are the least in which two configurations differ. A deposit of
three at 25 % has a rake that rounds down on most payouts; time runs before, at and
after both deadlines. A larger table repeats these cases; for the properties with a
theorem the bounds do not matter.

`CHECK_DEADLOCK` is off because the systems stop: a hand that is paid, a game
that is over, an escrow that is empty, requests that have all returned.

### Fairness

* `PokerHand`, `PokerReplay`: the player on turn eventually acts. Whoever reads the
  game runs `_check_timeout`, which folds him once his time is up; players poll.
  The showdown happens inside the request that reaches it. Resignations are not fair.
* `PokerService`: time passes, the game is visited when no request is in progress
  (`TimeIsUp`, `Watch`), and a thread that can go on does (`Clock`, `FoldLate`,
  `Drop`, `Look`, `Answer`, `Deal`, `Grow`, `FinishRunOut`, `GrowLast`). Nothing is
  assumed of polls, actions, resignations or extensions: players may poll, extend or
  stay away for ever. The fairness of `FoldLate`, `Deal` and `FinishRunOut` is written
  out with their enabling conditions, because TLC takes very long to evaluate ENABLED
  of an action that deals a hand.
* `LivePush`: calls return and publish what they still have to; a coroutine that
  has the loop goes on; a send comes to an end. `Receive` and `Subscribe` are
  strongly fair: the loop is taken and freed again and again, but it runs the
  coroutines that are ready in turn, and a queue filled from another thread is seen at
  the latest when the loop wakes up for a ping. Nothing is assumed of requests and clients.
* `DiceGame`: as in `PokerHand`, with a bet on "high" instead of the fold.
* `Escrow`: time passes; somebody with money at stake calls `expire`, which is
  open to anybody; a participant withdraws or claims, repeating the transaction
  until the token lets it through. Deposits and settlements are not fair: the
  property says that nothing is locked in even if no settlement ever comes.
* `Bot`, `OffchainGame` and `OnchainGame` are checked for safety only.

### Findings

Three statements of the documentation or of comments are not what the code does;
each has a run of its own.

1. "If the game state changed between your poll and your action (e.g., a timeout
   auto-folded someone), the server returns HTTP 409 Conflict"
   (`src/instructions.md:684`): the version is compared before the timeout is
   applied (`poker/router.py:227-233`), so a late player may be folded and his
   action performed in the next hand (`stale_action`).
2. "Idempotent - does nothing if already settled" (`core/settlement_service.py:19`)
   and "The sum of all payouts equals total deposits" (`core/payout.py:15`): while
   one request waits for the record of a fold or of the end of a hand, a second fold
   or a resignation pays the pot again and ends the hand again
   (`poker/game.py:263-271`, 395), and the settlement is marked only after all its
   credits (`settlement_service.py:29-33`). More is paid out than was bought in
   (`settled_once`).
3. "The on-chain escrow contract address (deterministic via CREATE2)"
   (`src/instructions.md:383`): of two first requests for the escrow each builds and
   stores a configuration, and the address that is kept may be that of the other one
   (`core/escrow_service.py:92-125`, `offers_agree`). The deployed escrow refuses a
   settlement that is then signed for that address.

Observed on the way, without a run:

* Chips that a folded player put in beyond the highest bet of those still in belong
  to no side pot (`poker/hand.py:490-535`) and vanish, although
  `server/tests/test_game.py:267` has "Total chips are conserved after resignation
  and redistribution." `LostChipsAreOverbets` and `ChipsAccounted` show that this is
  the only way chips get lost.
* "Resign from the game. Forfeits chips to remaining players." (`poker/game.py:228`):
  not in the last hand, after which nothing is redistributed (line 423).
* A raise by the whole stack may be lower than the bet (`poker/hand.py:418-442`), and
  a short big blind leaves `current_bet` below the small blind (line 158), although
  it is the "highest bet this round" (line 72). `amount_to_call` is 0 or negative
  then: a bot opens where it may only raise, and is refused, or folds where a check
  is free (`bot/strategies/shark.py:272-274`).
* "If someone won, total chips stay at 2000." (`server/tests/test_dice_game.py:171`):
  a player who bets and then resigns shifts the order, the next one is skipped, and
  his ante is in no pot (`dice/game.py:414-426`, `dice/round.py:52`). A player whose
  last chips went into the ante counts as eliminated should the game end by a
  resignation before his bet (lines 428-437).
* "Auto-fold current player if time expired." (`poker/game.py:86`): two requests that
  see the same timeout fold him and the player after him (lines 91-97).
* "The value should match the `state_version` from your most recent state poll"
  (`src/instructions.md:684`): an answer reads the hand first and the version last
  (`core/state_builders.py:189`, 219-228), without a lock, so a poll during another
  request's call may show the table from before and carry the version from after it,
  and an action on it is not refused. The state sent over a player's web socket has
  the same order (`game_api/ws_router.py:178`).
* "receives personalised game state on every event" (`game_api/ws_router.py:124`): the
  end of a game removes completed games before it is published
  (`core/game_manager.py:142-145`, 188-202, `poker/router.py:121-123`). A game that was
  created before five others that are completed is itself removed, and those who are
  connected to it are never shown its end.
* A version outlives the hand that ended: between `poker/game.py:219` and line 338 the
  complete hand already has the version of the next one, and `start` deals the first
  hand without a new one. An action polled then passes the check in the next hand.
* A bot ends at its first 500, timeout or transport error, of a poll or of an action
  (`bot/client.py:104-111`, 143-157), though it repeats after gateway errors.
* A record of the end of a hand that fails leaves the complete hand in place, and the
  next resignation pays its pot again (`poker/game.py:263`, 395). A settlement that
  fails leaves `game_over` set, unsettled for good and not published
  (`core/game_manager.py:142-145`).
* Two joins may pass the check of the capacity for one seat (`core/game_service.py:83`).
* Fox limps with the strongest hands by a check where there is a bet to call, in the
  blinds, is refused and folds (`bot/strategies/fox.py:166-175`).
* After a gateway error the bot repeats its action without a version, and what was
  carried out before may be done again in its next turn (`bot/client.py:142-157`).
* Poker states carry no `state_version` (`poker/models.py:115`), without which the
  frontend drops all that come by web socket (`use-game-stream.ts:49-50`).
* The winner is stored as NULL: the event has `winner_name` (`poker/game.py:430`),
  and `winner` is read (`core/game_manager.py:141`).
* The cleanup of old games iterates over a dictionary that other threads change
  (`core/game_manager.py:190`).
* The dealer button may stay with the same player when somebody is eliminated
  (`poker/game.py:436`, 323).

## The proofs

`tlapm` checks every theorem for all values of the constants allowed by the
named assumptions: `BlindsAssumption` (1 <= small blind <= big blind),
`TableAssumption` (at least two seats, stacks of at least one chip),
`BotAssumption` (tables and stacks within those bounds, one attempt at least),
`GameAssumption` (room for two players, who start with chips),
`ServiceAssumption` (a number of extensions), `DiceAssumption` (room for two players,
chips to start with, an ante they can pay), `EscrowAssumption` (what `initialize`
requires of a configuration, and naturals for the bounds), `OnchainAssumption`
(chips to start with, a second to build a configuration in), `OffchainAssumption`
(finitely many users and requests, two seats, a positive buy-in, chips to start
with) and `QueueAssumption` (a queue has room for an event). TLC
evaluates each of them in a run.

**Totals and payouts** (`TotalsProofs`). Whatever is proved about pots, balances
and payouts needs that changing one value of a function changes its total by the
difference. It is derived from cardinalities: the tokens `<<x, k>>` of the changed
entry are in bijection with `1..f[x]`, the others are disjoint from them
(`TotalSplit`, `TotalUpdate`). Monotony, addition, scaling, reordering and totals
by row and by column follow, the last of them by choosing a smallest set of rows
that would violate it, since induction is out of reach. `PayoutsComplete`: payouts add
up to the buy-ins, because each is rounded down from a share of chips of which there
are not too many, and the first of the largest gets the rest.

**A hand** (`PokerBettingProofs`, `PokerHandProofs`). `TypeOK`,
`PotIsContributions`, `TurnOwesAction`, `ActedHaveMatched` and `ChipsAccounted` are
invariants; `StreetsInOrder`, `ShowdownPays` and `HandShortens` are properties of
steps.
`TurnOwesAction` is not inductive: that
the first player able to act behind the turn has not acted yet holds only because
those who acted sit in one run of seats that ends at the turn. `HandInv` says
that `stacks` is well formed and `hand` is `Sound`: counting round from the turn,
everybody who still owes an action comes before everybody who has acted
(`Ordered`), those who acted have matched (`Matched`), pot, bets and stacks
agree (`Kept`), and a hand that is over holds the stacks but for what no side pot
reached (`Settled`). It is inductive;
a lemma for each operator of `PokerBetting` shows that it takes a hand with the
invariant to one, and the step proof has a case for each action. The side pots are
summed as a table of players and bet levels: by columns it is what each put in up to
the top level, by rows what is paid out. `ReplayInv` adds that the snapshot shows the
hand and holds all the chips of the table; every step of a replay is one of a hand
(`ReplayPlaysHand`), so that the run, which checks the invariants in `PokerReplay`,
checks what is proved.

`HandTerminates` proves `HandShortens`: every action lowers `StepsLeft`, a count that
is never negative. It is a number of three digits: the chips not yet paid in plus the
players still in; the streets to come; the players who have not acted. A fold or a
payment lowers the first (`FoldNearer`, `PaymentNearer`: a raise that makes everybody
act again has cost chips), the end of a round the second, a check the third
(`TurnShortens`, `CheckNearer`), and `LowerCount` is the arithmetic. So a hand of any
number of players has at most as many actions as `StepsLeft` counts at the deal. Of
`HandEnds` only the fairness is then left to TLC, and that an action is possible while
the hand goes on, which a fold always is.

**The bot** (`PokerHandProofs`, its second half). Whether a strategy's size is legal
depends on more of the street than `Sound` says. `BetsSound` adds it: nobody has more
in the round than in the hand; every raise has a least size; and after the flop a
round without a current bet has no bets at all and at least the big blind as its least
size. Each operator of `PokerBetting` keeps it (`FoldBets` to `ForcedFoldBets`), also
where a raise by the last chips lowers the bet (`poker/hand.py:418-442`).

The second part is the strategies: for a view that can occur (`Seen`), each decision
of each of them is `Sensible`, so that nothing free is folded unless less than nothing
is asked, and after the flop, or where there is something to call, it `Fits`: a check
owes nothing, a call pays something, a size lies between the least legal one and the
stack (`MovesFit`; before the flop all but Fox). What fits is accepted where bets are
sound (`FittingAccepted`), except a bet where there is one although nothing is asked:
by a big blind, or after a raise that took the bet down. Hence the exception in
`PostflopAccepted`, and `RefusalOnlyChecks`, which says that it costs no hand. The
third part is the client: `BotInv` says that a request nobody has overtaken is
`Current`, that is, made on the state the table is still in. What ends the bot at once
makes no difference to it: a bot that failed asks for nothing. From it follow the four
properties of the run, for any table, stacks, blinds and number of attempts and
whatever boards, equities and opponents the strategies see (`FoldsNothingFree`,
`StopsRightly`, `PostflopCorrect`, `RefusalsCorrect`). `BotPlaysHand` shows that
whatever reaches the server, late or twice, is a step of `PokerHand` or none, so all
that is proved of hands holds with bots at the table; it needs `BetsSound` too, for
the bound on the size of a raise.

**Tournaments and requests** (`PokerServiceProofs`). `GameInv` relates tournament and
hand (`TableSound`): the hand is `Sound` with the stacks the players brought, each
seat belongs to one player who came with chips, nobody alive lacks one, and who
resigned has folded. Its step cases are what can become of a hand (it goes on, it ends
and the next is dealt, it ends the game), shared by actions and resignations. From it
follow the properties of `PokerGame`, its type invariant (`GameTyped`) and the
refinement: `TournamentImplementsPromise` maps the initial state and every step, a
resignation that ends a hand, shares out stacks and deals the next one included, to a
step of `Tournament` or a stutter. In `PokerService` the same holds between the steps
of a call: `StagedInv` says that the tournament is sound whenever there is a hand, so
nobody who comes in meanwhile finds a seat without its player (`ServiceSeats`). A
resignation may leave one player who is still in while its hand goes unfinished, which
is why soundness cannot ask for two; `TwoGoOn` gives it back where the next hand is
dealt.

`VersionCorrect` proves `VersionTellsTable`. It is not inductive, as in the middle of
a call views are wrong until the version grows. `VersionInv` adds that this is only
so while the call has still to raise it ("acting", "resigning"), and that after its
last version, with a hand still to come, nobody has a view that this hand could make
wrong: who polls then is hasty.

**The dice game** (`DiceGameProofs`). `TurnIsDue` is not inductive: a resignation
shortens the list the turn is an index into. `DiceInv` says that everybody who has bet
and is still in sits before the turn (`Going`); leaving only moves players forward
(`PlaceShrinks`), so the turn never comes back to one of them, and every index into the
list is somebody's place (`SomebodyAt`). `OnlyAntesGetLost` is shown operator by
operator (`Loses`): that a pot somebody wins is paid out to the last chip, the odd
chips included, is `PotPaid`, which counts the winners who get one more. The rest are
the antes of those who resigned after they had paid, of a pot nobody wins, and of a
round that the end of the game cuts off. `OverWhenNobodyCanPlay` needs that no winner
is named before the end.

**The escrow** (`OnchainGameProofs`, its first part). `EscrowInv` is the five safety
invariants together, with `Bookkeeping`: before a settlement nobody has a claim, and
before its deployment the escrow has no deposits. Solvency alone is not inductive,
since a withdrawal needs to know that all earlier ones were exact; exactness of the
refunds needs that `depositCount` agrees with the entries as long as nobody has
withdrawn.

**On-chain games** (`OnchainGameProofs`, its second part). What the server knows of
the escrow is old by the time it is used, so `ServerInv` says of the escrow only what
cannot be undone: a deposit that was seen has been made, and is still there, was
refunded or went into a settlement (`HasPaid`); an escrow that expires early was never
full (`EarlyExpiry`). From this a list of deposits read one by one, while they change,
still proves the pot complete (`FundingCorrect`). With `PayoutsComplete` a signed
table adds up to that pot, unless chips were minted, so the deployed escrow takes it
if the signature is for its address (`SettlementsFit`); `GameRespectsContract` shows
that the game makes no step the contract forbids, which carries the theorems about the
escrow over.

**Off-chain games** (`OffchainGameProofs`). `GameInv` has the types and what a
request that goes on relies on: its hand is still there if it is the current one,
its payouts have an entry for each seat. It needs no assumption about overlaps,
and neither do `OffchainTyped` and `GameGetsSettled`: whoever sets `game_over` also
waits to announce it (`BeingSettled`). Conservation of credits does: `BooksKept` says
how far a settlement has got. While a request pays, what has been paid is the total
of the payouts before the next one, nobody else is at the table (`Alone`), and before
the game is over nothing is paid at all. When nothing is unpaid any more the pot is
empty by `PayoutsComplete`. The theorem assumes `~Overlap`; without it finding 2 is a
counterexample.

**Live push** (`LivePushProofs`). `LastEventIsShown` speaks of a subscribed connection
that waits; `NothingMissed` also of one that is sending, and with the types of the
variables it is inductive: a connection subscribes before its first state, and what
the cleanup takes from the bus is no longer spoken of. A publish leaves something in
each queue, which is where `QueueAssumption` is needed; a state is built only after an
event was taken.

**Only model-checked.** `HandEnds`, `RoundsComplete`, `NothingLockedIn`,
`TableKeepsMoving` and `GameOverIsShown` are liveness properties under fairness,
which the prover cannot do; of the first, `HandTerminates` proves what does not depend
on fairness. Every other property of the passing runs is stated by a theorem. What the
theorems say of a bot holds of the decisions as modelled: equities and boards, which
only choose among them, are not computed.

## What is not modelled, and why

The list of components in `PROJECT.json` gives the reason for each. In short:
hand evaluation has too many inputs for TLC, and the equities, boards and opponent
profiles of the bots rest on it; rate limiter and cache are sequential code under one
lock; accounts, stores, apps, attestation and infrastructure have no protocol of
their own; the frontend presents what it is sent; cryptography is taken as given. The
lobby, chat and the dice routes are left out of the modules
of their components.

## The plan

1. Betting engine, tournament and its abstract promise, requests and turn clock,
   dice game, escrow contract; first theorems. *Done.*
2. On-chain game composed with the contract; credits of off-chain games with
   failures, restarts and interrupted calls; payouts; bots; event bus and web
   sockets with a first theorem; replay. *Done.*
3. Proofs: all safety properties of hands, replay, tournaments and their requests,
   the dice game, escrow, on-chain and off-chain games and live push; the refinement
   of `Tournament`. *Done.*
4. Proofs: all properties of `Bot`, sizes included; a hand comes to its end. *Done.*

Theorems are ordered by what others rest on; no module uses recursive operators, so
that all can be proved about.
