---------------------------- MODULE OnchainGame ----------------------------
(***************************************************************************)
(* A funded on-chain game: the server's side of the escrow                 *)
(* (core/escrow_service.py, game_service.py) together with the contract,   *)
(* whose transactions are the actions of module Escrow.                    *)
(*                                                                         *)
(* Requests run in threads without locks.  One for the escrow waits for    *)
(* the attestation, for the factory's answer to what the address of the    *)
(* escrow will be, and for the audit log; one for the funding waits for    *)
(* the chain, participant by participant.  Each of these calls may fail.   *)
(* A configuration is known by the second it was built in, from which its  *)
(* deadlines follow; nothing else in it can vary.  The address of an       *)
(* escrow is a function of its configuration, so both have the same name.  *)
(*                                                                         *)
(* Players deploy one escrow.  Signatures cannot be forged: the factory    *)
(* takes only configurations, and the escrow only payouts, that the server *)
(* has signed.  What the game does with the chips is any distribution, one *)
(* with more chips than were dealt included: calls of a game that overlap  *)
(* can mint some, see module OffchainGame.                                 *)
(***************************************************************************)
EXTENDS Escrow, Payout, Sequences

CONSTANTS
  Requests,       \* bound: so many requests are in progress at a time
  StartingChips,
  Seconds,        \* bound: seconds until the last configuration is built
  MaxFailures     \* bound: calls of the chain or the audit log that fail

ASSUME OnchainAssumption ==
  /\ StartingChips \in Nat \ {0}
  /\ Seconds \in Nat \ {0}

VARIABLES
  players,   \* the wallets of game.players
  game,      \* started, game_over, and the chips of the players
  config,    \* escrow_config, escrow_address and funded of GameConfig
  request,   \* by request: what it waits for
  offers,    \* the answers of get_escrow_info
  signed,    \* the settlements handed out, with the escrow they are for
  deployed,  \* the configuration of the escrow on the chain
  second,    \* the clock while configurations are built
  failures

escrowVars == vars

serverVars == <<players, game, config, offers, signed>>

onchainVars == <<vars, serverVars, request, deployed, second, failures>>

Missing == 0

BuyIn == DepositAmount

MaxPlayers == Cardinality(Participants)

Full == Len(players) = MaxPlayers

(* A request keeps in cfg the configuration it built or read, or the       *)
(* address it asks for deposits, and in seen those it has been told of.    *)
Idle == [at |-> "idle", cfg |-> Missing, seen |-> <<>>]

Goto(r, step) == request' = [request EXCEPT ![r].at = step]

Done(r) == request' = [request EXCEPT ![r] = Idle]

OnchainInit ==
  /\ Init
  /\ players = <<>>
  /\ game = [started |-> FALSE, over |-> FALSE, chips |-> <<>>]
  /\ config = [escrow |-> Missing, address |-> Missing, funded |-> FALSE]
  /\ request = [r \in Requests |-> Idle]
  /\ offers = {}
  /\ signed = {}
  /\ deployed = Missing
  /\ second = 1
  /\ failures = 0

-----------------------------------------------------------------------------
(* The lobby.                                                              *)

(* join_game with a wallet; nothing in it waits before the registration.   *)
Join(p) ==
  /\ ~Full /\ ~game.started
  /\ \A i \in DOMAIN players : players[i] # p
  /\ players' = Append(players, p)
  /\ game' = [game EXCEPT !.chips = Append(@, StartingChips)]
  /\ UNCHANGED <<escrowVars, config, request, offers, signed, deployed,
                 second, failures>>

(* Seeded fault: the deposits need not be confirmed.                       *)
StartUnfunded ==
  /\ ~game.started
  /\ Len(players) >= 2
  /\ game' = [game EXCEPT !.started = TRUE]
  /\ UNCHANGED <<escrowVars, players, config, request, offers, signed,
                 deployed, second, failures>>

(* start_game: the deposits must be confirmed.                             *)
Start ==
  /\ config.funded
  /\ ~game.started
  /\ Len(players) >= 2
  /\ game' = [game EXCEPT !.started = TRUE]
  /\ UNCHANGED <<escrowVars, players, config, request, offers, signed,
                 deployed, second, failures>>

(* Bound: nobody ends with more than all the chips that were dealt.        *)
Stacks == 0 .. MaxPlayers * StartingChips

GameOver ==
  /\ game.started /\ ~game.over
  /\ \E chips \in [DOMAIN players -> Stacks] :
       /\ \E i \in DOMAIN players : chips[i] > 0
       /\ game' = [game EXCEPT !.over = TRUE, !.chips = chips]
  /\ UNCHANGED <<escrowVars, players, config, request, offers, signed,
                 deployed, second, failures>>

-----------------------------------------------------------------------------
(* get_escrow_info.                                                        *)

(* The configuration is there, or has to be built.                         *)
AskEscrow(r) ==
  /\ request[r] = Idle
  /\ Full
  /\ request' =
       [request EXCEPT ![r] =
          IF config.escrow = Missing
            THEN [Idle EXCEPT !.at = "attest"]
            ELSE [Idle EXCEPT !.at = "audit", !.cfg = config.escrow]]
  /\ UNCHANGED <<escrowVars, serverVars, deployed, second, failures>>

(* The attestation is there; the clock is read.                            *)
Build(r) ==
  /\ request[r].at = "attest"
  /\ \E t \in second .. Seconds :
       /\ second' = t
       /\ config' = [config EXCEPT !.escrow = t]
       /\ request' = [request EXCEPT ![r].at = "address", ![r].cfg = t]
  /\ UNCHANGED <<escrowVars, players, game, offers, signed, deployed,
                 failures>>

(* Seeded fault: the address is used in the answer and not kept.           *)
AddressNotKept(r) == config' = config

StoreAddress(r) == config' = [config EXCEPT !.address = request[r].cfg]

(* The factory has answered; the configuration is read again.              *)
TakeAddress(r) ==
  /\ request[r].at = "address"
  /\ StoreAddress(r)
  /\ request' = [request EXCEPT ![r].at = "audit", ![r].cfg = config.escrow]
  /\ UNCHANGED <<escrowVars, players, game, offers, signed, deployed, second,
                 failures>>

(* The answer; without an address the calldata cannot be built.            *)
Answer(r) ==
  /\ request[r].at = "audit"
  /\ Done(r)
  /\ offers' = IF config.address = Missing THEN offers
               ELSE offers \cup {[config |-> request[r].cfg,
                                  address |-> config.address]}
  /\ UNCHANGED <<escrowVars, players, game, config, signed, deployed, second,
                 failures>>

-----------------------------------------------------------------------------
(* check_funding.                                                          *)

AskFunding(r) ==
  /\ request[r] = Idle
  /\ config.address # Missing
  /\ request' = [request EXCEPT ![r].at = "funding", ![r].cfg = config.address]
  /\ UNCHANGED <<escrowVars, serverVars, deployed, second, failures>>

(* hasDeposited of the next participant, if there is an escrow.            *)
ReadDeposit(r) ==
  LET p == players[Len(request[r].seen) + 1]
  IN  /\ request[r].at = "funding"
      /\ Len(request[r].seen) < Len(players)
      /\ IF deployed = request[r].cfg
           THEN request' = [request EXCEPT ![r].seen =
                              Append(@, p \in hasDeposited)]
           ELSE Done(r)
      /\ UNCHANGED <<escrowVars, serverVars, deployed, second, failures>>

(* Seeded fault: one deposit is enough.                                    *)
AnyDeposited(seen) == \E i \in DOMAIN seen : seen[i]

AllDeposited(seen) == \A i \in DOMAIN seen : seen[i]

Confirm(r) ==
  /\ request[r].at = "funding"
  /\ Len(request[r].seen) = Len(players)
  /\ config' = IF AllDeposited(request[r].seen)
                 THEN [config EXCEPT !.funded = TRUE] ELSE config
  /\ Done(r)
  /\ UNCHANGED <<escrowVars, players, game, offers, signed, deployed, second,
                 failures>>

(* A call raises: the request ends there.                                  *)
CallFails(r) ==
  /\ failures < MaxFailures
  /\ failures' = failures + 1
  /\ request[r].at \in {"address", "audit", "funding"}
  /\ Done(r)
  /\ UNCHANGED <<escrowVars, serverVars, deployed, second>>

-----------------------------------------------------------------------------
(* get_settlement: the payouts of the players' wallets, signed.            *)
SignSettlement ==
  /\ game.over
  /\ config.address # Missing
  /\ signed' = signed \cup
       {[escrow |-> config.address,
         payouts |-> ComputePayouts(game.chips, BuyIn, StartingChips)]}
  /\ UNCHANGED <<escrowVars, players, game, config, request, offers, deployed,
                 second, failures>>

-----------------------------------------------------------------------------
(* The chain.                                                              *)

ServerUntouched == UNCHANGED <<serverVars, request, second, failures>>

(* The first depositor deploys what he was offered.                        *)
Deploy(p) ==
  \E offer \in offers :
    /\ CreateAndDeposit(p, DepositAmount)
    /\ deployed' = offer.config
    /\ ServerUntouched

(* The others deposit into the escrow they were told.                      *)
Follow(p) ==
  /\ \E offer \in offers : offer.address = deployed
  /\ Deposit(p, DepositAmount)
  /\ UNCHANGED deployed
  /\ ServerUntouched

ByWallet(payouts) ==
  [p \in Participants |->
     payouts[CHOOSE i \in DOMAIN players : players[i] = p]]

(* What settle asks of a settlement: the signature must be for this        *)
(* escrow, and the payouts add up to all it holds.  That the server's      *)
(* attestation is the one it was deployed with is not modelled.            *)
Settles(s) ==
  /\ s.escrow = deployed
  /\ Total(ByWallet(s.payouts)) = vault

SubmitSettlement(failing) ==
  /\ \E s \in signed :
       /\ Settles(s)
       /\ Settle(ByWallet(s.payouts), failing)
  /\ UNCHANGED deployed
  /\ ServerUntouched

(* Deadlines count from when the configuration was built, and are so far   *)
(* away that an attestation does not take as long.                         *)
TimePasses ==
  /\ config.escrow # Missing
  /\ \A r \in Requests : request[r].at # "attest"
  /\ Tick

OtherTransaction ==
  /\ \/ TimePasses
     \/ Gift
     \/ Expire
     \/ \E p \in Participants : Withdraw(p) \/ ClaimFailed(p)
  /\ UNCHANGED deployed
  /\ ServerUntouched

OnchainNext ==
  \/ \E p \in Participants : Join(p) \/ Deploy(p) \/ Follow(p)
  \/ Start
  \/ GameOver
  \/ \E r \in Requests :
       \/ AskEscrow(r) \/ Build(r) \/ TakeAddress(r) \/ Answer(r)
       \/ AskFunding(r) \/ ReadDeposit(r) \/ Confirm(r)
       \/ CallFails(r)
  \/ SignSettlement
  \/ \E failing \in SUBSET Participants : SubmitSettlement(failing)
  \/ OtherTransaction

OnchainSpec == OnchainInit /\ [][OnchainNext]_onchainVars

-----------------------------------------------------------------------------
(* Properties.                                                             *)

(* What the server keeps is well formed; a game that started is funded and *)
(* full, and what is funded has an escrow (game_config.py:12-25).          *)
OnchainTypeOK ==
  /\ \A i, j \in DOMAIN players : players[i] = players[j] => i = j
  /\ game.started => config.funded
  /\ config.funded => Full /\ config.address # Missing
  /\ {config.escrow, config.address, deployed} \subseteq 0 .. Seconds
  /\ game.chips \in [DOMAIN players -> Nat]
  /\ \A r \in Requests : request[r].seen \in Seq(BOOLEAN)

(* Once the server takes a game for funded, all buy-ins are in the escrow  *)
(* and stay there until a settlement or the settlement deadline, although  *)
(* the deposits were read one at a time while players deposited, deadlines *)
(* passed and refunds were made (escrow_service.py:193-214).               *)
FundedIsPaid ==
  config.funded =>
    \/ status = "ACTIVE" /\ hasDeposited = Participants
    \/ status = "SETTLED"
    \/ status = "EXPIRED" /\ now > SettlementDeadline

NothingMinted == Total(game.chips) <= MaxPlayers * StartingChips

(* An active escrow takes a signed settlement exactly if it is signed for  *)
(* this escrow and nobody sent the escrow tokens outside a deposit, as     *)
(* long as the game has not minted chips: in whatever order the wallets    *)
(* are listed its payouts are the pot, to the last token, also after chips *)
(* were lost.  With chips minted it may be refused, and one for another    *)
(* address, kept when two requests built a configuration, always is        *)
(* (escrow_service.py:121-125, 250-274, payout.py:25-41,                   *)
(* Escrow.sol:249-280).                                                    *)
SettlementAccepted ==
  \A s \in signed :
    status = "ACTIVE" /\ NothingMinted =>
      (Settles(s) <=> s.escrow = deployed /\ gifts = 0)

(* Once a configuration is kept and nobody is at work, the address of its  *)
(* escrow is known, unless a call failed: after such a failure requests    *)
(* for the escrow are refused for good (escrow_service.py:121-125, 144).   *)
ConfigHasAddress ==
  config.escrow # Missing /\ failures = 0
    /\ (\A r \in Requests : request[r] = Idle) => config.address # Missing

(* "The on-chain escrow contract address (deterministic via CREATE2)"      *)
(* (instructions.md:383): the address in an answer is that of the escrow   *)
(* which the configuration in the same answer deploys.                     *)
OffersAgree == \A offer \in offers : offer.address = offer.config
=============================================================================
