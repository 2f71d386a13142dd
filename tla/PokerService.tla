---------------------------- MODULE PokerService ----------------------------
(***************************************************************************)
(* A poker game as its clients meet it: requests that poll the state, act, *)
(* resign, watch or ask for more time (poker/router.py), the version that  *)
(* guards an action against a stale view, and the clock of each turn.      *)
(*                                                                         *)
(* Each request runs in a thread of its own and no lock is held between    *)
(* its steps.  An action has these: its version is checked; the clock is   *)
(* read; if the turn was over, whoever is on turn then is folded; the      *)
(* action itself.  A poll has the second and third, then looks at the table*)
(* for the first part of its answer, and then at the version and the rest. *)
(* A visit of a spectator has only the second and third.                   *)
(*                                                                         *)
(* A call that changes the table has steps of its own: it changes the hand,*)
(* then raises the version, and then, if that was the end of the hand,     *)
(* writes to the database and deals the next one; a resignation out of     *)
(* turn raises the version last, and the start of a game never does.       *)
(* Between any two of these steps the other requests come in, read the     *)
(* clock, poll and ask for more time.  Calls that change the table follow  *)
(* one another here; module OffchainGame has them overlap.                 *)
(*                                                                         *)
(* The version only grows and is only compared for equality with one that  *)
(* was polled.  So it is represented by what these comparisons can tell:   *)
(* for each player, whether it has grown since he polled and, if not,      *)
(* whether the table has changed all the same.                             *)
(***************************************************************************)
EXTENDS PokerGame

CONSTANTS
  Requests,   \* bound: so many polls, actions and visits are in progress
  Observers,  \* bound: the players who poll; polls of others are as visits
  Extensions  \* extensions_per_player

ASSUME ServiceAssumption == Extensions \in Nat

VARIABLES
  late,        \* time.time() > turn_deadline
  extensions,  \* _time_extensions
  call,        \* how far the call that changes the table has got
  view,        \* by player: the version and the table since his last poll
  request      \* by request: what it wants, for whom, and its next step

gameVars == vars

clockVars == <<late, extensions>>

serviceVars == <<vars, clockVars, call, view, request>>

(* The next step of the call: none is under way; the game has started and  *)
(* the first hand is to come; the version is to be raised after an action  *)
(* ("acting") or last of all ("resigning"); the rest of a finished hand    *)
(* and the next one are to come.                                           *)
Calls == {"none", "starting", "acting", "finishing", "resigning"}

(* "old": the version has grown since the poll.  Else it has not, and      *)
(* nothing on the table has changed since ("same") or something has        *)
(* ("changed"), unless the poll itself was "torn", put together from the   *)
(* table before and after a change, or "hasty", made when the version had  *)
(* its last value but a hand was still to come.                            *)
Views == {"old", "hasty", "torn", "same", "changed"}

(* guarded: the action came with the version of a poll that showed the     *)
(* table as it was when that version was checked (with the version of a    *)
(* hasty or torn poll it passes like one without any); intact: nothing on  *)
(* the table has changed since then, or since the answer was begun.        *)
Idle == [wants |-> "nothing", at |-> "idle", player |-> Nobody,
         guarded |-> FALSE, intact |-> FALSE]

RequestStates ==
  [wants : {"nothing", "state", "action"}, player : Players \cup {Nobody},
   at : {"idle", "clock", "timeout", "folding", "serve", "answer"},
   guarded : BOOLEAN, intact : BOOLEAN]

(* The hand on the table is not over.                                      *)
Quiet == hand.phase \notin {"showdown", "complete"}

Untouched == UNCHANGED <<call, view, request>>

-----------------------------------------------------------------------------
(* What a change of the table does to views and requests.                  *)

(* req, but the table is no longer what it was.                            *)
TableChanged(req) == [r \in Requests |-> [req[r] EXCEPT !.intact = FALSE]]

ViewsOfChange ==
  [p \in Players |-> IF view[p] = "same" THEN "changed" ELSE view[p]]

(* _state_version += 1                                                     *)
NewVersion == view' = [p \in Players |-> "old"]

(* Seeded fault: a resignation out of turn leaves the version as it is.    *)
VersionAfterResignKept == UNCHANGED view

VersionAfterResign == NewVersion

(* The call returns; a request that it was part of goes on.                *)
Resumed(req) ==
  [r \in Requests |->
     IF req[r].at = "folding" THEN [req[r] EXCEPT !.at = "serve"] ELSE req[r]]

(* do_action by the player on turn, which makes the hand h: as far as the  *)
(* hand's own do_action.                                                   *)
Plays(h) ==
  /\ call = "none"
  /\ InProgress
  /\ hand' = h
  /\ UNCHANGED <<lobbyVars, chips, resigned, game_over, winner, dealer_index,
                 seated>>
  /\ call' = "acting"
  /\ view' = ViewsOfChange
  /\ late' = FALSE
  /\ UNCHANGED extensions

(* The actions that the hand accepts.                                      *)
DoAction ==
  \/ Plays(AfterFold(hand))
  \/ MayCheck(hand) /\ Plays(AfterCheck(hand))
  \/ MayCall(hand) /\ Plays(AfterCall(hand))
  \/ \E amount \in Amounts :
       \/ MayBet(hand, amount) /\ Plays(AfterBet(hand, amount))
       \/ MayRaise(hand, amount) /\ Plays(AfterRaise(hand, amount))
  \/ Plays(AfterAllIn(hand))

-----------------------------------------------------------------------------
ServiceInit ==
  /\ Init
  /\ late = FALSE
  /\ extensions = [p \in Players |-> 0]
  /\ call = "none"
  /\ view = [p \in Players |-> "old"]
  /\ request = [r \in Requests |-> Idle]

Join ==
  /\ Register
  /\ UNCHANGED clockVars
  /\ Untouched

(* start, up to the first hand                                             *)
StartGame ==
  /\ ~started
  /\ registered >= 2
  /\ started' = TRUE
  /\ extensions' = [p \in Players |-> IF p <= registered THEN Extensions ELSE 0]
  /\ call' = "starting"
  /\ UNCHANGED <<registered, chips, resigned, game_over, winner, dealer_index,
                 hand, seated, late, view, request>>

(* The first hand, which may be over at once.                              *)
Deal ==
  /\ call = "starting"
  /\ StartNewHand(chips, resigned, dealer_index)
  /\ late' = FALSE
  /\ call' = IF Quiet' THEN "none" ELSE "finishing"
  /\ view' = ViewsOfChange
  /\ request' = TableChanged(request)
  /\ UNCHANGED <<lobbyVars, resigned, extensions>>

(* The rest of do_action up to _finish_hand.                               *)
Grow ==
  /\ call = "acting"
  /\ NewVersion
  /\ IF Quiet THEN call' = "none" /\ request' = Resumed(request)
              ELSE call' = "finishing" /\ UNCHANGED request
  /\ UNCHANGED <<gameVars, clockVars>>

(* _finish_hand, and again for a hand that is over as soon as it is dealt. *)
FinishRunOut ==
  /\ call \in {"finishing", "resigning"}
  /\ RunOut
  /\ late' = FALSE
  /\ view' = ViewsOfChange
  /\ IF call = "finishing" /\ Quiet'
       THEN call' = "none" /\ request' = Resumed(TableChanged(request))
       ELSE call' = call /\ request' = TableChanged(request)
  /\ UNCHANGED extensions

TimeIsUp ==
  /\ InProgress
  /\ ~late
  /\ late' = TRUE
  /\ UNCHANGED <<gameVars, extensions>>
  /\ Untouched

(* A request of player p comes in; the steps of r follow.                  *)
Receive(r, wants, p, guarded) ==
  /\ request[r] = Idle
  /\ request' = [request EXCEPT
                   ![r] = [wants |-> wants, at |-> "clock", player |-> p,
                           guarded |-> guarded, intact |-> guarded]]
  /\ UNCHANGED <<gameVars, clockVars, call, view>>

(* state                                                                   *)
Poll(r, p) ==
  /\ started
  /\ p <= registered
  /\ p \in Observers
  /\ Receive(r, "state", p, FALSE)

(* action, up to the version check; a conflict changes nothing             *)
Ask(r, p, guarded) ==
  /\ started
  /\ p <= registered
  /\ guarded => view[p] = "same"
  /\ Receive(r, "action", p, guarded)

(* spectator, or an extend that is refused                                 *)
Watch(r) == started /\ Receive(r, "nothing", Nobody, FALSE)

(* _check_timeout, up to its decision                                      *)
Clock(r) ==
  /\ request[r].at = "clock"
  /\ request' = [request EXCEPT
                   ![r].at = IF InProgress /\ late THEN "timeout" ELSE "serve"]
  /\ UNCHANGED <<gameVars, clockVars, call, view>>

(* The rest of _check_timeout: current_player is only now read.            *)
FoldLate(r) ==
  /\ request[r].at = "timeout"
  /\ Plays(AfterFold(hand))
  /\ request' = TableChanged([request EXCEPT ![r].at = "folding"])

(* The request is over without effect: there is nobody on turn to fold, the*)
(* action is not allowed or not this player's to make, or nothing is left. *)
Drop(r) ==
  /\ \/ request[r].at = "timeout" /\ ~InProgress
     \/ request[r].at = "serve" /\ request[r].wants # "state"
  /\ request' = [request EXCEPT ![r] = Idle]
  /\ UNCHANGED <<gameVars, clockVars, call, view>>

(* build_poker_player_state, up to the version                             *)
Look(r) ==
  /\ request[r].at = "serve"
  /\ request[r].wants = "state"
  /\ request' = [request EXCEPT ![r].at = "answer", ![r].intact = TRUE]
  /\ UNCHANGED <<gameVars, clockVars, call, view>>

(* The rest of it: the version, and what else is told of the table.        *)
Answer(r) ==
  /\ request[r].at = "answer"
  /\ view' = [p \in Players |->
                IF p # request[r].player THEN view[p]
                ELSE IF ~request[r].intact THEN "torn"
                ELSE IF call \in {"starting", "finishing"} THEN "hasty"
                ELSE "same"]
  /\ request' = [request EXCEPT ![r] = Idle]
  /\ UNCHANGED <<gameVars, clockVars, call>>

Perform(r) ==
  /\ request[r].at = "serve"
  /\ request[r].wants = "action"
  /\ InProgress
  /\ Turn = request[r].player
  /\ DoAction
  /\ request' = TableChanged([request EXCEPT ![r] = Idle])

(* Seeded fault: the clock of a turn goes on when its hand is over.        *)
ClockAfterResignKept == UNCHANGED late

(* The clock runs on if the same turn of the hand does.                    *)
ClockAfterResign ==
  late' = (late /\ hand'.phase \in Streets /\ hand'.turn = hand.turn)

(* resign, up to the version or to _finish_hand.  Its last lines, which    *)
(* end a game whose hand still goes on, are in Resign of PokerGame, where  *)
(* BetsStayForfeited tells that they never find one.                       *)
GiveUp(p) ==
  /\ call = "none"
  /\ InProgress
  /\ p \in Alive(chips, resigned)
  /\ resigned' = resigned \cup {p}
  /\ hand' = AfterResignation(p)
  /\ UNCHANGED <<lobbyVars, chips, game_over, winner, dealer_index, seated>>
  /\ view' = ViewsOfChange
  /\ request' = TableChanged(request)
  /\ call' = IF Turn = p THEN "acting" ELSE "resigning"
  /\ ClockAfterResign
  /\ UNCHANGED extensions

(* The version after a resignation out of turn; resign returns.            *)
GrowLast ==
  /\ call = "resigning"
  /\ Quiet
  /\ VersionAfterResign
  /\ call' = "none"
  /\ request' = Resumed(request)
  /\ UNCHANGED <<gameVars, clockVars>>

(* Seeded fault: an extension is not used up.                              *)
ExtendForNothing(p) ==
  /\ InProgress
  /\ Turn = p
  /\ extensions[p] > 0
  /\ late' \in {FALSE, late}
  /\ UNCHANGED <<gameVars, extensions>>
  /\ Untouched

(* use_extension: one more timeout, which may be over already.             *)
Extend(p) ==
  /\ InProgress
  /\ Turn = p
  /\ extensions[p] > 0
  /\ extensions' = [extensions EXCEPT ![p] = @ - 1]
  /\ late' \in {FALSE, late}
  /\ UNCHANGED gameVars
  /\ Untouched

ServiceNext ==
  \/ Join
  \/ StartGame
  \/ Deal
  \/ Grow
  \/ FinishRunOut
  \/ GrowLast
  \/ TimeIsUp
  \/ \E r \in Requests :
       \/ \E p \in Players :
            \/ Poll(r, p)
            \/ \E guarded \in BOOLEAN : Ask(r, p, guarded)
       \/ Watch(r)
       \/ Clock(r)
       \/ FoldLate(r)
       \/ Drop(r)
       \/ Look(r)
       \/ Answer(r)
       \/ Perform(r)
  \/ \E p \in Players : GiveUp(p) \/ Extend(p)

ServiceSpec == ServiceInit /\ [][ServiceNext]_serviceVars

(* Weak fairness of FoldLate(r), Deal and FinishRunOut, with the states in *)
(* which they are enabled spelled out.                                     *)
FoldLateFairness(r) ==
  []<>~(call = "none" /\ InProgress /\ request[r].at = "timeout")
    \/ []<><<FoldLate(r)>>_serviceVars

DealFairness == []<>(call # "starting") \/ []<><<Deal>>_serviceVars

RunOutFairness ==
  []<>(Quiet \/ call \notin {"finishing", "resigning"})
    \/ []<><<FinishRunOut>>_serviceVars

(* Time passes, the game is watched, and a thread that can go on does.     *)
ServiceFairSpec ==
  /\ ServiceSpec
  /\ WF_serviceVars(TimeIsUp)
  /\ WF_serviceVars(Grow)
  /\ WF_serviceVars(GrowLast)
  /\ DealFairness
  /\ RunOutFairness
  /\ \A r \in Requests :
       /\ WF_serviceVars(Watch(r))
       /\ WF_serviceVars(Clock(r))
       /\ WF_serviceVars(Drop(r))
       /\ WF_serviceVars(Look(r))
       /\ WF_serviceVars(Answer(r))
       /\ FoldLateFairness(r)

-----------------------------------------------------------------------------
(* Properties.                                                             *)

(* Clocks, views and requests are well formed; only a turn that is going on*)
(* can be late (poker/game.py:79-83, 101-120).                             *)
ServiceTypeOK ==
  /\ late \in BOOLEAN
  /\ late => InProgress
  /\ extensions \in [Players -> 0 .. Extensions]
  /\ call \in Calls
  /\ view \in [Players -> Views]
  /\ request \in [Requests -> RequestStates]

(* When no call is under way, a version that is still the one a player     *)
(* polled tells him that nothing on the table has changed since, in        *)
(* whatever call and between which of its steps he polled it: what has     *)
(* changed the table raises the version afterwards, through timeouts,      *)
(* resignations and hands that are over as soon as they are dealt, too.    *)
(* The exceptions are polls that were torn, and polls between the last     *)
(* version of a call and its next hand (poker/game.py:218-223, 249-274).   *)
VersionTellsTable ==
  call = "none" => \A p \in Players : view[p] # "changed"

(* As long as the game goes on something happens on the table: extensions  *)
(* run out, and whatever else the clients do or leave undone, each turn    *)
(* ends (poker/game.py:85-120).                                            *)
TableKeepsMoving ==
  []<>~Playing \/ []<><<hand' # hand>>_serviceVars

(* "If the game state changed between your poll and your action (e.g., a   *)
(* timeout auto-folded someone), the server returns HTTP 409 Conflict      *)
(* instead of silently applying your action" (instructions.md:684).        *)
StaleActionsRefused ==
  [][\A r \in Requests :
       Perform(r) /\ request[r].guarded => request[r].intact]_serviceVars
=============================================================================
