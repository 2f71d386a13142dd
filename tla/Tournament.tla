----------------------------- MODULE Tournament -----------------------------
(***************************************************************************)
(* What a tournament promises its players, without cards, bets or hands:   *)
(* chips are bought once, afterwards they only change hands among those    *)
(* still in, who is out stays out, and play ends when one is left.         *)
(***************************************************************************)
EXTENDS Totals

CONSTANTS MaxPlayers, StartingChips

VARIABLES
  stack,  \* chips of each player
  quit,   \* players who gave up
  begun,
  over

vars == <<stack, quit, begun, over>>

Players == 1 .. MaxPlayers

In(s, q) == {p \in Players : s[p] > 0} \ q

Init ==
  /\ stack = [p \in Players |-> 0]
  /\ quit = {}
  /\ begun = FALSE
  /\ over = FALSE

BuyIn ==
  /\ ~begun
  /\ \E p \in Players :
       /\ stack[p] = 0
       /\ stack' = [stack EXCEPT ![p] = StartingChips]
  /\ UNCHANGED <<quit, begun, over>>

Begin ==
  /\ ~begun
  /\ Cardinality(In(stack, quit)) >= 2
  /\ begun' = TRUE
  /\ UNCHANGED <<stack, quit, over>>

(* A player may give up, and the stacks may move, but not to anybody who   *)
(* was out before.                                                         *)
Play ==
  /\ begun
  /\ ~over
  /\ quit \subseteq quit'
  /\ quit' \subseteq quit \cup In(stack, quit)
  /\ Cardinality(quit' \ quit) <= 1
  /\ \A p \in Players \ In(stack, quit) : stack'[p] <= stack[p]
  /\ Total(stack') <= Total(stack)
  /\ over' = (Cardinality(In(stack', quit')) <= 1)
  /\ In(stack', quit') # {}
  /\ UNCHANGED begun

Next == BuyIn \/ Begin \/ Play

Spec == Init /\ [][Next]_vars
=============================================================================
