------------------------------- MODULE MCBot -------------------------------
(***************************************************************************)
(* Bot heads-up with a stack of one chip, of two or of sixteen big blinds  *)
(* each; at a table of three with one chip or sixteen big blinds; and at a *)
(* table of four short stacks, one of whom may resign.  With two big       *)
(* blinds a player who has called has one left, the size of the bot's      *)
(* least bet, to raise with.                                               *)
(***************************************************************************)
EXTENDS Bot

MCStacks(n) ==
  CASE n = 2 -> {1, 8, 64}
    [] n = 3 -> {1, 64}
    [] n = 4 -> {14}

MCResignations(n) == IF n = 4 THEN 1 ELSE 0
=============================================================================
