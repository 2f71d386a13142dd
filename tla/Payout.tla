------------------------------- MODULE Payout -------------------------------
(***************************************************************************)
(* From final chips to payouts: core/payout.py.  A table of chips is a     *)
(* function on 1 .. n, in the order the players are listed in, and so is   *)
(* the table of payouts.  Both kinds of settlement use it.                 *)
(***************************************************************************)
EXTENDS Totals

(* Seeded fault: what rounding takes away goes to nobody.                  *)
PayoutsRounded(chips, buyIn, startingChips) ==
  [i \in DOMAIN chips |-> (chips[i] * buyIn) \div startingChips]

Raw(chips, buyIn, startingChips) ==
  [i \in DOMAIN chips |-> (chips[i] * buyIn) \div startingChips]

FirstLargest(raw) ==
  CHOOSE i \in DOMAIN raw :
    \A j \in DOMAIN raw : raw[j] <= raw[i] /\ (raw[j] = raw[i] => i <= j)

(* compute_payouts: the dust goes to the first of the largest payouts.     *)
ComputePayouts(chips, buyIn, startingChips) ==
  LET raw  == Raw(chips, buyIn, startingChips)
      dust == Cardinality(DOMAIN chips) * buyIn - Total(raw)
  IN  IF dust > 0
        THEN [raw EXCEPT ![FirstLargest(raw)] = @ + dust]
        ELSE raw
=============================================================================
