------------------------------- MODULE Totals -------------------------------
(***************************************************************************)
(* Totals of chips and tokens.  Total(f) adds up the values of a function  *)
(* from a finite set to the naturals.  It is defined as the number of      *)
(* tokens <<x, k>> with k \in 1..f[x], one token per chip, rather than by  *)
(* recursion, so that facts about totals reduce to facts about             *)
(* cardinalities, which the theorems of module TotalsProofs rest on.       *)
(***************************************************************************)
EXTENDS Integers, FiniteSets

Tokens(f) == UNION {{x} \X (1 .. f[x]) : x \in DOMAIN f}

Total(f) == Cardinality(Tokens(f))

Least(a, b) == IF a <= b THEN a ELSE b

Greatest(a, b) == IF a >= b THEN a ELSE b

Largest(S) == CHOOSE x \in S : \A y \in S : y <= x
=============================================================================
