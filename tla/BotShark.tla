------------------------------ MODULE BotShark ------------------------------
(***************************************************************************)
(* strategies/shark.py: charts before the flop, adjusted to the opponents; *)
(* after it, a plan per class of hand.                                     *)
(***************************************************************************)
EXTENDS BotView

SharkPreflopActions(tier, v) ==
  LET base == PreflopAction(tier, v)
  IN  {base}
        \cup (IF base = "call" /\ tier = "playable" THEN {"raise"} ELSE {})
        \cup (IF base = "fold" /\ tier = "marginal" THEN {"raise"} ELSE {})
        \cup (IF base = "fold" /\ tier = "marginal" /\ v.position = "late"
              THEN {"call"} ELSE {})
        \cup (IF base = "call" /\ tier = "marginal" THEN {"fold"} ELSE {})

SharkRaiseSizes(v) ==
  LET base == IF v.position = "late" THEN Blinds(25) ELSE Blinds(30)
  IN  {Greatest(base, v.minRaise),
       Greatest(Greatest(base, Blinds(35)), v.minRaise)}

SharkPreflop(v, tier) ==
  LET By(action) ==
        CASE action = "fold"  -> {CheckOrFold(v)}
          [] action = "call"  ->
               {PreflopCall(v, tier, Greatest(v.minRaise, Blinds(30)))}
          [] action = "raise" ->
               {PreflopRaise(v, tier, size, {"premium"}) :
                  size \in SharkRaiseSizes(v)}
  IN  UNION {By(action) : action \in SharkPreflopActions(tier, v)}

(* Seventy percent of the pot, more against passive opponents.             *)
SharkMonster(v) ==
  IF LowSpr(v, 20) THEN {Do("all_in")}
  ELSE {IF target < v.chips /\ v.toCall # 0 /\ target <= v.toCall
          THEN Do("call") ELSE Aggress(v, target) :
          target \in {Target(v, 70), Target(v, 85)}}

(* On a dry flop in position the hand may be checked as a trap.            *)
SharkStrong(v) ==
  (IF v.position = "late" /\ v.toCall = 0 /\ v.phase = "flop"
     THEN {Do("check")} ELSE {})
  \cup {Aggress(v, target) : target \in {Target(v, 55), Target(v, 75)}}

SharkDraw(v) ==
  IF v.toCall = 0
    THEN IF Target(v, 60) >= v.chips THEN {Do("all_in"), Do("check")}
         ELSE {Sized("bet", Target(v, 60))}
    ELSE {CallOrJam(v), CallOrFold(v), Do("fold")}
         \cup (IF 4 * v.toCall <= v.pot THEN {Do("call")} ELSE {})
         \cup (IF 10 * v.toCall < 3 * v.chips /\ Target(v, 80) < v.chips
               THEN {Sized("raise", Target(v, 80))} ELSE {})

SharkDecent(v) ==
  IF v.toCall # 0 THEN {CallOrFold(v)}
  ELSE {Do("check")}
         \cup (IF v.position \in {"late", "middle"}
               THEN BetIfBelow(v, Target(v, 45), 100) ELSE {})

SharkBluff(v) ==
  IF v.toCall > 0 \/ v.position \notin {"late", "middle"} \/ v.opponents > 2
    THEN {}
  ELSE CASE v.phase = "river" -> BetIfBelow(v, Target(v, 65), 30)
         [] v.phase = "flop"  -> BetIfBelow(v, Target(v, 50), 20)
         [] v.phase = "turn"  -> {}

SharkPostflop(v) ==
  SharkMonster(v) \cup SharkStrong(v) \cup SharkDraw(v) \cup SharkDecent(v)
    \cup MarginalCall(v) \cup SharkBluff(v) \cup {CheckOrFold(v)}

SharkDecisions(v, tier) ==
  IF v.phase = "preflop" THEN SharkPreflop(v, tier) ELSE SharkPostflop(v)
=============================================================================
