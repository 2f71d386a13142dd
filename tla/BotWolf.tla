------------------------------ MODULE BotWolf ------------------------------
(***************************************************************************)
(* strategies/wolf.py: opens wide, sizes big and keeps betting once it     *)
(* raised before the flop.  Whether it did, raiser, is noted even when the *)
(* raise ends as a check or a call, so that WolfPreflop gives pairs of a   *)
(* decision and the new value of raiser.  The gear never leaves full       *)
(* aggression, for nothing counts the bluffs that were caught.             *)
(***************************************************************************)
EXTENDS BotView

WolfPreflopActions(tier, v) ==
  IF tier = "premium" \/ (tier = "strong" /\ FacingRaise(v)) THEN {"raise"}
  ELSE {"raise", "fold"}
         \cup (IF FacingRaise(v) /\ tier = "trash" THEN {} ELSE {"call"})

(* Four big blinds against opponents who call much.                        *)
WolfRaiseSizes(v) ==
  LET base == CASE v.position = "late"                -> Blinds(28)
                [] v.position \in {"early", "middle"} -> Blinds(35)
                [] v.position = "blind"               -> Blinds(40)
      opened == {base, Greatest(base, Blinds(35)), Greatest(base, Blinds(40))}
      built  == IF v.pot > 3 * BigBlind THEN Pct(v.pot, 90) ELSE 0
  IN  {Greatest(Greatest(size, built), v.minRaise) : size \in opened}

WolfCalls(v, tier, raiser) ==
  IF v.toCall # 0
    THEN LET d == IF tier \in {"premium", "strong"} THEN CallOrJam(v)
                  ELSE CallOrFold(v)
         IN  {<<d, raiser \/ d.action = "all_in">>}
    ELSE {<<Do("check"), raiser>>}
           \cup (IF v.position \in {"late", "middle"}
                 THEN {<<Sized("bet", size), TRUE>> :
                         size \in {s \in WolfRaiseSizes(v) : s < v.chips}}
                 ELSE {})

(* A hand that is not worth the stack is opened small or called instead.   *)
WolfRaise(v, tier, size) ==
  LET smaller == Greatest(v.minRaise, Blinds(25))
  IN  IF size < v.chips THEN Open(v, size)
      ELSE IF tier \in {"premium", "strong"} THEN Do("all_in")
      ELSE IF v.toCall # 0 THEN Do("call")
      ELSE IF smaller < v.chips THEN Sized("bet", smaller)
      ELSE Do("check")

WolfPreflop(v, tier, raiser) ==
  LET By(action) ==
        CASE action = "fold"  -> {<<CheckOrFold(v), raiser>>}
          [] action = "call"  -> WolfCalls(v, tier, raiser)
          [] action = "raise" -> {<<WolfRaise(v, tier, size), TRUE>> :
                                    size \in WolfRaiseSizes(v)}
  IN  UNION {By(action) : action \in WolfPreflopActions(tier, v)}

-----------------------------------------------------------------------------

WolfMonster(v) ==
  IF LowSpr(v, 25) THEN {Do("all_in")}
  ELSE {Aggress(v, Target(v, percent)) : percent \in {75, 80, 90}}
         \cup (IF v.toCall > 0 /\ v.position = "late" /\ v.phase # "river"
               THEN {Do("call")} ELSE {})

WolfStrong(v) ==
  {IF LowSpr(v, 30) /\ 10 * Target(v, percent) >= 6 * v.chips
     THEN Do("all_in") ELSE Aggress(v, Target(v, percent)) :
     percent \in {65, 80}}

WolfDraw(v) ==
  IF v.toCall = 0
    THEN IF Target(v, 75) >= v.chips THEN {Do("all_in"), Do("check")}
         ELSE {Sized("bet", Target(v, 75))}
    ELSE {CallOrJam(v), CallOrFold(v), Do("fold")}
         \cup (IF 100 * v.toCall < 35 * v.chips /\ Target(v, 90) < v.chips
               THEN {Sized("raise", Target(v, 90))} ELSE {})
         \cup (IF 4 * v.toCall < v.chips /\ Target(v, 85) < v.chips
               THEN {Sized("raise", Target(v, 85))} ELSE {})

WolfMedium(v) ==
  IF v.toCall = 0
    THEN {Do("check")}
           \cup (IF v.position \in {"late", "middle"}
                 THEN BetIfBelow(v, Target(v, 55), 100) ELSE {})
  ELSE IF v.toCall >= v.chips THEN {Do("all_in"), Do("fold")}
  ELSE IF 10 * v.toCall <= (IF v.position = "late" THEN 6 ELSE 4) * v.pot
    THEN {Do("call")} ELSE {Do("fold")}

(* Betting on after a raise before the flop.                               *)
WolfBarrel(v, raiser) ==
  LET Bets(percents, limit) ==
        UNION {BetIfBelow(v, Target(v, percent), limit) : percent \in percents}
  IN  CASE v.phase = "flop"  ->
             IF raiser THEN Bets({45, 55, 60}, 100) ELSE {}
        [] v.phase = "turn"  ->
             IF raiser THEN Bets({50, 55, 60, 65}, 50) ELSE {}
        [] v.phase = "river" ->
             IF raiser \/ v.position \in {"late", "middle"}
               THEN Bets({55, 60, 65, 70}, 40) ELSE {}

(* Betting in position when nobody else did.                               *)
WolfStab(v, raiser) ==
  IF raiser \/ v.position # "late" THEN {}
  ELSE CASE v.phase = "flop"  -> BetIfBelow(v, Target(v, 40), 15)
         [] v.phase = "turn"  -> BetIfBelow(v, Target(v, 45), 20)
         [] v.phase = "river" -> {}

(* Raising a small bet of the only opponent.                               *)
WolfRaiseBluff(v) ==
  IF /\ v.toCall > 0
     /\ 10 * v.toCall <= 4 * v.pot
     /\ v.position = "late"
     /\ v.opponents <= 1
     /\ 100 * Target(v, 85) < 35 * v.chips
    THEN {Sized("raise", Target(v, 85))} ELSE {}

WolfBluff(v, raiser) ==
  IF v.opponents > 2 THEN {}
  ELSE IF v.toCall = 0 THEN WolfBarrel(v, raiser) \cup WolfStab(v, raiser)
  ELSE WolfRaiseBluff(v)

WolfPostflop(v, raiser) ==
  WolfMonster(v) \cup WolfStrong(v) \cup WolfDraw(v) \cup WolfMedium(v)
    \cup MarginalCall(v) \cup WolfBluff(v, raiser) \cup {CheckOrFold(v)}

WolfMoves(v, tier, raiser) ==
  IF v.phase = "preflop" THEN WolfPreflop(v, tier, raiser)
  ELSE {<<d, raiser>> : d \in WolfPostflop(v, raiser)}
=============================================================================
