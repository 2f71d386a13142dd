------------------------------ MODULE BotHawk ------------------------------
(***************************************************************************)
(* strategies/hawk.py: tight, and sized by the equity it believes in.      *)
(* Where the size varies with the equity, the ends of its range stand for  *)
(* it.                                                                     *)
(***************************************************************************)
EXTENDS BotView

(* The stack that can be won or lost.                                  *)
EffectiveStack(v) ==
  IF v.rivals = {} THEN v.chips ELSE Least(v.chips, Largest(v.rivals))

ShortStacked(v) == EffectiveStack(v) < 15 * BigBlind

HawkMarginalActions(v) ==
  IF FacingRaise(v) THEN {"fold"}
  ELSE IF v.position = "blind" THEN {"call"}
  ELSE IF ShortStacked(v) \/ v.position # "late" THEN {"fold"}
  ELSE {"raise", "fold"}

HawkPreflopActions(tier, v) ==
  LET base == PreflopAction(tier, v)
  IN  IF tier = "marginal" THEN HawkMarginalActions(v)
      ELSE IF tier = "playable" /\ v.position = "early" /\ FacingRaise(v)
        THEN {"fold"}
      ELSE {base}
        \cup (IF base = "call" /\ tier \in {"playable", "strong"}
              THEN {"raise"} ELSE {})
        \cup (IF base = "fold" /\ tier = "playable" THEN {"raise"} ELSE {})

(* The equity, in percent, that a tier is taken to have.                   *)
TierEquity ==
  [premium |-> 78, strong |-> 65, playable |-> 55, marginal |-> 45, trash |-> 35]

HawkRaiseSizes(tier, v) ==
  LET kelly == Pct(Greatest(v.pot, 4 * BigBlind), 2 * TierEquity[tier] - 100)
      floor == CASE v.position = "late"              -> Blinds(22)
                 [] v.position = "middle"            -> Blinds(25)
                 [] v.position \in {"early", "blind"} -> Blinds(30)
      large == IF tier = "premium" THEN {35} ELSE {0, 35}
      push  == IF \E stack \in v.rivals : stack < 10 * BigBlind
               THEN 10 * BigBlind ELSE 0
  IN  IF ShortStacked(v) /\ tier \in {"premium", "strong"} THEN {v.chips}
      ELSE {Largest({kelly, floor, v.minRaise, Blinds(tenths), push}) :
              tenths \in large}

(* A call that loses on average is folded if it is a large one.            *)
HawkCall(v, tier) ==
  LET equity == TierEquity[tier] - (IF FacingRaise(v) THEN 8 ELSE 0)
      losing == equity * (v.pot + v.toCall) < 100 * v.toCall
  IN  IF /\ v.toCall > 4 * BigBlind
         /\ v.toCall < v.chips
         /\ losing
        THEN Do("fold")
        ELSE PreflopCall(v, tier, Greatest(v.minRaise, Blinds(25)))

HawkRaise(v, tier, size) ==
  LET jams == IF EffectiveStack(v) <= 15 * BigBlind
              THEN {"premium", "strong"} ELSE {"premium"}
  IN  IF size >= v.chips /\ tier \notin jams /\ v.toCall # 0
        THEN CallOrFold(v) ELSE PreflopRaise(v, tier, size, jams)

HawkPreflop(v, tier) ==
  LET By(action) ==
        CASE action = "fold"  -> {CheckOrFold(v)}
          [] action = "call"  -> {HawkCall(v, tier)}
          [] action = "raise" -> {HawkRaise(v, tier, size) :
                                    size \in HawkRaiseSizes(tier, v)}
  IN  UNION {By(action) : action \in HawkPreflopActions(tier, v)}

-----------------------------------------------------------------------------

HawkMonster(v) ==
  IF LowSpr(v, 30) THEN {Do("all_in")}
  ELSE {IF target < v.chips /\ v.toCall # 0 /\ target <= v.toCall
              /\ reraise > v.toCall /\ reraise < v.chips
          THEN Sized("raise", reraise) ELSE Aggress(v, target) :
          target  \in {Target(v, percent) : percent \in {85, 90, 120}},
          reraise \in {Greatest(v.minRaise, Pct(v.pot + v.toCall, 80))}}

HawkStrong(v) ==
  IF LowSpr(v, 40) /\ v.toCall <= 0 THEN {Do("all_in")}
  ELSE (IF LowSpr(v, 40) THEN {Do("all_in")} ELSE {})
       \cup (IF v.position = "late" /\ v.toCall = 0 /\ v.phase = "flop"
             THEN {Do("check")} ELSE {})
       \cup {Aggress(v, Target(v, percent)) : percent \in {59, 70, 85}}

HawkDraw(v) ==
  IF v.toCall = 0
    THEN {Do("check")} \cup BetIfBelow(v, Target(v, 55), 100)
    ELSE LET size == Greatest(v.minRaise, Pct(v.pot + v.toCall, 75))
         IN  {CallOrJam(v), CallOrFold(v), Do("fold")}
             \cup (IF /\ 4 * v.toCall < v.chips
                      /\ v.phase # "river"
                      /\ size < v.chips
                   THEN {Sized("raise", size)} ELSE {})
             \cup (IF /\ v.phase # "river"
                      /\ v.chips > 5 * Greatest(v.pot, 1)
                      /\ 10 * v.toCall <= 3 * v.pot
                   THEN {Do("call")} ELSE {})

HawkMedium(v) ==
  IF v.toCall # 0 THEN {CallOrJam(v), CallOrFold(v), Do("fold")}
  ELSE {Do("check")}
         \cup (IF v.position \in {"late", "middle"}
               THEN UNION {BetIfBelow(v, Target(v, percent), 100) :
                             percent \in {33, 59}}
               ELSE {})

HawkBluff(v) ==
  IF \/ v.toCall > 0
     \/ v.opponents > 2
     \/ v.position \notin {"late", "middle"} /\ v.opponents > 1
    THEN {}
  ELSE CASE v.phase = "flop"  -> BetIfBelow(v, Target(v, 40), 15)
         [] v.phase = "turn"  -> BetIfBelow(v, Target(v, 45), 18)
         [] v.phase = "river" -> BetIfBelow(v, Target(v, 60), 25)

(* With less than twice the pot left, a bet is answered all-in or not at   *)
(* all.                                                                    *)
HawkCommitted(v) == {Do("all_in"), Do("fold")}

HawkPostflop(v) ==
  IF LowSpr(v, 20) /\ v.toCall > 0 THEN HawkCommitted(v)
  ELSE HawkMonster(v) \cup HawkStrong(v) \cup HawkDraw(v) \cup HawkMedium(v)
         \cup MarginalCall(v) \cup HawkBluff(v) \cup {CheckOrFold(v)}

HawkDecisions(v, tier) ==
  IF v.phase = "preflop" THEN HawkPreflop(v, tier) ELSE HawkPostflop(v)
=============================================================================
