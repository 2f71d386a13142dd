------------------------------- MODULE BotFox -------------------------------
(***************************************************************************)
(* strategies/fox.py: slow-plays strong hands, raises weak ones.  plan     *)
(* carries what Fox did earlier in the hand: whether it raised before the  *)
(* flop, and its last action on the flop.                                  *)
(***************************************************************************)
EXTENDS BotView

FreshPlan == [raiser |-> FALSE, flop |-> "none"]

PlanAfter(plan, phase, action) ==
  [raiser |-> \/ plan.raiser
              \/ phase = "preflop" /\ action \in {"bet", "raise", "all_in"},
   flop   |-> IF phase = "flop" THEN action ELSE plan.flop]

FoxPreflopActions(tier, v) ==
  LET base == PreflopAction(tier, v)
  IN  {base}
        \cup (IF base = "call" /\ tier = "playable" THEN {"raise"} ELSE {})
        \cup (IF base = "fold" /\ tier = "marginal"
              THEN {"raise"} \cup (IF v.position \in {"late", "middle"}
                                   THEN {} ELSE {"call"}) ELSE {})
        \cup (IF base = "fold" /\ tier = "trash" /\ v.position = "late"
              THEN {"raise"} ELSE {})
        \cup (IF base = "call" /\ tier = "marginal" THEN {"fold"} ELSE {})

FoxRaiseSizes(tier, v) ==
  {Greatest(size, v.minRaise) :
     size \in {Blinds(27),
               CASE tier = "premium"                -> Blinds(22)
                 [] tier \in {"strong", "playable"} -> Blinds(30)
                 [] tier \in {"marginal", "trash"}  -> Blinds(35)}}

(* A premium hand only calls a raise.                                      *)
FoxFlatCall(v, tier) ==
  IF tier = "premium" /\ FacingRaise(v) THEN {CallOrJam(v)} ELSE {}

(* A marginal hand in late position bets to steal the blinds.              *)
FoxSteal(v, tier) ==
  IF tier = "marginal" /\ v.position = "late" /\ ~FacingRaise(v)
    THEN BetIfBelow(v, Greatest(v.minRaise, Blinds(25)), 100) ELSE {}

(* A strong hand in the blinds limps.                                      *)
FoxLimp(v, tier) ==
  IF tier \in {"premium", "strong"} /\ v.position = "blind" /\ ~FacingRaise(v)
    THEN {Do("check")} ELSE {}

FoxPreflop(v, tier) ==
  LET By(action) ==
        CASE action = "fold"  -> {CheckOrFold(v)}
          [] action = "call"  ->
               {PreflopCall(v, tier, Greatest(v.minRaise, Blinds(30)))}
          [] action = "raise" ->
               {PreflopRaise(v, tier, size, {"premium"}) :
                  size \in FoxRaiseSizes(tier, v)}
  IN  FoxFlatCall(v, tier) \cup FoxSteal(v, tier) \cup FoxLimp(v, tier)
        \cup UNION {By(action) : action \in FoxPreflopActions(tier, v)}

(* A raise to the target if it is above what is asked, a jam if the stack  *)
(* does not allow it.                                                      *)
FoxRaise(v, target) ==
  IF target >= v.chips THEN {Do("all_in")}
  ELSE IF target > v.toCall THEN {Sized("raise", target)} ELSE {}

(* A bet of the target, unless it takes the stack.                         *)
FoxOpen(v, target) ==
  IF target >= v.chips THEN Do("all_in") ELSE Sized("bet", target)

FoxMonster(v) ==
  IF 10 * v.chips < 15 * Greatest(v.pot, 1) THEN {Do("all_in")}
  ELSE IF v.toCall > 0
    THEN {CallOrJam(v)}
           \cup (IF v.toCall < v.chips
                 THEN FoxRaise(v, Target(v, 60)) \cup FoxRaise(v, Target(v, 100))
                 ELSE {})
    ELSE {Do("check")}
           \cup {FoxOpen(v, Target(v, percent)) :
                   percent \in IF v.phase = "river" THEN {33, 70} ELSE {35}}

FoxStrong(v) ==
  IF LowSpr(v, 25)
    THEN IF v.toCall = 0 \/ v.toCall >= v.chips THEN {Do("all_in")}
         ELSE IF FoxRaise(v, Target(v, 80)) # {} THEN FoxRaise(v, Target(v, 80))
         ELSE {Do("call")}
  ELSE IF v.toCall > 0
    THEN {CallOrJam(v)} \cup FoxRaise(v, Target(v, 80))
           \cup (IF 2 * v.toCall < v.chips
                 THEN FoxRaise(v, Target(v, 75)) ELSE {})
    ELSE {Do("check")}
           \cup {FoxOpen(v, Target(v, percent)) : percent \in {35, 40, 55, 75}}

(* Betting a draw that was free to check; the turn depends on the flop.    *)
FoxDrawOpen(v, plan) ==
  LET SemiBluff(percent) ==
        IF Target(v, percent) >= v.chips THEN {Do("all_in"), Do("check")}
        ELSE {Sized("bet", Target(v, percent))}
  IN  CASE v.phase = "flop"  ->
             {Do("check")} \cup SemiBluff(60) \cup SemiBluff(100)
        [] v.phase = "turn"  ->
             IF plan.flop \in {"check", "none"} THEN SemiBluff(65)
             ELSE {Do("check")} \cup BetIfBelow(v, Target(v, 55), 100)
        [] v.phase = "river" -> {Do("check")}

FoxDraw(v, plan) ==
  IF v.toCall = 0 THEN FoxDrawOpen(v, plan)
  ELSE {CallOrJam(v), CallOrFold(v), Do("fold")}
         \cup (IF v.phase = "flop" /\ 10 * v.toCall < 3 * v.chips
                  /\ v.toCall < Target(v, 90) /\ Target(v, 90) < v.chips
               THEN {Sized("raise", Target(v, 90))} ELSE {})

FoxDecent(v) ==
  IF v.toCall = 0
    THEN {Do("check")}
           \cup UNION {BetIfBelow(v, Target(v, percent), 100) :
                  percent \in IF v.position \in {"late", "middle"}
                              THEN {30, 50} ELSE {40}}
    ELSE {CallOrFold(v)}
           \cup (IF 4 * v.toCall < v.chips
                    /\ v.toCall < Target(v, 75) /\ Target(v, 75) < v.chips
                 THEN {Sized("raise", Target(v, 75))} ELSE {})

(* Calling a small bet on the flop with nothing, to bet on the turn.       *)
FoxFloat(v, plan) ==
  IF v.position # "late" THEN {}
  ELSE CASE v.phase = "flop" /\ v.toCall > 0 ->
              IF 100 * v.toCall <= 55 * v.pot /\ v.toCall < v.chips
                THEN {Do("call")} ELSE {}
         [] v.phase = "turn" /\ v.toCall = 0 ->
              IF plan.flop # "call" THEN {}
              ELSE BetIfBelow(v, Target(v, 55), 35)
                     \cup BetIfBelow(v, Target(v, 70), 35)
         [] OTHER -> {}

FoxProbe(v) ==
  IF v.toCall > 0 \/ v.phase = "flop" \/ v.position \notin {"late", "middle"}
    THEN {}
    ELSE BetIfBelow(v, Target(v, 25), 20) \cup BetIfBelow(v, Target(v, 33), 20)

FoxBluff(v, plan) ==
  IF v.toCall > 0 \/ v.opponents > 2 THEN {}
  ELSE (IF v.phase = "flop" /\ plan.raiser
          THEN BetIfBelow(v, Target(v, 33), 25)
                 \cup BetIfBelow(v, Target(v, 55), 25)
                 \cup BetIfBelow(v, Target(v, 40), 20) ELSE {})
       \cup (IF v.phase = "turn" /\ plan.flop = "bet"
             THEN BetIfBelow(v, Target(v, 55), 30) ELSE {})
       \cup (IF v.phase = "river"
             THEN BetIfBelow(v, Target(v, 120), 35)
                    \cup BetIfBelow(v, Target(v, 70), 35)
                    \cup BetIfBelow(v, Target(v, 65), 30) ELSE {})
       \cup (IF v.position = "late"
             THEN BetIfBelow(v, Target(v, 45), 20) ELSE {})

FoxPostflop(v, plan) ==
  FoxMonster(v) \cup FoxStrong(v) \cup FoxDraw(v, plan) \cup FoxDecent(v)
    \cup MarginalCall(v) \cup FoxFloat(v, plan) \cup FoxProbe(v)
    \cup FoxBluff(v, plan) \cup {CheckOrFold(v)}

FoxDecisions(v, tier, plan) ==
  IF v.phase = "preflop" THEN FoxPreflop(v, tier) ELSE FoxPostflop(v, plan)
=============================================================================
