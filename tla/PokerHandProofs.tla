-------------------------- MODULE PokerHandProofs --------------------------
(***************************************************************************)
(* Theorems about modules PokerHand, PokerReplay and Bot, for every number *)
(* of seats, all stacks and all blinds.  That every operator keeps a hand  *)
(* sound is shown in module PokerBettingProofs; here these facts make an   *)
(* invariant.  The second half adds the bot: what its strategies decide    *)
(* fits the bets of the street, and so its request is accepted unless the  *)
(* table moves on before it arrives.                                       *)
(***************************************************************************)
EXTENDS PokerReplay, Bot, PokerBettingProofs

HandInv ==
  /\ stacks \in [Seats(hand) -> Nat \ {0}]
  /\ Sound(hand, stacks)

-----------------------------------------------------------------------------
(* The invariant holds when a hand is dealt.                               *)
LEMMA HandInvInit ==
  Init => HandInv
<1> SUFFICES ASSUME Init PROVE HandInv
  OBVIOUS
<1>0. PICK n \in 2 .. MaxSeats :
        /\ stacks \in [0 .. n-1 -> 1 .. MaxStack]
        /\ \E dealer \in 0 .. n-1 : hand = NewHand(stacks, n, dealer)
  BY DEF Init
<1>1. PICK dealer \in 0 .. n-1 : hand = NewHand(stacks, n, dealer)
  BY <1>0
<1>2. n \in Nat \ {0, 1} /\ MaxStack \in Nat
  BY TableAssumption
<1>3. /\ stacks \in [0 .. n-1 -> Nat \ {0}]
      /\ stacks \in [0 .. n-1 -> Nat]
  BY <1>0, <1>2
<1>4. Sound(hand, stacks) /\ hand.n = n
  BY <1>1, <1>2, <1>3, NewHandSound
<1> QED
  BY <1>3, <1>4 DEF HandInv, Seats

(* The cards rank the hands shown by natural numbers.                      *)
LEMMA RankingsAre ==
  ASSUME NEW rank \in Rankings(hand)
  PROVE  rank \in [InHand(hand) -> Nat]
<1>1. 1 .. Cardinality(InHand(hand)) \subseteq Nat
  OBVIOUS
<1> QED
  BY <1>1 DEF Rankings

(* Whatever the player on turn does, the hand stays sound and goes on.     *)
LEMMA TurnStepSound ==
  ASSUME HandInv, TurnStep
  PROVE  /\ Sound(hand', stacks) /\ Follows(hand', hand, hand.turn)
         /\ stacks' = stacks
<1>0. Sound(hand, stacks)
  BY DEF HandInv
<1>1. CASE Fold
  BY <1>0, <1>1, AfterFoldSound DEF Fold, InProgress
<1>2. CASE Check
  BY <1>0, <1>2, AfterCheckSound DEF Check, InProgress
<1>3. CASE Call
  BY <1>0, <1>3, AfterCallSound DEF Call, InProgress
<1>4. ASSUME NEW amount \in Amounts, Bet(amount) \/ Raise(amount)
      PROVE  /\ Sound(hand', stacks) /\ Follows(hand', hand, hand.turn)
             /\ stacks' = stacks
  <2>1. amount \in Nat
    BY TableAssumption DEF Amounts
  <2>2. CASE Bet(amount)
    BY <1>0, <2>1, <2>2, AfterBetSound DEF Bet, InProgress
  <2>3. CASE Raise(amount)
    BY <1>0, <2>1, <2>3, AfterRaiseSound DEF Raise, InProgress
  <2> QED
    BY <1>4, <2>2, <2>3
<1>5. CASE AllIn
  BY <1>0, <1>5, AfterAllInSound DEF AllIn, InProgress
<1> QED
  BY <1>1, <1>2, <1>3, <1>4, <1>5 DEF TurnStep

(* So does it when a player resigns out of turn.                           *)
LEMMA ForcedFoldSound ==
  ASSUME HandInv, NEW i \in Seats(hand), ForcedFold(i)
  PROVE  /\ Sound(hand', stacks) /\ Follows(hand', hand, i)
         /\ stacks' = stacks
BY AfterForcedFoldSound DEF HandInv, ForcedFold, InProgress

(* The showdown is the end of it.                                          *)
LEMMA ResolveShowdownSound ==
  ASSUME HandInv, NEW rank \in Rankings(hand), ResolveShowdown(rank)
  PROVE  /\ Sound(hand', stacks) /\ SameTable(hand', hand)
         /\ stacks' = stacks /\ hand'.phase = "complete"
<1>1. rank \in [InHand(hand) -> Nat]
  BY RankingsAre
<1> QED
  BY <1>1, ShowdownSound DEF HandInv, ResolveShowdown

(* The hand keeps its seats and stays sound with every action.             *)
LEMMA HandInvNext ==
  HandInv /\ [Next]_vars => HandInv'
<1> SUFFICES ASSUME HandInv, [Next]_vars PROVE HandInv'
  OBVIOUS
<1>1. stacks \in [Seats(hand) -> Nat \ {0}] /\ Sound(hand, stacks)
  BY DEF HandInv
<1>2. SUFFICES /\ Sound(hand', stacks) /\ SameTable(hand', hand)
               /\ stacks' = stacks
  BY <1>1 DEF HandInv, Seats, SameTable
<1>3. CASE TurnStep
  BY <1>3, TurnStepSound DEF Follows
<1>4. ASSUME NEW i \in Seats(hand), ForcedFold(i)
      PROVE  /\ Sound(hand', stacks) /\ SameTable(hand', hand)
             /\ stacks' = stacks
  BY <1>4, ForcedFoldSound DEF Follows
<1>5. ASSUME NEW rank \in Rankings(hand), ResolveShowdown(rank)
      PROVE  /\ Sound(hand', stacks) /\ SameTable(hand', hand)
             /\ stacks' = stacks
  BY <1>5, ResolveShowdownSound
<1>6. CASE UNCHANGED vars
  <2>1. hand' = hand /\ stacks' = stacks /\ HandType(hand)
    BY <1>1, <1>6 DEF vars, Sound
  <2> QED
    BY <1>1, <2>1, TableUntouched
<1> QED
  BY <1>3, <1>4, <1>5, <1>6 DEF Next

(* The invariant holds throughout every hand.                              *)
LEMMA HandInvInvariant ==
  Spec => []HandInv
BY HandInvInit, HandInvNext, PTL DEF Spec

(* Every reachable hand of every table is well formed (hand.py:47-79).     *)
THEOREM TypeCorrect ==
  Spec => []TypeOK
<1>1. HandInv => TypeOK
  BY DEF HandInv, Sound, TypeOK
<1> QED
  BY <1>1, HandInvInvariant, PTL

(* The pot is at all times the sum of what the players have put in, and    *)
(* nobody's chips leave his stack in any other way (hand.py:160-167).      *)
THEOREM PotCorrect ==
  Spec => []PotIsContributions
<1>1. HandInv => PotIsContributions
  BY DEF HandInv, Sound, PotIsContributions, Kept
<1> QED
  BY <1>1, HandInvInvariant, PTL

(* The turn is always with a player who can act and has not acted since    *)
(* the last bet or raise (hand.py:243-272).                                *)
THEOREM TurnCorrect ==
  Spec => []TurnOwesAction
<1>1. HandInv => TurnOwesAction
  BY DEF HandInv, Sound, TurnOwesAction, InProgress
<1> QED
  BY <1>1, HandInvInvariant, PTL

(* Who has acted and has chips left has matched the bet (hand.py:355-357). *)
THEOREM ActedCorrect ==
  Spec => []ActedHaveMatched
<1>1. HandInv => ActedHaveMatched
  BY DEF HandInv, Sound, ActedHaveMatched, InProgress, Matched
<1> QED
  BY <1>1, HandInvInvariant, PTL

(* A hand that is over has all its chips where the stacks were, but for    *)
(* those Stranded names: the side pots of any number of all-in players,    *)
(* their split among any number of winners and the odd chips add up to     *)
(* what was put in up to the top bet level (hand.py:460-535).              *)
THEOREM ChipsCorrect ==
  Spec => []ChipsAccounted
<1>1. HandInv => ChipsAccounted
  BY DEF HandInv, Sound, ChipsAccounted, Settled
<1> QED
  BY <1>1, HandInvInvariant, PTL

(* No step skips a street or a player who could still bet                  *)
(* (hand.py:252-311).                                                      *)
THEOREM StreetsCorrect ==
  Spec => StreetsInOrder
<1>1. ASSUME HandInv, [Next]_vars PROVE [StreetStep]_vars
  <2>1. Sound(hand, stacks)
    BY <1>1 DEF HandInv
  <2>2. SUFFICES ASSUME Next PROVE StreetStep
    BY <1>1
  <2>3. ASSUME NEW i, Follows(hand', hand, i) PROVE StreetStep
    BY <2>3 DEF Follows, StreetLeft, StreetStep
  <2>4. CASE TurnStep
    BY <1>1, <2>3, <2>4, TurnStepSound
  <2>5. ASSUME NEW i \in Seats(hand), ForcedFold(i) PROVE StreetStep
    BY <1>1, <2>3, <2>5, ForcedFoldSound
  <2>6. ASSUME NEW rank \in Rankings(hand), ResolveShowdown(rank)
        PROVE  StreetStep
    BY <1>1, <2>6, ResolveShowdownSound DEF StreetStep, ResolveShowdown
  <2> QED
    BY <2>2, <2>3, <2>4, <2>5, <2>6 DEF Next
<1> QED
  BY <1>1, HandInvInvariant, PTL DEF Spec, StreetsInOrder

(* At the showdown nobody wins more than what matches his own stake, and   *)
(* the one best hand wins exactly that (hand.py:460-535).                  *)
THEOREM ShowdownCorrect ==
  Spec => ShowdownPays
<1>1. ASSUME HandInv, [Next]_vars
      PROVE  [\A rank \in Rankings(hand) : ShowdownStep(rank)]_vars
  <2>1. SUFFICES ASSUME NEW rank \in Rankings(hand), ResolveShowdown(rank)
                 PROVE  /\ \A i \in Seats(hand) : Won(i) <= MatchedBets(i)
                        /\ \A i \in InHand(hand) :
                             (\A j \in InHand(hand) \ {i} : rank[j] < rank[i])
                               => Won(i) = MatchedBets(i)
    BY DEF ShowdownStep
  <2>2. HandType(hand) /\ rank \in [InHand(hand) -> Nat]
    BY <1>1, <2>1, RankingsAre DEF HandInv, Sound
  <2>3. ASSUME NEW i \in Seats(hand)
        PROVE  Won(i) = Winnings(hand, rank, i)
    <3>1. hand'.chips[i] = hand.chips[i] + Winnings(hand, rank, i)
      BY <2>1, <2>2 DEF ResolveShowdown, Showdown, HandType, HandsOf
    <3>2. hand.chips[i] \in Nat /\ Winnings(hand, rank, i) \in Nat
      BY <2>2, HandFields, WinningsMatched
    <3> QED
      BY <3>1, <3>2 DEF Won
  <2>4. InHand(hand) \subseteq Seats(hand)
    BY <2>2, CanActSeated
  <2> QED
    BY <2>2, <2>3, <2>4, WinningsMatched DEF MatchedBets
<1> QED
  BY <1>1, HandInvInvariant, PTL DEF Spec, ShowdownPays

-----------------------------------------------------------------------------
(* The end of a hand comes nearer.                                        *)

(* When the turn advances, the same chips are paid in and the same players *)
(* are in; and nobody is asked again before the next street.               *)
LEMMA TurnShortens ==
  ASSUME NEW h, HandType(h), h.phase \in Streets
  PROVE  LET g == AdvanceTurn(h)
         IN  /\ g.total = h.total /\ g.folded = h.folded
             /\ \/ g.phase = h.phase /\ g.acted = h.acted
                \/ StreetsLeft[g.phase] < StreetsLeft[h.phase]
<1>1. ASSUME NEW f, HandType(f), f.phase \in Streets
      PROVE  LET g == AdvanceToShowdown(f)
             IN  /\ g.total = f.total /\ g.folded = f.folded
                 /\ StreetsLeft[g.phase] < StreetsLeft[f.phase]
  <2> DEFINE w == CHOOSE i \in InHand(f) : TRUE
  <2>1. CASE Cardinality(InHand(f)) = 1
    <3>1. AdvanceToShowdown(f)
            = [f EXCEPT !.chips[w] = @ + f.pot, !.phase = "complete",
                        !.turn = NoSeat]
      BY <2>1 DEF AdvanceToShowdown, AwardSole
    <3> HIDE DEF w
    <3>2. /\ AdvanceToShowdown(f).total = f.total
          /\ AdvanceToShowdown(f).folded = f.folded
          /\ AdvanceToShowdown(f).phase = "complete"
      BY <1>1, <3>1 DEF HandType, HandsOf
    <3> QED
      BY <1>1, <3>2 DEF Streets, StreetsLeft
  <2>2. CASE Cardinality(InHand(f)) # 1
    <3>1. AdvanceToShowdown(f)
            = [f EXCEPT !.phase = "showdown", !.turn = NoSeat]
      BY <2>2 DEF AdvanceToShowdown
    <3>2. /\ AdvanceToShowdown(f).total = f.total
          /\ AdvanceToShowdown(f).folded = f.folded
          /\ AdvanceToShowdown(f).phase = "showdown"
      BY <1>1, <3>1 DEF HandType, HandsOf
    <3> QED
      BY <1>1, <3>2 DEF Streets, StreetsLeft
  <2> QED
    BY <2>1, <2>2
<1> DEFINE after == [h EXCEPT !.phase = StreetAfter[@], !.turn = NoSeat]
           t == FirstActor(h, (h.turn + 1) % h.n)
<1>2. CASE ~(CanAct(h) \subseteq h.acted)
  <2>1. AdvanceTurn(h) = [h EXCEPT !.turn = t]
    BY <1>2 DEF AdvanceTurn
  <2> HIDE DEF t
  <2> QED
    BY <2>1 DEF HandType, HandsOf
<1>3. CASE CanAct(h) \subseteq h.acted
  <2>1. AdvanceTurn(h) = EndBettingRound(h)
    BY <1>3 DEF AdvanceTurn
  <2>2. CASE Cardinality(InHand(h)) <= 1 \/ h.phase = "river"
    BY <1>1, <2>1, <2>2 DEF EndBettingRound
  <2>3. CASE ~(Cardinality(InHand(h)) <= 1 \/ h.phase = "river")
    <3>1. AdvanceTurn(h) = StartBettingRound(after)
      BY <2>1, <2>3 DEF EndBettingRound
    <3>2. /\ StreetAfter[h.phase] \in Streets
          /\ StreetsLeft[StreetAfter[h.phase]] < StreetsLeft[h.phase]
          /\ StreetsLeft[StreetAfter[h.phase]] \in Nat
          /\ StreetsLeft[h.phase] \in Nat
      BY <2>3 DEF Streets, StreetAfter, StreetsLeft
    <3>3. /\ HandType(after) /\ after.phase = StreetAfter[h.phase]
          /\ after.total = h.total /\ after.folded = h.folded
      BY <3>2, HandFields DEF HandType, HandsOf, Seats
    <3> HIDE DEF after
    <3>4. CASE Cardinality(InHand(after)) <= 1 \/ CanAct(after) = {}
      <4>1. AdvanceTurn(h) = AdvanceToShowdown(after)
        BY <3>1, <3>4 DEF StartBettingRound
      <4>2. /\ AdvanceToShowdown(after).total = after.total
            /\ AdvanceToShowdown(after).folded = after.folded
            /\ StreetsLeft[AdvanceToShowdown(after).phase]
                 < StreetsLeft[after.phase]
        BY <1>1, <3>2, <3>3
      <4>3. AdvanceToShowdown(after).phase \in {"showdown", "complete"}
        <5> DEFINE w == CHOOSE i \in InHand(after) : TRUE
                   c == after.chips[w] + after.pot
        <5>1. \/ AdvanceToShowdown(after)
                   = [after EXCEPT !.chips[w] = c, !.phase = "complete",
                                   !.turn = NoSeat]
              \/ AdvanceToShowdown(after)
                   = [after EXCEPT !.phase = "showdown", !.turn = NoSeat]
          BY DEF AdvanceToShowdown, AwardSole
        <5> HIDE DEF w, c
        <5> QED
          BY <3>3, <5>1 DEF HandType, HandsOf
      <4> QED
        BY <3>2, <3>3, <4>1, <4>2, <4>3 DEF StreetsLeft
    <3>5. CASE ~(Cardinality(InHand(after)) <= 1 \/ CanAct(after) = {})
      <4>1. /\ StartBettingRound(after).total = after.total
            /\ StartBettingRound(after).folded = after.folded
            /\ StartBettingRound(after).phase = after.phase
        <5> DEFINE u == FirstActor(after, SeatFromDealer(after, 1))
                   v == FirstActor(after, IF after.n = 2 THEN after.dealer
                                          ELSE SeatFromDealer(after, 3))
                   z == [i \in Seats(after) |-> 0]
        <5>1. \/ StartBettingRound(after)
                   = [after EXCEPT !.acted = {}, !.turn = v]
              \/ StartBettingRound(after)
                   = [after EXCEPT !.acted = {}, !.turn = u, !.bet = z,
                                   !.current_bet = 0, !.min_raise = BigBlind]
          BY <3>5 DEF StartBettingRound
        <5> HIDE DEF u, v, z
        <5> QED
          BY <3>3, <5>1 DEF HandType, HandsOf
      <4> QED
        BY <3>1, <3>2, <3>3, <4>1
    <3> QED
      BY <3>4, <3>5
  <2> QED
    BY <2>2, <2>3
<1> QED
  BY <1>2, <1>3

(* What an action makes of h, seen from the end of the hand.               *)
Nearer(g, h, s) ==
  /\ \A i \in Seats(h) : h.total[i] <= g.total[i] /\ g.total[i] <= s[i]
  /\ h.folded \subseteq g.folded
  /\ \/ h.folded # g.folded
     \/ \E i \in Seats(h) : h.total[i] < g.total[i]
     \/ StreetsLeft[g.phase] < StreetsLeft[h.phase]
     \/ g.phase = h.phase /\ g.acted = h.acted \cup {h.turn}

(* Nobody has paid more than he brought.                                   *)
LEMMA PaidWithin ==
  ASSUME NEW h, NEW s, HandType(h), Kept(h, s)
  PROVE  \A i \in Seats(h) : h.total[i] \in Nat /\ s[i] \in Nat
                             /\ h.total[i] <= s[i]
<1> SUFFICES ASSUME NEW i \in Seats(h)
             PROVE  /\ h.total[i] \in Nat /\ s[i] \in Nat
                    /\ h.total[i] <= s[i]
  OBVIOUS
<1>1. h.total[i] \in Nat /\ h.chips[i] \in Nat
  BY HandFields
<1>2. s[i] \in Nat /\ h.chips[i] + h.total[i] = s[i]
  BY DEF Kept
<1> QED
  BY <1>1, <1>2

(* A fold takes a player out.                                              *)
LEMMA FoldNearer ==
  ASSUME NEW h, NEW s, Sound(h, s), h.phase \in Streets
  PROVE  Nearer(AfterFold(h), h, s)
<1> DEFINE g == [MarkActed(h) EXCEPT !.folded = @ \cup {h.turn}]
           w == CHOOSE i \in InHand(g) : TRUE
<1>1. /\ HandType(h) /\ Kept(h, s) /\ h.turn \in Seats(h)
      /\ h.turn \notin h.folded
  BY SoundFields
<1>2. /\ HandType(g) /\ g.phase = h.phase /\ g.total = h.total
      /\ g.folded = h.folded \cup {h.turn}
  BY <1>1, HandFields DEF MarkActed, HandType, HandsOf, Seats
<1>3. AfterFold(h) = IF Cardinality(InHand(g)) = 1 THEN AwardSole(g)
                     ELSE AdvanceTurn(g)
  BY DEF AfterFold
<1> HIDE DEF g
<1>4. AwardSole(g).total = g.total /\ AwardSole(g).folded = g.folded
  BY <1>2 DEF AwardSole, HandType, HandsOf
<1>5. AfterFold(h).total = h.total /\ AfterFold(h).folded = g.folded
  BY <1>2, <1>3, <1>4, TurnShortens
<1> QED
  BY <1>1, <1>2, <1>5, PaidWithin DEF Nearer

(* So does one out of turn.                                                *)
LEMMA ForcedFoldNearer ==
  ASSUME NEW h, NEW s, Sound(h, s), h.phase \in Streets, NEW i \in InHand(h)
  PROVE  Nearer(AfterForcedFold(h, i), h, s)
<1> DEFINE g == [h EXCEPT !.folded = @ \cup {i}]
<1>1. /\ HandType(h) /\ Kept(h, s) /\ i \in Seats(h) /\ i \notin h.folded
  BY SoundFields DEF InHand
<1>2. /\ HandType(g) /\ g.total = h.total /\ g.folded = h.folded \cup {i}
  BY <1>1, HandFields DEF HandType, HandsOf, Seats
<1>3. AfterForcedFold(h, i) = IF Cardinality(InHand(g)) = 1 THEN AwardSole(g)
                              ELSE g
  BY DEF AfterForcedFold
<1> HIDE DEF g
<1>4. AwardSole(g).total = g.total /\ AwardSole(g).folded = g.folded
  BY <1>2 DEF AwardSole, HandType, HandsOf
<1>5. /\ AfterForcedFold(h, i).total = h.total
      /\ AfterForcedFold(h, i).folded = g.folded
  BY <1>2, <1>3, <1>4
<1> QED
  BY <1>1, <1>2, <1>5, PaidWithin DEF Nearer

(* A check marks the player on turn, who was not marked before.            *)
LEMMA CheckNearer ==
  ASSUME NEW h, NEW s, Sound(h, s), h.phase \in Streets
  PROVE  Nearer(AfterCheck(h), h, s)
<1> DEFINE g == MarkActed(h)
<1>1. HandType(h) /\ Kept(h, s) /\ h.turn \in Seats(h)
  BY SoundFields
<1>2. /\ HandType(g) /\ g.phase = h.phase /\ g.total = h.total
      /\ g.folded = h.folded /\ g.acted = h.acted \cup {h.turn}
  BY <1>1, HandFields DEF MarkActed, HandType, HandsOf, Seats
<1>3. AfterCheck(h) = AdvanceTurn(g)
  BY DEF AfterCheck
<1> HIDE DEF g
<1>4. /\ AdvanceTurn(g).total = g.total /\ AdvanceTurn(g).folded = g.folded
      /\ \/ AdvanceTurn(g).phase = g.phase /\ AdvanceTurn(g).acted = g.acted
         \/ StreetsLeft[AdvanceTurn(g).phase] < StreetsLeft[g.phase]
  BY <1>2, TurnShortens
<1>5. \A i \in Seats(h) : h.total[i] \in Nat /\ h.total[i] <= s[i]
  BY <1>1, PaidWithin
<1> QED
  BY <1>2, <1>3, <1>4, <1>5 DEF Nearer

(* Whoever calls, bets, raises or goes all-in pays a chip at least.        *)
LEMMA PaymentNearer ==
  ASSUME NEW h, NEW s, Sound(h, s), h.phase \in Streets,
         NEW amount \in Nat, amount > 0,
         NEW g, HandType(g), g.phase = h.phase,
         g.total = PlaceBet(h, h.turn, amount).total, g.folded = h.folded
  PROVE  Nearer(AdvanceTurn(g), h, s)
<1> DEFINE p == PlaceBet(h, h.turn, amount)
<1>1. /\ HandType(h) /\ Kept(h, s) /\ h.turn \in Seats(h)
      /\ h.chips[h.turn] \in Nat /\ h.chips[h.turn] > 0
      /\ h.total[h.turn] \in Nat
  BY SoundFields, HandFields DEF CanAct
<1>2. /\ HandType(p) /\ Kept(p, s) /\ p.n = h.n
      /\ \A j \in Seats(h) \ {h.turn} : p.total[j] = h.total[j]
      /\ p.chips[h.turn] = h.chips[h.turn] - Least(amount, h.chips[h.turn])
  BY <1>1, PlaceBetKeeps
<1> HIDE DEF p
<1>3. Seats(p) = Seats(h)
  BY <1>2 DEF Seats
<1>4. /\ \A i \in Seats(h) : h.total[i] \in Nat /\ h.total[i] <= s[i]
      /\ \A i \in Seats(h) : p.total[i] \in Nat /\ p.total[i] <= s[i]
  BY <1>1, <1>2, <1>3, PaidWithin
<1>5. h.total[h.turn] < p.total[h.turn]
  <2>1. /\ h.chips[h.turn] + h.total[h.turn] = s[h.turn]
        /\ p.chips[h.turn] + p.total[h.turn] = s[h.turn]
    BY <1>1, <1>2, <1>3 DEF Kept
  <2>2. p.chips[h.turn] < h.chips[h.turn] /\ p.chips[h.turn] \in Int
    BY <1>1, <1>2 DEF Least
  <2>3. p.total[h.turn] \in Nat
    BY <1>1, <1>4
  <2> QED
    BY <1>1, <2>1, <2>2, <2>3
<1>6. \A i \in Seats(h) : h.total[i] <= p.total[i]
  BY <1>1, <1>2, <1>4, <1>5
<1>7. AdvanceTurn(g).total = p.total /\ AdvanceTurn(g).folded = h.folded
  BY TurnShortens DEF p
<1> QED
  BY <1>1, <1>4, <1>5, <1>6, <1>7 DEF Nearer

(* The two ways to go on after a payment: the player is marked, or the     *)
(* betting is reopened.                                                    *)
LEMMA PaidHands ==
  ASSUME NEW h, NEW s, Sound(h, s), h.phase \in Streets, NEW amount \in Nat
  PROVE  LET p == PlaceBet(h, h.turn, amount)
         IN  /\ HandType(MarkActed(p)) /\ MarkActed(p).phase = h.phase
             /\ MarkActed(p).total = p.total
             /\ MarkActed(p).folded = h.folded
             /\ p.bet[h.turn] \in Nat /\ p.min_raise = h.min_raise
             /\ \A m \in Nat :
                  LET g == [ReopenBetting(p) EXCEPT !.min_raise = m]
                  IN  /\ HandType(g) /\ g.phase = h.phase
                      /\ g.total = p.total /\ g.folded = h.folded
<1> DEFINE p == PlaceBet(h, h.turn, amount)
<1>1. HandType(h) /\ h.turn \in Seats(h)
  BY SoundFields
<1>2. /\ HandType(p) /\ p.n = h.n /\ p.phase = h.phase /\ p.turn = h.turn
      /\ p.folded = h.folded /\ p.min_raise = h.min_raise
  BY <1>1, PlaceBetKeeps
<1> HIDE DEF p
<1>3. p.turn \in Seats(p) /\ p.bet[p.turn] \in Nat
  BY <1>1, <1>2, HandFields DEF Seats
<1>4. /\ HandType(MarkActed(p)) /\ MarkActed(p).phase = p.phase
      /\ MarkActed(p).total = p.total /\ MarkActed(p).folded = p.folded
  BY <1>2, <1>3, HandFields DEF HandType, HandsOf, Seats, MarkActed
<1>5. ASSUME NEW m \in Nat
      PROVE  LET g == [ReopenBetting(p) EXCEPT !.min_raise = m]
             IN  /\ HandType(g) /\ g.phase = p.phase
                 /\ g.total = p.total /\ g.folded = p.folded
  BY <1>2, <1>3, HandFields DEF HandType, HandsOf, Seats, ReopenBetting
<1> QED
  BY <1>2, <1>3, <1>4, <1>5 DEF p

(* A call pays, ...                                                        *)
LEMMA CallNearer ==
  ASSUME NEW h, NEW s, Sound(h, s), h.phase \in Streets, MayCall(h)
  PROVE  Nearer(AfterCall(h), h, s)
<1>1. ToCall(h) \in Nat /\ ToCall(h) > 0
  BY SoundFields, HandFields DEF MayCall, ToCall
<1> DEFINE g == MarkActed(PlaceBet(h, h.turn, ToCall(h)))
<1>2. /\ HandType(g) /\ g.phase = h.phase /\ g.folded = h.folded
      /\ g.total = PlaceBet(h, h.turn, ToCall(h)).total
  BY <1>1, PaidHands
<1>3. AfterCall(h) = AdvanceTurn(g)
  BY DEF AfterCall
<1> HIDE DEF g
<1> QED
  BY <1>1, <1>2, <1>3, PaymentNearer

(* ... a bet is of one chip or more, ...                                   *)
LEMMA BetNearer ==
  ASSUME NEW h, NEW s, Sound(h, s), h.phase \in Streets,
         NEW amount \in Nat, MayBet(h, amount)
  PROVE  Nearer(AfterBet(h, amount), h, s)
<1>1. amount > 0
  BY SoundFields, HandFields, BlindsAssumption DEF MayBet, CanAct
<1> DEFINE g == [ReopenBetting(PlaceBet(h, h.turn, amount)) EXCEPT
                   !.min_raise = amount]
<1>2. /\ HandType(g) /\ g.phase = h.phase /\ g.folded = h.folded
      /\ g.total = PlaceBet(h, h.turn, amount).total
  BY PaidHands
<1>3. AfterBet(h, amount) = AdvanceTurn(g)
  BY DEF AfterBet
<1> HIDE DEF g
<1> QED
  BY <1>1, <1>2, <1>3, PaymentNearer

(* ... a raise adds some, ...                                              *)
LEMMA RaiseNearer ==
  ASSUME NEW h, NEW s, Sound(h, s), h.phase \in Streets,
         NEW amount \in Nat, MayRaise(h, amount)
  PROVE  Nearer(AfterRaise(h, amount), h, s)
<1> DEFINE more == amount - h.bet[h.turn]
           m == Greatest(h.min_raise, amount - h.current_bet)
           g == [ReopenBetting(PlaceBet(h, h.turn, more)) EXCEPT
                   !.min_raise = m]
<1>1. more \in Nat /\ more > 0 /\ m \in Nat
  BY SoundFields, HandFields DEF MayRaise, Greatest
<1>2. AfterRaise(h, amount) = AdvanceTurn(g)
  <2>1. ReopenBetting(PlaceBet(h, h.turn, more)).min_raise = h.min_raise
    BY DEF ReopenBetting, PlaceBet
  <2> QED
    BY <2>1 DEF AfterRaise
<1> HIDE DEF more, m
<1>3. /\ HandType(g) /\ g.phase = h.phase /\ g.folded = h.folded
      /\ g.total = PlaceBet(h, h.turn, more).total
  BY <1>1, PaidHands
<1> HIDE DEF g
<1> QED
  BY <1>1, <1>2, <1>3, PaymentNearer

(* ... and the last chips are at least one.                                *)
LEMMA AllInNearer ==
  ASSUME NEW h, NEW s, Sound(h, s), h.phase \in Streets
  PROVE  Nearer(AfterAllIn(h), h, s)
<1> DEFINE chips == h.chips[h.turn]
           p == PlaceBet(h, h.turn, chips)
           increment == p.bet[h.turn] - h.current_bet
           m == Greatest(p.min_raise, increment)
           g == [ReopenBetting(p) EXCEPT !.min_raise = m]
<1>1. /\ chips \in Nat /\ chips > 0
      /\ h.current_bet \in Nat /\ h.min_raise \in Nat
  BY SoundFields, HandFields DEF CanAct
<1>2. /\ HandType(MarkActed(p)) /\ MarkActed(p).phase = h.phase
      /\ MarkActed(p).total = p.total /\ MarkActed(p).folded = h.folded
      /\ p.bet[h.turn] \in Nat /\ p.min_raise = h.min_raise
  BY <1>1, PaidHands
<1>3. CASE increment > 0
  <2>1. m \in Nat
    BY <1>1, <1>2, <1>3 DEF Greatest
  <2>2. AfterAllIn(h) = AdvanceTurn(g)
    <3>1. ReopenBetting(p).min_raise = p.min_raise
      BY DEF ReopenBetting, PlaceBet
    <3> QED
      BY <1>3, <3>1 DEF AfterAllIn
  <2> HIDE DEF m
  <2>3. /\ HandType(g) /\ g.phase = h.phase /\ g.folded = h.folded
        /\ g.total = p.total
    BY <1>1, <2>1, PaidHands
  <2> HIDE DEF g
  <2> QED
    BY <1>1, <2>2, <2>3, PaymentNearer
<1>4. CASE ~(increment > 0)
  <2>1. AfterAllIn(h) = AdvanceTurn(MarkActed(p))
    BY <1>4 DEF AfterAllIn
  <2> QED
    BY <1>1, <1>2, <2>1, PaymentNearer
<1> QED
  BY <1>3, <1>4

(* Counting by three digits: what happens to the lower ones does not       *)
(* matter when a higher one goes down.                                     *)
LEMMA LowerCount ==
  ASSUME NEW n \in Nat, NEW a \in Nat, NEW b \in Nat,
         NEW k \in 0 .. 5, NEW l \in 0 .. 5,
         NEW q \in 0 .. n, NEW r \in 0 .. n,
         \/ b < a
         \/ b = a /\ l < k
         \/ b = a /\ l = k /\ r < q
  PROVE  /\ (6 * b + l) * (n + 1) + r < (6 * a + k) * (n + 1) + q
         /\ 0 <= (6 * b + l) * (n + 1) + r
<1> DEFINE x == 6 * a + k
           y == 6 * b + l
<1>1. /\ x \in Nat /\ y \in Nat
      /\ y < x \/ (y = x /\ r < q)
  OBVIOUS
<1> HIDE DEF x, y
<1>2. CASE y < x
  <2>1. PICK d \in Nat : x = y + 1 + d
    <3>1. x - y - 1 \in Nat /\ x = y + 1 + (x - y - 1)
      BY <1>1, <1>2
    <3> QED
      BY <3>1
  <2>2. x * (n + 1) = y * (n + 1) + (n + 1) + d * (n + 1)
    BY <1>1, <2>1
  <2>3. /\ d * (n + 1) \in Nat /\ y * (n + 1) \in Nat /\ x * (n + 1) \in Nat
    BY <1>1
  <2>4. y * (n + 1) + r < x * (n + 1) + q /\ 0 <= y * (n + 1) + r
    <3> DEFINE dn == d * (n + 1)
               yn == y * (n + 1)
               xn == x * (n + 1)
    <3>1. xn = yn + (n + 1) + dn /\ dn \in Nat /\ yn \in Nat
      BY <2>2, <2>3
    <3> HIDE DEF dn, yn, xn
    <3>2. yn + r < xn + q /\ 0 <= yn + r
      BY <3>1
    <3> QED
      BY <3>2 DEF yn, xn
  <2> QED
    BY <2>4 DEF x, y
<1>3. CASE y = x /\ r < q
  <2>1. y * (n + 1) \in Nat
    BY <1>1
  <2>2. y * (n + 1) + r < x * (n + 1) + q /\ 0 <= y * (n + 1) + r
    <3> DEFINE yn == y * (n + 1)
    <3>1. yn \in Nat
      BY <2>1
    <3> HIDE DEF yn
    <3>2. yn + r < yn + q /\ 0 <= yn + r
      BY <1>3, <3>1
    <3> QED
      BY <1>3, <3>2 DEF yn
  <2> QED
    BY <2>2 DEF x, y
<1> QED
  BY <1>1, <1>2, <1>3

(* The digits of StepsLeft.                                                *)
LEMMA CountsAre ==
  ASSUME NEW h, NEW s, HandType(h), s \in [Seats(h) -> Nat],
         \A i \in Seats(h) : h.total[i] <= s[i]
  PROVE  /\ Total(s) \in Nat /\ Total(h.total) \in Nat
         /\ Total(h.total) <= Total(s)
         /\ Cardinality(InHand(h)) \in Nat
         /\ StreetsLeft[h.phase] \in 0 .. 5
         /\ Cardinality(Seats(h) \ h.acted) \in 0 .. h.n
         /\ h.n \in Nat
<1>1. /\ IsFiniteSet(Seats(h)) /\ IsFiniteSet(InHand(h))
      /\ h.total \in [Seats(h) -> Nat] /\ h.n \in Nat
      /\ h.phase \in Streets \cup {"showdown", "complete"}
  BY HandFields, CanActSeated
<1>2. /\ Total(s) \in Nat /\ Total(h.total) \in Nat
      /\ Total(h.total) <= Total(s)
  BY <1>1, TotalType, TotalMonotone
<1>3. StreetsLeft[h.phase] \in 0 .. 5
  BY <1>1 DEF Streets, StreetsLeft
<1>4. Cardinality(Seats(h)) = h.n
  BY <1>1, FS_Interval DEF Seats
<1>5. /\ Cardinality(Seats(h) \ h.acted) \in Nat
      /\ Cardinality(Seats(h) \ h.acted) <= h.n
  <2>1. IsFiniteSet(Seats(h) \ h.acted)
        /\ Cardinality(Seats(h) \ h.acted) <= Cardinality(Seats(h))
    BY <1>1, FS_Subset
  <2> QED
    BY <1>4, <2>1, FS_CardinalityType
<1> QED
  BY <1>1, <1>2, <1>3, <1>5, FS_CardinalityType

(* A step that comes nearer to the end lowers the count.                   *)
LEMMA NearerCounts ==
  ASSUME HandInv, Sound(hand', stacks), stacks' = stacks,
         hand'.n = hand.n, Nearer(hand', hand, stacks),
         hand.phase \in Streets => hand.turn \notin hand.acted
                                   /\ hand.turn \in Seats(hand),
         hand.phase \notin Streets =>
           StreetsLeft[hand'.phase] < StreetsLeft[hand.phase]
  PROVE  0 <= StepsLeft' /\ StepsLeft' < StepsLeft
<1> DEFINE h == hand
           g == hand'
           s == stacks
           paid == Total(h.total)
           paid2 == Total(g.total)
           in == Cardinality(InHand(h))
           in2 == Cardinality(InHand(g))
           k == StreetsLeft[h.phase]
           l == StreetsLeft[g.phase]
           q == Cardinality(Seats(h) \ h.acted)
           r == Cardinality(Seats(g) \ g.acted)
           a == Total(s) - paid + in
           b == Total(s) - paid2 + in2
<1>1. /\ HandType(h) /\ HandType(g) /\ Seats(g) = Seats(h) /\ g.n = h.n
      /\ s \in [Seats(h) -> Nat]
  BY DEF HandInv, Sound, Seats
<1>2. /\ \A i \in Seats(h) : h.total[i] \in Nat /\ g.total[i] \in Nat
                              /\ s[i] \in Nat
      /\ h.total \in [Seats(h) -> Nat] /\ g.total \in [Seats(h) -> Nat]
      /\ IsFiniteSet(Seats(h)) /\ IsFiniteSet(InHand(h))
  BY <1>1, HandFields, CanActSeated
<1>3. \A i \in Seats(h) : h.total[i] <= g.total[i] /\ g.total[i] <= s[i]
                          /\ h.total[i] <= s[i]
  BY <1>2 DEF Nearer
<1>4. /\ Total(s) \in Nat /\ paid \in Nat /\ paid <= Total(s)
      /\ in \in Nat /\ k \in 0 .. 5 /\ q \in 0 .. h.n /\ h.n \in Nat
  BY <1>1, <1>3, CountsAre
<1>5. /\ paid2 \in Nat /\ paid2 <= Total(s)
      /\ in2 \in Nat /\ l \in 0 .. 5 /\ r \in 0 .. h.n
  BY <1>1, <1>3, CountsAre
<1>6. paid <= paid2
  BY <1>2, <1>3, TotalMonotone
<1>7. InHand(g) \subseteq InHand(h)
  BY <1>1 DEF Nearer, InHand
<1>8. in2 <= in
  BY <1>2, <1>7, FS_Subset
<1>9. a \in Nat /\ b \in Nat /\ b <= a
  <2> HIDE DEF paid, paid2, in, in2
  <2> QED
    BY <1>4, <1>5, <1>6, <1>8
<1>10. ASSUME h.folded # g.folded PROVE b < a
  <2>1. PICK i \in g.folded : i \notin h.folded
    BY <1>10 DEF Nearer
  <2>2. i \in InHand(h) /\ i \notin InHand(g)
    BY <1>1, <2>1, HandFields DEF InHand
  <2>3. /\ IsFiniteSet(InHand(h) \ {i})
        /\ Cardinality(InHand(h) \ {i}) = in - 1
    BY <1>2, <2>2, FS_RemoveElement
  <2>4. in2 <= in - 1
    BY <1>7, <2>2, <2>3, FS_Subset
  <2>5. b < a
    <3> HIDE DEF paid, paid2, in, in2
    <3> QED
      BY <1>4, <1>5, <1>6, <2>4
  <2> QED
    BY <2>5
<1>11. ASSUME \E i \in Seats(h) : h.total[i] < g.total[i] PROVE b < a
  <2>1. paid < paid2
    BY <1>2, <1>3, <1>11, TotalStrict
  <2>2. b < a
    <3> HIDE DEF paid, paid2, in, in2
    <3> QED
      BY <1>4, <1>5, <1>8, <2>1
  <2> QED
    BY <2>2
<1>12. ASSUME g.phase = h.phase, g.acted = h.acted \cup {h.turn},
              h.phase \in Streets
       PROVE  l = k /\ r < q
  <2>1. h.turn \in Seats(h) \ h.acted
    BY <1>12
  <2>2. Seats(g) \ g.acted = (Seats(h) \ h.acted) \ {h.turn}
    BY <1>1, <1>12
  <2>3. r = q - 1
    <3>1. IsFiniteSet(Seats(h) \ h.acted)
      BY <1>2, FS_Subset
    <3> QED
      BY <2>1, <2>2, <3>1, FS_RemoveElement
  <2>4. r < q /\ l = k
    <3> HIDE DEF q, r
    <3> QED
      BY <1>4, <1>5, <1>12, <2>3
  <2> QED
    BY <2>4
<1>13. \/ b < a
       \/ b = a /\ l < k
       \/ b = a /\ l = k /\ r < q
  <2>1. b < a \/ b = a
    <3> HIDE DEF a, b
    <3> QED
      BY <1>9
  <2>2. \/ b < a
        \/ l < k
        \/ l = k /\ r < q
    <3>1. CASE h.phase \notin Streets
      BY <3>1
    <3>2. CASE h.phase \in Streets
      <4>1. CASE h.folded # g.folded
        BY <1>10, <4>1
      <4>2. CASE \E i \in Seats(h) : h.total[i] < g.total[i]
        BY <1>11, <4>2
      <4>3. CASE l < k
        BY <4>3
      <4>4. CASE g.phase = h.phase /\ g.acted = h.acted \cup {h.turn}
        BY <1>12, <3>2, <4>4
      <4> QED
        BY <4>1, <4>2, <4>3, <4>4 DEF Nearer
    <3> QED
      BY <3>1, <3>2
  <2> HIDE DEF a, b, k, l, q, r
  <2> QED
    BY <2>1, <2>2
<1>14. /\ StepsLeft = (6 * a + k) * (h.n + 1) + q
       /\ StepsLeft' = (6 * b + l) * (h.n + 1) + r
  BY DEF StepsLeft
<1> HIDE DEF a, b, k, l, q, r
<1>15. /\ (6 * b + l) * (h.n + 1) + r < (6 * a + k) * (h.n + 1) + q
       /\ 0 <= (6 * b + l) * (h.n + 1) + r
  BY <1>4, <1>5, <1>9, <1>13, LowerCount
<1> QED
  BY <1>14, <1>15

(* Whatever is done in a hand brings its end nearer.                       *)
LEMMA TurnStepNearer ==
  ASSUME HandInv, TurnStep
  PROVE  Nearer(hand', hand, stacks)
<1>0. Sound(hand, stacks)
  BY DEF HandInv
<1>1. CASE Fold
  BY <1>0, <1>1, FoldNearer DEF Fold, InProgress
<1>2. CASE Check
  BY <1>0, <1>2, CheckNearer DEF Check, InProgress
<1>3. CASE Call
  BY <1>0, <1>3, CallNearer DEF Call, InProgress
<1>4. ASSUME NEW amount \in Amounts, Bet(amount) \/ Raise(amount)
      PROVE  Nearer(hand', hand, stacks)
  <2>1. amount \in Nat
    BY TableAssumption DEF Amounts
  <2>2. CASE Bet(amount)
    BY <1>0, <2>1, <2>2, BetNearer DEF Bet, InProgress
  <2>3. CASE Raise(amount)
    BY <1>0, <2>1, <2>3, RaiseNearer DEF Raise, InProgress
  <2> QED
    BY <1>4, <2>2, <2>3
<1>5. CASE AllIn
  BY <1>0, <1>5, AllInNearer DEF AllIn, InProgress
<1> QED
  BY <1>1, <1>2, <1>3, <1>4, <1>5 DEF TurnStep

(* Every step of a hand brings its end nearer, so a hand has no more steps *)
(* than StepsLeft counts when it is dealt (hand.py:243-311, 313-458).      *)
THEOREM HandTerminates ==
  Spec => HandShortens
<1>1. ASSUME HandInv, [Next]_vars
      PROVE  [0 <= StepsLeft' /\ StepsLeft' < StepsLeft]_vars
  <2>1. SUFFICES ASSUME Next PROVE 0 <= StepsLeft' /\ StepsLeft' < StepsLeft
    BY <1>1
  <2>2. Sound(hand, stacks)
    BY <1>1 DEF HandInv
  <2>3. hand.phase \in Streets => hand.turn \notin hand.acted
                                  /\ hand.turn \in Seats(hand)
    BY <2>2, SoundFields
  <2>4. CASE TurnStep
    <3>1. /\ Sound(hand', stacks) /\ stacks' = stacks /\ hand'.n = hand.n
      BY <1>1, <2>4, TurnStepSound DEF Follows, SameTable
    <3>2. hand.phase \in Streets
      BY <2>4 DEF TurnStep, Fold, Check, Call, Bet, Raise, AllIn, InProgress
    <3> QED
      BY <1>1, <2>3, <2>4, <3>1, <3>2, TurnStepNearer, NearerCounts
  <2>5. ASSUME NEW i \in Seats(hand), ForcedFold(i)
        PROVE  0 <= StepsLeft' /\ StepsLeft' < StepsLeft
    <3>1. /\ Sound(hand', stacks) /\ stacks' = stacks /\ hand'.n = hand.n
      BY <1>1, <2>5, ForcedFoldSound DEF Follows, SameTable
    <3>2. hand.phase \in Streets /\ Nearer(hand', hand, stacks)
      BY <2>2, <2>5, ForcedFoldNearer DEF ForcedFold, InProgress
    <3> QED
      BY <1>1, <2>3, <3>1, <3>2, NearerCounts
  <2>6. ASSUME NEW rank \in Rankings(hand), ResolveShowdown(rank)
        PROVE  0 <= StepsLeft' /\ StepsLeft' < StepsLeft
    <3>1. /\ Sound(hand', stacks) /\ stacks' = stacks /\ hand'.n = hand.n
          /\ hand'.phase = "complete" /\ hand.phase = "showdown"
      BY <1>1, <2>6, ResolveShowdownSound DEF SameTable, ResolveShowdown
    <3>2. /\ HandType(hand) /\ Kept(hand, stacks)
      BY <2>2, <3>1 DEF Sound
    <3>3. hand'.total = hand.total /\ hand'.folded = hand.folded
      BY <2>6, <3>2 DEF ResolveShowdown, Showdown, HandType, HandsOf
    <3>4. StreetsLeft[hand'.phase] < StreetsLeft[hand.phase]
      BY <3>1 DEF StreetsLeft
    <3>5. Nearer(hand', hand, stacks)
      BY <3>2, <3>3, <3>4, PaidWithin DEF Nearer
    <3>6. hand.phase \notin Streets
      BY <3>1 DEF Streets
    <3> QED
      BY <1>1, <3>1, <3>4, <3>5, <3>6, NearerCounts
  <2> QED
    BY <2>1, <2>4, <2>5, <2>6 DEF Next
<1> QED
  BY <1>1, HandInvInvariant, PTL DEF Spec, HandShortens

-----------------------------------------------------------------------------
(* The replay of a hand.                                                   *)

Snapshots(n) ==
  [phase : Streets \cup {"complete"}, pot : Nat,
   chips : [0 .. n-1 -> Nat], bet : [0 .. n-1 -> Nat],
   folded : SUBSET (0 .. n-1), all_in : SUBSET (0 .. n-1)]

Shows(r, h) ==
  /\ r.phase = h.phase /\ r.pot = h.pot /\ r.chips = h.chips
  /\ r.bet = h.bet /\ r.folded = h.folded
  /\ r.all_in = {i \in Seats(h) : h.chips[i] = 0}

(* A snapshot holds all the chips of the table, before the pot is paid     *)
(* out and after, since the payout is no event.                            *)
ReplayInv ==
  /\ HandInv
  /\ replay \in Snapshots(hand.n)
  /\ Total(replay.chips) + replay.pot = Total(stacks)
  /\ InProgress => Shows(replay, hand)

(* Hand g lets the players have what they have in h.                       *)
SameChips(g, h) ==
  /\ g.n = h.n /\ g.phase = h.phase /\ g.pot = h.pot /\ g.chips = h.chips
  /\ g.bet = h.bet /\ g.folded = h.folded

(* Hand g is h once the turn has moved on: the street goes on, or another  *)
(* one begins with no bets, or there is nothing more to act on.            *)
MovedOn(g, h) ==
  /\ g.n = h.n
  /\ g.phase \in Streets =>
       /\ g.pot = h.pot /\ g.chips = h.chips /\ g.folded = h.folded
       /\ g.bet = IF g.phase = h.phase THEN h.bet ELSE [i \in Seats(h) |-> 0]

(* The end of betting leaves no street.                                    *)
LEMMA ShowdownIsNoStreet ==
  ASSUME NEW h, HandType(h)
  PROVE  /\ AwardSole(h).n = h.n
         /\ AwardSole(h).phase \notin Streets
         /\ AdvanceToShowdown(h).n = h.n
         /\ AdvanceToShowdown(h).phase \notin Streets
<1>1. /\ AwardSole(h).n = h.n
      /\ AwardSole(h).phase = "complete"
  BY DEF AwardSole, HandType, HandsOf
<1>2. /\ AdvanceToShowdown(h).n = h.n
      /\ AdvanceToShowdown(h).phase \in {"showdown", "complete"}
  BY <1>1 DEF AdvanceToShowdown, HandType, HandsOf
<1> QED
  BY <1>1, <1>2 DEF Streets

(* A round that starts before the flop keeps the blinds, any other one     *)
(* clears the bets (hand.py:217-241).                                      *)
LEMMA RoundStarts ==
  ASSUME NEW h, HandType(h)
  PROVE  LET g == StartBettingRound(h)
         IN  /\ g.n = h.n
             /\ g.phase \in Streets =>
                  /\ g.phase = h.phase /\ g.pot = h.pot
                  /\ g.chips = h.chips /\ g.folded = h.folded
                  /\ g.total = h.total /\ g.acted = {}
                  /\ g.bet = IF h.phase = "preflop" THEN h.bet
                             ELSE [i \in Seats(h) |-> 0]
                  /\ g.current_bet = IF h.phase = "preflop" THEN h.current_bet
                                     ELSE 0
                  /\ g.min_raise = IF h.phase = "preflop" THEN h.min_raise
                                   ELSE BigBlind
<1> DEFINE t == FirstActor(h, IF h.n = 2 THEN h.dealer ELSE SeatFromDealer(h, 3))
           u == FirstActor(h, SeatFromDealer(h, 1))
           z == [i \in Seats(h) |-> 0]
<1>1. CASE Cardinality(InHand(h)) <= 1 \/ CanAct(h) = {}
  BY <1>1, ShowdownIsNoStreet DEF StartBettingRound
<1>2. CASE ~(Cardinality(InHand(h)) <= 1 \/ CanAct(h) = {}) /\ h.phase = "preflop"
  <2>1. StartBettingRound(h) = [h EXCEPT !.acted = {}, !.turn = t]
    BY <1>2 DEF StartBettingRound
  <2> HIDE DEF t
  <2> QED
    BY <1>2, <2>1 DEF HandType, HandsOf
<1>3. CASE ~(Cardinality(InHand(h)) <= 1 \/ CanAct(h) = {}) /\ h.phase # "preflop"
  <2>1. StartBettingRound(h)
          = [h EXCEPT !.acted = {}, !.turn = u, !.bet = z,
                      !.current_bet = 0, !.min_raise = BigBlind]
    BY <1>3 DEF StartBettingRound
  <2> HIDE DEF u, z
  <2>2. StartBettingRound(h).bet = z
    BY <2>1 DEF HandType, HandsOf
  <2>3. /\ StartBettingRound(h).n = h.n /\ StartBettingRound(h).phase = h.phase
        /\ StartBettingRound(h).pot = h.pot
        /\ StartBettingRound(h).chips = h.chips
        /\ StartBettingRound(h).folded = h.folded
    BY <2>1 DEF HandType, HandsOf
  <2>4. /\ StartBettingRound(h).total = h.total
        /\ StartBettingRound(h).acted = {}
        /\ StartBettingRound(h).current_bet = 0
        /\ StartBettingRound(h).min_raise = BigBlind
    BY <2>1 DEF HandType, HandsOf
  <2> QED
    BY <1>3, <2>2, <2>3, <2>4 DEF z
<1> QED
  BY <1>1, <1>2, <1>3

(* The turn moves on (hand.py:243-311).                                    *)
LEMMA TurnMovesOn ==
  ASSUME NEW h, HandType(h), h.phase \in Streets
  PROVE  MovedOn(AdvanceTurn(h), h)
<1> DEFINE after == [h EXCEPT !.phase = StreetAfter[@], !.turn = NoSeat]
           t == FirstActor(h, (h.turn + 1) % h.n)
<1>1. CASE ~(CanAct(h) \subseteq h.acted)
  <2>1. AdvanceTurn(h) = [h EXCEPT !.turn = t]
    BY <1>1 DEF AdvanceTurn
  <2> HIDE DEF t
  <2> QED
    BY <2>1 DEF MovedOn, HandType, HandsOf
<1>2. CASE CanAct(h) \subseteq h.acted
  <2>1. AdvanceTurn(h) = EndBettingRound(h)
    BY <1>2 DEF AdvanceTurn
  <2>2. CASE Cardinality(InHand(h)) <= 1 \/ h.phase = "river"
    BY <2>1, <2>2, ShowdownIsNoStreet DEF EndBettingRound, MovedOn
  <2>3. CASE ~(Cardinality(InHand(h)) <= 1 \/ h.phase = "river")
    <3>1. AdvanceTurn(h) = StartBettingRound(after)
      BY <2>1, <2>3 DEF EndBettingRound
    <3>2. StreetAfter[h.phase] \in Streets \ {"preflop", h.phase}
      BY <2>3 DEF Streets, StreetAfter
    <3>3. /\ HandType(after) /\ after.n = h.n
          /\ after.phase = StreetAfter[h.phase]
          /\ after.pot = h.pot /\ after.chips = h.chips
          /\ after.folded = h.folded /\ Seats(after) = Seats(h)
      BY <3>2, HandFields DEF HandType, HandsOf, Seats
    <3> HIDE DEF after
    <3> QED
      BY <3>1, <3>2, <3>3, RoundStarts DEF MovedOn
  <2> QED
    BY <2>2, <2>3
<1> QED
  BY <1>1, <1>2

(* The events that follow an action take the snapshot to where the hand    *)
(* has gone.                                                               *)
LEMMA FollowedShows ==
  ASSUME NEW g, HandType(g), g.phase \in Streets,
         NEW h, HandType(h), MovedOn(h, g),
         NEW r \in Snapshots(g.n), Shows(r, g)
  PROVE  LET f == Followed(r, h)
         IN  /\ f \in Snapshots(g.n)
             /\ f.chips = g.chips /\ f.pot = g.pot
             /\ h.phase \in Streets => Shows(f, h)
<1> DEFINE street == IF h.phase = "showdown" THEN "river" ELSE h.phase
           zeros == [i \in Seats(g) |-> 0]
<1>1. /\ r.phase = g.phase /\ r.pot = g.pot /\ r.chips = g.chips
      /\ r.bet = g.bet /\ r.folded = g.folded
      /\ r.all_in = {i \in Seats(g) : g.chips[i] = 0}
  BY DEF Shows
<1>2. NoBets(r) = zeros /\ zeros \in [0 .. g.n-1 -> Nat]
  BY DEF NoBets, Snapshots, Seats
<1>3. h.n = g.n /\ Seats(h) = Seats(g)
  BY DEF MovedOn, Seats
<1>4. CASE h.phase = "complete"
  <2>1. Followed(r, h) = [r EXCEPT !.phase = "complete"]
    BY <1>4 DEF Followed, HandCompleted
  <2> QED
    BY <1>1, <1>4, <2>1 DEF Snapshots, Streets
<1>5. CASE h.phase # "complete" /\ street = r.phase
  <2>1. Followed(r, h) = r
    BY <1>5 DEF Followed
  <2>2. h.phase \in Streets =>
          /\ h.phase = g.phase /\ h.pot = g.pot /\ h.chips = g.chips
          /\ h.folded = g.folded /\ h.bet = g.bet
    BY <1>1, <1>5 DEF MovedOn, Streets
  <2> QED
    BY <1>1, <1>3, <2>1, <2>2 DEF Shows
<1>6. CASE h.phase # "complete" /\ street # r.phase
  <2>1. Followed(r, h) = [r EXCEPT !.phase = street, !.bet = NoBets(r)]
    BY <1>6 DEF Followed, CommunityDealt
  <2>2. street \in Streets /\ (h.phase \in Streets => street = h.phase)
    BY <1>6, HandFields DEF Streets
  <2>3. h.phase \in Streets =>
          /\ h.pot = g.pot /\ h.chips = g.chips /\ h.folded = g.folded
          /\ h.bet = zeros
    BY <1>1, <1>6, <2>2 DEF MovedOn
  <2> HIDE DEF street, zeros
  <2>4. /\ Followed(r, h) \in Snapshots(g.n)
        /\ Followed(r, h).phase = street /\ Followed(r, h).bet = zeros
        /\ Followed(r, h).pot = r.pot /\ Followed(r, h).chips = r.chips
        /\ Followed(r, h).folded = r.folded
        /\ Followed(r, h).all_in = r.all_in
    BY <1>2, <2>1, <2>2 DEF Snapshots
  <2> QED
    BY <1>1, <1>3, <2>2, <2>3, <2>4 DEF Shows
<1> QED
  BY <1>4, <1>5, <1>6

(* Chips and bets alone decide what a snapshot shows.                      *)
LEMMA SameChipsShow ==
  ASSUME NEW h, NEW g, SameChips(g, h), NEW r, Shows(r, h)
  PROVE  Shows(r, g)
BY DEF SameChips, Shows, Seats

(* A bet recorded by what it comes to is shown as it was made, blinds and  *)
(* short calls included (hand.py:160-178).                                 *)
LEMMA BetShown ==
  ASSUME NEW h, HandType(h), NEW i \in Seats(h), NEW amount \in Nat,
         NEW r \in Snapshots(h.n), Shows(r, h)
  PROVE  LET g == PlaceBet(h, i, amount)
             f == BetPlaced(r, i, g.bet[i])
         IN  f \in Snapshots(h.n) /\ Shows(f, g)
<1> DEFINE actual == Least(amount, h.chips[i])
           g == PlaceBet(h, i, amount)
           f == BetPlaced(r, i, g.bet[i])
           cost == g.bet[i] - r.bet[i]
           broke == IF r.chips[i] = cost THEN r.all_in \cup {i}
                    ELSE r.all_in \ {i}
<1>1. /\ h.chips[i] \in Nat /\ h.bet[i] \in Nat /\ h.pot \in Nat
      /\ h.chips \in [Seats(h) -> Nat] /\ h.bet \in [Seats(h) -> Nat]
  BY HandFields
<1>2. actual \in Nat /\ h.chips[i] - actual \in Nat
  BY <1>1 DEF Least
<1>3. g = [h EXCEPT !.chips[i] = @ - actual, !.bet[i] = @ + actual,
                    !.total[i] = @ + actual, !.pot = @ + actual]
  BY DEF PlaceBet
<1>4. f = [r EXCEPT !.pot = @ + cost, !.chips[i] = @ - cost,
                    !.bet[i] = g.bet[i], !.all_in = broke]
  BY DEF BetPlaced
<1> HIDE DEF actual, f, g, broke
<1>5. /\ g.chips = [h.chips EXCEPT ![i] = @ - actual]
      /\ g.bet = [h.bet EXCEPT ![i] = @ + actual]
      /\ g.pot = h.pot + actual /\ g.n = h.n /\ g.phase = h.phase
      /\ g.folded = h.folded /\ Seats(g) = Seats(h)
  BY <1>3 DEF HandType, HandsOf, Seats
<1>6. /\ r.phase = h.phase /\ r.pot = h.pot /\ r.chips = h.chips
      /\ r.bet = h.bet /\ r.folded = h.folded
      /\ r.all_in = {j \in Seats(h) : h.chips[j] = 0}
  BY DEF Shows
<1>7. g.bet[i] = h.bet[i] + actual /\ cost = actual
  BY <1>1, <1>2, <1>5, <1>6
<1> HIDE DEF cost
<1>8. broke = {j \in Seats(g) : g.chips[j] = 0}
  <2>1. ASSUME NEW j \in Seats(h) \ {i}
        PROVE  j \in broke <=> g.chips[j] = 0
    BY <1>1, <1>5, <1>6 DEF broke
  <2>2. i \in broke <=> g.chips[i] = 0
    BY <1>1, <1>2, <1>5, <1>6, <1>7 DEF broke
  <2>3. broke \subseteq Seats(h)
    BY <1>6 DEF broke
  <2> QED
    BY <1>5, <2>1, <2>2, <2>3
<1>9. /\ [h.chips EXCEPT ![i] = @ - actual] \in [0 .. h.n-1 -> Nat]
      /\ [h.bet EXCEPT ![i] = @ + actual] \in [0 .. h.n-1 -> Nat]
      /\ h.pot + actual \in Nat
      /\ broke \in SUBSET (0 .. h.n-1)
  <2>1. broke \in SUBSET (0 .. h.n-1)
    BY <1>5, <1>8 DEF Seats
  <2> QED
    BY <1>1, <1>2, <2>1 DEF Seats
<1>10. /\ f.pot = r.pot + cost
       /\ f.chips = [r.chips EXCEPT ![i] = @ - cost]
       /\ f.bet = [r.bet EXCEPT ![i] = g.bet[i]]
       /\ f.all_in = broke /\ f.phase = r.phase /\ f.folded = r.folded
       /\ f = [phase |-> f.phase, pot |-> f.pot, chips |-> f.chips,
               bet |-> f.bet, folded |-> f.folded, all_in |-> f.all_in]
  BY <1>4 DEF Snapshots
<1>11. /\ f.pot = g.pot /\ f.chips = g.chips /\ f.bet = g.bet
  BY <1>1, <1>5, <1>6, <1>7, <1>10
<1>12. r.phase \in Streets \cup {"complete"} /\ r.folded \in SUBSET (0 .. h.n-1)
  BY DEF Snapshots
<1>13. f \in Snapshots(h.n)
  <2>1. /\ f.chips \in [0 .. h.n-1 -> Nat] /\ f.bet \in [0 .. h.n-1 -> Nat]
        /\ f.pot \in Nat /\ f.all_in \in SUBSET (0 .. h.n-1)
        /\ f.phase \in Streets \cup {"complete"}
        /\ f.folded \in SUBSET (0 .. h.n-1)
    BY <1>5, <1>9, <1>10, <1>11, <1>12
  <2> QED
    BY <1>10, <2>1 DEF Snapshots
<1>14. Shows(f, g)
  BY <1>5, <1>6, <1>8, <1>10, <1>11 DEF Shows
<1> QED
  BY <1>13, <1>14 DEF f, g

(* So is a player's last chip going in (hand.py:444-458).                  *)
LEMMA AllInShown ==
  ASSUME NEW h, HandType(h), NEW i \in Seats(h),
         NEW r \in Snapshots(h.n), Shows(r, h)
  PROVE  LET g == PlaceBet(h, i, h.chips[i])
             f == WentAllIn(r, i, g.bet[i])
         IN  f \in Snapshots(h.n) /\ Shows(f, g)
<1> DEFINE g == PlaceBet(h, i, h.chips[i])
           f == WentAllIn(r, i, g.bet[i])
           b == BetPlaced(r, i, g.bet[i])
<1>1. /\ h.chips[i] \in Nat /\ h.bet[i] \in Nat
      /\ r.chips \in [0 .. h.n-1 -> Nat] /\ i \in 0 .. h.n-1
      /\ r.chips = h.chips /\ r.bet = h.bet /\ r.pot \in Nat
  BY HandFields DEF Snapshots, Shows, Seats
<1>2. b \in Snapshots(h.n) /\ Shows(b, g)
  BY <1>1, BetShown
<1>3. g.bet[i] = h.bet[i] + h.chips[i]
  BY <1>1, PlaceBetKeeps DEF Least
<1> HIDE DEF g
<1>4. r.chips[i] = g.bet[i] - r.bet[i]
  BY <1>1, <1>3
<1>5. r.pot + g.bet[i] - r.bet[i] = r.pot + (g.bet[i] - r.bet[i])
      /\ r.chips[i] - (g.bet[i] - r.bet[i]) = 0
  BY <1>1, <1>3
<1>6. f = b
  <2>1. b = [r EXCEPT !.pot = r.pot + (g.bet[i] - r.bet[i]),
                      !.chips[i] = r.chips[i] - (g.bet[i] - r.bet[i]),
                      !.bet[i] = g.bet[i],
                      !.all_in = r.all_in \cup {i}]
    BY <1>4 DEF BetPlaced, Snapshots
  <2>2. f = [r EXCEPT !.pot = r.pot + g.bet[i] - r.bet[i],
                      !.chips[i] = 0,
                      !.bet[i] = g.bet[i],
                      !.all_in = r.all_in \cup {i}]
    BY DEF WentAllIn, Snapshots
  <2> QED
    BY <1>5, <2>1, <2>2
<1> QED
  BY <1>2, <1>6 DEF g

(* A snapshot that shows the hand after the player on turn has acted also  *)
(* shows it once the events that follow have been applied.                 *)
LEMMA ReportShows ==
  ASSUME ReplayInv, HandInv', stacks' = stacks,
         NEW g, HandType(g), g.phase \in Streets, Kept(g, stacks),
         g.n = hand.n, MovedOn(hand', g),
         NEW r \in Snapshots(g.n), Shows(r, g), Reports(r)
  PROVE  ReplayInv'
<1>1. HandType(hand')
  BY DEF HandInv, Sound
<1>2. /\ replay' \in Snapshots(g.n)
      /\ replay'.chips = g.chips /\ replay'.pot = g.pot
      /\ hand'.phase \in Streets => Shows(replay', hand')
  BY <1>1, FollowedShows DEF Reports
<1>3. Total(g.chips) + g.pot = Total(stacks)
  BY KeptTotals
<1>4. hand'.n = g.n
  BY DEF MovedOn
<1> QED
  BY <1>2, <1>3, <1>4 DEF ReplayInv, InProgress

(* What a hand is before the turn moves on, when nothing has been put in   *)
(* but what g and p both show.                                             *)
LEMMA ActionShows ==
  ASSUME ReplayInv, InProgress, HandInv', stacks' = stacks,
         NEW p, HandType(p), Kept(p, stacks), p.n = hand.n,
         p.phase = hand.phase,
         NEW g, HandType(g), SameChips(g, p), g.total = p.total,
         hand' = AdvanceTurn(g),
         NEW r \in Snapshots(p.n), Shows(r, p), Reports(r)
  PROVE  ReplayInv'
<1>1. g.n = hand.n /\ g.phase \in Streets
  BY DEF SameChips, InProgress
<1>2. Kept(g, stacks)
  BY DEF SameChips, Kept, Seats
<1>3. MovedOn(hand', g)
  BY <1>1, TurnMovesOn
<1>4. r \in Snapshots(g.n) /\ Shows(r, g)
  BY SameChipsShow DEF SameChips
<1> QED
  BY <1>1, <1>2, <1>3, <1>4, ReportShows

(* Marking who has acted moves no chips.                                   *)
LEMMA MarksMoveNoChips ==
  ASSUME NEW p, HandType(p), p.turn \in Seats(p), NEW m \in Nat
  PROVE  LET g == MarkActed(p)
             f == [ReopenBetting(p) EXCEPT !.min_raise = m]
         IN  /\ HandType(g) /\ SameChips(g, p) /\ g.total = p.total
             /\ HandType(f) /\ SameChips(f, p) /\ f.total = p.total
<1> DEFINE g == MarkActed(p)
           f == [ReopenBetting(p) EXCEPT !.min_raise = m]
<1>1. HandType(g) /\ SameChips(g, p) /\ g.total = p.total
  BY HandFields DEF HandType, HandsOf, Seats, MarkActed, SameChips
<1>2. p.bet[p.turn] \in Nat
  BY HandFields
<1>3. HandType(f) /\ SameChips(f, p) /\ f.total = p.total
  BY <1>2, HandFields DEF HandType, HandsOf, Seats, ReopenBetting, SameChips
<1> QED
  BY <1>1, <1>3

(* The hand behind a snapshot that is right.                               *)
LEMMA ReplayedHand ==
  ASSUME ReplayInv, InProgress
  PROVE  /\ HandType(hand) /\ Kept(hand, stacks) /\ hand.turn \in Seats(hand)
         /\ hand.phase \in Streets /\ Sound(hand, stacks)
         /\ replay \in Snapshots(hand.n) /\ Shows(replay, hand)
<1>1. Sound(hand, stacks) /\ hand.phase \in Streets
  BY DEF ReplayInv, HandInv, InProgress
<1> QED
  BY <1>1, SoundFields DEF ReplayInv

(* A bet, however it is called, is replayed as it was made.                *)
LEMMA PaymentShows ==
  ASSUME ReplayInv, InProgress, HandInv', stacks' = stacks,
         NEW amount \in Nat, NEW m \in Nat,
         \/ hand' = AdvanceTurn(MarkActed(PlaceBet(hand, hand.turn, amount)))
         \/ hand' = AdvanceTurn([ReopenBetting(PlaceBet(hand, hand.turn, amount))
                                   EXCEPT !.min_raise = m]),
         NEW r \in Snapshots(hand.n),
         Shows(r, PlaceBet(hand, hand.turn, amount)),
         Reports(r)
  PROVE  ReplayInv'
<1> DEFINE p == PlaceBet(hand, hand.turn, amount)
           g == MarkActed(p)
           f == [ReopenBetting(p) EXCEPT !.min_raise = m]
<1>1. HandType(hand) /\ Kept(hand, stacks) /\ hand.turn \in Seats(hand)
  BY ReplayedHand
<1>2. /\ HandType(p) /\ Kept(p, stacks) /\ p.n = hand.n
      /\ p.phase = hand.phase /\ p.turn = hand.turn
  BY <1>1, PlaceBetKeeps
<1>3. p.turn \in Seats(p)
  BY <1>1, <1>2 DEF Seats
<1>4. Shows(r, p) /\ r \in Snapshots(p.n)
  BY <1>2
<1>5. hand' = AdvanceTurn(g) \/ hand' = AdvanceTurn(f)
  OBVIOUS
<1> HIDE DEF p
<1>6. /\ HandType(g) /\ SameChips(g, p) /\ g.total = p.total
      /\ HandType(f) /\ SameChips(f, p) /\ f.total = p.total
  BY <1>2, <1>3, MarksMoveNoChips
<1> HIDE DEF f, g
<1>7. CASE hand' = AdvanceTurn(g)
  BY <1>2, <1>4, <1>6, <1>7, ActionShows
<1>8. CASE hand' = AdvanceTurn(f)
  BY <1>2, <1>4, <1>6, <1>8, ActionShows
<1> QED
  BY <1>5, <1>7, <1>8

(* The steps of the replay are steps of the hand.                          *)
LEMMA ReplayStepsAre ==
  ReplayNext => Next /\ stacks' = stacks
<1>1. ASSUME ReplayNext PROVE Next
  <2>1. ASSUME NEW amount \in Amounts, Bet(amount) \/ Raise(amount)
        PROVE  Next
    BY <2>1 DEF Next, TurnStep
  <2>2. ASSUME NEW i \in Seats(hand), ForcedFold(i) PROVE Next
    BY <2>2 DEF Next
  <2>3. ASSUME NEW rank \in Rankings(hand), ResolveShowdown(rank) PROVE Next
    BY <2>3 DEF Next
  <2>4. Fold \/ Check \/ Call \/ AllIn => Next
    BY DEF Next, TurnStep
  <2> QED
    BY <1>1, <2>1, <2>2, <2>3, <2>4 DEF ReplayNext
<1>2. ASSUME ReplayNext PROVE stacks' = stacks
  BY <1>2 DEF ReplayNext, Fold, Check, Call, Bet, Raise, AllIn, ForcedFold,
              ResolveShowdown
<1> QED
  BY <1>1, <1>2

(* Who folds, on turn or out of it, is shown to have folded.               *)
LEMMA FoldShows ==
  ASSUME ReplayInv, InProgress, HandInv', stacks' = stacks,
         NEW i \in Seats(hand), NEW acted \in SUBSET Seats(hand),
         LET g == [hand EXCEPT !.acted = acted, !.folded = @ \cup {i}]
         IN  hand' = AwardSole(g) \/ hand' = AdvanceTurn(g) \/ hand' = g,
         Reports(Folded(replay, i))
  PROVE  ReplayInv'
<1> DEFINE g == [hand EXCEPT !.acted = acted, !.folded = @ \cup {i}]
           r == Folded(replay, i)
<1>1. /\ HandType(hand) /\ Kept(hand, stacks) /\ hand.phase \in Streets
      /\ replay \in Snapshots(hand.n) /\ Shows(replay, hand)
  BY ReplayedHand
<1>2. /\ HandType(g) /\ g.n = hand.n /\ g.phase = hand.phase
      /\ g.chips = hand.chips /\ g.bet = hand.bet /\ g.total = hand.total
      /\ g.pot = hand.pot /\ g.folded = hand.folded \cup {i}
  BY <1>1, HandFields DEF HandType, HandsOf, Seats
<1>3. hand' = AwardSole(g) \/ hand' = AdvanceTurn(g) \/ hand' = g
  OBVIOUS
<1> HIDE DEF g
<1>4. Kept(g, stacks)
  BY <1>1, <1>2 DEF Kept, Seats
<1>5. MovedOn(hand', g)
  BY <1>1, <1>2, <1>3, TurnMovesOn, ShowdownIsNoStreet DEF MovedOn
<1>6. r \in Snapshots(g.n) /\ Shows(r, g)
  BY <1>1, <1>2 DEF Folded, Snapshots, Shows, Seats
<1>7. g.phase \in Streets /\ Reports(r)
  BY <1>1, <1>2
<1> HIDE DEF r
<1> QED
  BY <1>2, <1>4, <1>5, <1>6, <1>7, ReportShows

(* A call is recorded by what the bet comes to, not by what it cost.       *)
LEMMA CallShows ==
  ASSUME ReplayInv, HandInv', stacks' = stacks, Call,
         Reports(BetPlaced(replay, hand.turn, Recorded(ToCall(hand))))
  PROVE  ReplayInv'
<1> DEFINE amount == ToCall(hand)
           r == BetPlaced(replay, hand.turn, Recorded(amount))
<1>1. InProgress /\ MayCall(hand)
  BY DEF Call
<1>2. /\ HandType(hand) /\ hand.turn \in Seats(hand)
      /\ replay \in Snapshots(hand.n) /\ Shows(replay, hand)
  BY <1>1, ReplayedHand
<1>3. amount \in Nat /\ hand.min_raise \in Nat
  BY <1>1, <1>2, HandFields DEF MayCall, ToCall
<1>4. hand' = AdvanceTurn(MarkActed(PlaceBet(hand, hand.turn, amount)))
  BY DEF Call, AfterCall
<1> HIDE DEF amount
<1>5. r \in Snapshots(hand.n) /\ Shows(r, PlaceBet(hand, hand.turn, amount))
  BY <1>2, <1>3, BetShown DEF Recorded
<1>6. Reports(r)
  BY DEF amount
<1> HIDE DEF r
<1> QED
  BY <1>1, <1>3, <1>4, <1>5, <1>6, PaymentShows

LEMMA BetShows ==
  ASSUME ReplayInv, HandInv', stacks' = stacks, NEW amount \in Amounts,
         Bet(amount),
         Reports(BetPlaced(replay, hand.turn, Recorded(amount)))
  PROVE  ReplayInv'
<1> DEFINE r == BetPlaced(replay, hand.turn, Recorded(amount))
<1>1. InProgress /\ amount \in Nat
  BY TableAssumption DEF Bet, Amounts
<1>2. /\ HandType(hand) /\ hand.turn \in Seats(hand)
      /\ replay \in Snapshots(hand.n) /\ Shows(replay, hand)
  BY <1>1, ReplayedHand
<1>3. hand' = AdvanceTurn([ReopenBetting(PlaceBet(hand, hand.turn, amount))
                             EXCEPT !.min_raise = amount])
  BY DEF Bet, AfterBet
<1>4. r \in Snapshots(hand.n) /\ Shows(r, PlaceBet(hand, hand.turn, amount))
  BY <1>1, <1>2, BetShown DEF Recorded
<1> HIDE DEF r
<1> QED
  BY <1>1, <1>3, <1>4, PaymentShows DEF r

(* A raise is recorded by the amount asked for, which is what it comes to, *)
(* since nobody may raise by more than he has.                             *)
LEMMA RaiseShows ==
  ASSUME ReplayInv, HandInv', stacks' = stacks, NEW amount \in Amounts,
         Raise(amount), Reports(BetPlaced(replay, hand.turn, amount))
  PROVE  ReplayInv'
<1> DEFINE additional == amount - hand.bet[hand.turn]
           p == PlaceBet(hand, hand.turn, additional)
           m == Greatest(hand.min_raise, amount - hand.current_bet)
           r == BetPlaced(replay, hand.turn, amount)
<1>1. InProgress /\ MayRaise(hand, amount) /\ amount \in Nat
  BY TableAssumption DEF Raise, Amounts
<1>2. /\ HandType(hand) /\ hand.turn \in Seats(hand)
      /\ replay \in Snapshots(hand.n) /\ Shows(replay, hand)
  BY <1>1, ReplayedHand
<1>3. /\ hand.bet[hand.turn] \in Nat /\ hand.chips[hand.turn] \in Nat
      /\ hand.min_raise \in Nat /\ hand.current_bet \in Nat
  BY <1>2, HandFields
<1>4. additional \in Nat /\ additional <= hand.chips[hand.turn] /\ m \in Nat
      /\ hand.bet[hand.turn] + additional = amount
  BY <1>1, <1>3 DEF MayRaise, Greatest
<1>5. hand' = AdvanceTurn([ReopenBetting(p) EXCEPT !.min_raise = m])
  <2>1. ReopenBetting(p).min_raise = p.min_raise
    BY DEF ReopenBetting, PlaceBet
  <2>2. p.min_raise = hand.min_raise
    BY DEF PlaceBet
  <2>3. hand' = AdvanceTurn([ReopenBetting(p) EXCEPT
                   !.min_raise = Greatest(@, amount - hand.current_bet)])
    BY DEF Raise, AfterRaise
  <2> HIDE DEF p
  <2> QED
    BY <2>1, <2>2, <2>3
<1> HIDE DEF additional, m
<1>6. p.bet[hand.turn] = amount
  BY <1>2, <1>3, <1>4, PlaceBetKeeps DEF Least
<1>7. r \in Snapshots(hand.n) /\ Shows(r, p)
  BY <1>2, <1>4, <1>6, BetShown
<1>8. Reports(r)
  OBVIOUS
<1> HIDE DEF r
<1> QED
  BY <1>1, <1>4, <1>5, <1>7, <1>8, PaymentShows

LEMMA AllInShows ==
  ASSUME ReplayInv, HandInv', stacks' = stacks, AllIn,
         Reports(WentAllIn(replay, hand.turn,
                           Recorded(hand.chips[hand.turn])))
  PROVE  ReplayInv'
<1> DEFINE amount == hand.chips[hand.turn]
           p == PlaceBet(hand, hand.turn, amount)
           increment == p.bet[hand.turn] - hand.current_bet
           m == Greatest(p.min_raise, increment)
           r == WentAllIn(replay, hand.turn, Recorded(amount))
<1>1. InProgress
  BY DEF AllIn
<1>2. /\ HandType(hand) /\ hand.turn \in Seats(hand)
      /\ replay \in Snapshots(hand.n) /\ Shows(replay, hand)
  BY <1>1, ReplayedHand
<1>3. amount \in Nat /\ hand.current_bet \in Nat /\ hand.min_raise \in Nat
  BY <1>2, HandFields
<1>4. r \in Snapshots(hand.n) /\ Shows(r, p)
  BY <1>2, AllInShown DEF Recorded
<1>5. m \in Nat
  <2> HIDE DEF amount
  <2>1. /\ p.n = hand.n /\ p.min_raise = hand.min_raise
        /\ HandType(p)
    BY <1>2, <1>3, PlaceBetKeeps
  <2>2. p.bet[hand.turn] \in Nat
    BY <1>2, <2>1, HandFields DEF Seats
  <2> HIDE DEF p
  <2> QED
    BY <1>3, <2>1, <2>2 DEF Greatest
<1>6. \/ hand' = AdvanceTurn(MarkActed(p))
      \/ hand' = AdvanceTurn([ReopenBetting(p) EXCEPT !.min_raise = m])
  <2>1. ReopenBetting(p).min_raise = p.min_raise
    BY DEF ReopenBetting, PlaceBet
  <2>2. hand' = IF increment > 0
                  THEN AdvanceTurn([ReopenBetting(p) EXCEPT
                                      !.min_raise = Greatest(@, increment)])
                  ELSE AdvanceTurn(MarkActed(p))
    BY DEF AllIn, AfterAllIn
  <2> HIDE DEF p, increment
  <2> QED
    BY <2>1, <2>2
<1>7. Reports(r)
  OBVIOUS
<1> HIDE DEF amount, m, r
<1> QED
  BY <1>1, <1>3, <1>4, <1>5, <1>6, <1>7, PaymentShows

(* The replay starts with the blinds of the hand.                          *)
LEMMA ReplayInvInit ==
  ReplayInit => ReplayInv
<1> SUFFICES ASSUME ReplayInit PROVE ReplayInv
  OBVIOUS
<1>1. HandInv
  BY HandInvInit DEF ReplayInit
<1>2. PICK n \in 2 .. MaxSeats :
        /\ stacks \in [0 .. n-1 -> 1 .. MaxStack]
        /\ \E dealer \in 0 .. n-1 : hand = NewHand(stacks, n, dealer)
  BY DEF ReplayInit, Init
<1>3. PICK dealer \in 0 .. n-1 : hand = NewHand(stacks, n, dealer)
  BY <1>2
<1>4. n \in Nat \ {0, 1} /\ MaxStack \in Nat
  BY TableAssumption
<1>5. stacks \in [0 .. n-1 -> Nat] /\ \A i \in 0 .. n-1 : stacks[i] # 0
  BY <1>2, <1>4
<1> DEFINE d      == Dealt(stacks, n, dealer)
           small  == SmallBlindSeat(hand)
           big    == BigBlindSeat(hand)
           posted == PlaceBet(d, small, SmallBlind)
           both   == PlaceBet(posted, big, BigBlind)
           cap    == Least(BigBlind, posted.chips[big])
           h      == [both EXCEPT !.current_bet = cap]
           r0     == HandStarted(stacks)
           r1     == BetPlaced(r0, small, Least(SmallBlind, stacks[small]))
           r2     == BetPlaced(r1, big, Least(BigBlind, stacks[big]))
<1>6. hand.n = n /\ hand.dealer = dealer
  BY <1>3, <1>4, <1>5, NewHandSound
<1>7. /\ HandType(d) /\ d.n = n /\ d.phase = "preflop" /\ d.dealer = dealer
      /\ d.chips = stacks /\ d.total = [i \in 0 .. n-1 |-> 0] /\ d.pot = 0
      /\ d.bet = [i \in 0 .. n-1 |-> 0] /\ d.folded = {}
  BY <1>4, <1>5, BlindsAssumption DEF Dealt, HandType, HandsOf, Streets
<1>8. Kept(d, stacks)
  BY <1>4, <1>5, <1>7, TotalOfZeros DEF Kept, Seats
<1>9. SmallBlindSeat(d) = small /\ BigBlindSeat(d) = big
  BY <1>6, <1>7 DEF SmallBlindSeat, BigBlindSeat, SeatFromDealer
<1>10. hand = StartBettingRound(h)
  <2>1. posted = PlaceBet(d, SmallBlindSeat(d), SmallBlind)
    BY <1>9
  <2>2. hand = StartBettingRound(PostBlinds(d))
    BY <1>3 DEF NewHand
  <2> HIDE DEF d
  <2>3. PostBlinds(d) = [both EXCEPT !.current_bet = cap]
    BY <1>9 DEF PostBlinds
  <2> QED
    BY <2>2, <2>3
<1>11. small \in 0 .. n-1 /\ big \in 0 .. n-1 /\ small # big
  <2>1. /\ n # 2 => small = (dealer + 1) % n /\ big = (dealer + 2) % n
        /\ n = 2 => small = dealer /\ big = (dealer + 1) % n
    BY <1>6 DEF SmallBlindSeat, BigBlindSeat, SeatFromDealer
  <2>2. /\ (dealer + 1) % n = IF dealer + 1 < n THEN dealer + 1 ELSE 0
    BY <1>4
  <2>3. n > 2 => (dealer + 2) % n = IF dealer + 2 < n THEN dealer + 2
                                    ELSE dealer + 2 - n
    BY <1>4
  <2> QED
    BY <1>4, <2>1, <2>2, <2>3
<1>12. Seats(d) = 0 .. n-1 /\ small \in Seats(d)
  BY <1>7, <1>11 DEF Seats
<1>13. r0 \in Snapshots(n) /\ Shows(r0, d)
  BY <1>4, <1>5, <1>7, <1>12 DEF HandStarted, Snapshots, Shows, Streets
<1>14. SmallBlind \in Nat /\ BigBlind \in Nat
  BY BlindsAssumption
<1> HIDE DEF d, small, big, r0
<1>15. /\ HandType(posted) /\ Kept(posted, stacks) /\ posted.n = n
       /\ posted.phase = "preflop" /\ posted.folded = {}
       /\ posted.chips[big] = stacks[big] /\ posted.bet[big] = 0
       /\ posted.bet[small] = Least(SmallBlind, stacks[small])
  <2>1. /\ d.bet[small] = 0 /\ d.bet[big] = 0
        /\ d.chips[big] = stacks[big] /\ d.chips[small] = stacks[small]
        /\ big \in Seats(d) \ {small}
        /\ Least(SmallBlind, stacks[small]) \in Nat
    BY <1>5, <1>7, <1>11, <1>12, <1>14 DEF Least
  <2> HIDE DEF posted
  <2>2. /\ HandType(posted) /\ Kept(posted, stacks) /\ posted.n = d.n
        /\ posted.phase = d.phase /\ posted.folded = d.folded
        /\ posted.chips[big] = d.chips[big] /\ posted.bet[big] = d.bet[big]
        /\ posted.bet[small] = d.bet[small] + Least(SmallBlind, d.chips[small])
    BY <1>7, <1>8, <1>12, <1>14, <2>1, PlaceBetKeeps DEF posted
  <2> QED
    BY <1>7, <2>1, <2>2
<1>16. r1 \in Snapshots(n) /\ Shows(r1, posted)
  BY <1>7, <1>12, <1>13, <1>14, <1>15, BetShown
<1>17. big \in Seats(posted)
  BY <1>11, <1>15 DEF Seats
<1> HIDE DEF posted, r1
<1>18. /\ HandType(both) /\ Kept(both, stacks) /\ both.n = n
       /\ both.phase = "preflop" /\ both.folded = {}
       /\ both.bet[big] = Least(BigBlind, stacks[big])
  <2>1. Least(BigBlind, stacks[big]) \in Nat
    BY <1>5, <1>11, <1>14 DEF Least
  <2>2. /\ HandType(both) /\ Kept(both, stacks) /\ both.n = posted.n
        /\ both.phase = posted.phase /\ both.folded = posted.folded
        /\ both.bet[big] = posted.bet[big] + Least(BigBlind, posted.chips[big])
    BY <1>14, <1>15, <1>17, PlaceBetKeeps
  <2> HIDE DEF both
  <2> QED
    BY <1>15, <2>1, <2>2
<1>19. r2 \in Snapshots(n) /\ Shows(r2, both)
  BY <1>14, <1>15, <1>16, <1>17, <1>18, BetShown
<1>20. cap \in Nat
  BY <1>5, <1>11, <1>14, <1>15 DEF Least
<1>21. replay = Followed(r2, hand)
  BY DEF ReplayInit, r1, r0, small, big
<1> HIDE DEF both, cap, r2
<1>22. /\ HandType(h) /\ SameChips(h, both) /\ h.total = both.total
       /\ h.phase = "preflop" /\ h.n = n
  BY <1>18, <1>20, HandFields DEF HandType, HandsOf, Seats, SameChips
<1> HIDE DEF h
<1>23. Shows(r2, h) /\ Kept(h, stacks)
  BY <1>18, <1>19, <1>22, SameChipsShow DEF SameChips, Kept, Seats
<1>24. MovedOn(hand, h) /\ HandType(hand) /\ h.phase \in Streets
  BY <1>1, <1>10, <1>22, RoundStarts DEF MovedOn, HandInv, Sound, Streets
<1>25. /\ replay \in Snapshots(n) /\ replay.chips = h.chips
       /\ replay.pot = h.pot
       /\ hand.phase \in Streets => Shows(replay, hand)
  BY <1>19, <1>21, <1>22, <1>23, <1>24, FollowedShows
<1>26. Total(h.chips) + h.pot = Total(stacks)
  BY <1>22, <1>23, KeptTotals
<1> QED
  BY <1>1, <1>6, <1>25, <1>26 DEF ReplayInv, InProgress

(* It goes on as the hand does.                                            *)
LEMMA ReplayInvNext ==
  ReplayInv /\ [ReplayNext]_replayVars => ReplayInv'
<1> SUFFICES ASSUME ReplayInv, [ReplayNext]_replayVars PROVE ReplayInv'
  OBVIOUS
<1>1. CASE UNCHANGED replayVars
  BY <1>1 DEF replayVars, vars, ReplayInv, HandInv, InProgress
<1>2. CASE ReplayNext
  <2>1. HandInv' /\ stacks' = stacks
    BY <1>2, ReplayStepsAre, HandInvNext DEF ReplayInv
  <2>2. CASE Fold /\ Reports(Folded(replay, hand.turn))
    <3> DEFINE acted == hand.acted \cup {hand.turn}
               i     == hand.turn
               g     == [hand EXCEPT !.acted = acted, !.folded = @ \cup {i}]
    <3>1. InProgress
      BY <2>2 DEF Fold
    <3>2. HandType(hand) /\ i \in Seats(hand) /\ acted \in SUBSET Seats(hand)
      BY <3>1, ReplayedHand, HandFields
    <3>3. [MarkActed(hand) EXCEPT !.folded = @ \cup {i}] = g
      BY <3>2 DEF MarkActed, HandType, HandsOf
    <3>4. hand' = AwardSole(g) \/ hand' = AdvanceTurn(g)
      BY <2>2, <3>3 DEF Fold, AfterFold
    <3>5. Reports(Folded(replay, i))
      BY <2>2
    <3> HIDE DEF acted, i
    <3> QED
      BY <2>1, <3>1, <3>2, <3>4, <3>5, FoldShows
  <2>3. CASE Check /\ Reports(replay)
    <3>1. InProgress /\ hand' = AdvanceTurn(MarkActed(hand))
      BY <2>3 DEF Check, AfterCheck
    <3>2. /\ HandType(hand) /\ Kept(hand, stacks) /\ hand.turn \in Seats(hand)
          /\ replay \in Snapshots(hand.n) /\ Shows(replay, hand)
      BY <3>1, ReplayedHand
    <3> DEFINE g == MarkActed(hand)
    <3>3. HandType(g) /\ SameChips(g, hand) /\ g.total = hand.total
      BY <3>2, MarksMoveNoChips
    <3> HIDE DEF g
    <3>4. hand' = AdvanceTurn(g)
      BY <3>1 DEF g
    <3> QED
      BY <2>1, <2>3, <3>1, <3>2, <3>3, <3>4, ActionShows
  <2>4. CASE Call /\ Reports(BetPlaced(replay, hand.turn,
                                       Recorded(ToCall(hand))))
    BY <2>1, <2>4, CallShows
  <2>5. ASSUME NEW amount \in Amounts, Bet(amount),
               Reports(BetPlaced(replay, hand.turn, Recorded(amount)))
        PROVE  ReplayInv'
    BY <2>1, <2>5, BetShows
  <2>6. ASSUME NEW amount \in Amounts, Raise(amount),
               Reports(BetPlaced(replay, hand.turn, amount))
        PROVE  ReplayInv'
    BY <2>1, <2>6, RaiseShows
  <2>7. CASE AllIn /\ Reports(WentAllIn(replay, hand.turn,
                                        Recorded(hand.chips[hand.turn])))
    BY <2>1, <2>7, AllInShows
  <2>8. ASSUME NEW i \in Seats(hand), ForcedFold(i), Reports(Folded(replay, i))
        PROVE  ReplayInv'
    <3> DEFINE acted == hand.acted
               g     == [hand EXCEPT !.acted = acted, !.folded = @ \cup {i}]
    <3>1. InProgress
      BY <2>8 DEF ForcedFold
    <3>2. HandType(hand) /\ acted \in SUBSET Seats(hand)
      BY <3>1, ReplayedHand, HandFields
    <3>3. [hand EXCEPT !.folded = @ \cup {i}] = g
      BY <3>2 DEF HandType, HandsOf
    <3>4. hand' = AwardSole(g) \/ hand' = g
      BY <2>8, <3>3 DEF ForcedFold, AfterForcedFold
    <3> HIDE DEF acted
    <3> QED
      BY <2>1, <2>8, <3>1, <3>2, <3>4, FoldShows
  <2>9. ASSUME NEW rank \in Rankings(hand), ResolveShowdown(rank),
               Reports(replay)
        PROVE  ReplayInv'
    <3>1. hand'.phase = "complete" /\ hand'.n = hand.n
      BY <2>9 DEF ResolveShowdown, Showdown, ReplayInv, HandInv, Sound,
                  HandType, HandsOf
    <3>2. replay' = [replay EXCEPT !.phase = "complete"]
      BY <2>9, <3>1 DEF Reports, Followed, HandCompleted
    <3>3. /\ replay' \in Snapshots(hand.n)
          /\ replay'.chips = replay.chips /\ replay'.pot = replay.pot
      BY <3>2 DEF ReplayInv, Snapshots
    <3> QED
      BY <2>1, <3>1, <3>3 DEF ReplayInv, InProgress, Streets
  <2> QED
    BY <1>2, <2>2, <2>3, <2>4, <2>5, <2>6, <2>7, <2>8, <2>9 DEF ReplayNext
<1> QED
  BY <1>1, <1>2

(* What the recorder stores is enough to show every moment of the hand,    *)
(* and its replay never makes or loses a chip (replay.py:62-122).          *)
THEOREM ReplayCorrect ==
  ReplaySpec => []ReplayShowsHand
<1>1. ReplayInv => ReplayShowsHand
  BY DEF ReplayInv, ReplayShowsHand, Shows
<1> QED
  BY <1>1, ReplayInvInit, ReplayInvNext, PTL DEF ReplaySpec

(* What holds of every hand also holds of the hands that are replayed,     *)
(* which are those the run checks.                                         *)
THEOREM ReplayPlaysHand ==
  ReplaySpec => Spec
<1>1. ReplayInit => Init
  BY DEF ReplayInit
<1>2. [ReplayNext]_replayVars => [Next]_vars
  BY ReplayStepsAre DEF replayVars
<1> QED
  BY <1>1, <1>2, PTL DEF ReplaySpec, Spec

-----------------------------------------------------------------------------
(* The bets of a street.  Nobody has more in the round than in the hand,   *)
(* every raise has a least size, and after the flop a round nobody has bet *)
(* in has no bets and may be opened with the big blind.                    *)
BetsSound(h) ==
  /\ \A i \in Seats(h) : h.bet[i] <= h.total[i]
  /\ h.min_raise > 0
  /\ h.phase # "preflop" /\ h.current_bet = 0 =>
       /\ h.min_raise >= BigBlind
       /\ \A i \in Seats(h) : h.bet[i] = 0

(* They stay so when the turn moves on, and the next street begins so.     *)
LEMMA TurnKeepsBets ==
  ASSUME NEW h, HandType(h), h.phase \in Streets, BetsSound(h),
         AdvanceTurn(h).phase \in Streets
  PROVE  BetsSound(AdvanceTurn(h))
<1> DEFINE after == [h EXCEPT !.phase = StreetAfter[@], !.turn = NoSeat]
           t == FirstActor(h, (h.turn + 1) % h.n)
<1>1. CASE ~(CanAct(h) \subseteq h.acted)
  <2>1. AdvanceTurn(h) = [h EXCEPT !.turn = t]
    BY <1>1 DEF AdvanceTurn
  <2> HIDE DEF t
  <2>2. /\ AdvanceTurn(h).n = h.n /\ AdvanceTurn(h).phase = h.phase
        /\ AdvanceTurn(h).bet = h.bet /\ AdvanceTurn(h).total = h.total
        /\ AdvanceTurn(h).current_bet = h.current_bet
        /\ AdvanceTurn(h).min_raise = h.min_raise
    BY <2>1 DEF HandType, HandsOf
  <2> QED
    BY <2>2 DEF BetsSound, Seats
<1>2. CASE CanAct(h) \subseteq h.acted
  <2>1. AdvanceTurn(h) = EndBettingRound(h)
    BY <1>2 DEF AdvanceTurn
  <2>2. ~(Cardinality(InHand(h)) <= 1 \/ h.phase = "river")
    BY <2>1, ShowdownIsNoStreet DEF EndBettingRound
  <2>3. AdvanceTurn(h) = StartBettingRound(after)
    BY <2>1, <2>2 DEF EndBettingRound
  <2>4. StreetAfter[h.phase] \in Streets \ {"preflop"}
    BY <2>2 DEF Streets, StreetAfter
  <2>5. /\ HandType(after) /\ after.phase # "preflop"
        /\ after.n = h.n /\ after.total = h.total
    BY <2>4, HandFields DEF HandType, HandsOf, Seats
  <2> HIDE DEF after
  <2> DEFINE g == AdvanceTurn(h)
  <2>6. /\ g.n = h.n /\ g.total = h.total
        /\ g.bet = [i \in Seats(h) |-> 0]
        /\ g.current_bet = 0 /\ g.min_raise = BigBlind
    BY <2>3, <2>5, RoundStarts DEF Seats
  <2>7. h.total \in [Seats(h) -> Nat] /\ BigBlind \in Nat /\ BigBlind > 0
    BY HandFields, BlindsAssumption
  <2> HIDE DEF g
  <2>8. \A i \in Seats(g) : g.bet[i] = 0 /\ g.total[i] \in Nat
    BY <2>6, <2>7 DEF Seats
  <2>9. BetsSound(g)
    BY <2>6, <2>7, <2>8 DEF BetsSound
  <2> QED
    BY <2>9 DEF g
<1> QED
  BY <1>1, <1>2

(* A bet adds the same to the round and to the hand.                       *)
LEMMA StakeGrows ==
  ASSUME NEW h, HandType(h), NEW s, Kept(h, s), NEW i \in Seats(h),
         NEW amount \in Nat, \A j \in Seats(h) : h.bet[j] <= h.total[j]
  PROVE  \A j \in Seats(h) : PlaceBet(h, i, amount).bet[j]
                               <= PlaceBet(h, i, amount).total[j]
<1> DEFINE p == PlaceBet(h, i, amount)
<1>1. /\ HandType(p) /\ Kept(p, s) /\ p.n = h.n
      /\ \A j \in Seats(h) \ {i} : p.bet[j] = h.bet[j]
                                   /\ p.total[j] = h.total[j]
      /\ p.chips[i] = h.chips[i] - Least(amount, h.chips[i])
      /\ p.bet[i] = h.bet[i] + Least(amount, h.chips[i])
  BY PlaceBetKeeps
<1> HIDE DEF p
<1>2. /\ h.chips[i] \in Nat /\ h.total[i] \in Nat /\ h.bet[i] \in Nat
      /\ p.total[i] \in Nat
  BY <1>1, HandFields DEF Seats
<1>3. /\ p.chips[i] + p.total[i] = s[i]
      /\ h.chips[i] + h.total[i] = s[i]
  BY <1>1 DEF Kept, Seats
<1>4. Least(amount, h.chips[i]) \in Nat
  BY <1>2 DEF Least
<1>5. p.bet[i] <= p.total[i]
  BY <1>1, <1>2, <1>3, <1>4
<1>6. \A j \in Seats(h) : p.bet[j] <= p.total[j]
  BY <1>1, <1>5
<1> QED
  BY <1>6 DEF p

(* The player on turn pays into the pot.                                   *)
LEMMA TurnPays ==
  ASSUME NEW h, NEW s, Sound(h, s), h.phase \in Streets, BetsSound(h),
         NEW amount \in Nat
  PROVE  LET p == PlaceBet(h, h.turn, amount)
         IN  /\ \A i \in Seats(h) : p.bet[i] <= p.total[i]
             /\ \A i \in Seats(h) \ {h.turn} : p.bet[i] = h.bet[i]
             /\ p.bet[h.turn] = h.bet[h.turn] + Least(amount, h.chips[h.turn])
             /\ p.chips[h.turn] = h.chips[h.turn]
                                  - Least(amount, h.chips[h.turn])
             /\ h.chips[h.turn] > 0
             /\ CanAct(p) \subseteq CanAct(h)
             /\ p.chips \in [Seats(h) -> Nat] /\ p.bet \in [Seats(h) -> Nat]
<1> DEFINE p == PlaceBet(h, h.turn, amount)
<1>1. /\ HandType(h) /\ h.turn \in CanAct(h) /\ h.turn \in Seats(h)
      /\ Kept(h, s)
  BY SoundFields
<1>2. /\ HandType(p) /\ Kept(p, s) /\ p.n = h.n /\ p.folded = h.folded
      /\ \A j \in Seats(h) \ {h.turn} : p.chips[j] = h.chips[j]
                                        /\ p.bet[j] = h.bet[j]
                                        /\ p.total[j] = h.total[j]
      /\ p.chips[h.turn] = h.chips[h.turn] - Least(amount, h.chips[h.turn])
      /\ p.bet[h.turn] = h.bet[h.turn] + Least(amount, h.chips[h.turn])
  BY <1>1, PlaceBetKeeps
<1> HIDE DEF p
<1>3. /\ h.chips \in [Seats(h) -> Nat] /\ h.bet \in [Seats(h) -> Nat]
      /\ h.total \in [Seats(h) -> Nat]
      /\ p.chips \in [Seats(h) -> Nat] /\ p.bet \in [Seats(h) -> Nat]
      /\ p.total \in [Seats(h) -> Nat]
  BY <1>1, <1>2, HandFields DEF Seats
<1>4. h.chips[h.turn] > 0
  BY <1>1 DEF CanAct
<1>5. \A i \in Seats(h) : h.bet[i] <= h.total[i]
  BY DEF BetsSound
<1>6. \A i \in Seats(h) : p.bet[i] <= p.total[i]
  BY <1>1, <1>5, StakeGrows DEF p
<1>7. CanAct(p) \subseteq CanAct(h)
  BY <1>1, <1>2, <1>3, <1>4 DEF CanAct, InHand, Seats
<1> QED
  BY <1>2, <1>3, <1>4, <1>6, <1>7 DEF p

(* The bets of the round after the player on turn has put chips in and     *)
(* reopened the betting, be it above the bet or with his last chips below. *)
LEMMA ReopenedBets ==
  ASSUME NEW h, NEW s, Sound(h, s), h.phase \in Streets, BetsSound(h),
         NEW amount \in Nat, amount > 0, NEW m \in Nat, m > 0
  PROVE  LET g == [ReopenBetting(PlaceBet(h, h.turn, amount)) EXCEPT
                     !.min_raise = m]
         IN  AdvanceTurn(g).phase \in Streets => BetsSound(AdvanceTurn(g))
<1> DEFINE p == PlaceBet(h, h.turn, amount)
           g == [ReopenBetting(p) EXCEPT !.min_raise = m]
<1>1. /\ HandType(h) /\ h.turn \in Seats(h) /\ h.bet[h.turn] \in Nat
      /\ h.chips[h.turn] \in Nat
  BY SoundFields, HandFields
<1>2. /\ HandType(p) /\ p.n = h.n /\ p.turn = h.turn /\ p.phase = h.phase
  BY <1>1, PlaceBetKeeps
<1>3. /\ \A i \in Seats(h) : p.bet[i] <= p.total[i]
      /\ p.bet[h.turn] = h.bet[h.turn] + Least(amount, h.chips[h.turn])
      /\ h.chips[h.turn] > 0
  BY TurnPays
<1> HIDE DEF p
<1>4. p.bet[h.turn] \in Nat /\ p.bet[h.turn] > 0
  BY <1>1, <1>3 DEF Least
<1>5. /\ HandType(g) /\ g.n = h.n /\ g.phase = h.phase
      /\ g.bet = p.bet /\ g.total = p.total
      /\ g.current_bet = p.bet[h.turn] /\ g.min_raise = m
  <2>1. p.turn \in Seats(p)
    BY <1>1, <1>2 DEF Seats
  <2> QED
    BY <1>1, <1>2, <1>4, <2>1, HandFields
       DEF ReopenBetting, HandType, HandsOf, Seats
<1> HIDE DEF g
<1>6. BetsSound(g)
  BY <1>3, <1>4, <1>5 DEF BetsSound, Seats
<1>7. AdvanceTurn(g).phase \in Streets => BetsSound(AdvanceTurn(g))
  BY <1>5, <1>6, TurnKeepsBets
<1> QED
  BY <1>7 DEF p, g

(* The player on turn has acted without reopening it.                      *)
LEMMA MarkedBets ==
  ASSUME NEW h, HandType(h), h.phase \in Streets, BetsSound(h),
         h.turn \in Seats(h), NEW g, HandType(g),
         g.n = h.n, g.phase = h.phase,
         g.current_bet = h.current_bet, g.min_raise = h.min_raise,
         \A i \in Seats(h) : g.bet[i] <= g.total[i],
         \A i \in Seats(h) \ {h.turn} : g.bet[i] = h.bet[i],
         g.bet[h.turn] <= h.current_bet \/ g.bet[h.turn] = h.bet[h.turn],
         AdvanceTurn(g).phase \in Streets
  PROVE  BetsSound(AdvanceTurn(g))
<1>1. Seats(g) = Seats(h) /\ g.bet[h.turn] \in Nat
  BY HandFields DEF Seats
<1>2. ASSUME h.phase # "preflop", h.current_bet = 0
      PROVE  \A i \in Seats(h) : g.bet[i] = 0
  <2>1. \A i \in Seats(h) : h.bet[i] = 0
    BY <1>2 DEF BetsSound
  <2> QED
    BY <1>1, <1>2, <2>1
<1>3. BetsSound(g)
  BY <1>1, <1>2 DEF BetsSound
<1> QED
  BY <1>3, TurnKeepsBets

(* Whatever the player on turn does, the bets are sound when the next one  *)
(* is to act (hand.py:342-458).                                            *)
LEMMA FoldBets ==
  ASSUME NEW h, NEW s, Sound(h, s), h.phase \in Streets, BetsSound(h),
         AfterFold(h).phase \in Streets
  PROVE  BetsSound(AfterFold(h))
<1> DEFINE g == [MarkActed(h) EXCEPT !.folded = @ \cup {h.turn}]
<1>1. HandType(h) /\ h.turn \in Seats(h)
  BY SoundFields
<1>2. /\ HandType(g) /\ g.n = h.n /\ g.phase = h.phase
      /\ g.current_bet = h.current_bet /\ g.min_raise = h.min_raise
      /\ g.bet = h.bet /\ g.total = h.total
  BY <1>1 DEF MarkActed, HandType, HandsOf, Seats
<1>3. AfterFold(h) = IF Cardinality(InHand(g)) = 1 THEN AwardSole(g)
                     ELSE AdvanceTurn(g)
  BY DEF AfterFold
<1> HIDE DEF g
<1>4. AfterFold(h) = AdvanceTurn(g)
  BY <1>2, <1>3, ShowdownIsNoStreet
<1>5. \A i \in Seats(h) : h.bet[i] <= h.total[i]
  BY DEF BetsSound
<1> QED
  BY <1>1, <1>2, <1>4, <1>5, MarkedBets

(* A check puts nothing in.                                                *)
LEMMA CheckBets ==
  ASSUME NEW h, NEW s, Sound(h, s), h.phase \in Streets, BetsSound(h),
         AfterCheck(h).phase \in Streets
  PROVE  BetsSound(AfterCheck(h))
<1> DEFINE g == MarkActed(h)
<1>1. HandType(h) /\ h.turn \in Seats(h)
  BY SoundFields
<1>2. /\ HandType(g) /\ g.n = h.n /\ g.phase = h.phase
      /\ g.current_bet = h.current_bet /\ g.min_raise = h.min_raise
      /\ g.bet = h.bet /\ g.total = h.total
  BY <1>1 DEF MarkActed, HandType, HandsOf, Seats
<1>3. AfterCheck(h) = AdvanceTurn(g)
  BY DEF AfterCheck
<1> HIDE DEF g
<1>4. \A i \in Seats(h) : h.bet[i] <= h.total[i]
  BY DEF BetsSound
<1> QED
  BY <1>1, <1>2, <1>3, <1>4, MarkedBets

(* Paying no more than the current bet.                                    *)
LEMMA PaidBets ==
  ASSUME NEW h, NEW s, Sound(h, s), h.phase \in Streets, BetsSound(h),
         NEW amount \in Nat,
         h.bet[h.turn] + Least(amount, h.chips[h.turn]) <= h.current_bet
  PROVE  LET g == MarkActed(PlaceBet(h, h.turn, amount))
         IN  AdvanceTurn(g).phase \in Streets => BetsSound(AdvanceTurn(g))
<1> DEFINE p == PlaceBet(h, h.turn, amount)
           g == MarkActed(p)
<1>1. HandType(h) /\ h.turn \in Seats(h)
  BY SoundFields
<1>2. /\ HandType(p) /\ p.n = h.n /\ p.turn = h.turn /\ p.phase = h.phase
      /\ p.current_bet = h.current_bet /\ p.min_raise = h.min_raise
  BY <1>1, PlaceBetKeeps
<1>3. /\ \A i \in Seats(h) : p.bet[i] <= p.total[i]
      /\ \A i \in Seats(h) \ {h.turn} : p.bet[i] = h.bet[i]
      /\ p.bet[h.turn] = h.bet[h.turn] + Least(amount, h.chips[h.turn])
  BY TurnPays
<1> HIDE DEF p
<1>4. /\ HandType(g) /\ g.n = h.n /\ g.phase = h.phase
      /\ g.current_bet = h.current_bet /\ g.min_raise = h.min_raise
      /\ g.bet = p.bet /\ g.total = p.total
  BY <1>1, <1>2 DEF MarkActed, HandType, HandsOf, Seats
<1> HIDE DEF g
<1>5. AdvanceTurn(g).phase \in Streets => BetsSound(AdvanceTurn(g))
  BY <1>1, <1>3, <1>4, MarkedBets
<1> QED
  BY <1>5 DEF p, g

(* A call pays what is missing, or the last chips.                         *)
LEMMA CallBets ==
  ASSUME NEW h, NEW s, Sound(h, s), h.phase \in Streets, BetsSound(h),
         MayCall(h), AfterCall(h).phase \in Streets
  PROVE  BetsSound(AfterCall(h))
<1>1. /\ h.bet[h.turn] \in Nat /\ h.current_bet \in Nat
      /\ h.chips[h.turn] \in Nat
  BY SoundFields, HandFields
<1>2. /\ ToCall(h) \in Nat
      /\ h.bet[h.turn] + Least(ToCall(h), h.chips[h.turn]) <= h.current_bet
  BY <1>1 DEF MayCall, ToCall, Least
<1> QED
  BY <1>2, PaidBets DEF AfterCall

(* A bet opens the round.                                                  *)
LEMMA BetBets ==
  ASSUME NEW h, NEW s, Sound(h, s), h.phase \in Streets, BetsSound(h),
         NEW amount \in Nat, MayBet(h, amount),
         AfterBet(h, amount).phase \in Streets
  PROVE  BetsSound(AfterBet(h, amount))
<1>1. h.chips[h.turn] \in Nat /\ h.chips[h.turn] > 0
  BY SoundFields, HandFields DEF CanAct
<1>2. amount > 0
  BY <1>1, BlindsAssumption DEF MayBet
<1> QED
  BY <1>2, ReopenedBets DEF AfterBet

(* A raise asks all the others again.                                      *)
LEMMA RaiseBets ==
  ASSUME NEW h, NEW s, Sound(h, s), h.phase \in Streets, BetsSound(h),
         NEW amount \in Nat, MayRaise(h, amount),
         AfterRaise(h, amount).phase \in Streets
  PROVE  BetsSound(AfterRaise(h, amount))
<1> DEFINE more == amount - h.bet[h.turn]
           m    == Greatest(h.min_raise, amount - h.current_bet)
<1>1. /\ h.bet[h.turn] \in Nat /\ h.current_bet \in Nat /\ h.min_raise \in Nat
  BY SoundFields, HandFields
<1>2. more \in Nat /\ more > 0 /\ m \in Nat /\ m > 0
  BY <1>1 DEF MayRaise, Greatest, BetsSound
<1>3. LET g == [ReopenBetting(PlaceBet(h, h.turn, more)) EXCEPT !.min_raise = m]
      IN  AdvanceTurn(g).phase \in Streets => BetsSound(AdvanceTurn(g))
  <2> HIDE DEF more, m
  <2> QED
    BY <1>2, ReopenedBets
<1>4. AfterRaise(h, amount)
        = AdvanceTurn([ReopenBetting(PlaceBet(h, h.turn, more)) EXCEPT
                         !.min_raise = m])
  <2>1. ReopenBetting(PlaceBet(h, h.turn, more)).min_raise = h.min_raise
    BY DEF ReopenBetting, PlaceBet
  <2> QED
    BY <2>1 DEF AfterRaise
<1> QED
  BY <1>3, <1>4

(* All the chips call, raise the bet, or fall short of it.                 *)
LEMMA AllInBets ==
  ASSUME NEW h, NEW s, Sound(h, s), h.phase \in Streets, BetsSound(h),
         AfterAllIn(h).phase \in Streets
  PROVE  BetsSound(AfterAllIn(h))
<1> DEFINE chips == h.chips[h.turn]
           p == PlaceBet(h, h.turn, chips)
           increment == p.bet[h.turn] - h.current_bet
           m == Greatest(h.min_raise, increment)
<1>1. /\ h.bet[h.turn] \in Nat /\ chips \in Nat /\ chips > 0
      /\ h.current_bet \in Nat /\ h.min_raise \in Nat
  BY SoundFields, HandFields DEF CanAct
<1>2. p.bet[h.turn] = h.bet[h.turn] + Least(chips, h.chips[h.turn])
  <2> HIDE DEF chips
  <2> QED
    BY <1>1, TurnPays
<1>3. CASE increment > 0
  <2>1. m \in Nat /\ m > 0
    <3> HIDE DEF p
    <3> QED
      BY <1>1, <1>2 DEF Greatest, Least, BetsSound
  <2>2. AfterAllIn(h) = AdvanceTurn([ReopenBetting(p) EXCEPT !.min_raise = m])
    <3>1. ReopenBetting(p).min_raise = h.min_raise
      BY DEF ReopenBetting, PlaceBet
    <3>2. AfterAllIn(h) = AdvanceTurn([ReopenBetting(p) EXCEPT
                                         !.min_raise = Greatest(@, increment)])
      BY <1>3 DEF AfterAllIn
    <3> HIDE DEF p, increment
    <3> QED
      BY <3>1, <3>2
  <2> HIDE DEF m, chips
  <2> QED
    BY <1>1, <2>1, <2>2, ReopenedBets
<1>4. CASE ~(increment > 0)
  <2>1. AfterAllIn(h) = AdvanceTurn(MarkActed(p))
    BY <1>4 DEF AfterAllIn
  <2>2. h.bet[h.turn] + Least(chips, h.chips[h.turn]) <= h.current_bet
    BY <1>1, <1>2, <1>4 DEF Least
  <2> HIDE DEF chips
  <2> QED
    BY <1>1, <2>1, <2>2, PaidBets
<1> QED
  BY <1>3, <1>4

(* A fold out of turn leaves the bets alone.                               *)
LEMMA ForcedFoldBets ==
  ASSUME NEW h, NEW s, Sound(h, s), h.phase \in Streets, BetsSound(h),
         NEW i \in InHand(h), AfterForcedFold(h, i).phase \in Streets
  PROVE  BetsSound(AfterForcedFold(h, i))
<1> DEFINE g == [h EXCEPT !.folded = @ \cup {i}]
<1>1. HandType(h) /\ i \in Seats(h)
  BY SoundFields DEF InHand
<1>2. /\ HandType(g) /\ g.n = h.n /\ g.phase = h.phase
      /\ g.current_bet = h.current_bet /\ g.min_raise = h.min_raise
      /\ g.bet = h.bet /\ g.total = h.total
  BY <1>1 DEF HandType, HandsOf, Seats
<1>3. AfterForcedFold(h, i) = IF Cardinality(InHand(g)) = 1 THEN AwardSole(g)
                              ELSE g
  BY DEF AfterForcedFold
<1> HIDE DEF g
<1>4. AfterForcedFold(h, i) = g
  BY <1>2, <1>3, ShowdownIsNoStreet
<1> QED
  BY <1>2, <1>4 DEF BetsSound, Seats

(* The blinds.                                                             *)
LEMMA NewHandBets ==
  ASSUME NEW n \in Nat \ {0, 1}, NEW dealer \in 0 .. n-1,
         NEW s \in [0 .. n-1 -> Nat],
         NewHand(s, n, dealer).phase \in Streets
  PROVE  /\ BetsSound(NewHand(s, n, dealer))
         /\ NewHand(s, n, dealer).phase = "preflop"
<1> DEFINE d == Dealt(s, n, dealer)
           posted == PlaceBet(d, SmallBlindSeat(d), SmallBlind)
           big == BigBlindSeat(d)
           both == PlaceBet(posted, big, BigBlind)
           cap == Least(BigBlind, posted.chips[big])
           h == PostBlinds(d)
<1>1. /\ HandType(d) /\ d.n = n /\ d.phase = "preflop" /\ d.chips = s
      /\ d.total = [i \in 0 .. n-1 |-> 0] /\ d.pot = 0
      /\ d.bet = [i \in 0 .. n-1 |-> 0] /\ d.min_raise = BigBlind
  BY BlindsAssumption DEF Dealt, HandType, HandsOf, Streets
<1>2. Kept(d, s) /\ \A i \in Seats(d) : d.bet[i] <= d.total[i]
  BY <1>1, TotalOfZeros DEF Kept, Seats
<1>3. NewHand(s, n, dealer) = StartBettingRound(h)
  BY DEF NewHand, h, d
<1> HIDE DEF d
<1>4. /\ SmallBlindSeat(d) \in Seats(d) /\ big \in Seats(d)
      /\ SmallBlind \in Nat /\ BigBlind \in Nat /\ BigBlind > 0
  <2>1. SmallBlindSeat(d) \in Seats(d) /\ big \in Seats(d)
    BY <1>1, HandFields, SeatFromDealerType DEF SmallBlindSeat, BigBlindSeat
  <2> QED
    BY <2>1, BlindsAssumption
<1>5. /\ HandType(posted) /\ Kept(posted, s) /\ posted.n = n
      /\ posted.phase = "preflop" /\ posted.min_raise = BigBlind
      /\ \A i \in Seats(d) : posted.bet[i] <= posted.total[i]
  <2>1. \A i \in Seats(d) : posted.bet[i] <= posted.total[i]
    BY <1>1, <1>2, <1>4, StakeGrows
  <2> QED
    BY <1>1, <1>2, <1>4, <2>1, PlaceBetKeeps
<1>6. Seats(posted) = Seats(d)
  BY <1>1, <1>5 DEF Seats
<1> HIDE DEF posted, big
<1>7. /\ HandType(both) /\ both.n = n
      /\ both.phase = "preflop" /\ both.min_raise = BigBlind
      /\ \A i \in Seats(d) : both.bet[i] <= both.total[i]
  <2>1. \A i \in Seats(d) : both.bet[i] <= both.total[i]
    BY <1>4, <1>5, <1>6, StakeGrows
  <2> QED
    BY <1>4, <1>5, <1>6, <2>1, PlaceBetKeeps
<1>8. cap \in Nat
  BY <1>4, <1>5, <1>6, HandFields DEF Least
<1>9. h = [both EXCEPT !.current_bet = cap]
  BY DEF PostBlinds, posted, big
<1> HIDE DEF both, cap, h
<1>10. /\ HandType(h) /\ h.n = n /\ h.phase = "preflop"
       /\ h.bet = both.bet /\ h.total = both.total
       /\ h.min_raise = BigBlind
  BY <1>7, <1>8, <1>9, HandFields DEF HandType, HandsOf, Seats
<1> DEFINE g == NewHand(s, n, dealer)
<1>11. /\ g.n = n /\ g.phase = "preflop" /\ g.bet = both.bet
       /\ g.total = both.total /\ g.min_raise = BigBlind
  BY <1>3, <1>10, RoundStarts
<1> HIDE DEF g
<1>12. BetsSound(g) /\ g.phase = "preflop"
  BY <1>1, <1>4, <1>7, <1>11 DEF BetsSound, Seats
<1> QED
  BY <1>12 DEF g

-----------------------------------------------------------------------------
(* What a strategy may rely on in what it sees.                            *)
Seen(v) ==
  /\ v.phase \in Streets /\ v.position \in Positions
  /\ v.pot \in Nat /\ v.toCall \in Int /\ v.minRaise \in Nat
  /\ v.chips \in Nat \ {0}

Actions == {"fold", "check", "call", "bet", "raise", "all_in"}

(* A decision the client can send, and no fold of a hand that may check.   *)
Sensible(v, d) ==
  /\ d.action \in Actions
  /\ d.amount \in Int
  /\ d.action = "fold" => v.toCall # 0

(* One that fits the view: there is something to call or raise, nothing to *)
(* check or open, and a size is legal.                                     *)
Fits(v, d) ==
  /\ Sensible(v, d)
  /\ d.action = "check" => v.toCall <= 0
  /\ d.action \in {"call", "raise"} => v.toCall > 0
  /\ d.action = "bet" => v.toCall = 0
  /\ d.action \in {"bet", "raise"} => v.minRaise <= d.amount
                                      /\ d.amount < v.chips

AllFit(v, D) == \A d \in D : Fits(v, d)

AllSensible(v, D) == \A d \in D : Sensible(v, d)

(* What needs no size.                                                     *)
LEMMA PlainFits ==
  ASSUME NEW v, Seen(v)
  PROVE  /\ Fits(v, Do("all_in"))
         /\ v.toCall = 0 => Fits(v, Do("check"))
         /\ v.toCall > 0 => /\ Fits(v, Do("call")) /\ Fits(v, Do("fold"))
                            /\ Fits(v, CallOrJam(v)) /\ Fits(v, CallOrFold(v))
         /\ v.toCall >= 0 => Fits(v, CheckOrFold(v))
<1>1. Fits(v, Do("all_in"))
  BY DEF Do, Fits, Sensible, Actions
<1>2. v.toCall = 0 => Fits(v, Do("check"))
  BY DEF Do, Fits, Sensible, Actions
<1>3. v.toCall > 0 => Fits(v, Do("call")) /\ Fits(v, Do("fold"))
  BY DEF Do, Fits, Sensible, Actions, Seen
<1>4. v.toCall \in Int
  BY DEF Seen
<1> QED
  BY <1>1, <1>2, <1>3, <1>4 DEF CallOrJam, CallOrFold, CheckOrFold

(* A bet opens and a raise goes above what is asked.                       *)
LEMMA SizedFits ==
  ASSUME NEW v, Seen(v), NEW size \in Int, v.minRaise <= size, size < v.chips
  PROVE  /\ v.toCall = 0 => Fits(v, Sized("bet", size))
         /\ v.toCall > 0 => Fits(v, Sized("raise", size))
         /\ v.toCall >= 0 => Fits(v, Open(v, size))
<1>1. v.toCall = 0 => Fits(v, Sized("bet", size))
  BY DEF Sized, Fits, Sensible, Actions
<1>2. v.toCall > 0 => Fits(v, Sized("raise", size))
  BY DEF Sized, Fits, Sensible, Actions
<1>3. v.toCall \in Int
  BY DEF Seen
<1> QED
  BY <1>1, <1>2, <1>3 DEF Open

(* A target beyond the stack makes the bot all-in.                         *)
LEMMA AggressFits ==
  ASSUME NEW v, Seen(v), v.toCall >= 0, NEW target \in Int, v.minRaise <= target
  PROVE  Fits(v, Aggress(v, target))
<1>1. v.toCall \in Int /\ v.chips \in Nat
  BY DEF Seen
<1> QED
  BY <1>1, PlainFits, SizedFits DEF Aggress

(* A share of a size is a size.                                            *)
LEMMA PctIs ==
  ASSUME NEW n \in Int, NEW percent \in Int
  PROVE  Pct(n, percent) \in Int
BY DEF Pct

(* So are so many blinds.                                                  *)
LEMMA BlindsIs ==
  ASSUME NEW tenths \in Int
  PROVE  Blinds(tenths) \in Int
BY BlindsAssumption DEF Blinds

(* The greater of a size and the least legal one is a legal size.          *)
LEMMA RaisedToLeast ==
  ASSUME NEW v, Seen(v), NEW size \in Int
  PROVE  /\ Greatest(size, v.minRaise) \in Int
         /\ Greatest(v.minRaise, size) \in Int
         /\ v.minRaise <= Greatest(size, v.minRaise)
         /\ v.minRaise <= Greatest(v.minRaise, size)
BY DEF Seen, Greatest

(* A share of the pot is raised to the least legal size.                   *)
LEMMA TargetIs ==
  ASSUME NEW v, Seen(v), NEW percent \in Int
  PROVE  Target(v, percent) \in Int /\ v.minRaise <= Target(v, percent)
<1>1. v.pot \in Int
  BY DEF Seen
<1>2. Pct(v.pot, percent) \in Int
  BY <1>1, PctIs
<1> QED
  BY <1>2, RaisedToLeast DEF Target

(* A small enough bet opens; otherwise the bot checks.                     *)
LEMMA BetIfBelowFits ==
  ASSUME NEW v, Seen(v), v.toCall = 0, NEW target \in Int, v.minRaise <= target,
         NEW limit \in 1 .. 100
  PROVE  AllFit(v, BetIfBelow(v, target, limit))
<1>1. v.chips \in Nat
  BY DEF Seen
<1>2. limit * v.chips <= 100 * v.chips
  BY <1>1
<1>3. 100 * target < limit * v.chips => target < v.chips
  BY <1>1, <1>2
<1> QED
  BY <1>3, SizedFits DEF BetIfBelow, AllFit

(* With a marginal hand it calls a small bet only.                         *)
LEMMA MarginalCallFits ==
  ASSUME NEW v, Seen(v)
  PROVE  AllFit(v, MarginalCall(v))
<1>1. v.toCall \in Int
  BY DEF Seen
<1> QED
  BY <1>1, PlainFits DEF MarginalCall, AllFit

(* Asked for less than nothing, which is so when a bet was taken down      *)
(* below the bot's own, it cannot lose a free hand as far as it knows.     *)
LEMMA BelowSensible ==
  ASSUME NEW v, Seen(v), v.toCall < 0
  PROVE  /\ \A action \in Actions : Sensible(v, Do(action))
         /\ \A action \in Actions, size \in Int :
              Sensible(v, Sized(action, size))
         /\ Sensible(v, CallOrJam(v)) /\ Sensible(v, CallOrFold(v))
         /\ Sensible(v, CheckOrFold(v))
         /\ \A target \in Int : Sensible(v, Aggress(v, target))
         /\ \A target \in Int, limit \in Int :
              AllSensible(v, BetIfBelow(v, target, limit))
         /\ AllSensible(v, MarginalCall(v))
<1>1. v.toCall \in Int /\ v.toCall # 0
  BY DEF Seen
<1>2. \A action \in Actions : Sensible(v, Do(action))
  BY <1>1 DEF Do, Sensible
<1>3. \A action \in Actions, size \in Int : Sensible(v, Sized(action, size))
  BY <1>1 DEF Sized, Sensible
<1>4. \A target \in Int : Sensible(v, Aggress(v, target))
  BY <1>1, <1>2, <1>3 DEF Aggress, Open, CallOrJam, Actions
<1>5. \A target \in Int, limit \in Int :
        AllSensible(v, BetIfBelow(v, target, limit))
  BY <1>3 DEF BetIfBelow, AllSensible, Actions
<1>6. AllSensible(v, MarginalCall(v))
  BY <1>1 DEF MarginalCall, AllSensible
<1> QED
  BY <1>1, <1>2, <1>3, <1>4, <1>5, <1>6
     DEF CallOrJam, CallOrFold, CheckOrFold, Actions

(* The opening sizes of the strategies.                                    *)
LEMMA BlindsAre ==
  /\ Blinds(22) \in Int /\ Blinds(25) \in Int /\ Blinds(27) \in Int
  /\ Blinds(28) \in Int /\ Blinds(30) \in Int /\ Blinds(35) \in Int
  /\ Blinds(40) \in Int /\ Blinds(0) \in Int
BY BlindsIs

(* Before the flop.                                                        *)
LEMMA PreflopCallFits ==
  ASSUME NEW v, Seen(v), NEW t, NEW isolate \in Int
  PROVE  /\ Sensible(v, PreflopCall(v, t, isolate))
         /\ v.toCall > 0 => Fits(v, PreflopCall(v, t, isolate))
<1>1. v.toCall \in Int /\ v.chips \in Nat \ {0}
  BY DEF Seen
<1>2. v.toCall # 0 => Sensible(v, CallOrJam(v)) /\ Sensible(v, CallOrFold(v))
  BY DEF CallOrJam, CallOrFold, Do, Sensible, Actions
<1>3. v.toCall = 0 =>
        Sensible(v, Do("check")) /\ Sensible(v, Sized("bet", isolate))
  BY DEF Do, Sized, Sensible, Actions
<1>4. CASE v.toCall = 0
  BY <1>3, <1>4 DEF PreflopCall
<1>5. CASE v.toCall # 0
  BY <1>2, <1>5, PlainFits DEF PreflopCall
<1> QED
  BY <1>4, <1>5

(* A raise that would take most of the stack is a call, a fold or all-in.  *)
LEMMA PreflopRaiseFits ==
  ASSUME NEW v, Seen(v), NEW t, NEW size \in Int, v.minRaise <= size,
         NEW jams
  PROVE  /\ Sensible(v, PreflopRaise(v, t, size, jams))
         /\ v.toCall > 0 => Fits(v, PreflopRaise(v, t, size, jams))
<1>1. v.toCall \in Int /\ v.chips \in Nat \ {0}
  BY DEF Seen
<1>2. /\ Sensible(v, Open(v, size)) /\ Sensible(v, Do("all_in"))
      /\ Sensible(v, Do("check")) /\ Sensible(v, Do("call"))
  BY DEF Open, Sized, Do, Sensible, Actions
<1>3. CASE size < v.chips
  BY <1>1, <1>2, <1>3, SizedFits DEF PreflopRaise
<1>4. CASE ~(size < v.chips)
  BY <1>1, <1>2, <1>4, PlainFits DEF PreflopRaise
<1> QED
  BY <1>3, <1>4

-----------------------------------------------------------------------------
(* Shark before the flop (strategies/shark.py).                            *)
LEMMA SharkPreflopFits ==
  ASSUME NEW v, Seen(v), NEW t
  PROVE  /\ AllSensible(v, SharkPreflop(v, t))
         /\ v.toCall > 0 => AllFit(v, SharkPreflop(v, t))
<1> SUFFICES ASSUME NEW d \in SharkPreflop(v, t)
             PROVE  Sensible(v, d) /\ (v.toCall > 0 => Fits(v, d))
  BY DEF AllSensible, AllFit
<1>1. SharkPreflopActions(t, v) \subseteq {"fold", "call", "raise"}
  BY DEF SharkPreflopActions, PreflopAction
<1>2. \/ d = CheckOrFold(v)
      \/ d = PreflopCall(v, t, Greatest(v.minRaise, Blinds(30)))
      \/ \E size \in SharkRaiseSizes(v) :
           d = PreflopRaise(v, t, size, {"premium"})
  BY <1>1 DEF SharkPreflop
<1>3. \A size \in SharkRaiseSizes(v) : size \in Int /\ v.minRaise <= size
  <2> DEFINE base == IF v.position = "late" THEN Blinds(25) ELSE Blinds(30)
  <2>1. base \in Int /\ Greatest(base, Blinds(35)) \in Int
    BY BlindsAre DEF Greatest
  <2>2. SharkRaiseSizes(v)
          = {Greatest(base, v.minRaise),
             Greatest(Greatest(base, Blinds(35)), v.minRaise)}
    BY DEF SharkRaiseSizes
  <2> HIDE DEF base
  <2> QED
    BY <2>1, <2>2, RaisedToLeast
<1>4. CASE d = CheckOrFold(v)
  BY <1>4, PlainFits DEF CheckOrFold, Do, Sensible, Actions
<1>5. CASE d = PreflopCall(v, t, Greatest(v.minRaise, Blinds(30)))
  BY <1>5, BlindsAre, RaisedToLeast, PreflopCallFits
<1>6. ASSUME NEW size \in SharkRaiseSizes(v),
             d = PreflopRaise(v, t, size, {"premium"})
      PROVE  Sensible(v, d) /\ (v.toCall > 0 => Fits(v, d))
  BY <1>3, <1>6, PreflopRaiseFits
<1> QED
  BY <1>2, <1>4, <1>5, <1>6

(* Shark after it.                                                         *)
LEMMA SharkPostflopFits ==
  ASSUME NEW v, Seen(v), v.phase # "preflop", v.toCall >= 0
  PROVE  AllFit(v, SharkPostflop(v))
<1>1. /\ v.toCall \in Int /\ v.chips \in Nat /\ (v.toCall = 0 \/ v.toCall > 0)
      /\ v.phase \in {"flop", "turn", "river"}
  BY DEF Seen, Streets
<1>2. \A percent \in Int : /\ Target(v, percent) \in Int
                           /\ v.minRaise <= Target(v, percent)
  BY TargetIs
<1>3. \A percent \in Int : Fits(v, Aggress(v, Target(v, percent)))
  BY <1>2, AggressFits
<1>4. \A percent \in Int, limit \in 1 .. 100 :
        v.toCall = 0 => AllFit(v, BetIfBelow(v, Target(v, percent), limit))
  BY <1>2, BetIfBelowFits
<1>5. AllFit(v, SharkMonster(v))
  BY <1>1, <1>2, <1>3, PlainFits DEF SharkMonster, AllFit
<1>6. AllFit(v, SharkStrong(v))
  BY <1>3, PlainFits DEF SharkStrong, AllFit
<1>7. AllFit(v, SharkDraw(v))
  BY <1>1, <1>2, PlainFits, SizedFits DEF SharkDraw, AllFit
<1>8. AllFit(v, SharkDecent(v))
  BY <1>1, <1>4, PlainFits DEF SharkDecent, AllFit
<1>9. AllFit(v, SharkBluff(v))
  BY <1>1, <1>4 DEF SharkBluff, AllFit
<1>10. Fits(v, CheckOrFold(v)) /\ AllFit(v, MarginalCall(v))
  BY PlainFits, MarginalCallFits
<1> QED
  BY <1>5, <1>6, <1>7, <1>8, <1>9, <1>10 DEF SharkPostflop, AllFit

(* Owed chips, Shark may decide on what is refused, but on no free fold.   *)
LEMMA SharkPostflopSensible ==
  ASSUME NEW v, Seen(v), v.phase # "preflop", v.toCall < 0
  PROVE  AllSensible(v, SharkPostflop(v))
<1>1. v.toCall \in Int /\ v.toCall # 0 /\ v.phase \in {"flop", "turn", "river"}
  BY DEF Seen, Streets
<1>2. \A percent \in Int : Target(v, percent) \in Int
  BY TargetIs
<1>3. /\ \A action \in Actions : Sensible(v, Do(action))
      /\ \A action \in Actions, percent \in Int :
           Sensible(v, Sized(action, Target(v, percent)))
      /\ \A percent \in Int : Sensible(v, Aggress(v, Target(v, percent)))
      /\ \A percent \in Int, limit \in Int :
           AllSensible(v, BetIfBelow(v, Target(v, percent), limit))
      /\ Sensible(v, CallOrJam(v)) /\ Sensible(v, CallOrFold(v))
      /\ Sensible(v, CheckOrFold(v)) /\ AllSensible(v, MarginalCall(v))
  BY <1>2, BelowSensible
<1>4. AllSensible(v, SharkMonster(v))
  BY <1>3 DEF SharkMonster, AllSensible, Actions
<1>5. AllSensible(v, SharkStrong(v))
  BY <1>3 DEF SharkStrong, AllSensible, Actions
<1>6. AllSensible(v, SharkDraw(v))
  BY <1>1, <1>3 DEF SharkDraw, AllSensible, Actions
<1>7. AllSensible(v, SharkDecent(v))
  BY <1>1, <1>3 DEF SharkDecent, AllSensible, Actions
<1>8. AllSensible(v, SharkBluff(v))
  BY <1>1, <1>3 DEF SharkBluff, AllSensible, Actions
<1> QED
  BY <1>3, <1>4, <1>5, <1>6, <1>7, <1>8 DEF SharkPostflop, AllSensible

-----------------------------------------------------------------------------
(* Wolf's moves are pairs of a decision and what it notes.                 *)
LEMMA WolfPreflopFits ==
  ASSUME NEW v, Seen(v), NEW t, NEW raiser,
         NEW move \in WolfPreflop(v, t, raiser)
  PROVE  Sensible(v, move[1]) /\ (v.toCall > 0 => Fits(v, move[1]))
<1> DEFINE Good(d) == Sensible(v, d) /\ (v.toCall > 0 => Fits(v, d))
<1>1. WolfPreflopActions(t, v) \subseteq {"fold", "call", "raise"}
  BY DEF WolfPreflopActions
<1>2. \/ move = <<CheckOrFold(v), raiser>>
      \/ move \in WolfCalls(v, t, raiser)
      \/ \E size \in WolfRaiseSizes(v) : move = <<WolfRaise(v, t, size), TRUE>>
  BY <1>1 DEF WolfPreflop
<1>3. \A size \in WolfRaiseSizes(v) : size \in Int /\ v.minRaise <= size
  <2> DEFINE base == CASE v.position = "late"                -> Blinds(28)
                       [] v.position \in {"early", "middle"} -> Blinds(35)
                       [] v.position = "blind"               -> Blinds(40)
             built == IF v.pot > 3 * BigBlind THEN Pct(v.pot, 90) ELSE 0
             opened == {base, Greatest(base, Blinds(35)),
                        Greatest(base, Blinds(40))}
  <2>1. base \in Int
    BY BlindsAre DEF Seen, Positions
  <2>2. built \in Int
    <3>1. v.pot \in Int /\ 90 \in Int
      BY DEF Seen
    <3>2. Pct(v.pot, 90) \in Int
      BY <3>1, PctIs
    <3> QED
      BY <3>2
  <2>3. WolfRaiseSizes(v)
          = {Greatest(Greatest(size, built), v.minRaise) : size \in opened}
    BY DEF WolfRaiseSizes
  <2> HIDE DEF base, built
  <2>4. \A size \in opened : Greatest(size, built) \in Int
    BY <2>1, <2>2, BlindsAre DEF Greatest
  <2> HIDE DEF opened
  <2> QED
    BY <2>3, <2>4, RaisedToLeast
<1>4. /\ v.toCall \in Int /\ v.chips \in Nat \ {0}
      /\ v.toCall # 0 => Sensible(v, CallOrJam(v)) /\ Sensible(v, CallOrFold(v))
      /\ Sensible(v, Do("check")) /\ Sensible(v, Do("call"))
      /\ Sensible(v, Do("all_in")) /\ Sensible(v, CheckOrFold(v))
  BY DEF Seen, CallOrJam, CallOrFold, CheckOrFold, Do, Sensible, Actions
<1>5. \A size \in Int :
        Sensible(v, Sized("bet", size)) /\ Sensible(v, Open(v, size))
  BY DEF Open, Sized, Sensible, Actions
<1>6. CASE move = <<CheckOrFold(v), raiser>>
  BY <1>4, <1>6, PlainFits
<1>7. CASE move \in WolfCalls(v, t, raiser)
  <2>1. CASE v.toCall # 0
    <3>1. move[1] = CallOrJam(v) \/ move[1] = CallOrFold(v)
      BY <1>7, <2>1 DEF WolfCalls
    <3> QED
      BY <1>4, <2>1, <3>1, PlainFits
  <2>2. CASE v.toCall = 0
    <3>1. \/ move = <<Do("check"), raiser>>
          \/ \E size \in WolfRaiseSizes(v) :
               move = <<Sized("bet", size), TRUE>>
      BY <1>7, <2>2 DEF WolfCalls
    <3>2. \A size \in WolfRaiseSizes(v) : Sensible(v, Sized("bet", size))
      BY <1>3, <1>5
    <3>3. ASSUME move = <<Do("check"), raiser>> PROVE Sensible(v, move[1])
      BY <1>4, <3>3
    <3>4. ASSUME NEW size \in WolfRaiseSizes(v),
                 move = <<Sized("bet", size), TRUE>>
          PROVE  Sensible(v, move[1])
      <4>1. move[1] = Sized("bet", size)
        BY <3>4
      <4> QED
        BY <3>2, <4>1
    <3>5. Sensible(v, move[1])
      BY <3>1, <3>3, <3>4, Zenon
    <3> QED
      BY <2>2, <3>5
  <2> QED
    BY <2>1, <2>2
<1>8. ASSUME NEW size \in WolfRaiseSizes(v),
             move = <<WolfRaise(v, t, size), TRUE>>
      PROVE  Good(move[1])
  <2> DEFINE smaller == Greatest(v.minRaise, Blinds(25))
  <2>1. /\ size \in Int /\ v.minRaise <= size
        /\ smaller \in Int /\ v.minRaise <= smaller
    BY <1>3, BlindsAre, RaisedToLeast
  <2>2. move[1] = IF size < v.chips THEN Open(v, size)
                  ELSE IF t \in {"premium", "strong"} THEN Do("all_in")
                  ELSE IF v.toCall # 0 THEN Do("call")
                  ELSE IF smaller < v.chips THEN Sized("bet", smaller)
                  ELSE Do("check")
    BY <1>8 DEF WolfRaise
  <2> HIDE DEF smaller
  <2> QED
    BY <1>4, <1>5, <2>1, <2>2, PlainFits, SizedFits
<1> QED
  BY <1>2, <1>6, <1>7, <1>8

(* Wolf after the flop.                                                    *)
LEMMA WolfPostflopFits ==
  ASSUME NEW v, Seen(v), v.phase # "preflop", v.toCall >= 0, NEW raiser
  PROVE  AllFit(v, WolfPostflop(v, raiser))
<1>1. /\ v.toCall \in Int /\ v.chips \in Nat /\ (v.toCall = 0 \/ v.toCall > 0)
      /\ v.phase \in {"flop", "turn", "river"}
  BY DEF Seen, Streets
<1>2. \A percent \in Int : /\ Target(v, percent) \in Int
                           /\ v.minRaise <= Target(v, percent)
  BY TargetIs
<1>3. \A percent \in Int : Fits(v, Aggress(v, Target(v, percent)))
  BY <1>2, AggressFits
<1>4. \A percent \in Int, limit \in 1 .. 100 :
        v.toCall = 0 => AllFit(v, BetIfBelow(v, Target(v, percent), limit))
  BY <1>2, BetIfBelowFits
<1>5. AllFit(v, WolfMonster(v))
  BY <1>3, PlainFits DEF WolfMonster, AllFit
<1>6. AllFit(v, WolfStrong(v))
  BY <1>3, PlainFits DEF WolfStrong, AllFit
<1>7. AllFit(v, WolfDraw(v))
  BY <1>1, <1>2, PlainFits, SizedFits DEF WolfDraw, AllFit
<1>8. AllFit(v, WolfMedium(v))
  BY <1>1, <1>4, PlainFits DEF WolfMedium, AllFit
<1>9. v.toCall = 0 => AllFit(v, WolfBarrel(v, raiser))
  BY <1>1, <1>4 DEF WolfBarrel, AllFit
<1>10. v.toCall = 0 => AllFit(v, WolfStab(v, raiser))
  BY <1>1, <1>4 DEF WolfStab, AllFit
<1>11. AllFit(v, WolfRaiseBluff(v))
  <2>1. 100 * Target(v, 85) < 35 * v.chips => Target(v, 85) < v.chips
    BY <1>1, <1>2
  <2> QED
    BY <1>2, <2>1, SizedFits DEF WolfRaiseBluff, AllFit
<1>12. AllFit(v, WolfBluff(v, raiser))
  BY <1>9, <1>10, <1>11 DEF WolfBluff, AllFit
<1>13. Fits(v, CheckOrFold(v)) /\ AllFit(v, MarginalCall(v))
  BY PlainFits, MarginalCallFits
<1> QED
  BY <1>5, <1>6, <1>7, <1>8, <1>12, <1>13 DEF WolfPostflop, AllFit

(* Wolf likewise.                                                          *)
LEMMA WolfPostflopSensible ==
  ASSUME NEW v, Seen(v), v.phase # "preflop", v.toCall < 0, NEW raiser
  PROVE  AllSensible(v, WolfPostflop(v, raiser))
<1>1. v.toCall \in Int /\ v.toCall # 0 /\ v.phase \in {"flop", "turn", "river"}
  BY DEF Seen, Streets
<1>2. \A percent \in Int : Target(v, percent) \in Int
  BY TargetIs
<1>3. /\ \A action \in Actions : Sensible(v, Do(action))
      /\ \A action \in Actions, percent \in Int :
           Sensible(v, Sized(action, Target(v, percent)))
      /\ \A percent \in Int : Sensible(v, Aggress(v, Target(v, percent)))
      /\ \A percent \in Int, limit \in Int :
           AllSensible(v, BetIfBelow(v, Target(v, percent), limit))
      /\ Sensible(v, CallOrJam(v)) /\ Sensible(v, CallOrFold(v))
      /\ Sensible(v, CheckOrFold(v)) /\ AllSensible(v, MarginalCall(v))
  BY <1>2, BelowSensible
<1>4. AllSensible(v, WolfMonster(v))
  BY <1>3 DEF WolfMonster, AllSensible, Actions
<1>5. AllSensible(v, WolfStrong(v))
  BY <1>3 DEF WolfStrong, AllSensible, Actions
<1>6. AllSensible(v, WolfDraw(v))
  BY <1>1, <1>3 DEF WolfDraw, AllSensible, Actions
<1>7. AllSensible(v, WolfMedium(v))
  BY <1>1, <1>3 DEF WolfMedium, AllSensible, Actions
<1>8. AllSensible(v, WolfBluff(v, raiser))
  BY <1>1, <1>3 DEF WolfBluff, WolfRaiseBluff, AllSensible, Actions
<1> QED
  BY <1>3, <1>4, <1>5, <1>6, <1>7, <1>8 DEF WolfPostflop, AllSensible

-----------------------------------------------------------------------------
(* Hawk before the flop (strategies/hawk.py).                              *)
LEMMA HawkPreflopFits ==
  ASSUME NEW v, Seen(v), NEW t \in Tiers
  PROVE  /\ AllSensible(v, HawkPreflop(v, t))
         /\ v.toCall > 0 => AllFit(v, HawkPreflop(v, t))
<1> SUFFICES ASSUME NEW d \in HawkPreflop(v, t)
             PROVE  Sensible(v, d) /\ (v.toCall > 0 => Fits(v, d))
  BY DEF AllSensible, AllFit
<1>1. HawkPreflopActions(t, v) \subseteq {"fold", "call", "raise"}
  <2>1. PreflopAction(t, v) \in {"fold", "call", "raise"}
    BY DEF PreflopAction
  <2>2. HawkMarginalActions(v) \subseteq {"fold", "call", "raise"}
    BY DEF HawkMarginalActions
  <2> QED
    BY <2>1, <2>2 DEF HawkPreflopActions
<1>2. \/ d = CheckOrFold(v)
      \/ d = HawkCall(v, t)
      \/ \E size \in HawkRaiseSizes(t, v) : d = HawkRaise(v, t, size)
  BY <1>1 DEF HawkPreflop
<1>3. /\ v.toCall \in Int /\ v.chips \in Nat \ {0} /\ v.pot \in Int
      /\ v.minRaise \in Int /\ BigBlind \in Nat
  BY BlindsAssumption DEF Seen
<1>4. CASE d = CheckOrFold(v)
  BY <1>4, PlainFits DEF CheckOrFold, Do, Sensible, Actions
<1>5. CASE d = HawkCall(v, t)
  <2> DEFINE isolate == Greatest(v.minRaise, Blinds(25))
  <2>1. isolate \in Int
    BY BlindsAre, RaisedToLeast
  <2>2. \/ d = Do("fold") /\ v.toCall > 4 * BigBlind
        \/ d = PreflopCall(v, t, isolate)
    BY <1>5 DEF HawkCall
  <2> HIDE DEF isolate
  <2>3. d = Do("fold") /\ v.toCall > 4 * BigBlind => Fits(v, d) /\ Sensible(v, d)
    BY <1>3, PlainFits DEF Fits
  <2> QED
    BY <2>1, <2>2, <2>3, PreflopCallFits
<1>6. \A size \in HawkRaiseSizes(t, v) :
        size \in Int /\ (v.minRaise <= size \/ size = v.chips)
  <2> DEFINE kelly == Pct(Greatest(v.pot, 4 * BigBlind), 2 * TierEquity[t] - 100)
             floor == CASE v.position = "late"              -> Blinds(22)
                        [] v.position = "middle"            -> Blinds(25)
                        [] v.position \in {"early", "blind"} -> Blinds(30)
             large == IF t = "premium" THEN {35} ELSE {0, 35}
             push  == IF \E stack \in v.rivals : stack < 10 * BigBlind
                      THEN 10 * BigBlind ELSE 0
             Size(tenths) ==
               Largest({kelly, floor, v.minRaise, Blinds(tenths), push})
  <2>1. \A size \in HawkRaiseSizes(t, v) :
          size = v.chips \/ \E tenths \in {0, 35} : size = Size(tenths)
    BY DEF HawkRaiseSizes
  <2>2. kelly \in Int
    <3>1. 2 * TierEquity[t] - 100 \in Int
      BY DEF TierEquity, Tiers
    <3>2. Greatest(v.pot, 4 * BigBlind) \in Int
      BY <1>3 DEF Greatest
    <3> QED
      BY <3>1, <3>2, PctIs
  <2>3. floor \in Int
    BY BlindsAre DEF Seen, Positions
  <2>4. push \in Int
    BY <1>3
  <2> HIDE DEF kelly, floor, push
  <2>5. ASSUME NEW tenths \in {0, 35}
        PROVE  Size(tenths) \in Int /\ v.minRaise <= Size(tenths)
    <3> DEFINE blinds == Blinds(tenths)
               S == {kelly, floor, v.minRaise, blinds, push}
    <3>1. blinds \in Int
      BY BlindsAre
    <3> HIDE DEF blinds
    <3>2. \E x \in S : \A y \in S : y <= x
      BY <1>3, <2>2, <2>3, <2>4, <3>1
    <3>3. Largest(S) \in S /\ \A y \in S : y <= Largest(S)
      BY <3>2 DEF Largest
    <3>4. S \subseteq Int /\ v.minRaise \in S
      BY <1>3, <2>2, <2>3, <2>4, <3>1
    <3>5. Largest(S) \in Int /\ v.minRaise <= Largest(S)
      BY <3>3, <3>4
    <3> QED
      BY <3>5 DEF blinds
  <2> HIDE DEF Size
  <2> QED
    BY <1>3, <2>1, <2>5
<1>7. ASSUME NEW size \in HawkRaiseSizes(t, v), d = HawkRaise(v, t, size)
      PROVE  Sensible(v, d) /\ (v.toCall > 0 => Fits(v, d))
  <2>1. \/ d = CallOrFold(v) /\ v.toCall # 0
        \/ \E jams : d = PreflopRaise(v, t, size, jams)
    BY <1>7 DEF HawkRaise
  <2>2. v.toCall # 0 => Sensible(v, CallOrFold(v))
    BY DEF CallOrFold, Do, Sensible, Actions
  <2>3. CASE d = CallOrFold(v) /\ v.toCall # 0
    BY <2>2, <2>3, PlainFits
  <2>4. ASSUME NEW jams, d = PreflopRaise(v, t, size, jams)
        PROVE  Sensible(v, d) /\ (v.toCall > 0 => Fits(v, d))
    <3>1. CASE v.minRaise <= size
      BY <1>6, <2>4, <3>1, PreflopRaiseFits
    <3>2. CASE size = v.chips
      <4>1. \/ d = Do("all_in")
            \/ d = Do("check") /\ v.toCall = 0
            \/ d = Do("call") /\ v.toCall # 0
        BY <1>3, <2>4, <3>2 DEF PreflopRaise
      <4> QED
        BY <4>1, PlainFits DEF Sensible, Actions, Do
    <3> QED
      BY <1>6, <3>1, <3>2
  <2> QED
    BY <2>1, <2>3, <2>4
<1> QED
  BY <1>2, <1>4, <1>5, <1>7

(* Hawk after it.                                                          *)
LEMMA HawkPostflopFits ==
  ASSUME NEW v, Seen(v), v.phase # "preflop", v.toCall >= 0
  PROVE  AllFit(v, HawkPostflop(v))
<1>1. /\ v.toCall \in Int /\ v.chips \in Nat /\ (v.toCall = 0 \/ v.toCall > 0)
      /\ v.phase \in {"flop", "turn", "river"} /\ v.pot \in Int
  BY DEF Seen, Streets
<1>2. \A percent \in Int : /\ Target(v, percent) \in Int
                           /\ v.minRaise <= Target(v, percent)
  BY TargetIs
<1>3. \A percent \in Int : Fits(v, Aggress(v, Target(v, percent)))
  BY <1>2, AggressFits
<1>4. \A percent \in Int, limit \in 1 .. 100 :
        v.toCall = 0 => AllFit(v, BetIfBelow(v, Target(v, percent), limit))
  BY <1>2, BetIfBelowFits
<1>5. \A percent \in Int :
        LET size == Greatest(v.minRaise, Pct(v.pot + v.toCall, percent))
        IN  size \in Int /\ v.minRaise <= size
  <2>1. v.pot + v.toCall \in Int
    BY <1>1
  <2>2. \A percent \in Int : Pct(v.pot + v.toCall, percent) \in Int
    BY <2>1, PctIs
  <2> QED
    BY <2>2, RaisedToLeast
<1>6. AllFit(v, HawkMonster(v))
  <2> DEFINE reraise == Greatest(v.minRaise, Pct(v.pot + v.toCall, 80))
  <2>1. reraise \in Int /\ v.minRaise <= reraise
    BY <1>5
  <2>2. \A d \in HawkMonster(v) :
          \/ d = Do("all_in")
          \/ d = Sized("raise", reraise) /\ v.toCall # 0 /\ reraise < v.chips
          \/ \E percent \in Int : d = Aggress(v, Target(v, percent))
    BY DEF HawkMonster
  <2> HIDE DEF reraise
  <2> QED
    BY <1>1, <1>3, <2>1, <2>2, PlainFits, SizedFits DEF AllFit
<1>7. AllFit(v, HawkStrong(v))
  BY <1>3, PlainFits DEF HawkStrong, AllFit
<1>8. AllFit(v, HawkDraw(v))
  <2> DEFINE size == Greatest(v.minRaise, Pct(v.pot + v.toCall, 75))
  <2>1. size \in Int /\ v.minRaise <= size
    BY <1>5
  <2>2. CASE v.toCall = 0
    BY <1>4, <2>2, PlainFits DEF HawkDraw, AllFit
  <2>3. CASE v.toCall > 0
    <3>1. \A d \in HawkDraw(v) :
            \/ d \in {CallOrJam(v), CallOrFold(v), Do("fold"), Do("call")}
            \/ d = Sized("raise", size) /\ size < v.chips
      BY <2>3 DEF HawkDraw
    <3> HIDE DEF size
    <3> QED
      BY <2>1, <2>3, <3>1, PlainFits, SizedFits DEF AllFit
  <2> QED
    BY <1>1, <2>2, <2>3
<1>9. AllFit(v, HawkMedium(v))
  BY <1>1, <1>4, PlainFits DEF HawkMedium, AllFit
<1>10. AllFit(v, HawkBluff(v))
  BY <1>1, <1>4 DEF HawkBluff, AllFit
<1>11. Fits(v, CheckOrFold(v)) /\ AllFit(v, MarginalCall(v))
  BY PlainFits, MarginalCallFits
<1>12. v.toCall > 0 => AllFit(v, HawkCommitted(v))
  BY PlainFits DEF HawkCommitted, AllFit
<1> QED
  BY <1>6, <1>7, <1>8, <1>9, <1>10, <1>11, <1>12 DEF HawkPostflop, AllFit

(* Hawk likewise.                                                          *)
LEMMA HawkPostflopSensible ==
  ASSUME NEW v, Seen(v), v.phase # "preflop", v.toCall < 0
  PROVE  AllSensible(v, HawkPostflop(v))
<1>1. v.toCall \in Int /\ v.toCall # 0 /\ v.phase \in {"flop", "turn", "river"}
  BY DEF Seen, Streets
<1>2. \A percent \in Int : Target(v, percent) \in Int
  BY TargetIs
<1>3. /\ \A action \in Actions : Sensible(v, Do(action))
      /\ \A action \in Actions, percent \in Int :
           Sensible(v, Sized(action, Target(v, percent)))
      /\ \A percent \in Int : Sensible(v, Aggress(v, Target(v, percent)))
      /\ \A percent \in Int, limit \in Int :
           AllSensible(v, BetIfBelow(v, Target(v, percent), limit))
      /\ Sensible(v, CallOrJam(v)) /\ Sensible(v, CallOrFold(v))
      /\ Sensible(v, CheckOrFold(v)) /\ AllSensible(v, MarginalCall(v))
  BY <1>2, BelowSensible
<1>4. \A percent \in Int :
        Greatest(v.minRaise, Pct(v.pot + v.toCall, percent)) \in Int
  <2>1. v.pot + v.toCall \in Int
    BY <1>1 DEF Seen
  <2>2. \A percent \in Int : Pct(v.pot + v.toCall, percent) \in Int
    BY <2>1, PctIs
  <2> QED
    BY <2>2, RaisedToLeast
<1>5. \A percent \in Int :
        Sensible(v, Sized("raise",
                          Greatest(v.minRaise, Pct(v.pot + v.toCall, percent))))
  BY <1>4, BelowSensible DEF Actions
<1>6. AllSensible(v, HawkMonster(v))
  <2> DEFINE reraise == Greatest(v.minRaise, Pct(v.pot + v.toCall, 80))
  <2>1. Sensible(v, Sized("raise", reraise))
    BY <1>5
  <2>2. \A d \in HawkMonster(v) :
          \/ d = Do("all_in") \/ d = Sized("raise", reraise)
          \/ \E percent \in Int : d = Aggress(v, Target(v, percent))
    BY DEF HawkMonster
  <2> HIDE DEF reraise
  <2> QED
    BY <1>3, <2>1, <2>2 DEF AllSensible, Actions
<1>7. AllSensible(v, HawkStrong(v))
  BY <1>3 DEF HawkStrong, AllSensible, Actions
<1>8. AllSensible(v, HawkDraw(v))
  <2> DEFINE size == Greatest(v.minRaise, Pct(v.pot + v.toCall, 75))
  <2>1. Sensible(v, Sized("raise", size))
    BY <1>5
  <2>2. \A d \in HawkDraw(v) :
          \/ d \in {CallOrJam(v), CallOrFold(v), Do("fold"), Do("call")}
          \/ d = Sized("raise", size)
    BY <1>1 DEF HawkDraw
  <2> HIDE DEF size
  <2> QED
    BY <1>3, <2>1, <2>2 DEF AllSensible, Actions
<1>9. AllSensible(v, HawkMedium(v))
  BY <1>1, <1>3 DEF HawkMedium, AllSensible, Actions
<1>10. AllSensible(v, HawkBluff(v))
  BY <1>1, <1>3 DEF HawkBluff, AllSensible
<1> QED
  BY <1>1, <1>3, <1>6, <1>7, <1>8, <1>9, <1>10 DEF HawkPostflop, AllSensible

-----------------------------------------------------------------------------
(* Fox before the flop: its limps and raises need not fit                  *)
(* (strategies/fox.py).                                                    *)
LEMMA FoxPreflopSensible ==
  ASSUME NEW v, Seen(v), NEW t \in Tiers
  PROVE  AllSensible(v, FoxPreflop(v, t))
<1> SUFFICES ASSUME NEW d \in FoxPreflop(v, t) PROVE Sensible(v, d)
  BY DEF AllSensible
<1>1. FoxPreflopActions(t, v) \subseteq {"fold", "call", "raise"}
  BY DEF FoxPreflopActions, PreflopAction
<1>2. \/ d = CheckOrFold(v) \/ d = Do("check")
      \/ d = CallOrJam(v) /\ FacingRaise(v)
      \/ d \in BetIfBelow(v, Greatest(v.minRaise, Blinds(25)), 100)
      \/ d = PreflopCall(v, t, Greatest(v.minRaise, Blinds(30)))
      \/ \E size \in FoxRaiseSizes(t, v) :
           d = PreflopRaise(v, t, size, {"premium"})
  BY <1>1 DEF FoxPreflop, FoxFlatCall, FoxSteal, FoxLimp
<1>3. \A size \in FoxRaiseSizes(t, v) : size \in Int /\ v.minRaise <= size
  <2> DEFINE base == CASE t = "premium"                -> Blinds(22)
                       [] t \in {"strong", "playable"} -> Blinds(30)
                       [] t \in {"marginal", "trash"}  -> Blinds(35)
  <2>1. base \in Int
    BY BlindsAre DEF Tiers
  <2>2. FoxRaiseSizes(t, v)
          = {Greatest(size, v.minRaise) : size \in {Blinds(27), base}}
    BY DEF FoxRaiseSizes
  <2> HIDE DEF base
  <2> QED
    BY <2>1, <2>2, BlindsAre, RaisedToLeast
<1>4. /\ Sensible(v, CheckOrFold(v)) /\ Sensible(v, Do("check"))
      /\ Sensible(v, CallOrJam(v))
  BY DEF CheckOrFold, CallOrJam, Do, Sensible, Actions
<1>5. CASE d \in BetIfBelow(v, Greatest(v.minRaise, Blinds(25)), 100)
  <2> DEFINE size == Greatest(v.minRaise, Blinds(25))
  <2>1. size \in Int
    BY BlindsAre, RaisedToLeast
  <2> HIDE DEF size
  <2>2. d = Sized("bet", size)
    BY <1>5 DEF BetIfBelow, size
  <2> QED
    BY <2>1, <2>2 DEF Sized, Sensible, Actions
<1>6. CASE d = PreflopCall(v, t, Greatest(v.minRaise, Blinds(30)))
  BY <1>6, BlindsAre, RaisedToLeast, PreflopCallFits
<1>7. ASSUME NEW size \in FoxRaiseSizes(t, v),
             d = PreflopRaise(v, t, size, {"premium"})
      PROVE  Sensible(v, d)
  BY <1>3, <1>7, PreflopRaiseFits
<1> QED
  BY <1>2, <1>4, <1>5, <1>6, <1>7

(* Fox after it.                                                           *)
LEMMA FoxPostflopFits ==
  ASSUME NEW v, Seen(v), v.phase # "preflop", v.toCall >= 0, NEW memory
  PROVE  AllFit(v, FoxPostflop(v, memory))
<1>1. /\ v.toCall \in Int /\ v.chips \in Nat /\ (v.toCall = 0 \/ v.toCall > 0)
      /\ v.phase \in {"flop", "turn", "river"}
  BY DEF Seen, Streets
<1>2. \A percent \in Int : /\ Target(v, percent) \in Int
                           /\ v.minRaise <= Target(v, percent)
  BY TargetIs
<1>3. \A percent \in Int :
        v.toCall = 0 => Fits(v, FoxOpen(v, Target(v, percent)))
  BY <1>1, <1>2, PlainFits, SizedFits DEF FoxOpen
<1>4. \A percent \in Int, limit \in 1 .. 100 :
        v.toCall = 0 => AllFit(v, BetIfBelow(v, Target(v, percent), limit))
  BY <1>2, BetIfBelowFits
<1>5. \A percent \in Int :
        v.toCall > 0 => AllFit(v, FoxRaise(v, Target(v, percent)))
  BY <1>1, <1>2, PlainFits, SizedFits DEF FoxRaise, AllFit
<1>6. AllFit(v, FoxMonster(v))
  BY <1>1, <1>3, <1>5, PlainFits DEF FoxMonster, AllFit
<1>7. AllFit(v, FoxStrong(v))
  BY <1>1, <1>3, <1>5, PlainFits DEF FoxStrong, AllFit
<1>8. v.toCall = 0 => AllFit(v, FoxDrawOpen(v, memory))
  BY <1>1, <1>2, <1>4, PlainFits, SizedFits DEF FoxDrawOpen, AllFit
<1>9. AllFit(v, FoxDraw(v, memory))
  BY <1>1, <1>2, <1>8, PlainFits, SizedFits DEF FoxDraw, AllFit
<1>10. AllFit(v, FoxDecent(v))
  BY <1>1, <1>2, <1>4, PlainFits, SizedFits DEF FoxDecent, AllFit
<1>11. AllFit(v, FoxFloat(v, memory))
  BY <1>1, <1>4, PlainFits DEF FoxFloat, AllFit
<1>12. AllFit(v, FoxProbe(v))
  BY <1>1, <1>4 DEF FoxProbe, AllFit
<1>13. AllFit(v, FoxBluff(v, memory))
  BY <1>1, <1>4 DEF FoxBluff, AllFit
<1>14. Fits(v, CheckOrFold(v)) /\ AllFit(v, MarginalCall(v))
  BY PlainFits, MarginalCallFits
<1> QED
  BY <1>6, <1>7, <1>9, <1>10, <1>11, <1>12, <1>13, <1>14
     DEF FoxPostflop, AllFit

(* Fox likewise.                                                           *)
LEMMA FoxPostflopSensible ==
  ASSUME NEW v, Seen(v), v.phase # "preflop", v.toCall < 0, NEW memory
  PROVE  AllSensible(v, FoxPostflop(v, memory))
<1>1. v.toCall \in Int /\ v.toCall # 0 /\ v.phase \in {"flop", "turn", "river"}
  BY DEF Seen, Streets
<1>2. \A percent \in Int : Target(v, percent) \in Int
  BY TargetIs
<1>3. /\ \A action \in Actions : Sensible(v, Do(action))
      /\ \A action \in Actions, percent \in Int :
           Sensible(v, Sized(action, Target(v, percent)))
      /\ \A percent \in Int : Sensible(v, Aggress(v, Target(v, percent)))
      /\ \A percent \in Int, limit \in Int :
           AllSensible(v, BetIfBelow(v, Target(v, percent), limit))
      /\ Sensible(v, CallOrJam(v)) /\ Sensible(v, CallOrFold(v))
      /\ Sensible(v, CheckOrFold(v)) /\ AllSensible(v, MarginalCall(v))
  BY <1>2, BelowSensible
<1>4. AllSensible(v, FoxMonster(v))
  BY <1>1, <1>3 DEF FoxMonster, FoxOpen, AllSensible, Actions
<1>5. AllSensible(v, FoxStrong(v))
  BY <1>1, <1>3 DEF FoxStrong, FoxOpen, FoxRaise, AllSensible, Actions
<1>6. AllSensible(v, FoxDraw(v, memory))
  BY <1>1, <1>3 DEF FoxDraw, AllSensible, Actions
<1>7. AllSensible(v, FoxDecent(v))
  BY <1>1, <1>3 DEF FoxDecent, AllSensible, Actions
<1>8. AllSensible(v, FoxFloat(v, memory))
  BY <1>1, <1>3 DEF FoxFloat, AllSensible, Actions
<1>9. AllSensible(v, FoxProbe(v))
  BY <1>3 DEF FoxProbe, AllSensible, Actions
<1>10. AllSensible(v, FoxBluff(v, memory))
  BY <1>3 DEF FoxBluff, AllSensible, Actions
<1> QED
  BY <1>3, <1>4, <1>5, <1>6, <1>7, <1>8, <1>9, <1>10 DEF FoxPostflop, AllSensible

-----------------------------------------------------------------------------
(* What the bot sees is what its strategy expects.                         *)
LEMMA ViewIsSeen ==
  ASSUME NEW h, HandType(h), h.phase \in Streets, NEW i \in Seats(h),
         h.chips[i] > 0, NEW gone
  PROVE  Seen(View(h, gone, i))
<1>1. /\ h.pot \in Nat /\ h.current_bet \in Nat /\ h.min_raise \in Nat
      /\ h.bet[i] \in Nat /\ h.chips[i] \in Nat \ {0}
  BY HandFields
<1>2. /\ AmountToCall(h, i) \in Int /\ h.current_bet + h.min_raise \in Nat
  BY <1>1 DEF AmountToCall, Least
<1>3. Position(h, gone, i) \in Positions
  BY DEF Position, Positions
<1> QED
  BY <1>1, <1>2, <1>3 DEF View, Seen

(* Every move of every strategy.                                           *)
LEMMA MovesFit ==
  ASSUME NEW v, Seen(v), strategy \in Strategies,
         v.phase = "preflop" => tier \in Tiers,
         NEW move \in Moves(v)
  PROVE  /\ Sensible(v, move[1])
         /\ (\/ v.phase # "preflop" /\ v.toCall >= 0
             \/ strategy # "fox" /\ v.toCall > 0)
              => Fits(v, move[1])
<1> v.toCall \in Int
  BY DEF Seen
<1>1. CASE strategy = "shark"
  <2>1. PICK d \in SharkDecisions(v, tier) : move = <<d, plan>>
    BY <1>1 DEF Moves
  <2>2. CASE v.phase = "preflop"
    BY <1>1, <2>1, <2>2, SharkPreflopFits DEF SharkDecisions, AllSensible, AllFit
  <2>3. CASE v.phase # "preflop"
    BY <1>1, <2>1, <2>3, SharkPostflopFits, SharkPostflopSensible
       DEF SharkDecisions, AllFit, AllSensible, Fits
  <2> QED
    BY <2>2, <2>3
<1>2. CASE strategy = "hawk"
  <2>1. PICK d \in HawkDecisions(v, tier) : move = <<d, plan>>
    BY <1>2 DEF Moves
  <2>2. CASE v.phase = "preflop"
    BY <1>2, <2>1, <2>2, HawkPreflopFits DEF HawkDecisions, AllSensible, AllFit
  <2>3. CASE v.phase # "preflop"
    BY <1>2, <2>1, <2>3, HawkPostflopFits, HawkPostflopSensible
       DEF HawkDecisions, AllFit, AllSensible, Fits
  <2> QED
    BY <2>2, <2>3
<1>3. CASE strategy = "fox"
  <2>1. PICK d \in FoxDecisions(v, tier, plan) :
          move = <<d, PlanAfter(plan, v.phase, d.action)>>
    BY <1>3 DEF Moves
  <2>2. move[1] = d
    BY <2>1
  <2>3. CASE v.phase = "preflop"
    BY <1>3, <2>1, <2>2, <2>3, FoxPreflopSensible DEF FoxDecisions, AllSensible
  <2>4. CASE v.phase # "preflop"
    BY <1>3, <2>1, <2>2, <2>4, FoxPostflopFits, FoxPostflopSensible
       DEF FoxDecisions, AllFit, AllSensible, Fits
  <2> QED
    BY <2>3, <2>4
<1>4. CASE strategy = "wolf"
  <2>1. PICK m \in WolfMoves(v, tier, plan.raiser) :
          move = <<m[1], [plan EXCEPT !.raiser = m[2]]>>
    BY <1>4 DEF Moves
  <2>2. move[1] = m[1]
    BY <2>1
  <2>3. CASE v.phase = "preflop"
    <3>1. m \in WolfPreflop(v, tier, plan.raiser)
      BY <2>1, <2>3 DEF WolfMoves
    <3> QED
      BY <2>2, <2>3, <3>1, WolfPreflopFits
  <2>4. CASE v.phase # "preflop"
    <3>1. PICK d \in WolfPostflop(v, plan.raiser) : m = <<d, plan.raiser>>
      BY <2>1, <2>4 DEF WolfMoves
    <3>2. m[1] = d
      BY <3>1
    <3> QED
      BY <2>2, <2>4, <3>1, <3>2, WolfPostflopFits, WolfPostflopSensible
         DEF AllFit, AllSensible, Fits
  <2> QED
    BY <2>3, <2>4
<1> QED
  BY <1>1, <1>2, <1>3, <1>4 DEF Strategies

(* The server accepts what fits the view, but for a bet where there is one *)
(* although nothing is asked: before the flop, where the blinds are a bet, *)
(* or after a raise below the bet (hand.py:359-458).                       *)
LEMMA FittingAccepted ==
  ASSUME NEW h, NEW s, Sound(h, s), h.phase \in Streets, BetsSound(h),
         NEW gone, NEW d, Fits(View(h, gone, h.turn), d),
         d.action = "bet" => h.phase # "preflop" /\ h.current_bet = 0
  PROVE  Accepts(h, d)
<1> DEFINE asked == AmountToCall(h, h.turn)
<1>1. /\ h.turn \in CanAct(h) \ h.acted /\ h.turn \in Seats(h)
      /\ h.bet[h.turn] \in Nat /\ h.chips[h.turn] \in Nat
      /\ h.chips[h.turn] > 0 /\ h.current_bet \in Nat /\ h.min_raise \in Nat
      /\ BigBlind \in Nat
  BY SoundFields, HandFields, BlindsAssumption DEF CanAct
<1>2. /\ asked = Least(h.current_bet - h.bet[h.turn], h.chips[h.turn])
      /\ asked > 0 <=> h.current_bet > h.bet[h.turn]
      /\ asked = 0 => h.current_bet = h.bet[h.turn]
  BY <1>1 DEF AmountToCall, Least
<1>3. /\ View(h, gone, h.turn).toCall = asked
      /\ View(h, gone, h.turn).minRaise = h.current_bet + h.min_raise
      /\ View(h, gone, h.turn).chips = h.chips[h.turn]
  BY DEF View
<1> HIDE DEF asked
<1>4. /\ d.action \in {"fold", "check", "call", "bet", "raise", "all_in"}
      /\ d.amount \in Int
      /\ d.action = "check" => asked <= 0
      /\ d.action \in {"call", "raise"} => asked > 0
      /\ d.action = "bet" => asked = 0
      /\ d.action \in {"bet", "raise"} =>
           h.current_bet + h.min_raise <= d.amount /\ d.amount < h.chips[h.turn]
  BY <1>3 DEF Fits, Sensible, Actions
<1>5. CASE d.action = "check"
  <2>1. MayCheck(h)
    BY <1>1, <1>2, <1>4, <1>5 DEF MayCheck, AmountToCall, Least, asked
  <2> QED
    BY <1>5, <2>1 DEF Accepts
<1>6. CASE d.action = "call"
  <2>1. MayCall(h)
    BY <1>1, <1>2, <1>4, <1>6 DEF MayCall, ToCall
  <2> QED
    BY <1>6, <2>1 DEF Accepts
<1>7. CASE d.action = "bet"
  <2>1. h.current_bet = 0 /\ h.min_raise >= BigBlind
    BY <1>7 DEF BetsSound
  <2>2. MayBet(h, d.amount)
    BY <1>1, <1>4, <1>7, <2>1 DEF MayBet
  <2> QED
    BY <1>7, <2>2 DEF Accepts
<1>8. CASE d.action = "raise"
  <2>1. MayRaise(h, d.amount)
    BY <1>1, <1>2, <1>4, <1>8 DEF MayRaise, BetsSound
  <2> QED
    BY <1>8, <2>1 DEF Accepts
<1>9. CASE d.action \in {"fold", "all_in"}
  BY <1>9 DEF Accepts
<1> QED
  BY <1>4, <1>5, <1>6, <1>7, <1>8, <1>9

(* g is h or a later moment of it, well formed, and not back before the    *)
(* flop.                                                                   *)
Later(g, h, s) ==
  /\ Sound(g, s) /\ SameTable(g, h)
  /\ g.phase = "preflop" => h.phase = "preflop"

(* An action of the player on turn makes the hand later.                   *)
LEMMA FollowingIsLater ==
  ASSUME NEW h, NEW g, NEW s, NEW i, Sound(g, s), Follows(g, h, i),
         h.phase \in Streets
  PROVE  Later(g, h, s)
BY DEF Later, Follows, StreetLeft, Streets, StreetAfter

(* The size of an accepted bet or raise is positive.                       *)
LEMMA SizesAre ==
  ASSUME NEW h, NEW s, Sound(h, s), h.phase \in Streets, NEW d,
         d.amount \in Int, Accepts(h, d)
  PROVE  /\ d.action = "bet" => /\ d.amount \in Nat /\ d.amount > 0
                                /\ MayBet(h, d.amount)
         /\ d.action = "raise" => /\ d.amount \in Nat /\ d.amount > 0
                                  /\ MayRaise(h, d.amount)
<1>1. /\ h.bet[h.turn] \in Nat /\ h.chips[h.turn] \in Nat
      /\ h.chips[h.turn] > 0 /\ BigBlind \in Nat /\ BigBlind > 0
  BY SoundFields, HandFields, BlindsAssumption DEF CanAct
<1>2. d.action = "bet" => MayBet(h, d.amount)
  BY DEF Accepts
<1>3. d.action = "raise" => MayRaise(h, d.amount)
  BY DEF Accepts
<1> QED
  BY <1>1, <1>2, <1>3 DEF MayBet, MayRaise

(* Whatever the server accepts is an action of a sound hand.               *)
LEMMA AcceptedIsLater ==
  ASSUME NEW h, NEW s, Sound(h, s), h.phase \in Streets, NEW d,
         d.action \in Actions, d.amount \in Int, Accepts(h, d)
  PROVE  Later(After(h, d), h, s)
<1> DEFINE g == After(h, d)
<1>1. CASE d.action = "fold"
  BY <1>1, AfterFoldSound, FollowingIsLater DEF After
<1>2. CASE d.action = "check"
  BY <1>2, AfterCheckSound, FollowingIsLater DEF After, Accepts
<1>3. CASE d.action = "call"
  BY <1>3, AfterCallSound, FollowingIsLater DEF After, Accepts
<1>4. CASE d.action = "bet"
  BY <1>4, SizesAre, AfterBetSound, FollowingIsLater DEF After
<1>5. CASE d.action = "raise"
  BY <1>5, SizesAre, AfterRaiseSound, FollowingIsLater DEF After
<1>6. CASE d.action = "all_in"
  BY <1>6, AfterAllInSound, FollowingIsLater DEF After
<1> QED
  BY <1>1, <1>2, <1>3, <1>4, <1>5, <1>6 DEF Actions

(* It leaves the bets sound.                                               *)
LEMMA AcceptedBets ==
  ASSUME NEW h, NEW s, Sound(h, s), h.phase \in Streets, BetsSound(h), NEW d,
         d.action \in Actions, d.amount \in Int, Accepts(h, d),
         After(h, d).phase \in Streets
  PROVE  BetsSound(After(h, d))
<1>1. CASE d.action = "fold"
  BY <1>1, FoldBets DEF After
<1>2. CASE d.action = "check"
  BY <1>2, CheckBets DEF After, Accepts
<1>3. CASE d.action = "call"
  BY <1>3, CallBets DEF After, Accepts
<1>4. CASE d.action = "bet"
  BY <1>4, SizesAre, BetBets DEF After
<1>5. CASE d.action = "raise"
  BY <1>5, SizesAre, RaiseBets DEF After
<1>6. CASE d.action = "all_in"
  BY <1>6, AllInBets DEF After
<1> QED
  BY <1>1, <1>2, <1>3, <1>4, <1>5, <1>6 DEF Actions

-----------------------------------------------------------------------------
(* The table: a well-formed hand whose bets are sound as long as it is in  *)
(* progress, and what the bot needs to act on it.                          *)
TableInv ==
  /\ hand.n \in 2 .. MaxSeats /\ stacks \in [Seats(hand) -> 1 .. MaxStack]
  /\ Sound(hand, stacks)
  /\ InProgress => BetsSound(hand)
  /\ strategy \in Strategies
  /\ hand.phase = "preflop" => tier \in Tiers

(* What is sent and what was asked are typed where it matters, below.      *)
ClientType(c) ==
  c \in [at : {"poll", "send", "fallback", "stopped", "crashed", "failed"},
         d : {c.d}, asked : {c.asked}, fresh : BOOLEAN,
         tries : 0 .. Attempts - 1]

Sending(c) == c.at \in {"send", "fallback"}

(* A request made on the state the table is still in: it is the bot's turn *)
(* and amount_to_call is what it was.  Refused can only be a decision      *)
(* before the flop, or where a bet stands but nothing is asked.            *)
Current(c) ==
  /\ InProgress /\ hand.turn = Me /\ c.asked = AmountToCall(hand, Me)
  /\ c.at = "fallback" => c.d = Fallback(c.asked)
  /\ c.at = "send" =>
       /\ c.d.action = "fold" => c.asked # 0
       /\ (\/ hand.phase # "preflop"
                /\ (c.asked > 0 \/ hand.current_bet = 0)
           \/ strategy # "fox" /\ c.asked > 0)
            => Accepts(hand, c.d)

ClientInv ==
  /\ ClientType(client)
  /\ Sending(client) => client.d.action \in Actions /\ client.d.amount \in Int
  /\ Sending(client) /\ client.fresh => Current(client)
  /\ StopsOnlyIfOvertaken

BotInv == TableInv /\ ClientInv

(* A request that is overtaken is otherwise the same.                      *)
LEMMA ClientChanges ==
  ASSUME NEW c, ClientType(c)
  PROVE  LET e == [c EXCEPT !.fresh = FALSE]
         IN  /\ ClientType(e) /\ ~e.fresh
             /\ e.at = c.at /\ e.d = c.d /\ e.asked = c.asked
             /\ e.tries = c.tries
BY DEF ClientType

(* The client as it polls, decides or ends.                                *)
LEMMA NewClients ==
  /\ \A at : LET c == Resting(at)
             IN  /\ at \in {"poll", "crashed", "failed"} => ClientType(c)
                 /\ c.at = at
  /\ \A d, asked : LET c == Asking(d, asked)
                   IN  /\ ClientType(c) /\ c.at = "send" /\ c.d = d
                       /\ c.asked = asked
BY BotAssumption DEF Resting, Asking, ClientType

(* A request without an answer is repeated or ends the bot.                *)
LEMMA GatewayErrors ==
  ASSUME NEW c, ClientType(c), Unanswered(c)
  PROVE  /\ ClientType(client')
         /\ \/ /\ client'.at = c.at /\ client'.d = c.d
               /\ client'.asked = c.asked /\ client'.fresh = c.fresh
            \/ client'.at = "failed"
<1>1. Attempts \in Nat \ {0} /\ c.tries \in 0 .. Attempts - 1
  BY BotAssumption DEF ClientType
<1>2. CASE client' = AfterGatewayError(c) /\ c.tries + 1 < Attempts
  <2>1. client' = [c EXCEPT !.tries = @ + 1]
    BY <1>2 DEF AfterGatewayError
  <2>2. c.tries + 1 \in 0 .. Attempts - 1
    BY <1>1, <1>2
  <2> QED
    BY <2>1, <2>2 DEF ClientType
<1>3. CASE client' = Resting("failed")
  BY <1>3, NewClients
<1> QED
  BY <1>2, <1>3 DEF Unanswered, AfterGatewayError

(* Who is on turn has a seat, chips and a bet.                             *)
LEMMA SeatsAndTurn ==
  ASSUME TableInv
  PROVE  /\ HandType(hand) /\ Me \in Seats(hand)
         /\ InProgress => /\ hand.turn \in CanAct(hand)
                          /\ hand.turn \in Seats(hand)
                          /\ hand.turn \in InHand(hand)
                          /\ hand.chips[hand.turn] \in Nat
                          /\ hand.chips[hand.turn] > 0
                          /\ hand.bet[hand.turn] \in Nat
                          /\ hand.current_bet \in Nat
<1>1. HandType(hand) /\ Sound(hand, stacks)
  BY DEF TableInv, Sound
<1>2. Me \in Seats(hand)
  BY <1>1, HandFields DEF Me, Seats
<1>3. InProgress => /\ hand.turn \in CanAct(hand)
                    /\ hand.turn \in Seats(hand)
                    /\ hand.turn \in InHand(hand)
  BY <1>1, SoundFields DEF InProgress
<1> QED
  BY <1>1, <1>2, <1>3, HandFields DEF CanAct

-----------------------------------------------------------------------------
(* The hand goes on.                                                       *)
LEMMA TableGoesOn ==
  ASSUME TableInv, NEW g, HandBecomes(g), Later(g, hand, stacks),
         g.phase \in Streets => BetsSound(g)
  PROVE  TableInv' /\ hand'.n = hand.n /\ hand'.dealer = hand.dealer
<1>1. /\ hand' = g /\ stacks' = stacks /\ strategy' = strategy
      /\ tier' = IF g.phase = "preflop" THEN tier ELSE "unused"
  BY DEF HandBecomes
<1>2. /\ g.n = hand.n /\ g.dealer = hand.dealer /\ Sound(g, stacks)
      /\ g.phase = "preflop" => hand.phase = "preflop"
  BY DEF Later, SameTable
<1>3. Seats(g) = Seats(hand)
  BY <1>2 DEF Seats
<1> QED
  BY <1>1, <1>2, <1>3 DEF TableInv, Playing, InProgress

(* What the server accepts of the bot.                                     *)
LEMMA BotActs ==
  ASSUME BotInv, Asks, MyTurnAndLegal, HandBecomes(After(hand, client.d))
  PROVE  TableInv' /\ hand'.n = hand.n /\ hand'.dealer = hand.dealer
<1> DEFINE d == client.d
           g == After(hand, d)
<1>1. /\ Sound(hand, stacks) /\ hand.phase \in Streets /\ hand.turn = Me
      /\ d.action \in Actions /\ d.amount \in Int /\ Accepts(hand, d)
  BY DEF BotInv, TableInv, ClientInv, Asks, Sending, MyTurnAndLegal, InProgress
<1>2. BetsSound(hand)
  BY <1>1 DEF BotInv, TableInv, InProgress
<1>3. Later(g, hand, stacks)
  BY <1>1, AcceptedIsLater
<1>4. g.phase \in Streets => BetsSound(g)
  BY <1>1, <1>2, AcceptedBets
<1> QED
  BY <1>1, <1>3, <1>4, TableGoesOn DEF BotInv

(* What the others do, on their turn, ...                                  *)
LEMMA OthersAct ==
  ASSUME BotInv, RivalActs
  PROVE  TableInv' /\ hand'.n = hand.n /\ hand'.dealer = hand.dealer
<1>1. PICK d \in RivalMoves(hand) :
             Accepts(hand, d) /\ HandBecomes(After(hand, d))
  BY DEF RivalActs
<1>2. /\ Sound(hand, stacks) /\ hand.phase \in Streets /\ BetsSound(hand)
  BY DEF BotInv, TableInv, RivalActs, Playing, InProgress
<1>3. /\ hand.current_bet \in Nat /\ hand.min_raise \in Nat
      /\ hand.bet[hand.turn] \in Nat /\ hand.chips[hand.turn] \in Nat
      /\ BigBlind \in Nat
  BY <1>2, SoundFields, HandFields, BlindsAssumption
<1>4. d.action \in Actions /\ d.amount \in Int
  BY <1>3 DEF RivalMoves, RivalSizes, Do, Sized, Actions
<1>5. Later(After(hand, d), hand, stacks)
  BY <1>1, <1>2, <1>4, AcceptedIsLater
<1>6. After(hand, d).phase \in Streets => BetsSound(After(hand, d))
  BY <1>1, <1>2, <1>4, AcceptedBets
<1> QED
  BY <1>1, <1>5, <1>6, TableGoesOn DEF BotInv

(* ... out of it, ...                                                      *)
LEMMA OthersResign ==
  ASSUME BotInv, NEW i \in Seats(hand), RivalResigns(i)
  PROVE  TableInv' /\ hand'.n = hand.n /\ hand'.dealer = hand.dealer
<1>1. /\ Sound(hand, stacks) /\ hand.phase \in Streets /\ BetsSound(hand)
      /\ i \in InHand(hand)
  BY DEF BotInv, TableInv, RivalResigns, Playing, InProgress
<1>2. CASE i = hand.turn
  <2>1. HandBecomes(AfterFold(hand))
    BY <1>2 DEF RivalResigns
  <2>2. Later(AfterFold(hand), hand, stacks)
    BY <1>1, AfterFoldSound, FollowingIsLater
  <2>3. AfterFold(hand).phase \in Streets => BetsSound(AfterFold(hand))
    BY <1>1, FoldBets
  <2> QED
    BY <2>1, <2>2, <2>3, TableGoesOn DEF BotInv
<1>3. CASE i # hand.turn
  <2>1. HandBecomes(AfterForcedFold(hand, i))
    BY <1>3 DEF RivalResigns
  <2>2. Later(AfterForcedFold(hand, i), hand, stacks)
    BY <1>1, <1>3, AfterForcedFoldSound, FollowingIsLater
  <2>3. AfterForcedFold(hand, i).phase \in Streets
          => BetsSound(AfterForcedFold(hand, i))
    BY <1>1, ForcedFoldBets
  <2> QED
    BY <2>1, <2>2, <2>3, TableGoesOn DEF BotInv
<1> QED
  BY <1>2, <1>3

(* ... or the clock does for the bot.                                      *)
LEMMA ClockActs ==
  ASSUME BotInv, ClockFoldsMe
  PROVE  TableInv' /\ hand'.n = hand.n /\ hand'.dealer = hand.dealer
<1>1. /\ Sound(hand, stacks) /\ hand.phase \in Streets /\ hand.turn = Me
      /\ HandBecomes(AfterFold(hand))
  BY DEF BotInv, TableInv, ClockFoldsMe, Asks, InProgress
<1>2. BetsSound(hand)
  BY <1>1 DEF BotInv, TableInv, InProgress
<1>3. Later(AfterFold(hand), hand, stacks)
  BY <1>1, AfterFoldSound, FollowingIsLater
<1>4. AfterFold(hand).phase \in Streets => BetsSound(AfterFold(hand))
  BY <1>1, <1>2, FoldBets
<1> QED
  BY <1>1, <1>3, <1>4, TableGoesOn DEF BotInv

(* The invariant holds when the bot joins a hand that is dealt.            *)
LEMMA BotInvInit ==
  BotInit => BotInv
<1> SUFFICES ASSUME BotInit PROVE BotInv
  OBVIOUS
<1>1. PICK n \in TableSizes :
        /\ stacks \in [0 .. n-1 -> Stacks(n)]
        /\ \E dealer \in 0 .. n-1 : hand = NewHand(stacks, n, dealer)
        /\ strategy \in Strategies /\ tier \in Tiers
        /\ client = Resting("poll")
  BY DEF BotInit
<1>2. PICK dealer \in 0 .. n-1 : hand = NewHand(stacks, n, dealer)
  BY <1>1
<1>3. /\ n \in 2 .. MaxSeats /\ n \in Nat \ {0, 1} /\ MaxStack \in Nat
      /\ Stacks(n) \subseteq 1 .. MaxStack
  BY BotAssumption, TableAssumption
<1>4. /\ stacks \in [0 .. n-1 -> 1 .. MaxStack]
      /\ stacks \in [0 .. n-1 -> Nat]
  BY <1>1, <1>3
<1>5. Sound(hand, stacks) /\ hand.n = n
  BY <1>2, <1>3, <1>4, NewHandSound
<1>6. InProgress => BetsSound(hand)
  BY <1>2, <1>3, <1>4, NewHandBets DEF InProgress
<1>7. TableInv
  BY <1>1, <1>3, <1>4, <1>5, <1>6 DEF TableInv, Seats
<1>8. ClientType(client) /\ client.at = "poll"
  BY <1>1, NewClients
<1> QED
  BY <1>7, <1>8 DEF BotInv, ClientInv, Sending, StopsOnlyIfOvertaken

(* A request that is no longer current promises nothing.                   *)
LEMMA Overtaking ==
  ASSUME BotInv, NEW c, ClientType(c), ~c.fresh, c.at = client.at,
         c.d = client.d, client' = c,
         hand'.n = hand.n, hand'.dealer = hand.dealer,
         resigned \subseteq resigned'
  PROVE  ClientInv'
BY DEF BotInv, ClientInv, Sending, StopsOnlyIfOvertaken, ClientType

(* What is decided is current.                                             *)
LEMMA DecidedCurrent ==
  ASSUME BotInv, PollAndDecide
  PROVE  ClientInv'
<1> DEFINE v == View(hand, resigned, Me)
<1>1. PICK move \in Moves(v) : client' = Asking(move[1], v.toCall)
  BY DEF PollAndDecide
<1>2. /\ InProgress /\ hand.turn = Me /\ hand' = hand /\ stacks' = stacks
      /\ resigned' = resigned /\ strategy' = strategy
  BY DEF PollAndDecide, vars
<1>3. /\ TableInv /\ HandType(hand) /\ Me \in Seats(hand)
      /\ hand.chips[Me] > 0 /\ BetsSound(hand) /\ Sound(hand, stacks)
  BY <1>2, SeatsAndTurn DEF BotInv, TableInv
<1>4. Seen(v)
  BY <1>2, <1>3, ViewIsSeen DEF InProgress
<1>5. /\ v.toCall = AmountToCall(hand, Me) /\ v.phase = hand.phase
  BY DEF View
<1>6. hand.phase # "preflop" /\ hand.current_bet = 0 => v.toCall = 0
  <2>1. hand.phase # "preflop" /\ hand.current_bet = 0 => hand.bet[Me] = 0
    BY <1>3 DEF BetsSound
  <2> QED
    BY <1>3, <1>5, <2>1, HandFields DEF AmountToCall, Least
<1> HIDE DEF v
<1> DEFINE d == move[1]
           Safe == \/ hand.phase # "preflop"
                      /\ (v.toCall > 0 \/ hand.current_bet = 0)
                   \/ strategy # "fox" /\ v.toCall > 0
<1>7. Sensible(v, d) /\ (Safe => Fits(v, d))
  <2>1. v.toCall \in Int
    BY <1>4 DEF Seen
  <2> QED
    BY <1>3, <1>4, <1>5, <1>6, <2>1, MovesFit DEF TableInv
<1>8. Safe => Accepts(hand, d)
  <2>1. ASSUME Safe PROVE Accepts(hand, d)
    <3>1. Fits(v, d) /\ v.toCall \in Int
      BY <1>4, <1>7, <2>1 DEF Seen
    <3>2. d.action = "bet" => hand.phase # "preflop" /\ hand.current_bet = 0
      BY <2>1, <3>1 DEF Fits
    <3> HIDE DEF d
    <3> QED
      BY <1>2, <1>3, <3>1, <3>2, FittingAccepted DEF InProgress, v
  <2> QED
    BY <2>1
<1> HIDE DEF d
<1>9. /\ ClientType(client') /\ client'.at = "send" /\ client'.d = d
      /\ client'.asked = v.toCall
  BY <1>1, NewClients DEF d
<1>10. Current(client)'
  BY <1>2, <1>5, <1>7, <1>8, <1>9 DEF Current, Sensible, Actions, InProgress
<1>11. d.action \in Actions /\ d.amount \in Int
  BY <1>7 DEF Sensible, Actions
<1>12. StopsOnlyIfOvertaken'
  BY <1>9 DEF StopsOnlyIfOvertaken
<1> QED
  BY <1>9, <1>10, <1>11, <1>12 DEF ClientInv

(* The dealer is not among those the bot ranks: he has resigned, and three *)
(* others are left.                                                        *)
LEMMA CrashedRightly ==
  ASSUME BotInv, Crash
  PROVE  ClientInv'
<1>1. /\ client' = Resting("crashed") /\ hand' = hand /\ resigned' = resigned
      /\ ~PositionKnown(hand, resigned)
  BY DEF Crash, vars
<1>2. HandType(hand) /\ hand.n \in Nat /\ hand.dealer \in Seats(hand)
  BY SeatsAndTurn, HandFields DEF BotInv
<1>3. /\ ~(Cardinality(Ranked(hand, resigned)) <= 2)
      /\ hand.dealer \in resigned
  BY <1>1, <1>2 DEF PositionKnown, Ranked
<1>4. hand.n > 3
  <2> DEFINE S == Seats(hand)
  <2>1. /\ IsFiniteSet(S) /\ Cardinality(S) = hand.n
        /\ IsFiniteSet(S \ {hand.dealer})
        /\ Cardinality(S \ {hand.dealer}) = hand.n - 1
    <3> DEFINE m == hand.n - 1
    <3>1. S = 0 .. m /\ m \in Int /\ 0 \in Int /\ ~(0 > m) /\ m + 1 = hand.n
      BY <1>2 DEF Seats
    <3> HIDE DEF S, m
    <3>2. /\ IsFiniteSet(0 .. m)
          /\ Cardinality(0 .. m) = IF 0 > m THEN 0 ELSE m - 0 + 1
      BY <3>1, FS_Interval
    <3>3. IsFiniteSet(S) /\ Cardinality(S) = hand.n
      BY <3>1, <3>2
    <3> QED
      BY <1>2, <3>3, FS_RemoveElement DEF S
  <2>2. Ranked(hand, resigned) \subseteq S \ {hand.dealer}
    BY <1>3 DEF Ranked
  <2> HIDE DEF S
  <2>3. /\ Cardinality(Ranked(hand, resigned)) <= hand.n - 1
        /\ Cardinality(Ranked(hand, resigned)) \in Nat
    BY <2>1, <2>2, FS_Subset, FS_CardinalityType
  <2> QED
    BY <1>2, <1>3, <2>3
<1>5. ClientType(client') /\ client'.at = "crashed"
  BY <1>1, NewClients
<1> QED
  BY <1>1, <1>3, <1>4, <1>5 DEF ClientInv, Sending, StopsOnlyIfOvertaken

(* A fallback is refused only when somebody has moved since.               *)
LEMMA FallbackAccepted ==
  ASSUME TableInv, Current(client), client.at = "fallback"
  PROVE  MyTurnAndLegal
<1>1. /\ InProgress /\ hand.turn = Me /\ client.asked = AmountToCall(hand, Me)
      /\ client.d = Fallback(client.asked)
  BY DEF Current
<1>2. /\ hand.chips[Me] \in Nat /\ hand.chips[Me] > 0
      /\ hand.bet[Me] \in Nat /\ hand.current_bet \in Nat
  BY <1>1, SeatsAndTurn
<1>3. client.asked = 0 => MayCheck(hand)
  BY <1>1, <1>2 DEF AmountToCall, Least, MayCheck
<1>4. Accepts(hand, client.d)
  <2>1. client.d.action = IF client.asked = 0 THEN "check" ELSE "fold"
    BY <1>1 DEF Fallback, Do
  <2>2. client.d.action = "check" => Accepts(hand, client.d)
    BY <1>3, <2>1 DEF Accepts
  <2>3. client.d.action = "fold" => Accepts(hand, client.d)
    BY DEF Accepts
  <2> QED
    BY <2>1, <2>2, <2>3
<1> QED
  BY <1>1, <1>4 DEF MyTurnAndLegal

(* A refusal replaces a current decision by a current fallback.            *)
LEMMA RefusedRightly ==
  ASSUME BotInv, Refused
  PROVE  ClientInv'
<1>1. /\ Asks /\ ~MyTurnAndLegal /\ hand' = hand /\ stacks' = stacks
      /\ resigned' = resigned /\ strategy' = strategy
      /\ TableInv /\ ClientType(client) /\ Sending(client)
  BY DEF Refused, vars, BotInv, ClientInv, Asks, Sending
<1>2. CASE client.at = "fallback"
  <2>1. ~client.fresh
    BY <1>1, <1>2, FallbackAccepted DEF BotInv, ClientInv
  <2>2. client' = [client EXCEPT !.at = "stopped"]
    BY <1>2 DEF Refused
  <2>3. /\ ClientType(client') /\ client'.at = "stopped"
        /\ client'.fresh = client.fresh
    BY <1>1, <2>2 DEF ClientType
  <2> QED
    BY <2>1, <2>3 DEF ClientInv, Sending, StopsOnlyIfOvertaken
<1>3. CASE client.at = "send"
  <2> DEFINE d == Fallback(client.asked)
  <2>1. client' = [client EXCEPT !.at = "fallback", !.tries = 0, !.d = d]
    BY <1>3 DEF Refused
  <2>2. d.action \in Actions /\ d.amount \in Int
    BY DEF Fallback, Do, Actions
  <2> HIDE DEF d
  <2>3. /\ ClientType(client') /\ client'.at = "fallback" /\ client'.d = d
        /\ client'.asked = client.asked /\ client'.fresh = client.fresh
    <3>1. 0 \in 0 .. Attempts - 1
      BY BotAssumption
    <3>2. /\ client'.at = "fallback" /\ client'.d = d /\ client'.tries = 0
          /\ client'.asked = client.asked /\ client'.fresh = client.fresh
      BY <1>1, <2>1 DEF ClientType
    <3>3. client' \in [at : {"poll", "send", "fallback", "stopped", "crashed", "failed"},
                       d : {d}, asked : {client.asked}, fresh : BOOLEAN,
                       tries : 0 .. Attempts - 1]
      BY <1>1, <2>1, <3>1 DEF ClientType
    <3> QED
      BY <3>2, <3>3 DEF ClientType
  <2>4. Current(client) => Current(client)'
    BY <1>1, <2>3 DEF Current, InProgress, d
  <2> QED
    BY <1>1, <2>2, <2>3, <2>4
       DEF BotInv, ClientInv, Sending, StopsOnlyIfOvertaken
<1> QED
  BY <1>1, <1>2, <1>3 DEF Sending

(* A failed poll ends the bot, for no reason of the table.                 *)
LEMMA PollFailsRightly ==
  ASSUME BotInv, PollFails
  PROVE  ClientInv'
<1>1. ClientType(client') /\ client'.at = "failed"
  BY NewClients DEF PollFails
<1> QED
  BY <1>1 DEF ClientInv, Sending, StopsOnlyIfOvertaken

(* The server's answer is lost, or the bot goes back to polling.           *)
LEMMA AcceptedMovesOn ==
  ASSUME BotInv, Accepted
  PROVE  BotInv'
<1>1. /\ Asks /\ MyTurnAndLegal /\ HandBecomes(After(hand, client.d))
      /\ resigned' = resigned
      /\ \/ client' = Resting("poll")
         \/ Unanswered([client EXCEPT !.fresh = FALSE])
  BY DEF Accepted
<1>2. TableInv' /\ hand'.n = hand.n /\ hand'.dealer = hand.dealer
  BY <1>1, BotActs
<1>3. CASE client' = Resting("poll")
  <2>1. ClientType(client') /\ client'.at = "poll"
    BY <1>3, NewClients
  <2> QED
    BY <1>2, <2>1 DEF BotInv, ClientInv, Sending, StopsOnlyIfOvertaken
<1>4. CASE Unanswered([client EXCEPT !.fresh = FALSE])
  <2> DEFINE c == [client EXCEPT !.fresh = FALSE]
  <2>1. /\ ClientType(c) /\ ~c.fresh /\ c.at = client.at /\ c.d = client.d
    BY ClientChanges DEF BotInv, ClientInv
  <2>2. Unanswered(c)
    BY <1>4
  <2> HIDE DEF c
  <2>3. /\ ClientType(client')
        /\ \/ /\ ~client'.fresh /\ client'.d = client.d
              /\ client'.at = client.at
           \/ client'.at = "failed"
    BY <2>1, <2>2, GatewayErrors
  <2>4. ClientInv'
    BY <1>1, <1>2, <2>3
       DEF BotInv, ClientInv, Sending, StopsOnlyIfOvertaken, Asks
  <2> QED
    BY <1>2, <2>4 DEF BotInv
<1> QED
  BY <1>1, <1>3, <1>4

(* The table does not care for the client.                                 *)
LEMMA TableStays ==
  ASSUME TableInv, UNCHANGED <<vars, strategy, tier>>
  PROVE  TableInv'
BY DEF TableInv, Playing, InProgress, vars, Seats

(* A lost request is as current as before.                                 *)
LEMMA LostKeepsInv ==
  ASSUME BotInv, RequestLost
  PROVE  BotInv'
<1>1. /\ Unanswered(client) /\ Asks
      /\ hand' = hand /\ stacks' = stacks /\ resigned' = resigned
      /\ strategy' = strategy /\ ClientType(client)
  BY DEF RequestLost, vars, BotInv, ClientInv
<1>2. /\ ClientType(client')
      /\ \/ /\ client'.at = client.at /\ client'.d = client.d
            /\ client'.asked = client.asked /\ client'.fresh = client.fresh
         \/ client'.at = "failed"
  BY <1>1, GatewayErrors
<1>3. client'.at = client.at /\ Current(client) => Current(client)'
  BY <1>1, <1>2 DEF Asks, Current, InProgress
<1>4. ClientInv'
  BY <1>1, <1>2, <1>3 DEF BotInv, ClientInv, Sending, StopsOnlyIfOvertaken, Asks
<1> QED
  BY <1>4, TableStays DEF BotInv, RequestLost

(* Somebody else moves.                                                    *)
LEMMA OvertakenKeepsInv ==
  ASSUME BotInv, Overtaken, TableInv',
         hand'.n = hand.n, hand'.dealer = hand.dealer,
         resigned \subseteq resigned'
  PROVE  BotInv'
<1> DEFINE c == [client EXCEPT !.fresh = FALSE]
<1>1. ClientType(c) /\ ~c.fresh /\ c.at = client.at /\ c.d = client.d
  BY ClientChanges DEF BotInv, ClientInv
<1>2. client' = c
  BY DEF Overtaken
<1> HIDE DEF c
<1> QED
  BY <1>1, <1>2, Overtaking DEF BotInv

(* Every step keeps the invariant.                                         *)
LEMMA BotInvNext ==
  BotInv /\ [BotNext]_botVars => BotInv'
<1> SUFFICES ASSUME BotInv, [BotNext]_botVars PROVE BotInv'
  OBVIOUS
<1>1. CASE PollAndDecide
  BY <1>1, DecidedCurrent, TableStays DEF BotInv, PollAndDecide
<1>2. CASE Crash
  BY <1>2, CrashedRightly, TableStays DEF BotInv, Crash
<1>3. CASE Accepted
  BY <1>3, AcceptedMovesOn
<1>4. CASE Refused
  BY <1>4, RefusedRightly, TableStays DEF BotInv, Refused
<1>5. CASE RequestLost
  BY <1>5, LostKeepsInv
<1>6. CASE RivalActs
  BY <1>6, OthersAct, OvertakenKeepsInv DEF RivalActs
<1>7. ASSUME NEW i \in Seats(hand), RivalResigns(i) PROVE BotInv'
  BY <1>7, OthersResign, OvertakenKeepsInv DEF RivalResigns
<1>8. CASE ClockFoldsMe
  BY <1>8, ClockActs, OvertakenKeepsInv DEF ClockFoldsMe
<1>9. CASE UNCHANGED botVars
  <2>1. /\ hand' = hand /\ stacks' = stacks /\ resigned' = resigned
        /\ strategy' = strategy /\ tier' = tier /\ client' = client
    BY <1>9 DEF botVars, vars
  <2>2. Current(client) => Current(client)'
    BY <2>1 DEF Current, InProgress
  <2>3. ClientInv'
    BY <2>1, <2>2 DEF BotInv, ClientInv, Sending, StopsOnlyIfOvertaken
  <2>4. TableInv'
    BY <2>1, TableStays DEF BotInv, vars
  <2> QED
    BY <2>3, <2>4 DEF BotInv
<1>10. CASE PollFails
  BY <1>10, PollFailsRightly, TableStays DEF BotInv, PollFails
<1> QED
  BY <1>1, <1>2, <1>3, <1>4, <1>5, <1>6, <1>7, <1>8, <1>9, <1>10 DEF BotNext

(* It holds throughout.                                                    *)
LEMMA BotInvInvariant ==
  BotSpec => []BotInv
BY BotInvInit, BotInvNext, PTL DEF BotSpec

(* A bot never folds a hand it may check as far as it knows                *)
(* (__main__.py:150, strategies/).                                         *)
THEOREM FoldsNothingFree ==
  BotSpec => []NoFreeFold
<1>1. BotInv => NoFreeFold
  <2> SUFFICES ASSUME BotInv, Sending(client), client.fresh,
                      client.asked >= 0, client.d.action = "fold"
               PROVE  ~MayCheck(hand)
    BY DEF NoFreeFold, Sending
  <2>1. TableInv /\ Current(client)
    BY DEF BotInv, ClientInv
  <2>2. client.asked # 0
    BY <2>1 DEF Current, Sending, Fallback, Do
  <2>3. /\ hand.turn = Me /\ client.asked = AmountToCall(hand, Me)
        /\ hand.chips[Me] \in Nat /\ hand.bet[Me] \in Nat
        /\ hand.current_bet \in Nat
    BY <2>1, SeatsAndTurn DEF Current
  <2> QED
    BY <2>2, <2>3 DEF AmountToCall, Least, MayCheck
<1> QED
  BY <1>1, BotInvInvariant, PTL

(* A bot that no error of the connection or the server ends leaves the     *)
(* game early only when overtaken, or at a table of four or more whose     *)
(* dealer has resigned (__main__.py:148-153, client.py:124-161).           *)
THEOREM StopsRightly ==
  BotSpec => []StopsOnlyIfOvertaken
<1>1. BotInv => StopsOnlyIfOvertaken
  BY DEF BotInv, ClientInv
<1> QED
  BY <1>1, BotInvInvariant, PTL

(* After the flop no decision of any strategy is refused as it was made,   *)
(* unless a raise took the bet down to the bot's own or below              *)
(* (strategies/, hand.py:313-458).                                         *)
THEOREM PostflopCorrect ==
  BotSpec => PostflopAccepted
<1> DEFINE Excused == \/ hand.phase = "preflop"
                      \/ hand.current_bet > 0
                           /\ hand.current_bet <= hand.bet[Me]
<1>1. ASSUME BotInv, [BotNext]_botVars
      PROVE  [RefusedFresh => Excused]_botVars
  <2> SUFFICES ASSUME RefusedFresh, hand.phase # "preflop"
               PROVE  hand.current_bet > 0 /\ hand.current_bet <= hand.bet[Me]
    OBVIOUS
  <2>1. TableInv /\ Current(client) /\ client.at = "send" /\ ~MyTurnAndLegal
    BY <1>1 DEF RefusedFresh, Refused, BotInv, ClientInv, Sending
  <2>2. /\ hand.turn = Me /\ client.asked = AmountToCall(hand, Me)
        /\ hand.chips[Me] \in Nat /\ hand.chips[Me] > 0
        /\ hand.bet[Me] \in Nat /\ hand.current_bet \in Nat
    BY <2>1, SeatsAndTurn DEF Current
  <2>3. ~(client.asked > 0) /\ hand.current_bet # 0
    BY <2>1 DEF Current, MyTurnAndLegal
  <2> QED
    BY <2>2, <2>3 DEF AmountToCall, Least
<1> QED
  BY <1>1, BotInvInvariant, PTL DEF BotSpec, PostflopAccepted

(* A refusal costs nobody a hand but Fox, and him before the flop only:    *)
(* the check that replaces the decision is free (__main__.py:148-151).     *)
THEOREM RefusalsCorrect ==
  BotSpec => RefusalOnlyChecks
<1>1. ASSUME BotInv, [BotNext]_botVars
      PROVE  [RefusedFresh /\ client.asked >= 0
                => \/ strategy = "fox" /\ hand.phase = "preflop"
                   \/ client'.d.action = "check" /\ MayCheck(hand)]_botVars
  <2> SUFFICES ASSUME RefusedFresh, client.asked >= 0,
                      ~(strategy = "fox" /\ hand.phase = "preflop")
               PROVE  client'.d.action = "check" /\ MayCheck(hand)
    OBVIOUS
  <2>1. /\ TableInv /\ Current(client) /\ client.at = "send" /\ ~MyTurnAndLegal
        /\ ClientType(client)
    BY <1>1 DEF RefusedFresh, Refused, BotInv, ClientInv, Sending
  <2>2. /\ hand.turn = Me /\ client.asked = AmountToCall(hand, Me)
        /\ hand.chips[Me] \in Nat /\ hand.chips[Me] > 0
        /\ hand.bet[Me] \in Nat /\ hand.current_bet \in Nat
    BY <2>1, SeatsAndTurn DEF Current
  <2>3. ~(client.asked > 0)
    BY <2>1 DEF Current, MyTurnAndLegal
  <2>4. client.asked = 0 /\ MayCheck(hand)
    BY <2>2, <2>3 DEF AmountToCall, Least, MayCheck
  <2>5. client'.d = Fallback(client.asked)
    <3> DEFINE d == Fallback(client.asked)
    <3>1. client' = [client EXCEPT !.at = "fallback", !.tries = 0, !.d = d]
      BY <2>1 DEF RefusedFresh, Refused
    <3> HIDE DEF d
    <3>2. client'.d = d
      BY <2>1, <3>1 DEF ClientType
    <3> QED
      BY <3>2 DEF d
  <2> QED
    BY <2>4, <2>5 DEF Fallback, Do
<1> QED
  BY <1>1, BotInvInvariant, PTL DEF BotSpec, RefusalOnlyChecks

-----------------------------------------------------------------------------
(* Nobody can bet or raise to more than all the stacks.                    *)
LEMMA AmountsSuffice ==
  ASSUME NEW h, NEW s, Sound(h, s), h.phase \in Streets, BetsSound(h),
         h.n \in 2 .. MaxSeats, s \in [Seats(h) -> 1 .. MaxStack],
         NEW amount \in Nat, amount > 0,
         amount <= h.bet[h.turn] + h.chips[h.turn]
  PROVE  amount \in Amounts
<1>1. /\ h.turn \in Seats(h) /\ Kept(h, s)
      /\ h.bet[h.turn] \in Nat /\ h.chips[h.turn] \in Nat
      /\ h.total[h.turn] \in Nat
  BY SoundFields, HandFields
<1>2. h.chips[h.turn] + h.total[h.turn] = s[h.turn]
  BY <1>1 DEF Kept
<1>3. h.bet[h.turn] <= h.total[h.turn]
  BY <1>1 DEF BetsSound
<1>4. MaxStack \in Nat /\ MaxSeats \in Nat /\ MaxSeats >= 1
  BY TableAssumption
<1>5. s[h.turn] \in 1 .. MaxStack
  BY <1>1
<1>6. amount <= MaxStack
  BY <1>1, <1>2, <1>3, <1>4, <1>5
<1>7. MaxStack <= MaxSeats * MaxStack
  <2>1. \A a, b \in Nat : b >= 1 => a <= b * a
    OBVIOUS
  <2> QED
    BY <1>4, <2>1
<1>8. MaxSeats * MaxStack \in Nat
  BY <1>4
<1> QED
  BY <1>4, <1>6, <1>7, <1>8 DEF Amounts

(* What the server accepts is a step of the hand.                          *)
LEMMA AcceptedIsTurnStep ==
  ASSUME TableInv, InProgress, NEW d,
         d.action \in Actions, d.amount \in Int, Accepts(hand, d),
         HandBecomes(After(hand, d))
  PROVE  TurnStep
<1>1. hand' = After(hand, d) /\ UNCHANGED stacks
  BY DEF HandBecomes
<1>2. /\ Sound(hand, stacks) /\ hand.phase \in Streets /\ BetsSound(hand)
      /\ hand.n \in 2 .. MaxSeats /\ stacks \in [Seats(hand) -> 1 .. MaxStack]
      /\ hand.bet[hand.turn] \in Nat /\ hand.chips[hand.turn] \in Nat
  BY SeatsAndTurn DEF TableInv, InProgress
<1>3. CASE d.action = "fold"
  BY <1>1, <1>3 DEF After, Fold, TurnStep
<1>4. CASE d.action = "check"
  BY <1>1, <1>4 DEF After, Accepts, Check, TurnStep
<1>5. CASE d.action = "call"
  BY <1>1, <1>5 DEF After, Accepts, Call, TurnStep
<1>6. CASE d.action = "bet"
  <2>1. d.amount \in Nat /\ d.amount > 0 /\ MayBet(hand, d.amount)
    BY <1>2, <1>6, SizesAre
  <2>2. d.amount \in Amounts
    BY <1>2, <2>1, AmountsSuffice DEF MayBet
  <2>3. Bet(d.amount)
    BY <1>1, <1>6, <2>1 DEF After, Bet
  <2> QED
    BY <2>2, <2>3 DEF TurnStep
<1>7. CASE d.action = "raise"
  <2>1. d.amount \in Nat /\ d.amount > 0 /\ MayRaise(hand, d.amount)
    BY <1>2, <1>7, SizesAre
  <2>2. d.amount \in Amounts
    BY <1>2, <2>1, AmountsSuffice DEF MayRaise
  <2>3. Raise(d.amount)
    BY <1>1, <1>7, <2>1 DEF After, Raise
  <2> QED
    BY <2>2, <2>3 DEF TurnStep
<1>8. CASE d.action = "all_in"
  BY <1>1, <1>8 DEF After, AllIn, TurnStep
<1> QED
  BY <1>3, <1>4, <1>5, <1>6, <1>7, <1>8 DEF Actions

(* A step of the game with the bot is a step of the hand, or none.         *)
LEMMA BotStepPlaysHand ==
  ASSUME BotInv, [BotNext]_botVars
  PROVE  [Next]_vars
<1>1. CASE Accepted
  <2>1. /\ InProgress /\ hand.turn = Me /\ Accepts(hand, client.d)
        /\ HandBecomes(After(hand, client.d))
    BY <1>1 DEF Accepted, Asks, MyTurnAndLegal
  <2>2. TableInv /\ client.d.action \in Actions /\ client.d.amount \in Int
    BY <1>1 DEF BotInv, ClientInv, Sending, Accepted, Asks
  <2> QED
    BY <2>1, <2>2, AcceptedIsTurnStep DEF Next
<1>2. CASE RivalActs
  <2>1. PICK d \in RivalMoves(hand) :
               Accepts(hand, d) /\ HandBecomes(After(hand, d))
    BY <1>2 DEF RivalActs
  <2>2. TableInv /\ InProgress
    BY <1>2 DEF BotInv, TableInv, RivalActs, Playing
  <2>3. /\ hand.current_bet \in Nat /\ hand.min_raise \in Nat
        /\ hand.bet[hand.turn] \in Nat /\ hand.chips[hand.turn] \in Nat
        /\ BigBlind \in Nat
    BY <2>2, SeatsAndTurn, HandFields, BlindsAssumption
  <2>4. d.action \in Actions /\ d.amount \in Int
    BY <2>3 DEF RivalMoves, RivalSizes, Do, Sized, Actions
  <2> QED
    BY <2>1, <2>2, <2>4, AcceptedIsTurnStep DEF Next
<1>3. ASSUME NEW i \in Seats(hand), RivalResigns(i) PROVE [Next]_vars
  <2>1. InProgress /\ i \in InHand(hand)
    BY <1>3 DEF RivalResigns, Playing
  <2>2. CASE i = hand.turn
    <3>1. Fold
      BY <1>3, <2>1, <2>2 DEF RivalResigns, HandBecomes, Fold
    <3> QED
      BY <3>1 DEF TurnStep, Next
  <2>3. CASE i # hand.turn
    <3>1. ForcedFold(i)
      BY <1>3, <2>1, <2>3 DEF RivalResigns, HandBecomes, ForcedFold
    <3> QED
      BY <3>1 DEF Next
  <2> QED
    BY <2>2, <2>3
<1>4. CASE ClockFoldsMe
  BY <1>4 DEF ClockFoldsMe, Asks, HandBecomes, Fold, TurnStep, Next
<1>5. CASE \/ PollAndDecide \/ Crash \/ PollFails \/ Refused \/ RequestLost
           \/ UNCHANGED botVars
  BY <1>5 DEF PollAndDecide, Crash, PollFails, Refused, RequestLost, botVars
<1> QED
  BY <1>1, <1>2, <1>3, <1>4, <1>5 DEF BotNext

(* A game with a bot is a hand of PokerHand, whatever the bot sends and    *)
(* whenever: the server carries out the moves of the hand only, so all     *)
(* that is proved of a hand holds with a bot at the table (hand.py:102).   *)
THEOREM BotPlaysHand ==
  BotSpec => Spec
<1>1. BotInit => Init
  <2> SUFFICES ASSUME BotInit PROVE Init
    OBVIOUS
  <2>1. PICK n \in TableSizes :
          /\ stacks \in [0 .. n-1 -> Stacks(n)]
          /\ \E dealer \in 0 .. n-1 : hand = NewHand(stacks, n, dealer)
    BY DEF BotInit
  <2>2. n \in 2 .. MaxSeats /\ Stacks(n) \subseteq 1 .. MaxStack
    BY BotAssumption
  <2>3. stacks \in [0 .. n-1 -> 1 .. MaxStack]
    BY <2>1, <2>2
  <2> QED
    BY <2>1, <2>2, <2>3 DEF Init
<1> QED
  BY <1>1, BotInvInvariant, BotStepPlaysHand, PTL DEF BotSpec, Spec
=============================================================================
