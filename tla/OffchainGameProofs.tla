------------------------- MODULE OffchainGameProofs -------------------------
(***************************************************************************)
(* Theorems about module OffchainGame, for any number of users, requests   *)
(* and seats, every buy-in, and any number of claims, failures and         *)
(* restarts.                                                               *)
(*                                                                         *)
(* That no credit is made or lost needs to know how far a settlement has   *)
(* got: while a request pays, what has been paid is the sum of the payouts *)
(* before the next one.  This holds only as long as requests do not        *)
(* overlap at the table.                                                   *)
(***************************************************************************)
EXTENDS OffchainGame, TotalsProofs, SequenceTheorems

Steps == TableSteps \cup {"idle", "claim", "debit", "register", "refund"}

Games ==
  [players : Seq(Users), chips : Seq(Nat), resigned : SUBSET Nat,
   started : BOOLEAN, over : BOOLEAN, settled : Seq(Nat), paid : Nat]

Hands ==
  [open : BOOLEAN, dealt : SUBSET Nat, folded : SUBSET Nat, chips : Seq(Nat),
   pot : Nat, turn : Nat, complete : BOOLEAN]

Waiting ==
  [at : Steps, user : Users \cup {Nobody}, seat : Nat, resigns : BOOLEAN,
   current : BOOLEAN, payouts : Seq(Nat), due : Nat]

Accounts ==
  /\ balance \in [Users -> Nat]
  /\ rows \in SUBSET Users
  /\ \A u \in Users : balance[u] > 0 => u \in rows
  /\ claims \in Nat /\ erased \in Nat /\ failures \in Nat /\ restarts \in Nat

(* The game: only a started game can be over.                              *)
GameKept ==
  /\ game \in Games
  /\ Len(game.chips) = Len(game.players)
  /\ game.resigned \subseteq Seats
  /\ game.started => Len(game.players) >= 2
  /\ game.over => game.started

HandKept ==
  /\ hand \in Hands
  /\ hand.folded \subseteq hand.dealt /\ hand.dealt \subseteq Seats
  /\ hand.open => /\ game.started
                  /\ Len(hand.chips) = Len(game.players)
                  /\ hand.complete \/ hand.turn \in hand.dealt

(* What a request needs when it goes on.                                   *)
RequestKept(r) ==
  /\ request[r].at \in {"claim", "debit", "register", "refund"} =>
       request[r].user \in Users
  /\ AtTable(r) => game.started
  /\ request[r].at \in {"acted", "folded", "completed"} /\ request[r].current =>
       hand.open
  /\ request[r].at = "pay" => Len(request[r].payouts) = Len(game.players)

GameInv ==
  /\ Accounts
  /\ GameKept
  /\ HandKept
  /\ request \in [Requests -> Waiting]
  /\ \A r \in Requests : RequestKept(r)

Playing == {"resigning", "acted", "folded", "completed"}

Settling == {"announce", "pay"}

(* A game that is over is being settled, has been, or lost a call.         *)
BeingSettled ==
  game.over /\ failures = 0 =>
    \/ game.settled # NotSettled
    \/ \E r \in Requests : request[r].at \in Settling

-----------------------------------------------------------------------------
(* The books of a game whose requests do not overlap at the table.         *)

Due == ComputePayouts(game.chips, BuyIn, StartingChips)

(* The payouts before the one that is due, as a table.                     *)
Credited(payouts, due) ==
  [i \in DOMAIN payouts |-> IF i < due THEN payouts[i] ELSE 0]

Alone == \A r, q \in Requests : AtTable(r) /\ AtTable(q) => r = q

BooksKept ==
  /\ ~game.over => /\ game.settled = NotSettled /\ game.paid = 0
                   /\ \A r \in Requests : request[r].at \notin Settling
  /\ game.over => /\ game.paid <= Total(Due)
                  /\ \A r \in Requests : request[r].at \notin Playing
  /\ \A r \in Requests :
       /\ request[r].at = "announce" =>
            game.settled = NotSettled /\ game.paid = 0
       /\ request[r].at = "pay" =>
            /\ game.settled = NotSettled
            /\ request[r].payouts = Due
            /\ game.paid = Total(Credited(request[r].payouts, request[r].due))

(* A request that waits for the same thing as before.                      *)
Waits(q) ==
  /\ request'[q].at = request[q].at
  /\ request'[q].payouts = request[q].payouts
  /\ request'[q].due = request[q].due

-----------------------------------------------------------------------------
(* Requests.                                                               *)

LEMMA Numbers ==
  /\ IsFiniteSet(Users) /\ MaxPlayers \in Nat /\ MaxPlayers >= 2
  /\ BuyIn \in Nat \ {0} /\ StartingChips \in Nat \ {0}
  /\ FaucetAmount \in Nat \ {0} /\ IsFiniteSet(Requests)
BY OffchainAssumption

LEMMA IdleWaits ==
  /\ Idle \in Waiting /\ Idle.at = "idle" /\ Idle.user = Nobody
  /\ Idle.current = FALSE /\ Idle.payouts = <<>>
BY DEF Idle, Waiting, Steps

(* One request goes on, the others wait as before.                         *)
LEMMA Goes ==
  ASSUME request \in [Requests -> Waiting], NEW r \in Requests, NEW x \in Waiting,
         request' = [request EXCEPT ![r] = x]
  PROVE  /\ request' \in [Requests -> Waiting] /\ request'[r] = x
         /\ \A q \in Requests \ {r} : request'[q] = request[q]
OBVIOUS

LEMMA GotoIs ==
  ASSUME request \in [Requests -> Waiting], NEW r \in Requests,
         NEW step \in Steps, Goto(r, step)
  PROVE  /\ request' \in [Requests -> Waiting]
         /\ request'[r] = [request[r] EXCEPT !.at = step]
         /\ request'[r].at = step
         /\ request'[r].user = request[r].user
         /\ request'[r].current = request[r].current
         /\ request'[r].payouts = request[r].payouts
         /\ \A q \in Requests \ {r} : request'[q] = request[q]
<1> DEFINE x == [request[r] EXCEPT !.at = step]
<1>1. request[r] \in Waiting
  OBVIOUS
<1>2. /\ x \in Waiting /\ x.at = step /\ x.user = request[r].user
      /\ x.current = request[r].current /\ x.payouts = request[r].payouts
  BY <1>1 DEF Waiting
<1>3. request' = [request EXCEPT ![r] = x]
  BY DEF Goto
<1> HIDE DEF x
<1>4. /\ request' \in [Requests -> Waiting] /\ request'[r] = x
      /\ \A q \in Requests \ {r} : request'[q] = request[q]
  BY <1>2, <1>3, Goes
<1> QED
  BY <1>2, <1>4 DEF x

LEMMA DoneIs ==
  ASSUME request \in [Requests -> Waiting], NEW r \in Requests, Done(r)
  PROVE  /\ request' \in [Requests -> Waiting] /\ request'[r] = Idle
         /\ \A q \in Requests \ {r} : request'[q] = request[q]
BY IdleWaits, Goes DEF Done

LEMMA AtWorkIs ==
  ASSUME request \in [Requests -> Waiting], NEW r \in Requests,
         NEW step \in Steps, NEW i \in Nat, NEW resigns \in BOOLEAN,
         AtWork(r, step, i, resigns)
  PROVE  /\ request' \in [Requests -> Waiting]
         /\ request'[r].at = step /\ request'[r].seat = i
         /\ request'[r].current = TRUE
         /\ request'[r].resigns = resigns
         /\ \A q \in Requests \ {r} : request'[q] = request[q]
<1> DEFINE x == [Idle EXCEPT !.at = step, !.seat = i, !.resigns = resigns,
                             !.current = TRUE]
<1>1. /\ x \in Waiting /\ x.at = step /\ x.seat = i /\ x.current = TRUE
      /\ x.resigns = resigns
  BY IdleWaits DEF Waiting, Idle
<1>2. request' = [request EXCEPT ![r] = x]
  BY DEF AtWork
<1> HIDE DEF x
<1> QED
  BY <1>1, <1>2, Goes

(* Requests on another hand go on with it, but know that it is another.    *)
LEMMA OutdatedAre ==
  ASSUME request \in [Requests -> Waiting], NEW r \in Requests, NEW x \in Waiting,
         request' = Outdated([request EXCEPT ![r] = x])
  PROVE  /\ request' \in [Requests -> Waiting]
         /\ \A q \in Requests : request'[q].current = FALSE
         /\ request'[r] = [x EXCEPT !.current = FALSE]
         /\ request'[r].at = x.at
         /\ \A q \in Requests \ {r} :
              /\ request'[q].at = request[q].at
              /\ request'[q].user = request[q].user
              /\ request'[q].payouts = request[q].payouts
              /\ request'[q].due = request[q].due
<1> DEFINE w == [request EXCEPT ![r] = x]
<1>1. w \in [Requests -> Waiting] /\ w[r] = x
      /\ \A q \in Requests \ {r} : w[q] = request[q]
  OBVIOUS
<1> HIDE DEF w
<1>2. \A q \in Requests : request'[q] = [w[q] EXCEPT !.current = FALSE]
  BY DEF Outdated, w
<1>3. request' = [q \in Requests |-> [w[q] EXCEPT !.current = FALSE]]
  BY DEF Outdated, w
<1>4. ASSUME NEW q \in Requests
      PROVE  LET y == [w[q] EXCEPT !.current = FALSE]
             IN  /\ y \in Waiting /\ y.current = FALSE /\ y.at = w[q].at
                 /\ y.user = w[q].user /\ y.payouts = w[q].payouts
                 /\ y.due = w[q].due
  <2>1. w[q] \in Waiting
    BY <1>1
  <2> QED
    BY <2>1 DEF Waiting
<1>5. request' \in [Requests -> Waiting]
  BY <1>3, <1>4
<1> QED
  BY <1>1, <1>2, <1>4, <1>5

(* A request that waits for the same thing can still go on, as long as the *)
(* game has not been left and the hand it works on is open.                *)
LEMMA StillKept ==
  ASSUME NEW q \in Requests, RequestKept(q),
         request'[q].at = request[q].at, request'[q].user = request[q].user,
         request'[q].payouts = request[q].payouts,
         game.started => game'.started /\ Len(game'.players) = Len(game.players),
         request'[q].current => request[q].current /\ (hand.open => hand'.open)
  PROVE  RequestKept(q)'
BY DEF RequestKept, AtTable, TableSteps

(* So can all the others if one goes on.                                   *)
LEMMA OthersKept ==
  ASSUME GameInv, NEW r \in Requests,
         \A q \in Requests \ {r} : request'[q] = request[q],
         game.started => game'.started /\ Len(game'.players) = Len(game.players),
         hand.open => hand'.open,
         RequestKept(r)'
  PROVE  \A q \in Requests : RequestKept(q)'
<1>1. ASSUME NEW q \in Requests \ {r} PROVE RequestKept(q)'
  BY <1>1, StillKept DEF GameInv
<1> QED
  BY <1>1

(* A table with an entry for each of n seats is a list of n entries.       *)
LEMMA TableIsList ==
  ASSUME NEW S, NEW n \in Nat, NEW f \in [1 .. n -> S]
  PROVE  f \in Seq(S) /\ Len(f) = n
<1>1. f \in Seq(S)
  BY SeqDef
<1>2. Len(f) \in Nat /\ 1 .. Len(f) = 1 .. n
  BY <1>1, LenProperties
<1> QED
  BY <1>1, <1>2

LEMMA SeatsAre ==
  ASSUME GameKept
  PROVE  LET n == Len(game.players)
         IN  /\ n \in Nat /\ Seats = 1 .. n
             /\ IsFiniteSet(Seats) /\ Cardinality(Seats) = n
             /\ game.players \in [Seats -> Users] /\ game.players \in Seq(Users)
             /\ game.chips \in [Seats -> Nat] /\ game.chips \in Seq(Nat)
             /\ DOMAIN game.chips = Seats
             /\ game.resigned \in SUBSET Seats /\ IsFiniteSet(game.resigned)
             /\ game.paid \in Nat /\ game.settled \in Seq(Nat)
             /\ game.over \in BOOLEAN /\ game.started \in BOOLEAN
<1> DEFINE n == Len(game.players)
<1>1. /\ game.players \in Seq(Users) /\ game.chips \in Seq(Nat)
      /\ Len(game.chips) = n /\ game.resigned \subseteq Seats
      /\ game.paid \in Nat /\ game.settled \in Seq(Nat)
      /\ game.over \in BOOLEAN /\ game.started \in BOOLEAN
  BY DEF GameKept, Games
<1>2. n \in Nat /\ DOMAIN game.players = 1 .. n
      /\ game.players \in [1 .. n -> Users] /\ game.chips \in [1 .. n -> Nat]
  BY <1>1, LenProperties
<1>3. Seats = 1 .. n
  BY <1>2 DEF Seats
<1>4. IsFiniteSet(1 .. n) /\ Cardinality(1 .. n) = n
  BY <1>2, FS_Interval
<1>5. IsFiniteSet(game.resigned)
  BY <1>1, <1>3, <1>4, FS_Subset
<1> QED
  BY <1>1, <1>2, <1>3, <1>4, <1>5

-----------------------------------------------------------------------------
(* The invariant: requests that have not got to the table.                 *)

(* A step that leaves the game and its hand alone, and after which every   *)
(* request waits as before, has returned or is on its way to a seat.       *)
LEMMA AwayFromTable ==
  ASSUME GameInv, UNCHANGED <<game, hand>>, Accounts',
         request' \in [Requests -> Waiting],
         \A q \in Requests :
           \/ request'[q] = request[q]
           \/ request'[q].at = "idle"
           \/ /\ request'[q].at \in {"claim", "debit", "register", "refund"}
              /\ request'[q].user \in Users
  PROVE  GameInv'
<1>1. GameKept' /\ HandKept'
  BY DEF GameInv, GameKept, HandKept, Seats
<1>2. ASSUME NEW q \in Requests PROVE RequestKept(q)'
  <2>1. CASE request'[q] = request[q]
    BY <2>1, StillKept DEF GameInv
  <2>2. CASE request'[q].at = "idle"
    BY <2>2 DEF RequestKept, AtTable, TableSteps
  <2>3. CASE /\ request'[q].at \in {"claim", "debit", "register", "refund"}
             /\ request'[q].user \in Users
    BY <2>3 DEF RequestKept, AtTable, TableSteps
  <2> QED
    BY <2>1, <2>2, <2>3
<1> QED
  BY <1>1, <1>2 DEF GameInv

LEMMA AccountsUntouched ==
  ASSUME Accounts, Untouched, failures' \in Nat, restarts' \in Nat
  PROVE  Accounts'
BY DEF Accounts, Untouched, moneyVars

LEMMA CreditKeeps ==
  ASSUME Accounts, NEW u \in Users, NEW amount \in Nat, Credit(u, amount),
         failures' \in Nat, restarts' \in Nat
  PROVE  /\ Accounts'
         /\ Total(balance') = Total(balance) + amount /\ Total(balance) \in Nat
<1>1. balance \in [Users -> Nat] /\ balance[u] + amount \in Nat
  BY DEF Accounts
<1>2. balance' = [balance EXCEPT ![u] = balance[u] + amount]
  BY DEF Credit
<1>3. Accounts'
  BY <1>1, <1>2 DEF Accounts, Credit
<1>4. Total(balance') = Total(balance) - balance[u] + (balance[u] + amount)
  BY <1>1, <1>2, Numbers, TotalUpdate
<1>5. Total(balance) \in Nat
  BY <1>1, Numbers, TotalType
<1> QED
  BY <1>1, <1>3, <1>4, <1>5

(* A debit is made only where there is enough (balance_store.py:62).       *)
LEMMA DebitKeeps ==
  ASSUME Accounts, NEW u \in Users, Affords(u), Debit(u, BuyIn),
         failures' \in Nat, restarts' \in Nat
  PROVE  /\ Accounts'
         /\ Total(balance') = Total(balance) - BuyIn /\ Total(balance) \in Nat
<1>1. /\ balance \in [Users -> Nat] /\ balance[u] - BuyIn \in Nat
      /\ u \in rows /\ balance[u] \in Nat
  BY Numbers DEF Accounts, Affords
<1>2. balance' = [balance EXCEPT ![u] = balance[u] - BuyIn]
  BY DEF Debit
<1>3. Accounts'
  BY <1>1, <1>2 DEF Accounts, Debit
<1>4. Total(balance') = Total(balance) - balance[u] + (balance[u] - BuyIn)
  BY <1>1, <1>2, Numbers, TotalUpdate
<1>5. Total(balance) \in Nat
  BY <1>1, Numbers, TotalType
<1> QED
  BY <1>1, <1>3, <1>4, <1>5, Numbers

(* A failed call ends its request.                                         *)
LEMMA FailsIs ==
  ASSUME GameInv, NEW r \in Requests, Fails(r)
  PROVE  /\ failures' = failures + 1 /\ restarts' = restarts
         /\ failures' \in Nat /\ restarts' \in Nat
         /\ failures' # failures /\ failures' # 0
         /\ request' \in [Requests -> Waiting] /\ request'[r] = Idle
         /\ \A q \in Requests \ {r} : request'[q] = request[q]
<1>1. failures \in Nat /\ restarts \in Nat
  BY DEF GameInv, Accounts
<1>2. Done(r) /\ failures' = failures + 1 /\ restarts' = restarts
  BY DEF Fails
<1> QED
  BY <1>1, <1>2, DoneIs DEF GameInv

LEMMA ClaimKeeps ==
  ASSUME GameInv, NEW u \in Users, Claim(u)
  PROVE  GameInv'
<1>1. Accounts'
  BY Numbers DEF GameInv, Accounts, Claim, faultVars
<1> QED
  BY <1>1, AwayFromTable DEF Claim, GameInv

LEMMA JoinKeeps ==
  ASSUME GameInv, NEW r \in Requests, NEW u \in Users,
         FirstClaim(r, u) \/ Join(r, u)
  PROVE  /\ GameInv' /\ Untouched /\ UNCHANGED <<game, faultVars>>
         /\ request[r].at = "idle" /\ request'[r].at \in {"claim", "debit"}
         /\ \A q \in Requests \ {r} : request'[q] = request[q]
<1>1. PICK step \in {"claim", "debit"} :
        request' = [request EXCEPT ![r].at = step, ![r].user = u]
  BY DEF FirstClaim, Join
<1> DEFINE x == [request[r] EXCEPT !.at = step, !.user = u]
<1>2. request \in [Requests -> Waiting] /\ request[r] \in Waiting
  BY DEF GameInv
<1>3. x \in Waiting /\ x.at = step /\ x.user = u
  BY <1>2 DEF Waiting, Steps
<1>4. request' = [request EXCEPT ![r] = x]
  BY <1>1
<1> HIDE DEF x
<1>5. /\ request' \in [Requests -> Waiting] /\ request'[r] = x
      /\ \A q \in Requests \ {r} : request'[q] = request[q]
  BY <1>2, <1>3, <1>4, Goes
<1>6. UNCHANGED <<moneyVars, game, hand, faultVars>> /\ request[r] = Idle
  BY DEF FirstClaim, Join
<1>7. Accounts'
  BY <1>6 DEF GameInv, Accounts, moneyVars, faultVars
<1>8. GameInv'
  BY <1>3, <1>5, <1>6, <1>7, AwayFromTable
<1> QED
  BY <1>3, <1>5, <1>6, <1>8, IdleWaits DEF Untouched

LEMMA GrantKeeps ==
  ASSUME GameInv, NEW r \in Requests, GrantFirst(r)
  PROVE  /\ GameInv' /\ UNCHANGED game /\ failures' = failures
         /\ request[r].at = "claim" /\ request'[r].at = "idle"
         /\ \A q \in Requests \ {r} : request'[q] = request[q]
         /\ claims' = claims + 1
         /\ Total(balance') + erased'
              = Total(balance) + erased + FaucetAmount
<1> DEFINE u == request[r].user
<1>1. /\ u \in Users /\ balance \in [Users -> Nat] /\ balance[u] \in Nat
      /\ erased \in Nat /\ request \in [Requests -> Waiting]
  BY DEF GrantFirst, GameInv, RequestKept, Accounts
<1>2. /\ balance' = [balance EXCEPT ![u] = FaucetAmount]
      /\ rows' = rows \cup {u} /\ claims' = claims + 1
      /\ erased' = erased + balance[u] /\ Done(r)
      /\ UNCHANGED <<game, hand, failures, restarts>>
      /\ request[r].at = "claim"
  BY DEF GrantFirst, faultVars
<1> HIDE DEF u
<1>3. Accounts'
  BY <1>1, <1>2, Numbers DEF GameInv, Accounts
<1>4. /\ request' \in [Requests -> Waiting] /\ request'[r] = Idle
      /\ \A q \in Requests \ {r} : request'[q] = request[q]
  BY <1>1, <1>2, DoneIs
<1>5. GameInv'
  BY <1>2, <1>3, <1>4, IdleWaits, AwayFromTable
<1>6. Total(balance') = Total(balance) - balance[u] + FaucetAmount
  BY <1>1, <1>2, Numbers, TotalUpdate
<1>7. Total(balance) \in Nat
  BY <1>1, Numbers, TotalType
<1> QED
  BY <1>1, <1>2, <1>4, <1>5, <1>6, <1>7, Numbers, IdleWaits

(* A request that pays its buy-in has enough, or it ends.                  *)
LEMMA DebitBuyInKeeps ==
  ASSUME GameInv, NEW r \in Requests, DebitBuyIn(r)
  PROVE  /\ GameInv' /\ UNCHANGED <<game, faultVars>>
         /\ request[r].at = "debit"
         /\ \A q \in Requests \ {r} : request'[q] = request[q]
         /\ \/ /\ request'[r].at = "register"
               /\ Total(balance') = Total(balance) - BuyIn
               /\ UNCHANGED <<claims, erased>>
            \/ request'[r].at = "idle" /\ Untouched
<1>1. /\ request[r].user \in Users /\ request \in [Requests -> Waiting]
      /\ Accounts /\ failures \in Nat /\ restarts \in Nat
  BY DEF DebitBuyIn, GameInv, RequestKept, Accounts
<1>2. /\ UNCHANGED <<game, hand, failures, restarts>>
      /\ request[r].at = "debit"
  BY DEF DebitBuyIn, faultVars
<1>3. CASE Affords(request[r].user)
  <2>1. Debit(request[r].user, BuyIn) /\ Goto(r, "register")
    BY <1>3 DEF DebitBuyIn
  <2>2. Accounts' /\ Total(balance') = Total(balance) - BuyIn
    BY <1>1, <1>2, <1>3, <2>1, DebitKeeps
  <2>3. /\ request' \in [Requests -> Waiting]
        /\ request'[r].at = "register" /\ request'[r].user = request[r].user
        /\ \A q \in Requests \ {r} : request'[q] = request[q]
    BY <1>1, <2>1, GotoIs DEF Steps
  <2>4. GameInv'
    BY <1>1, <1>2, <2>2, <2>3, AwayFromTable
  <2> QED
    BY <1>2, <2>1, <2>2, <2>3, <2>4 DEF Debit, faultVars
<1>4. CASE ~Affords(request[r].user)
  <2>1. Untouched /\ Done(r)
    BY <1>4 DEF DebitBuyIn
  <2>2. Accounts'
    BY <1>1, <1>2, <2>1, AccountsUntouched
  <2>3. /\ request' \in [Requests -> Waiting] /\ request'[r] = Idle
        /\ \A q \in Requests \ {r} : request'[q] = request[q]
    BY <1>1, <2>1, DoneIs
  <2>4. GameInv'
    BY <1>1, <1>2, <2>2, <2>3, IdleWaits, AwayFromTable
  <2> QED
    BY <1>2, <2>1, <2>3, <2>4, IdleWaits DEF faultVars
<1> QED
  BY <1>3, <1>4

LEMMA DebitFailsKeeps ==
  ASSUME GameInv, NEW r \in Requests, DebitFails(r)
  PROVE  /\ GameInv' /\ Total(balance') <= Total(balance)
         /\ UNCHANGED <<claims, erased, game>> /\ Fails(r)
         /\ request[r].at = "debit"
<1>1. /\ request[r].user \in Users /\ request \in [Requests -> Waiting]
      /\ Accounts /\ request[r].at = "debit"
  BY DEF DebitFails, GameInv, RequestKept
<1>2. Fails(r) /\ UNCHANGED <<game, hand>>
  BY DEF DebitFails
<1>3. /\ failures' \in Nat /\ restarts' \in Nat
      /\ request' \in [Requests -> Waiting] /\ request'[r] = Idle
      /\ \A q \in Requests \ {r} : request'[q] = request[q]
  BY <1>2, FailsIs
<1>4. /\ Accounts' /\ Total(balance') <= Total(balance)
      /\ UNCHANGED <<claims, erased>>
  <2>1. CASE Untouched
    <3>1. balance' = balance /\ Total(balance) \in Nat
      BY <1>1, <2>1, Numbers, TotalType DEF Untouched, moneyVars, Accounts
    <3> QED
      BY <1>1, <1>3, <2>1, <3>1, AccountsUntouched DEF Untouched, moneyVars
  <2>2. CASE Affords(request[r].user) /\ Debit(request[r].user, BuyIn)
    <3>1. /\ Accounts' /\ Total(balance') = Total(balance) - BuyIn
          /\ Total(balance) \in Nat
      BY <1>1, <1>3, <2>2, DebitKeeps
    <3> QED
      BY <2>2, <3>1, Numbers DEF Debit
  <2> QED
    BY <2>1, <2>2 DEF DebitFails
<1> QED
  BY <1>1, <1>2, <1>3, <1>4, IdleWaits, AwayFromTable

(* A buy-in that has bought no seat goes back.                             *)
LEMMA RefundKeeps ==
  ASSUME GameInv, NEW r \in Requests, Refund(r)
  PROVE  /\ GameInv' /\ Total(balance') = Total(balance) + BuyIn
         /\ UNCHANGED <<claims, erased, game, failures, restarts>>
         /\ request[r].at = "refund" /\ request'[r].at = "idle"
         /\ \A q \in Requests \ {r} : request'[q] = request[q]
<1>1. /\ request[r].user \in Users /\ request \in [Requests -> Waiting]
      /\ Accounts /\ failures \in Nat /\ restarts \in Nat
      /\ request[r].at = "refund"
  BY DEF Refund, GameInv, RequestKept, Accounts
<1>2. /\ Credit(request[r].user, BuyIn) /\ Done(r)
      /\ UNCHANGED <<game, hand, failures, restarts>>
  BY DEF Refund, faultVars
<1>3. Accounts' /\ Total(balance') = Total(balance) + BuyIn
  BY <1>1, <1>2, Numbers, CreditKeeps
<1>4. /\ request' \in [Requests -> Waiting] /\ request'[r] = Idle
      /\ \A q \in Requests \ {r} : request'[q] = request[q]
  BY <1>1, <1>2, DoneIs
<1>5. GameInv'
  BY <1>2, <1>3, <1>4, IdleWaits, AwayFromTable
<1> QED
  BY <1>1, <1>2, <1>3, <1>4, <1>5, IdleWaits DEF Credit

LEMMA RefundFailsKeeps ==
  ASSUME GameInv, NEW r \in Requests, RefundFails(r)
  PROVE  /\ GameInv'
         /\ Total(balance') \in {Total(balance), Total(balance) + BuyIn}
         /\ UNCHANGED <<claims, erased, game>> /\ Fails(r)
         /\ request[r].at = "refund"
<1>1. /\ request[r].user \in Users /\ request \in [Requests -> Waiting]
      /\ Accounts /\ request[r].at = "refund"
  BY DEF RefundFails, GameInv, RequestKept
<1>2. Fails(r) /\ UNCHANGED <<game, hand>>
  BY DEF RefundFails
<1>3. /\ failures' \in Nat /\ restarts' \in Nat
      /\ request' \in [Requests -> Waiting] /\ request'[r] = Idle
      /\ \A q \in Requests \ {r} : request'[q] = request[q]
  BY <1>2, FailsIs
<1>4. /\ Accounts'
      /\ Total(balance') \in {Total(balance), Total(balance) + BuyIn}
      /\ UNCHANGED <<claims, erased>>
  <2>1. CASE Untouched
    BY <1>1, <1>3, <2>1, AccountsUntouched DEF Untouched, moneyVars
  <2>2. CASE Credit(request[r].user, BuyIn)
    BY <1>1, <1>3, <2>2, Numbers, CreditKeeps DEF Credit
  <2> QED
    BY <2>1, <2>2 DEF RefundFails
<1> QED
  BY <1>1, <1>2, <1>3, <1>4, IdleWaits, AwayFromTable

LEMMA RecordFailsKeeps ==
  ASSUME GameInv, NEW r \in Requests, RecordFails(r)
  PROVE  /\ GameInv' /\ Untouched /\ UNCHANGED <<game, hand>>
         /\ Fails(r) /\ AtTable(r)
<1>1. Fails(r) /\ UNCHANGED <<game, hand>> /\ Untouched /\ AtTable(r)
  BY DEF RecordFails, Untouched
<1>2. /\ failures' \in Nat /\ restarts' \in Nat
      /\ request' \in [Requests -> Waiting] /\ request'[r] = Idle
      /\ \A q \in Requests \ {r} : request'[q] = request[q]
  BY <1>1, FailsIs
<1>3. Accounts'
  BY <1>1, <1>2, AccountsUntouched DEF GameInv
<1> QED
  BY <1>1, <1>2, <1>3, IdleWaits, AwayFromTable

-----------------------------------------------------------------------------
(* The invariant: seats, start and restart.                                *)

(* A seat is a name and as many chips as the game starts with.             *)
LEMMA SeatTaken ==
  ASSUME GameKept, NEW u \in Users,
         game' = [game EXCEPT !.players = Append(@, u),
                              !.chips = Append(@, StartingChips)]
  PROVE  /\ game' \in Games
         /\ Len(game'.chips) = Len(game'.players)
         /\ Len(game'.players) = Len(game.players) + 1
         /\ game'.resigned = game.resigned /\ game'.started = game.started
         /\ game'.over = game.over /\ game'.settled = game.settled
         /\ game'.paid = game.paid
<1>1. /\ game.players \in Seq(Users) /\ game.chips \in Seq(Nat)
      /\ StartingChips \in Nat /\ Len(game.players) \in Nat
      /\ Len(game.chips) = Len(game.players)
  BY SeatsAre, Numbers DEF GameKept
<1> DEFINE p == Append(game.players, u)
           c == Append(game.chips, StartingChips)
<1>2. /\ p \in Seq(Users) /\ Len(p) = Len(game.players) + 1
      /\ c \in Seq(Nat) /\ Len(c) = Len(game.chips) + 1
  BY <1>1, AppendProperties
<1>3. game' = [game EXCEPT !.players = p, !.chips = c]
  BY DEF GameKept, Games
<1> HIDE DEF p, c
<1>4. /\ game' \in Games /\ game'.players = p /\ game'.chips = c
      /\ game'.resigned = game.resigned /\ game'.started = game.started
      /\ game'.over = game.over /\ game'.settled = game.settled
      /\ game'.paid = game.paid
  BY <1>2, <1>3 DEF GameKept, Games
<1> QED
  BY <1>1, <1>2, <1>4

LEMMA RegisterKeeps ==
  ASSUME GameInv, NEW r \in Requests, Register(r)
  PROVE  /\ GameInv' /\ Untouched /\ UNCHANGED faultVars
         /\ request[r].at = "register"
         /\ \A q \in Requests \ {r} : request'[q] = request[q]
         /\ \/ /\ request'[r].at = "idle" /\ ~game.started
               /\ Len(game'.players) = Len(game.players) + 1
               /\ game'.started = game.started /\ game'.over = game.over
               /\ game'.settled = game.settled /\ game'.paid = game.paid
            \/ request'[r].at = "refund" /\ game' = game
<1> DEFINE u == request[r].user
<1>1. /\ request[r].user \in Users /\ request \in [Requests -> Waiting]
      /\ Accounts /\ failures \in Nat /\ restarts \in Nat
      /\ GameKept /\ HandKept /\ hand \in Hands
  BY DEF Register, GameInv, RequestKept, Accounts, HandKept
<1>2. /\ Untouched /\ UNCHANGED <<hand, failures, restarts>>
      /\ UNCHANGED faultVars /\ request[r].at = "register"
  BY DEF Register, Untouched, faultVars
<1>3. Accounts'
  BY <1>1, <1>2, AccountsUntouched
<1>4. CASE MayRegister(u)
  <2>1. /\ game' = [game EXCEPT !.players = Append(@, u),
                                !.chips = Append(@, StartingChips)]
        /\ Done(r) /\ ~game.started
    BY <1>4 DEF Register, MayRegister
  <2>2. /\ game' \in Games
        /\ Len(game'.chips) = Len(game'.players)
        /\ Len(game'.players) = Len(game.players) + 1
        /\ game'.resigned = game.resigned /\ game'.started = game.started
        /\ game'.over = game.over /\ game'.settled = game.settled
        /\ game'.paid = game.paid
    BY <1>1, <2>1, SeatTaken
  <2>3. /\ Len(game.players) \in Nat /\ Seats = 1 .. Len(game.players)
        /\ game.resigned \subseteq Seats
    BY <1>1, SeatsAre
  <2>4. Seats' = 1 .. Len(game'.players) /\ Seats \subseteq Seats'
    <3>1. DOMAIN game'.players = 1 .. Len(game'.players)
      <4>1. game'.players \in Seq(Users)
        BY <2>2 DEF Games
      <4> QED
        BY <4>1, LenProperties
    <3> QED
      BY <2>2, <2>3, <3>1 DEF Seats
  <2>5. GameKept'
    BY <1>1, <2>1, <2>2, <2>3, <2>4 DEF GameKept
  <2>6. HandKept'
    BY <1>1, <1>2, <2>1, <2>4 DEF HandKept
  <2>7. /\ request' \in [Requests -> Waiting] /\ request'[r] = Idle
        /\ \A q \in Requests \ {r} : request'[q] = request[q]
    BY <1>1, <2>1, DoneIs
  <2>8. RequestKept(r)'
    BY <2>7, IdleWaits DEF RequestKept, AtTable, TableSteps
  <2>9. \A q \in Requests : RequestKept(q)'
    BY <1>2, <2>1, <2>7, <2>8, OthersKept
  <2> QED
    BY <1>2, <1>3, <2>1, <2>2, <2>5, <2>6, <2>7, <2>9, IdleWaits DEF GameInv
<1>5. CASE ~MayRegister(u)
  <2>1. Goto(r, "refund") /\ game' = game
    BY <1>5 DEF Register
  <2>2. /\ request' \in [Requests -> Waiting]
        /\ request'[r].at = "refund" /\ request'[r].user = request[r].user
        /\ \A q \in Requests \ {r} : request'[q] = request[q]
    BY <1>1, <2>1, GotoIs DEF Steps
  <2>3. GameInv'
    BY <1>1, <1>2, <1>3, <2>1, <2>2, AwayFromTable
  <2> QED
    BY <1>2, <2>1, <2>2, <2>3
<1> QED
  BY <1>4, <1>5

(* Who is alive is dealt into the new hand with his chips.                 *)
LEMMA NewHandKept ==
  ASSUME GameKept', game'.started, NEW g, g.players = game'.players,
         g.chips \in Seq(Nat), Len(g.chips) = Len(game'.players),
         NewHand(g)
  PROVE  HandKept' /\ hand'.open /\ hand'.chips = g.chips
<1>1. PICK turn \in Alive(g) :
        hand' = [open |-> TRUE, dealt |-> Alive(g), folded |-> {},
                 chips |-> g.chips, pot |-> 0, turn |-> turn,
                 complete |-> FALSE]
  BY DEF NewHand
<1>2. game'.players \in Seq(Users)
  BY DEF GameKept, Games
<1>3. /\ DOMAIN game'.players = 1 .. Len(game'.players)
      /\ Len(game'.players) \in Nat
  BY <1>2, LenProperties
<1>4. Alive(g) \subseteq Seats' /\ Seats' \subseteq Nat
  BY <1>3 DEF Alive, Seats
<1>5. turn \in Nat /\ Alive(g) \in SUBSET Nat
  BY <1>4
<1>6. hand' \in Hands
  BY <1>1, <1>5 DEF Hands
<1> QED
  BY <1>1, <1>4, <1>6 DEF HandKept

LEMMA StartKeeps ==
  ASSUME GameInv, Start
  PROVE  /\ GameInv' /\ Untouched /\ request' = request
         /\ game' = [game EXCEPT !.started = TRUE] /\ ~game.started
<1>1. /\ ~game.started /\ Cardinality(Seats) >= 2
      /\ game' = [game EXCEPT !.started = TRUE] /\ NewHand(game)
      /\ Untouched /\ UNCHANGED <<request, failures, restarts>>
  BY DEF Start, Untouched, faultVars
<1>2. /\ GameKept /\ Accounts /\ failures \in Nat /\ restarts \in Nat
      /\ HandKept
  BY DEF GameInv, Accounts
<1>3. /\ game' \in Games /\ game'.players = game.players
      /\ game'.chips = game.chips /\ game'.resigned = game.resigned
      /\ game'.started = TRUE /\ game'.over = game.over
      /\ Len(game'.chips) = Len(game'.players)
  BY <1>1, <1>2 DEF GameKept, Games
<1>4. Cardinality(Seats) = Len(game.players) /\ game.chips \in Seq(Nat)
      /\ game.resigned \subseteq Seats
  BY <1>2, SeatsAre
<1>5. GameKept'
  BY <1>1, <1>2, <1>3, <1>4 DEF GameKept, Seats
<1>6. HandKept' /\ hand'.open
  BY <1>1, <1>3, <1>4, <1>5, NewHandKept DEF GameKept
<1>7. Accounts'
  BY <1>1, <1>2, AccountsUntouched
<1>8. ASSUME NEW q \in Requests PROVE RequestKept(q)'
  BY <1>1, <1>3, <1>6, StillKept DEF GameInv
<1> QED
  BY <1>1, <1>5, <1>6, <1>7, <1>8 DEF GameInv

(* A restart forgets the game, but no balance (game_manager.py).           *)
LEMMA RestartKeeps ==
  ASSUME GameInv, Restart
  PROVE  /\ GameInv' /\ Untouched /\ restarts' # restarts
         /\ game' = NewGame /\ \A q \in Requests : request'[q] = Idle
<1>1. /\ restarts' = restarts + 1 /\ game' = NewGame /\ hand' = NoHand
      /\ request' = [r \in Requests |-> Idle]
      /\ Untouched /\ UNCHANGED failures
  BY DEF Restart, Untouched
<1>2. Accounts /\ failures \in Nat /\ restarts \in Nat
  BY DEF GameInv, Accounts
<1>3. Accounts'
  BY <1>1, <1>2, AccountsUntouched
<1>4. \A S : <<>> \in Seq(S) /\ Len(<<>>) = 0 /\ DOMAIN <<>> = {}
  BY EmptySeq
<1>5. GameKept'
  BY <1>1, <1>4 DEF GameKept, Games, NewGame, NotSettled, Seats
<1>6. HandKept'
  BY <1>1, <1>4 DEF HandKept, Hands, NoHand, Seats
<1>7. request' \in [Requests -> Waiting] /\ \A q \in Requests : request'[q] = Idle
  BY <1>1, IdleWaits
<1>8. \A q \in Requests : RequestKept(q)'
  BY <1>7, IdleWaits DEF RequestKept, AtTable, TableSteps
<1>9. restarts' # restarts
  BY <1>1, <1>2
<1> QED
  BY <1>1, <1>3, <1>5, <1>6, <1>7, <1>8, <1>9 DEF GameInv

LEMMA InitKept ==
  Init => GameInv
<1> SUFFICES ASSUME Init PROVE GameInv
  OBVIOUS
<1>1. \A S : <<>> \in Seq(S) /\ Len(<<>>) = 0 /\ DOMAIN <<>> = {}
  BY EmptySeq
<1>2. GameKept
  BY <1>1 DEF Init, GameKept, Games, NewGame, NotSettled, Seats
<1>3. HandKept
  BY <1>1 DEF Init, HandKept, Hands, NoHand, Seats
<1>4. Accounts
  BY DEF Init, Accounts
<1>5. request \in [Requests -> Waiting] /\ \A q \in Requests : request[q] = Idle
  BY IdleWaits DEF Init
<1>6. \A q \in Requests : RequestKept(q)
  BY <1>5, IdleWaits DEF RequestKept, AtTable, TableSteps
<1> QED
  BY <1>2, <1>3, <1>4, <1>5, <1>6 DEF GameInv

-----------------------------------------------------------------------------
(* The invariant: at the table.                                            *)

(* What the steps at the table have in common: no money moves.             *)
LEMMA TableAccounts ==
  ASSUME GameInv, Untouched, UNCHANGED faultVars
  PROVE  Accounts'
BY AccountsUntouched DEF GameInv, Accounts, faultVars

LEMMA HandFieldsAre ==
  ASSUME HandKept
  PROVE  /\ hand.open \in BOOLEAN /\ hand.complete \in BOOLEAN
         /\ hand.chips \in Seq(Nat) /\ hand.pot \in Nat /\ hand.turn \in Nat
         /\ InHand \subseteq hand.dealt
         /\ hand.dealt \subseteq Seats /\ hand.folded \subseteq hand.dealt
         /\ hand.dealt \in SUBSET Nat
BY DEF HandKept, Hands, InHand

LEMMA BetKeeps ==
  ASSUME GameInv, NEW amount \in Nat, Bet(amount)
  PROVE  GameInv' /\ Untouched /\ UNCHANGED <<game, request, faultVars>>
<1>1. /\ GameKept /\ HandKept /\ hand.open /\ hand.turn \in hand.dealt
      /\ amount <= hand.chips[hand.turn]
      /\ Len(hand.chips) = Len(game.players)
  BY DEF Bet, MayAct, GameInv, HandKept
<1>2. /\ hand.chips \in Seq(Nat) /\ hand.turn \in Seats
      /\ Seats = 1 .. Len(game.players) /\ hand.pot \in Nat
      /\ InHand \subseteq hand.dealt /\ hand.dealt \in SUBSET Nat
  BY <1>1, HandFieldsAre, SeatsAre
<1>3. hand.chips[hand.turn] \in Nat
  BY <1>1, <1>2, ElementOfSeq
<1> DEFINE c == [hand.chips EXCEPT ![hand.turn] = @ - amount]
<1>4. c \in Seq(Nat) /\ Len(c) = Len(hand.chips)
  <2> DEFINE v == hand.chips[hand.turn] - amount
  <2>1. v \in Nat
    BY <1>1, <1>3
  <2>2. c = [hand.chips EXCEPT ![hand.turn] = v]
    OBVIOUS
  <2> HIDE DEF v, c
  <2> QED
    BY <1>1, <1>2, <2>1, <2>2, ExceptSeq
<1>5. PICK next \in InHand :
        hand' = [hand EXCEPT !.chips[hand.turn] = @ - amount,
                             !.pot = @ + amount, !.turn = next]
  BY DEF Bet
<1>6. hand' = [hand EXCEPT !.chips = c, !.pot = hand.pot + amount, !.turn = next]
  BY <1>1, <1>5 DEF HandKept, Hands
<1> HIDE DEF c
<1>7. /\ hand' \in Hands /\ hand'.chips = c /\ hand'.open = hand.open
      /\ hand'.dealt = hand.dealt /\ hand'.folded = hand.folded
      /\ hand'.turn \in hand'.dealt
  <2>1. hand.pot + amount \in Nat /\ next \in Nat /\ next \in hand.dealt
    BY <1>2
  <2>2. hand \in Hands
    BY <1>1 DEF HandKept
  <2> QED
    BY <1>4, <1>6, <2>1, <2>2 DEF Hands
<1>8. Untouched /\ UNCHANGED <<game, request, faultVars>>
  BY DEF Bet, Untouched
<1>9. GameKept' /\ HandKept'
  BY <1>1, <1>4, <1>7, <1>8 DEF GameKept, HandKept, Seats
<1>10. Accounts'
  BY <1>8, TableAccounts
<1>11. \A q \in Requests : RequestKept(q)'
  BY <1>7, <1>8, StillKept DEF GameInv
<1> QED
  BY <1>8, <1>9, <1>10, <1>11 DEF GameInv

(* The end of a hand: its winner gets the pot, and the stacks are written  *)
(* back.                                                                   *)
LEMMA FinishHandKept ==
  ASSUME GameKept, HandKept, hand.open, NEW r \in Requests,
         NEW winner \in InHand, FinishHand(r, winner)
  PROVE  /\ GameKept' /\ HandKept' /\ hand'.open
         /\ game'.players = game.players /\ game'.started = game.started
         /\ game'.over = game.over /\ game'.settled = game.settled
         /\ game'.paid = game.paid /\ game'.resigned = game.resigned
<1> DEFINE n     == Len(game.players)
           after == [hand.chips EXCEPT ![winner] = @ + hand.pot]
           c     == [i \in Seats |-> IF i \in hand.dealt THEN after[i]
                                     ELSE game.chips[i]]
<1>1. /\ n \in Nat /\ Seats = 1 .. n /\ game.chips \in [Seats -> Nat]
      /\ hand.chips \in Seq(Nat) /\ Len(hand.chips) = n /\ hand.pot \in Nat
      /\ winner \in hand.dealt /\ hand.dealt \subseteq Seats
      /\ hand \in Hands /\ game \in Games
  BY HandFieldsAre, SeatsAre DEF HandKept, GameKept
<1>2. after \in Seq(Nat) /\ Len(after) = n /\ after \in [Seats -> Nat]
  <2> DEFINE v == hand.chips[winner] + hand.pot
  <2>1. v \in Nat
    BY <1>1, ElementOfSeq
  <2>2. after = [hand.chips EXCEPT ![winner] = v]
    OBVIOUS
  <2> HIDE DEF v, after
  <2>3. after \in Seq(Nat) /\ Len(after) = n
    BY <1>1, <2>1, <2>2, ExceptSeq
  <2> QED
    BY <1>1, <2>3, LenProperties
<1>3. /\ hand' = [hand EXCEPT !.chips = after, !.complete = TRUE, !.turn = 0]
      /\ game' = [game EXCEPT !.chips = c]
  BY DEF FinishHand
<1> HIDE DEF after, n
<1>4. c \in [Seats -> Nat]
  BY <1>1, <1>2
<1> HIDE DEF c
<1>5. c \in Seq(Nat) /\ Len(c) = n
  BY <1>1, <1>4, TableIsList
<1>6. /\ hand' \in Hands /\ hand'.open = hand.open /\ hand'.chips = after
      /\ hand'.dealt = hand.dealt /\ hand'.folded = hand.folded
      /\ hand'.complete = TRUE
  BY <1>1, <1>2, <1>3 DEF Hands
<1>7. /\ game' \in Games /\ game'.chips = c
      /\ game'.players = game.players /\ game'.started = game.started
      /\ game'.over = game.over /\ game'.settled = game.settled
      /\ game'.paid = game.paid /\ game'.resigned = game.resigned
  BY <1>1, <1>3, <1>5 DEF Games
<1>8. GameKept'
  BY <1>5, <1>7 DEF GameKept, Seats, n
<1>9. HandKept'
  BY <1>1, <1>2, <1>6, <1>7 DEF HandKept, Seats, n
<1> QED
  BY <1>6, <1>7, <1>8, <1>9

LEMMA LastActionKeeps ==
  ASSUME GameInv, NEW r \in Requests, LastAction(r)
  PROVE  /\ GameInv' /\ Untouched /\ UNCHANGED faultVars
         /\ request[r] = Idle /\ MayAct /\ request'[r].at = "completed"
         /\ \A q \in Requests \ {r} : request'[q] = request[q]
         /\ game'.over = game.over /\ game'.settled = game.settled
         /\ game'.paid = game.paid /\ game'.players = game.players
<1>1. /\ GameKept /\ HandKept /\ hand.open /\ game.started
      /\ request \in [Requests -> Waiting]
      /\ Untouched /\ UNCHANGED faultVars
      /\ request[r] = Idle /\ MayAct
      /\ AtWork(r, "completed", hand.turn, FALSE)
  BY DEF LastAction, MayAct, GameInv, Untouched
<1>2. PICK winner \in InHand : FinishHand(r, winner)
  BY DEF LastAction
<1>3. /\ GameKept' /\ HandKept' /\ hand'.open
      /\ game'.players = game.players /\ game'.started = game.started
      /\ game'.over = game.over /\ game'.settled = game.settled
      /\ game'.paid = game.paid
  BY <1>1, <1>2, FinishHandKept
<1>4. /\ request' \in [Requests -> Waiting] /\ request'[r].at = "completed"
      /\ \A q \in Requests \ {r} : request'[q] = request[q]
  BY <1>1, AtWorkIs, HandFieldsAre DEF Steps, TableSteps
<1>5. RequestKept(r)'
  BY <1>1, <1>3, <1>4 DEF RequestKept
<1>6. \A q \in Requests : RequestKept(q)'
  BY <1>3, <1>4, <1>5, OthersKept
<1> QED
  BY <1>1, <1>3, <1>4, <1>6, TableAccounts DEF GameInv

LEMMA FoldKeeps ==
  ASSUME GameInv, NEW r \in Requests, Fold(r)
  PROVE  /\ GameInv' /\ Untouched /\ UNCHANGED <<game, faultVars>>
         /\ request[r] = Idle /\ MayAct /\ request'[r].at = "acted"
         /\ \A q \in Requests \ {r} : request'[q] = request[q]
<1>1. /\ GameKept /\ HandKept /\ hand.open /\ game.started /\ hand \in Hands
      /\ request \in [Requests -> Waiting] /\ hand.turn \in hand.dealt
      /\ Untouched /\ UNCHANGED <<game, faultVars>>
      /\ request[r] = Idle /\ MayAct
      /\ AtWork(r, "acted", hand.turn, FALSE)
      /\ hand' = [hand EXCEPT !.folded = @ \cup {hand.turn}]
  BY DEF Fold, MayAct, GameInv, HandKept, Untouched
<1>2. /\ hand' \in Hands /\ hand'.open = hand.open /\ hand'.chips = hand.chips
      /\ hand'.dealt = hand.dealt /\ hand'.turn = hand.turn
      /\ hand'.folded = hand.folded \cup {hand.turn}
      /\ hand'.complete = hand.complete
  BY <1>1 DEF Hands
<1>3. GameKept' /\ HandKept'
  BY <1>1, <1>2 DEF GameKept, HandKept, Seats
<1>4. /\ request' \in [Requests -> Waiting] /\ request'[r].at = "acted"
      /\ \A q \in Requests \ {r} : request'[q] = request[q]
  BY <1>1, AtWorkIs, HandFieldsAre DEF Steps, TableSteps
<1>5. RequestKept(r)'
  BY <1>1, <1>2, <1>4 DEF RequestKept
<1>6. \A q \in Requests : RequestKept(q)'
  BY <1>1, <1>2, <1>4, <1>5, OthersKept
<1> QED
  BY <1>1, <1>3, <1>4, <1>6, TableAccounts DEF GameInv

LEMMA ResignKeeps ==
  ASSUME GameInv, NEW r \in Requests, NEW i \in Seats, Resign(r, i)
  PROVE  /\ GameInv' /\ Untouched /\ UNCHANGED <<hand, faultVars>>
         /\ request[r] = Idle /\ TableFree /\ ~game.over
         /\ request'[r].at = "resigning"
         /\ \A q \in Requests \ {r} : request'[q] = request[q]
         /\ game' = [game EXCEPT !.resigned = @ \cup {i}]
<1>1. /\ GameKept /\ HandKept /\ game.started /\ game \in Games
      /\ request \in [Requests -> Waiting]
      /\ Untouched /\ UNCHANGED <<hand, faultVars>>
      /\ request[r] = Idle /\ TableFree /\ ~game.over
      /\ AtWork(r, "resigning", i, TRUE)
      /\ game' = [game EXCEPT !.resigned = @ \cup {i}]
  BY DEF Resign, GameInv, GameKept, Untouched
<1>2. i \in Nat
  BY <1>1, SeatsAre
<1>3. /\ game' \in Games /\ game'.players = game.players
      /\ game'.chips = game.chips /\ game'.started = game.started
      /\ game'.over = game.over /\ game'.resigned = game.resigned \cup {i}
  BY <1>1, <1>2 DEF Games
<1>4. GameKept' /\ HandKept'
  BY <1>1, <1>3 DEF GameKept, HandKept, Seats
<1>5. /\ request' \in [Requests -> Waiting] /\ request'[r].at = "resigning"
      /\ \A q \in Requests \ {r} : request'[q] = request[q]
  BY <1>1, <1>2, AtWorkIs DEF Steps, TableSteps
<1>6. RequestKept(r)'
  BY <1>1, <1>3, <1>5 DEF RequestKept
<1>7. \A q \in Requests : RequestKept(q)'
  BY <1>1, <1>3, <1>5, <1>6, OthersKept
<1> QED
  BY <1>1, <1>4, <1>5, <1>7, TableAccounts DEF GameInv

LEMMA ResignFoldsKeeps ==
  ASSUME GameInv, NEW r \in Requests, ResignFolds(r)
  PROVE  /\ GameInv' /\ Untouched /\ UNCHANGED <<game, faultVars>>
         /\ request[r].at = "resigning"
         /\ request'[r].at \in {"recheck", "acted", "folded"}
         /\ \A q \in Requests \ {r} : request'[q] = request[q]
<1> DEFINE i == request[r].seat
<1>1. /\ GameKept /\ HandKept /\ hand \in Hands
      /\ request \in [Requests -> Waiting]
      /\ Untouched /\ UNCHANGED <<game, faultVars>>
      /\ request[r].at = "resigning" /\ i \in Nat
      /\ game.started
  BY DEF ResignFolds, GameInv, HandKept, Untouched, RequestKept, AtTable,
         TableSteps, Waiting
<1>2. CASE ~hand.open \/ i \notin InHand \/ (hand.turn = i /\ game.over)
  <2>1. Goto(r, "recheck") /\ UNCHANGED hand
    BY <1>2 DEF ResignFolds
  <2>2. /\ request' \in [Requests -> Waiting] /\ request'[r].at = "recheck"
        /\ \A q \in Requests \ {r} : request'[q] = request[q]
    BY <1>1, <2>1, GotoIs DEF Steps, TableSteps
  <2>3. RequestKept(r)'
    BY <1>1, <2>2 DEF RequestKept
  <2>4. \A q \in Requests : RequestKept(q)'
    BY <1>1, <2>1, <2>2, <2>3, OthersKept
  <2>5. GameKept' /\ HandKept'
    BY <1>1, <2>1 DEF GameKept, HandKept, Seats
  <2> QED
    BY <1>1, <2>2, <2>4, <2>5, TableAccounts DEF GameInv
<1>3. CASE ~(~hand.open \/ i \notin InHand \/ (hand.turn = i /\ game.over))
  <2>1. PICK step \in {"acted", "folded"} : AtWork(r, step, i, TRUE)
    BY <1>3 DEF ResignFolds
  <2>2. hand' = [hand EXCEPT !.folded = @ \cup {i}]
        /\ hand.open /\ i \in hand.dealt
    BY <1>3 DEF ResignFolds, InHand
  <2>3. /\ hand' \in Hands /\ hand'.open = hand.open /\ hand'.chips = hand.chips
        /\ hand'.dealt = hand.dealt /\ hand'.turn = hand.turn
        /\ hand'.folded = hand.folded \cup {i}
        /\ hand'.complete = hand.complete
    BY <1>1, <2>2 DEF Hands
  <2>4. GameKept' /\ HandKept'
    BY <1>1, <2>2, <2>3 DEF GameKept, HandKept, Seats
  <2>5. /\ request' \in [Requests -> Waiting] /\ request'[r].at = step
        /\ \A q \in Requests \ {r} : request'[q] = request[q]
    BY <1>1, <2>1, AtWorkIs DEF Steps, TableSteps
  <2>6. RequestKept(r)'
    BY <1>1, <2>2, <2>3, <2>5 DEF RequestKept
  <2>7. \A q \in Requests : RequestKept(q)'
    BY <1>1, <2>3, <2>5, <2>6, OthersKept
  <2> QED
    BY <1>1, <2>4, <2>5, <2>7, TableAccounts DEF GameInv
<1> QED
  BY <1>2, <1>3

LEMMA ReturnIs ==
  ASSUME request \in [Requests -> Waiting], NEW r \in Requests, Return(r)
  PROVE  /\ request' \in [Requests -> Waiting]
         /\ request'[r].at \in {"recheck", "idle"}
         /\ \A q \in Requests \ {r} : request'[q] = request[q]
<1>1. CASE request[r].resigns
  BY <1>1, GotoIs DEF Return, Steps, TableSteps
<1>2. CASE ~request[r].resigns
  BY <1>2, DoneIs, IdleWaits DEF Return
<1> QED
  BY <1>1, <1>2

(* A request that is about to return can do so.                            *)
LEMMA ReturnKept ==
  ASSUME NEW r \in Requests, request'[r].at \in {"recheck", "idle", "announce"},
         game'.started
  PROVE  RequestKept(r)'
BY DEF RequestKept

LEMMA AfterFoldKeeps ==
  ASSUME GameInv, NEW r \in Requests, AfterFold(r)
  PROVE  /\ GameInv' /\ Untouched /\ UNCHANGED faultVars
         /\ request[r].at \in {"acted", "folded"}
         /\ request'[r].at \in {"completed", "recheck", "idle"}
         /\ \A q \in Requests \ {r} : request'[q] = request[q]
         /\ game'.over = game.over /\ game'.settled = game.settled
         /\ game'.paid = game.paid /\ game'.players = game.players
<1>1. /\ GameKept /\ HandKept /\ hand \in Hands
      /\ request \in [Requests -> Waiting]
      /\ Untouched /\ UNCHANGED faultVars
      /\ request[r].at \in {"acted", "folded"}
      /\ game.started /\ (request[r].current => hand.open)
  BY DEF AfterFold, GameInv, HandKept, Untouched, RequestKept, AtTable,
         TableSteps
<1>2. CASE request[r].current /\ Cardinality(InHand) = 1
  <2>1. PICK winner \in InHand : FinishHand(r, winner)
    BY <1>2 DEF AfterFold
  <2>2. Goto(r, "completed")
    BY <1>2 DEF AfterFold
  <2>3. /\ GameKept' /\ HandKept' /\ hand'.open
        /\ game'.players = game.players /\ game'.started = game.started
        /\ game'.over = game.over /\ game'.settled = game.settled
        /\ game'.paid = game.paid
    BY <1>1, <1>2, <2>1, FinishHandKept
  <2>4. /\ request' \in [Requests -> Waiting] /\ request'[r].at = "completed"
        /\ \A q \in Requests \ {r} : request'[q] = request[q]
    BY <1>1, <2>2, GotoIs DEF Steps, TableSteps
  <2>5. RequestKept(r)'
    BY <1>1, <2>3, <2>4 DEF RequestKept
  <2>6. \A q \in Requests : RequestKept(q)'
    BY <2>3, <2>4, <2>5, OthersKept
  <2> QED
    BY <1>1, <2>3, <2>4, <2>6, TableAccounts DEF GameInv
<1>3. CASE ~(request[r].current /\ Cardinality(InHand) = 1)
  <2>1. Return(r) /\ UNCHANGED game
    BY <1>3 DEF AfterFold
  <2>2. \/ \E next \in InHand : hand' = [hand EXCEPT !.turn = next]
        \/ hand' = hand
    BY <1>3 DEF AfterFold
  <2>3. HandKept' /\ hand'.open = hand.open
    <3>1. ASSUME NEW next \in InHand, hand' = [hand EXCEPT !.turn = next]
          PROVE  HandKept' /\ hand'.open = hand.open
      <4>1. next \in hand.dealt /\ next \in Nat
        BY <1>1, HandFieldsAre
      <4>2. /\ hand' \in Hands /\ hand'.open = hand.open
            /\ hand'.chips = hand.chips /\ hand'.dealt = hand.dealt
            /\ hand'.turn = next /\ hand'.folded = hand.folded
            /\ hand'.complete = hand.complete
        BY <1>1, <3>1, <4>1 DEF Hands
      <4> QED
        BY <1>1, <2>1, <4>1, <4>2 DEF HandKept, Seats
    <3>2. CASE hand' = hand
      BY <1>1, <2>1, <3>2 DEF HandKept, Seats
    <3> QED
      BY <2>2, <3>1, <3>2
  <2>4. /\ request' \in [Requests -> Waiting]
        /\ request'[r].at \in {"recheck", "idle"}
        /\ \A q \in Requests \ {r} : request'[q] = request[q]
    BY <1>1, <2>1, ReturnIs
  <2>5. RequestKept(r)'
    BY <1>1, <2>1, <2>4, ReturnKept
  <2>6. \A q \in Requests : RequestKept(q)'
    BY <2>1, <2>3, <2>4, <2>5, OthersKept
  <2>7. GameKept'
    BY <1>1, <2>1 DEF GameKept, Seats
  <2> QED
    BY <1>1, <2>1, <2>3, <2>4, <2>6, <2>7, TableAccounts DEF GameInv
<1> QED
  BY <1>2, <1>3

(* Sharing out the chips of those who resigned leaves everybody a number   *)
(* of chips.                                                               *)
LEMMA SharedType ==
  ASSUME GameKept, Cardinality(Alive(game)) > 1
  PROVE  Shared(game) \in [Seats -> Nat]
<1> DEFINE alive   == Alive(game)
           n       == Cardinality(alive)
           rank(i) == Cardinality({j \in alive : j < i})
           gain(i) == [j \in game.resigned |->
                         game.chips[j] \div n
                           + IF rank(i) < game.chips[j] % n THEN 1 ELSE 0]
<1>1. /\ IsFiniteSet(Seats) /\ IsFiniteSet(game.resigned)
      /\ game.chips \in [Seats -> Nat] /\ game.resigned \subseteq Seats
      /\ DOMAIN game.chips = Seats
  BY SeatsAre
<1>2. alive \subseteq Seats
  BY DEF Alive, Seats
<1>3. n \in Nat \ {0}
  <2>1. IsFiniteSet(alive)
    BY <1>1, <1>2, FS_Subset
  <2> QED
    BY <2>1, FS_CardinalityType
<1> HIDE DEF n
<1>4. ASSUME NEW i \in Seats PROVE Total(gain(i)) \in Nat
  <2>1. ASSUME NEW j \in game.resigned PROVE game.chips[j] \div n \in Nat
    BY <1>1, <1>3
  <2>2. gain(i) \in [game.resigned -> Nat]
    BY <2>1
  <2> HIDE DEF gain
  <2> QED
    BY <1>1, <2>2, TotalType
<1>5. Shared(game) =
        [i \in Seats |-> IF i \in game.resigned THEN 0
                         ELSE game.chips[i]
                                + IF i \in alive THEN Total(gain(i)) ELSE 0]
  BY <1>1 DEF Shared, n
<1> HIDE DEF gain, alive
<1> QED
  BY <1>1, <1>4, <1>5

LEMMA AfterHandKeeps ==
  ASSUME GameInv, NEW r \in Requests, AfterHand(r)
  PROVE  /\ GameInv' /\ Untouched /\ UNCHANGED faultVars
         /\ request[r].at = "completed"
         /\ game'.settled = game.settled
         /\ game'.paid = game.paid /\ game'.players = game.players
         /\ \/ /\ game' = [game EXCEPT !.over = TRUE]
               /\ request'[r].at = "announce"
               /\ \A q \in Requests \ {r} : request'[q] = request[q]
            \/ /\ game'.over = game.over
               /\ request'[r].at \in {"recheck", "idle"}
               /\ \A q \in Requests \ {r} :
                    /\ request'[q].at = request[q].at
                    /\ request'[q].payouts = request[q].payouts
                    /\ request'[q].due = request[q].due
<1>1. /\ GameKept /\ HandKept /\ game \in Games
      /\ request \in [Requests -> Waiting] /\ request[r] \in Waiting
      /\ Untouched /\ UNCHANGED faultVars
      /\ request[r].at = "completed" /\ game.started
  BY DEF AfterHand, GameInv, GameKept, Untouched, RequestKept, AtTable,
         TableSteps
<1>2. CASE Cardinality(Alive(game)) <= 1
  <2>1. /\ game' = [game EXCEPT !.over = TRUE]
        /\ Goto(r, "announce") /\ UNCHANGED hand
    BY <1>2 DEF AfterHand
  <2>2. /\ game' \in Games /\ game'.players = game.players
        /\ game'.chips = game.chips /\ game'.resigned = game.resigned
        /\ game'.started = game.started /\ game'.settled = game.settled
        /\ game'.paid = game.paid
    BY <1>1, <2>1 DEF Games
  <2>3. GameKept' /\ HandKept'
    BY <1>1, <2>1, <2>2 DEF GameKept, HandKept, Seats
  <2>4. /\ request' \in [Requests -> Waiting] /\ request'[r].at = "announce"
        /\ \A q \in Requests \ {r} : request'[q] = request[q]
    BY <1>1, <2>1, GotoIs DEF Steps, TableSteps
  <2>5. RequestKept(r)'
    BY <1>1, <2>2, <2>4, ReturnKept
  <2>6. \A q \in Requests : RequestKept(q)'
    BY <2>1, <2>2, <2>4, <2>5, OthersKept
  <2> QED
    BY <1>1, <2>1, <2>2, <2>3, <2>4, <2>6, TableAccounts DEF GameInv
<1>3. CASE ~(Cardinality(Alive(game)) <= 1)
  <2> DEFINE c == Shared(game)
             x == IF request[r].resigns
                    THEN [request[r] EXCEPT !.at = "recheck"] ELSE Idle
  <2>1. /\ game' = [game EXCEPT !.chips = c] /\ NewHand(game')
        /\ request' = Outdated([request EXCEPT ![r] = x])
    BY <1>3 DEF AfterHand
  <2>2. /\ IsFiniteSet(Alive(game)) /\ Len(game.players) \in Nat
        /\ Seats = 1 .. Len(game.players)
    <3>1. Alive(game) \subseteq Seats
      BY DEF Alive, Seats
    <3> QED
      BY <1>1, <3>1, SeatsAre, FS_Subset
  <2>3. Cardinality(Alive(game)) > 1
    BY <1>3, <2>2, FS_CardinalityType
  <2>4. c \in [1 .. Len(game.players) -> Nat]
    BY <1>1, <2>2, <2>3, SharedType
  <2>5. x \in Waiting /\ x.at \in {"recheck", "idle"}
    BY <1>1, IdleWaits DEF Waiting, Steps, TableSteps
  <2> HIDE DEF c, x
  <2>6. c \in Seq(Nat) /\ Len(c) = Len(game.players)
    BY <2>2, <2>4, TableIsList
  <2>7. /\ game' \in Games /\ game'.players = game.players
        /\ game'.chips = c /\ game'.resigned = game.resigned
        /\ game'.started = game.started /\ game'.settled = game.settled
        /\ game'.paid = game.paid /\ game'.over = game.over
    BY <1>1, <2>1, <2>6 DEF Games
  <2>8. GameKept'
    BY <1>1, <2>6, <2>7 DEF GameKept, Seats
  <2>9. HandKept' /\ hand'.open
    BY <1>1, <2>1, <2>6, <2>7, <2>8, NewHandKept
  <2>10. /\ request' \in [Requests -> Waiting]
         /\ \A q \in Requests : request'[q].current = FALSE
         /\ request'[r].at = x.at
         /\ \A q \in Requests \ {r} :
              /\ request'[q].at = request[q].at
              /\ request'[q].user = request[q].user
              /\ request'[q].payouts = request[q].payouts
              /\ request'[q].due = request[q].due
    BY <1>1, <2>1, <2>5, OutdatedAre
  <2>11. RequestKept(r)'
    BY <1>1, <2>5, <2>7, <2>10, ReturnKept
  <2>12. ASSUME NEW q \in Requests \ {r} PROVE RequestKept(q)'
    BY <2>7, <2>10, <2>12, StillKept DEF GameInv
  <2> QED
    BY <1>1, <2>5, <2>7, <2>8, <2>9, <2>10, <2>11, <2>12, TableAccounts
    DEF GameInv
<1> QED
  BY <1>2, <1>3

LEMMA RecheckKeeps ==
  ASSUME GameInv, NEW r \in Requests, Recheck(r)
  PROVE  /\ GameInv' /\ Untouched /\ UNCHANGED faultVars
         /\ request[r].at = "recheck"
         /\ \A q \in Requests \ {r} : request'[q] = request[q]
         /\ \/ /\ ~game.over /\ game' = [game EXCEPT !.over = TRUE]
               /\ request'[r].at = "announce"
            \/ game' = game /\ request'[r].at = "idle"
<1>1. /\ GameKept /\ HandKept /\ game \in Games
      /\ request \in [Requests -> Waiting] /\ request[r] \in Waiting
      /\ Untouched /\ UNCHANGED <<hand, faultVars>>
      /\ request[r].at = "recheck" /\ game.started
  BY DEF Recheck, GameInv, GameKept, Untouched, RequestKept, AtTable,
         TableSteps
<1>2. CASE Cardinality(Alive(game)) <= 1 /\ ~game.over
  <2> DEFINE x == [request[r] EXCEPT !.at = "announce", !.resigns = FALSE]
  <2>1. /\ game' = [game EXCEPT !.over = TRUE]
        /\ request' = [request EXCEPT ![r] = x]
    BY <1>1, <1>2 DEF Recheck
  <2>2. x \in Waiting /\ x.at = "announce"
    BY <1>1 DEF Waiting, Steps, TableSteps
  <2> HIDE DEF x
  <2>3. /\ game' \in Games /\ game'.players = game.players
        /\ game'.chips = game.chips /\ game'.resigned = game.resigned
        /\ game'.started = game.started
    BY <1>1, <2>1 DEF Games
  <2>4. GameKept' /\ HandKept'
    BY <1>1, <2>1, <2>3 DEF GameKept, HandKept, Seats
  <2>5. /\ request' \in [Requests -> Waiting] /\ request'[r].at = "announce"
        /\ \A q \in Requests \ {r} : request'[q] = request[q]
    BY <1>1, <2>1, <2>2, Goes
  <2>6. RequestKept(r)'
    BY <1>1, <2>3, <2>5, ReturnKept
  <2>7. \A q \in Requests : RequestKept(q)'
    BY <1>1, <2>3, <2>5, <2>6, OthersKept
  <2> QED
    BY <1>1, <1>2, <2>1, <2>4, <2>5, <2>7, TableAccounts DEF GameInv
<1>3. CASE ~(Cardinality(Alive(game)) <= 1 /\ ~game.over)
  <2>1. Done(r) /\ UNCHANGED game
    BY <1>3 DEF Recheck
  <2>2. /\ request' \in [Requests -> Waiting] /\ request'[r] = Idle
        /\ \A q \in Requests \ {r} : request'[q] = request[q]
    BY <1>1, <2>1, DoneIs
  <2>3. GameInv'
    BY <1>1, <2>1, <2>2, IdleWaits, TableAccounts, AwayFromTable
  <2> QED
    BY <1>1, <2>1, <2>2, <2>3, IdleWaits
<1> QED
  BY <1>2, <1>3

-----------------------------------------------------------------------------
(* The invariant: the settlement.                                          *)

LEMMA DueIs ==
  ASSUME GameKept, game.started
  PROVE  Due \in [Seats -> Nat] /\ Due \in Seq(Nat)
         /\ Len(Due) = Len(game.players)
<1>1. /\ Len(game.players) \in Nat \ {0}
      /\ game.chips \in [1 .. Len(game.players) -> Nat]
      /\ Seats = 1 .. Len(game.players)
  BY SeatsAre DEF GameKept
<1>2. Due \in [1 .. Len(game.players) -> Nat]
  BY <1>1, Numbers, PayoutsType DEF Due
<1> QED
  BY <1>1, <1>2, TableIsList

(* current_hand is closed behind a game that is over.                      *)
LEMMA CloseHandKept ==
  ASSUME GameInv, NEW r \in Requests, AtTable(r), CloseHand(r), GameKept',
         game'.started, game'.players = game.players
  PROVE  /\ HandKept' /\ request' \in [Requests -> Waiting]
         /\ \A q \in Requests : RequestKept(q)'
         /\ request'[r].at \in {"recheck", "idle"}
         /\ \A q \in Requests \ {r} :
              /\ request'[q].at = request[q].at
              /\ request'[q].payouts = request[q].payouts
              /\ request'[q].due = request[q].due
<1> DEFINE x == IF request[r].resigns
                  THEN [request[r] EXCEPT !.at = "recheck"] ELSE Idle
<1>1. /\ hand' = NoHand
      /\ request' = Outdated([request EXCEPT ![r] = x])
  BY DEF CloseHand
<1>2. request \in [Requests -> Waiting] /\ request[r] \in Waiting
  BY DEF GameInv
<1>3. x \in Waiting /\ x.at \in {"recheck", "idle"}
  BY <1>2, IdleWaits DEF Waiting, Steps, TableSteps
<1> HIDE DEF x
<1>4. \A S : <<>> \in Seq(S) /\ Len(<<>>) = 0 /\ DOMAIN <<>> = {}
  BY EmptySeq
<1>5. HandKept'
  BY <1>1, <1>4 DEF HandKept, Hands, NoHand, Seats
<1>6. /\ request' \in [Requests -> Waiting]
      /\ \A q \in Requests : request'[q].current = FALSE
      /\ request'[r].at = x.at
      /\ \A q \in Requests \ {r} :
           /\ request'[q].at = request[q].at
           /\ request'[q].user = request[q].user
           /\ request'[q].payouts = request[q].payouts
           /\ request'[q].due = request[q].due
  BY <1>1, <1>2, <1>3, OutdatedAre
<1>7. RequestKept(r)'
  BY <1>3, <1>6, ReturnKept
<1>8. ASSUME NEW q \in Requests \ {r} PROVE RequestKept(q)'
  BY <1>6, <1>8, StillKept DEF GameInv
<1> QED
  BY <1>3, <1>5, <1>6, <1>7, <1>8

LEMMA AnnounceKeeps ==
  ASSUME GameInv, NEW r \in Requests, Announce(r)
  PROVE  /\ GameInv' /\ Untouched /\ UNCHANGED <<game, faultVars>>
         /\ request[r].at = "announce" /\ game.started
         /\ \A q \in Requests \ {r} :
              /\ request'[q].at = request[q].at
              /\ request'[q].payouts = request[q].payouts
              /\ request'[q].due = request[q].due
         /\ \/ /\ game.settled # NotSettled
               /\ request'[r].at \in {"recheck", "idle"}
            \/ /\ game.settled = NotSettled
               /\ request'[r].at = "pay" /\ request'[r].due = 1
               /\ request'[r].payouts = Due
<1>1. /\ GameKept /\ HandKept
      /\ request \in [Requests -> Waiting] /\ request[r] \in Waiting
      /\ Untouched /\ UNCHANGED <<game, faultVars>>
      /\ request[r].at = "announce" /\ game.started /\ AtTable(r)
  BY DEF Announce, GameInv, Untouched, RequestKept, AtTable, TableSteps
<1>2. GameKept' /\ game'.started
  BY <1>1 DEF GameKept, Seats
<1>3. CASE game.settled # NotSettled
  <2>1. CloseHand(r)
    BY <1>3 DEF Announce
  <2> QED
    BY <1>1, <1>2, <1>3, <2>1, CloseHandKept, TableAccounts DEF GameInv
<1>4. CASE game.settled = NotSettled
  <2> DEFINE x == [request[r] EXCEPT !.at = "pay", !.due = 1, !.payouts = Due]
  <2>1. request' = [request EXCEPT ![r] = x] /\ UNCHANGED hand
    BY <1>1, <1>4 DEF Announce, Due
  <2>2. Due \in Seq(Nat) /\ Len(Due) = Len(game.players)
    BY <1>1, DueIs
  <2>3. x \in Waiting /\ x.at = "pay" /\ x.due = 1 /\ x.payouts = Due
    BY <1>1, <2>2 DEF Waiting, Steps, TableSteps
  <2> HIDE DEF x
  <2>4. /\ request' \in [Requests -> Waiting] /\ request'[r] = x
        /\ \A q \in Requests \ {r} : request'[q] = request[q]
    BY <1>1, <2>1, <2>3, Goes
  <2>5. RequestKept(r)'
    BY <1>1, <2>2, <2>3, <2>4 DEF RequestKept
  <2>6. \A q \in Requests : RequestKept(q)'
    BY <1>1, <2>1, <2>4, <2>5, OthersKept
  <2>7. HandKept'
    BY <1>1, <2>1 DEF HandKept, Seats
  <2> QED
    BY <1>1, <1>2, <1>4, <2>3, <2>4, <2>6, <2>7, TableAccounts DEF GameInv
<1> QED
  BY <1>3, <1>4

(* The next payout that is not zero.                                       *)
LEMMA NextDueIs ==
  ASSUME GameInv, NEW r \in Requests, request[r].at = "pay", Unpaid(r) # {}
  PROVE  LET i == NextDue(r)
         IN  /\ i \in Seats /\ i \in DOMAIN request[r].payouts
             /\ i >= request[r].due
             /\ request[r].payouts[i] \in Nat
             /\ request[r].payouts \in [Seats -> Nat]
             /\ game.players[i] \in Users
             /\ \A j \in Unpaid(r) : i <= j
<1>1. /\ GameKept /\ request[r].payouts \in Seq(Nat)
      /\ Len(request[r].payouts) = Len(game.players)
  BY DEF GameInv, RequestKept, Waiting
<1>2. /\ request[r].payouts \in [Seats -> Nat]
      /\ DOMAIN request[r].payouts = Seats
      /\ Seats \subseteq Nat /\ game.players \in [Seats -> Users]
  BY <1>1, SeatsAre, LenProperties
<1>3. Unpaid(r) \in SUBSET Nat /\ Unpaid(r) \subseteq Seats
      /\ \A i \in Unpaid(r) : i >= request[r].due
  BY <1>2 DEF Unpaid
<1>4. \E i \in Unpaid(r) : \A j \in Unpaid(r) : i <= j
  BY <1>3, LeastElement
<1>5. NextDue(r) \in Unpaid(r) /\ \A j \in Unpaid(r) : NextDue(r) <= j
  BY <1>4 DEF NextDue
<1> QED
  BY <1>2, <1>3, <1>5

(* A credit of the settlement counts as paid.                              *)
LEMMA CreditPayoutKeeps ==
  ASSUME GameInv, NEW r \in Requests, request[r].at = "pay", Unpaid(r) # {},
         CreditPayout(r), failures' \in Nat, restarts' \in Nat,
         UNCHANGED hand
  PROVE  LET amount == request[r].payouts[NextDue(r)]
         IN  /\ Accounts' /\ GameKept' /\ HandKept'
             /\ Total(balance') = Total(balance) + amount
             /\ UNCHANGED <<claims, erased>>
             /\ game' = [game EXCEPT !.paid = @ + amount]
             /\ game'.paid = game.paid + amount
             /\ game'.players = game.players /\ game'.chips = game.chips
             /\ game'.started = game.started /\ game'.over = game.over
             /\ game'.settled = game.settled
<1> DEFINE amount == request[r].payouts[NextDue(r)]
<1>1. /\ amount \in Nat /\ game.players[NextDue(r)] \in Users
      /\ Accounts /\ GameKept /\ HandKept /\ game \in Games
  BY NextDueIs DEF GameInv, GameKept
<1>2. /\ Credit(game.players[NextDue(r)], amount)
      /\ game' = [game EXCEPT !.paid = @ + amount]
  BY DEF CreditPayout
<1> HIDE DEF amount
<1>3. Accounts' /\ Total(balance') = Total(balance) + amount
  BY <1>1, <1>2, CreditKeeps
<1> DEFINE paid == game.paid + amount
<1>6. paid \in Nat
  BY <1>1, SeatsAre
<1>7. game' = [game EXCEPT !.paid = paid]
  BY <1>2
<1>4. /\ game' \in Games /\ game'.paid = game.paid + amount
      /\ game'.players = game.players /\ game'.chips = game.chips
      /\ game'.started = game.started /\ game'.over = game.over
      /\ game'.settled = game.settled /\ game'.resigned = game.resigned
  <2>1. game'.paid = paid
    BY <1>1, <1>7 DEF Games
  <2> HIDE DEF paid
  <2>2. /\ game' \in Games
        /\ game'.players = game.players /\ game'.chips = game.chips
        /\ game'.started = game.started /\ game'.over = game.over
        /\ game'.settled = game.settled /\ game'.resigned = game.resigned
    BY <1>1, <1>6, <1>7 DEF Games
  <2> QED
    BY <2>1, <2>2 DEF paid
<1>5. GameKept' /\ HandKept'
  BY <1>1, <1>4 DEF GameKept, HandKept, Seats
<1> QED
  BY <1>2, <1>3, <1>4, <1>5 DEF Credit, amount

LEMMA PayKeeps ==
  ASSUME GameInv, NEW r \in Requests, Pay(r)
  PROVE  /\ GameInv' /\ UNCHANGED faultVars
         /\ request[r].at = "pay" /\ Unpaid(r) # {} /\ CreditPayout(r)
         /\ request'[r].at = "pay"
         /\ request'[r].payouts = request[r].payouts
         /\ request'[r].due = NextDue(r) + 1
         /\ \A q \in Requests \ {r} : request'[q] = request[q]
<1>1. /\ request[r].at = "pay" /\ Unpaid(r) # {} /\ CreditPayout(r)
      /\ request' = [request EXCEPT ![r].due = NextDue(r) + 1]
      /\ UNCHANGED <<hand, faultVars>>
      /\ request \in [Requests -> Waiting] /\ request[r] \in Waiting
      /\ failures \in Nat /\ restarts \in Nat /\ game.started
  BY DEF Pay, GameInv, Accounts, RequestKept, AtTable, TableSteps
<1>2. /\ Accounts' /\ GameKept' /\ HandKept'
      /\ game'.players = game.players /\ game'.started = game.started
  BY <1>1, CreditPayoutKeeps DEF faultVars
<1> DEFINE due == NextDue(r) + 1
           x   == [request[r] EXCEPT !.due = due]
<1>3. due \in Nat
  BY <1>1, NextDueIs, SeatsAre DEF GameInv
<1>5. request' = [request EXCEPT ![r] = x]
  BY <1>1
<1> HIDE DEF due
<1>4. /\ x \in Waiting /\ x.at = "pay" /\ x.payouts = request[r].payouts
      /\ x.due = due
  BY <1>1, <1>3 DEF Waiting
<1> HIDE DEF x
<1>6. /\ request' \in [Requests -> Waiting] /\ request'[r] = x
      /\ \A q \in Requests \ {r} : request'[q] = request[q]
  BY <1>1, <1>4, <1>5, Goes
<1>7. RequestKept(r)'
  BY <1>1, <1>2, <1>4, <1>6 DEF RequestKept, GameInv
<1>8. \A q \in Requests : RequestKept(q)'
  BY <1>1, <1>2, <1>6, <1>7, OthersKept
<1> QED
  BY <1>1, <1>2, <1>4, <1>6, <1>8 DEF GameInv, due

LEMMA PayFailsKeeps ==
  ASSUME GameInv, NEW r \in Requests, PayFails(r)
  PROVE  /\ GameInv' /\ Fails(r) /\ UNCHANGED hand
         /\ request[r].at = "pay" /\ Unpaid(r) # {}
         /\ (Untouched /\ UNCHANGED game) \/ CreditPayout(r)
<1>1. /\ Fails(r) /\ UNCHANGED hand
      /\ request[r].at = "pay" /\ Unpaid(r) # {}
      /\ (Untouched /\ UNCHANGED game) \/ CreditPayout(r)
  BY DEF PayFails
<1>2. /\ failures' \in Nat /\ restarts' \in Nat
      /\ request' \in [Requests -> Waiting] /\ request'[r] = Idle
      /\ \A q \in Requests \ {r} : request'[q] = request[q]
  BY <1>1, FailsIs
<1>3. CASE Untouched /\ UNCHANGED game
  <2>1. Accounts'
    BY <1>2, <1>3, AccountsUntouched DEF GameInv
  <2> QED
    BY <1>1, <1>2, <1>3, <2>1, IdleWaits, AwayFromTable
<1>4. CASE CreditPayout(r)
  <2>1. /\ Accounts' /\ GameKept' /\ HandKept'
        /\ game'.players = game.players /\ game'.started = game.started
    BY <1>1, <1>2, <1>4, CreditPayoutKeeps
  <2>2. RequestKept(r)'
    BY <1>2, IdleWaits DEF RequestKept, AtTable, TableSteps
  <2>3. \A q \in Requests : RequestKept(q)'
    BY <1>1, <1>2, <2>1, <2>2, OthersKept
  <2> QED
    BY <1>1, <1>2, <1>4, <2>1, <2>3 DEF GameInv
<1> QED
  BY <1>1, <1>3, <1>4

LEMMA MarkSettledKeeps ==
  ASSUME GameInv, NEW r \in Requests, MarkSettled(r)
  PROVE  /\ GameInv' /\ Untouched /\ UNCHANGED faultVars
         /\ request[r].at = "pay" /\ Unpaid(r) = {}
         /\ game' = [game EXCEPT !.settled = request[r].payouts]
         /\ game'.settled = request[r].payouts /\ game'.settled # NotSettled
         /\ request'[r].at \in {"recheck", "idle"}
         /\ \A q \in Requests \ {r} :
              /\ request'[q].at = request[q].at
              /\ request'[q].payouts = request[q].payouts
              /\ request'[q].due = request[q].due
<1>1. /\ GameKept /\ HandKept /\ game \in Games
      /\ request \in [Requests -> Waiting]
      /\ Untouched /\ UNCHANGED faultVars
      /\ request[r].at = "pay" /\ game.started /\ AtTable(r)
      /\ Unpaid(r) = {} /\ CloseHand(r)
      /\ game' = [game EXCEPT !.settled = request[r].payouts]
      /\ request[r].payouts \in Seq(Nat)
      /\ Len(request[r].payouts) = Len(game.players)
  BY DEF MarkSettled, GameInv, GameKept, Untouched, RequestKept, AtTable,
         TableSteps, Waiting
<1>2. /\ game' \in Games /\ game'.players = game.players
      /\ game'.chips = game.chips /\ game'.resigned = game.resigned
      /\ game'.started = game.started /\ game'.over = game.over
      /\ game'.settled = request[r].payouts
  BY <1>1 DEF Games
<1>3. GameKept'
  BY <1>1, <1>2 DEF GameKept, Seats
<1>4. request[r].payouts # <<>>
  BY <1>1, EmptySeq DEF GameKept
<1> QED
  BY <1>1, <1>2, <1>3, <1>4, CloseHandKept, TableAccounts
  DEF GameInv, NotSettled

-----------------------------------------------------------------------------
(* The invariant holds in every state.                                     *)

(* The bets the model lets anybody make are numbers of chips.              *)
LEMMA BetsAreNumbers ==
  0 .. MaxPlayers * StartingChips \subseteq Nat
BY Numbers

LEMMA UnchangedKeeps ==
  ASSUME GameInv, UNCHANGED vars
  PROVE  GameInv'
<1>1. \A q \in Requests : RequestKept(q)'
  BY DEF GameInv, RequestKept, AtTable, vars
<1> QED
  BY <1>1 DEF GameInv, Accounts, GameKept, HandKept, Seats, vars

LEMMA GameInvNext ==
  ASSUME GameInv, [Next]_vars
  PROVE  GameInv'
<1>1. CASE \E u \in Users : Claim(u)
  BY <1>1, ClaimKeeps
<1>2. CASE \E r \in Requests, u \in Users : FirstClaim(r, u) \/ Join(r, u)
  BY <1>2, JoinKeeps
<1>3. CASE Start
  BY <1>3, StartKeeps
<1>4. CASE \E amount \in 0 .. MaxPlayers * StartingChips : Bet(amount)
  BY <1>4, BetsAreNumbers, BetKeeps
<1>5. ASSUME NEW r \in Requests, LastAction(r) \/ Fold(r)
      PROVE  GameInv'
  BY <1>5, LastActionKeeps, FoldKeeps
<1>6. ASSUME NEW r \in Requests, NEW i \in Seats, Resign(r, i)
      PROVE  GameInv'
  BY <1>6, ResignKeeps
<1>7. ASSUME NEW r \in Requests, Proceed(r)
      PROVE  GameInv'
  <2>1. CASE GrantFirst(r) \/ DebitBuyIn(r) \/ Register(r) \/ Refund(r)
    BY <2>1, GrantKeeps, DebitBuyInKeeps, RegisterKeeps, RefundKeeps
  <2>2. CASE ResignFolds(r) \/ AfterFold(r) \/ AfterHand(r) \/ Recheck(r)
    BY <2>2, ResignFoldsKeeps, AfterFoldKeeps, AfterHandKeeps, RecheckKeeps
  <2>3. CASE Announce(r) \/ Pay(r) \/ MarkSettled(r)
    BY <2>3, AnnounceKeeps, PayKeeps, MarkSettledKeeps
  <2> QED
    BY <1>7, <2>1, <2>2, <2>3 DEF Proceed
<1>8. ASSUME NEW r \in Requests,
             \/ DebitFails(r) \/ RefundFails(r) \/ PayFails(r) \/ RecordFails(r)
      PROVE  GameInv'
  BY <1>8, DebitFailsKeeps, RefundFailsKeeps, PayFailsKeeps, RecordFailsKeeps
<1>9. CASE Restart
  BY <1>9, RestartKeeps
<1>10. CASE UNCHANGED vars
  BY <1>10, UnchangedKeeps
<1> QED
  BY <1>1, <1>2, <1>3, <1>4, <1>5, <1>6, <1>7, <1>8, <1>9, <1>10 DEF Next

LEMMA GameInvAlways ==
  Spec => []GameInv
<1>1. Init => GameInv
  BY InitKept
<1>2. GameInv /\ [Next]_vars => GameInv'
  BY GameInvNext
<1> QED
  BY <1>1, <1>2, PTL DEF Spec

(* Nobody's balance is ever below zero, and nobody owns credits without a  *)
(* row, however the requests interleave: at the table too                  *)
(* (balance_store.py:38-96).                                               *)
THEOREM OffchainTyped ==
  Spec => []TypeOK
<1>1. ASSUME GameInv PROVE TypeOK
  <2>1. Accounts /\ GameKept /\ HandKept
    BY <1>1 DEF GameInv
  <2> QED
    BY <2>1, SeatsAre DEF TypeOK, Accounts, GameKept, HandKept
<1> QED
  BY <1>1, GameInvAlways, PTL

-----------------------------------------------------------------------------
(* A game that is over gets settled.                                       *)

(* Nothing stops a settlement but a failed call.                           *)
LEMMA StillBeingSettled ==
  ASSUME GameInv, BeingSettled, failures' = 0 => failures = 0,
         game'.over = game.over, game'.settled = game.settled,
         \A q \in Requests : request[q].at \in Settling =>
                               request'[q].at \in Settling
  PROVE  BeingSettled'
BY DEF BeingSettled

(* A step of a request that does not settle disturbs no settlement.        *)
LEMMA OthersSettle ==
  ASSUME GameInv, BeingSettled, UNCHANGED failures, NEW r \in Requests,
         request[r].at \notin Settling,
         \A q \in Requests \ {r} : request'[q].at = request[q].at,
         game'.over = game.over, game'.settled = game.settled
  PROVE  BeingSettled'
BY StillBeingSettled

LEMMA FailureExcuses ==
  ASSUME GameInv, NEW r \in Requests, Fails(r)
  PROVE  BeingSettled'
BY FailsIs DEF BeingSettled

LEMMA BeingSettledNext ==
  ASSUME GameInv, BeingSettled, [Next]_vars
  PROVE  BeingSettled'
<1> USE DEF Settling
<1>1. CASE \E u \in Users : Claim(u)
  BY <1>1, StillBeingSettled DEF Claim, faultVars
<1>2. CASE \E r \in Requests, u \in Users : FirstClaim(r, u) \/ Join(r, u)
  BY <1>2, JoinKeeps, OthersSettle DEF faultVars
<1>3. CASE Start
  <2>1. /\ game' = [game EXCEPT !.started = TRUE] /\ request' = request
        /\ game \in Games /\ failures' = failures
    BY <1>3 DEF Start, faultVars, GameInv, GameKept
  <2>2. game'.over = game.over /\ game'.settled = game.settled
    BY <2>1 DEF Games
  <2> QED
    BY <2>1, <2>2, StillBeingSettled
<1>4. CASE \E amount \in 0 .. MaxPlayers * StartingChips : Bet(amount)
  BY <1>4, StillBeingSettled DEF Bet, faultVars
<1>5. ASSUME NEW r \in Requests, LastAction(r) \/ Fold(r)
      PROVE  BeingSettled'
  BY <1>5, LastActionKeeps, FoldKeeps, IdleWaits, OthersSettle DEF faultVars
<1>6. ASSUME NEW r \in Requests, NEW i \in Seats, Resign(r, i)
      PROVE  BeingSettled'
  <2>1. /\ game' = [game EXCEPT !.resigned = @ \cup {i}] /\ game \in Games
    BY <1>6, ResignKeeps DEF GameInv, GameKept
  <2>2. game'.over = game.over /\ game'.settled = game.settled
    BY <2>1 DEF Games
  <2> QED
    BY <1>6, <2>2, ResignKeeps, IdleWaits, OthersSettle DEF faultVars
<1>7. ASSUME NEW r \in Requests, Proceed(r)
      PROVE  BeingSettled'
  <2>1. CASE GrantFirst(r) \/ DebitBuyIn(r) \/ Register(r) \/ Refund(r)
    BY <2>1, GrantKeeps, DebitBuyInKeeps, RegisterKeeps, RefundKeeps,
       OthersSettle DEF faultVars
  <2>2. CASE ResignFolds(r) \/ AfterFold(r)
    BY <2>2, ResignFoldsKeeps, AfterFoldKeeps, OthersSettle DEF faultVars
  <2>3. CASE AfterHand(r) \/ Recheck(r)
    <3>1. CASE request'[r].at = "announce"
      BY <3>1 DEF BeingSettled
    <3>2. CASE request'[r].at # "announce"
      BY <2>3, <3>2, AfterHandKeeps, RecheckKeeps, OthersSettle DEF faultVars
    <3> QED
      BY <3>1, <3>2
  <2>4. CASE Announce(r)
    <3>1. CASE game.settled # NotSettled
      BY <2>4, <3>1, AnnounceKeeps DEF BeingSettled
    <3>2. CASE game.settled = NotSettled
      BY <2>4, <3>2, AnnounceKeeps DEF BeingSettled
    <3> QED
      BY <3>1, <3>2
  <2>5. CASE Pay(r)
    BY <2>5, PayKeeps DEF BeingSettled
  <2>6. CASE MarkSettled(r)
    BY <2>6, MarkSettledKeeps DEF BeingSettled
  <2> QED
    BY <1>7, <2>1, <2>2, <2>3, <2>4, <2>5, <2>6 DEF Proceed
<1>8. ASSUME NEW r \in Requests,
             \/ DebitFails(r) \/ RefundFails(r) \/ PayFails(r) \/ RecordFails(r)
      PROVE  BeingSettled'
  BY <1>8, FailureExcuses DEF DebitFails, RefundFails, PayFails, RecordFails
<1>9. CASE Restart
  BY <1>9, RestartKeeps DEF BeingSettled, NewGame
<1>10. CASE UNCHANGED vars
  BY <1>10, StillBeingSettled DEF vars
<1> QED
  BY <1>1, <1>2, <1>3, <1>4, <1>5, <1>6, <1>7, <1>8, <1>9, <1>10 DEF Next

(* When the last request has left the table of a game that is over, the    *)
(* game has been settled, unless a call failed: whoever ends a game also   *)
(* announces and settles it, and no other request can take that away from  *)
(* him (poker/game.py:276-287, 423-433, settlement_service.py:23-33).      *)
THEOREM GameGetsSettled ==
  Spec => []OverIsSettled
<1>1. Init => BeingSettled
  BY DEF Init, NewGame, BeingSettled
<1>2. GameInv /\ BeingSettled /\ [Next]_vars => BeingSettled'
  BY BeingSettledNext
<1>3. BeingSettled => OverIsSettled
  BY DEF BeingSettled, OverIsSettled, AtTable, TableSteps, Settling
<1> QED
  BY <1>1, <1>2, <1>3, GameInvAlways, PTL DEF Spec

-----------------------------------------------------------------------------
(* The books, as long as requests do not overlap at the table.             *)

(* What requests do that do not settle leaves the books as they are.       *)
LEMMA BooksStill ==
  ASSUME BooksKept,
         game'.over = game.over, game'.settled = game.settled,
         game'.paid = game.paid, game.over => game'.chips = game.chips,
         \A q \in Requests : \/ Waits(q)
                             \/ request'[q].at \notin Playing \cup Settling
                             \/ request'[q].at \in Playing /\ ~game.over
  PROVE  BooksKept'
<1>1. game.over => Due' = Due
  BY DEF Due
<1>2. \A q \in Requests : request'[q].at \in Settling => Waits(q)
  BY DEF Playing, Settling
<1>3. CASE game.over
  <2>1. \A q \in Requests : request'[q].at \notin Playing
    BY <1>3 DEF BooksKept, Waits
  <2>2. ASSUME NEW q \in Requests, request'[q].at \in Settling
        PROVE  /\ request[q].at = request'[q].at
               /\ request[q].payouts = request'[q].payouts
               /\ request[q].due = request'[q].due
    BY <1>2, <2>2 DEF Waits
  <2> QED
    BY <1>1, <1>3, <2>1, <2>2 DEF BooksKept, Settling
<1>4. CASE ~game.over
  BY <1>2, <1>4 DEF BooksKept, Waits, Settling
<1> QED
  BY <1>3, <1>4

(* One request at a time is at the table.                                  *)
LEMMA AloneStill ==
  ASSUME Alone, NEW r \in Requests,
         \A q \in Requests \ {r} : request'[q].at = request[q].at,
         \/ AtTable(r)
         \/ request'[r].at \notin TableSteps
         \/ \A q \in Requests : ~AtTable(q)
  PROVE  Alone'
BY DEF Alone, AtTable

LEMMA OnlyOne ==
  ASSUME Alone, NEW r \in Requests, AtTable(r), NEW q \in Requests \ {r}
  PROVE  ~AtTable(q) /\ request[q].at \notin Playing \cup Settling
BY DEF Alone, AtTable, TableSteps, Playing, Settling

(* The first payout from number due on that is not 0.                      *)
IsNextDue(p, due, j) ==
  j >= due /\ \A i \in DOMAIN p : i >= due /\ p[i] > 0 => j <= i

(* What a settlement has credited when it goes on after its next payout.   *)
LEMMA CreditedNext ==
  ASSUME NEW n \in Nat, NEW p \in [1 .. n -> Nat], NEW due \in Nat,
         NEW j \in 1 .. n, IsNextDue(p, due, j)
  PROVE  /\ Total(Credited(p, j + 1)) = Total(Credited(p, due)) + p[j]
         /\ Total(Credited(p, j + 1)) <= Total(p)
         /\ Total(Credited(p, due)) \in Nat
<1> DEFINE before == Credited(p, due)
           after  == Credited(p, j + 1)
<1>1. IsFiniteSet(1 .. n)
  BY FS_Interval
<1>2. before \in [1 .. n -> Nat] /\ after \in [1 .. n -> Nat]
  BY DEF Credited
<1>3. \A i \in 1 .. n : /\ before[i] = IF i < due THEN p[i] ELSE 0
                        /\ after[i] = IF i < j + 1 THEN p[i] ELSE 0
  BY DEF Credited
<1> HIDE DEF before, after
<1>4. \A i \in 1 .. n : after[i] = IF i = j THEN p[j] ELSE before[i]
  <2>1. j >= due /\ \A i \in 1 .. n : i >= due /\ p[i] > 0 => j <= i
    BY DEF IsNextDue
  <2> QED
    BY <1>3, <2>1
<1>5. after = [before EXCEPT ![j] = p[j]]
  BY <1>2, <1>4
<1>6. p[j] \in Nat /\ before[j] = 0
  <2>1. j >= due
    BY DEF IsNextDue
  <2>2. before[j] = IF j < due THEN p[j] ELSE 0
    BY <1>3
  <2> QED
    BY <2>1, <2>2
<1>7. Total(after) = Total(before) - before[j] + p[j]
  <2> DEFINE S == 1 .. n
             v == p[j]
  <2>1. IsFiniteSet(S) /\ before \in [S -> Nat] /\ j \in S /\ v \in Nat
    BY <1>1, <1>2, <1>6
  <2> HIDE DEF S, v
  <2>2. Total([before EXCEPT ![j] = v]) = Total(before) - before[j] + v
    BY <2>1, TotalUpdate
  <2> QED
    BY <1>5, <2>2 DEF v
<1>8. Total(before) \in Nat
  BY <1>1, <1>2, TotalType
<1>9. \A i \in 1 .. n : after[i] <= p[i]
  BY <1>3
<1>10. Total(after) <= Total(p)
  BY <1>1, <1>2, <1>9, TotalMonotone
<1> QED
  BY <1>6, <1>7, <1>8, <1>10 DEF before, after

(* Nothing is credited before the first payout, and everything once        *)
(* nothing is unpaid.                                                      *)
LEMMA CreditedFirst ==
  ASSUME NEW n \in Nat, NEW p \in [1 .. n -> Nat]
  PROVE  Total(Credited(p, 1)) = 0
<1>1. Credited(p, 1) = [i \in 1 .. n |-> 0]
  BY DEF Credited
<1> QED
  BY <1>1, TotalOfZeros

LEMMA CreditedAll ==
  ASSUME NEW n \in Nat, NEW p \in [1 .. n -> Nat], NEW due \in Nat,
         \A i \in 1 .. n : ~(i >= due /\ p[i] > 0)
  PROVE  Credited(p, due) = p
<1>1. \A i \in 1 .. n : (IF i < due THEN p[i] ELSE 0) = p[i]
  OBVIOUS
<1>2. Credited(p, due) = [i \in 1 .. n |-> p[i]]
  BY <1>1 DEF Credited
<1> QED
  BY <1>2

(* The next credit pays the next payout, and no more than is due.          *)
LEMMA PayingIs ==
  ASSUME GameInv, BooksKept, NEW r \in Requests, request[r].at = "pay",
         Unpaid(r) # {}, CreditPayout(r), failures' \in Nat, restarts' \in Nat,
         UNCHANGED hand
  PROVE  /\ game.over /\ request[r].payouts = Due /\ Due' = Due
         /\ game.settled = NotSettled
         /\ game'.paid = Total(Credited(request[r].payouts, NextDue(r) + 1))
         /\ game'.paid <= Total(Due)
<1> DEFINE p == request[r].payouts
           j == NextDue(r)
           d == request[r].due
           n == Len(game.players)
<1>1. /\ GameKept /\ request[r] \in Waiting /\ d \in Nat
      /\ game.over /\ p = Due /\ game.settled = NotSettled
      /\ game.paid = Total(Credited(p, d))
  BY DEF GameInv, Waiting, BooksKept, Settling
<1>2. n \in Nat /\ Seats = 1 .. n
  BY <1>1, SeatsAre
<1>3. /\ p \in [Seats -> Nat] /\ j \in Seats /\ j >= d
      /\ DOMAIN p = Seats /\ \A i \in Unpaid(r) : j <= i
  BY NextDueIs
<1>4. \A i \in 1 .. n : i >= d /\ p[i] > 0 => j <= i
  BY <1>2, <1>3 DEF Unpaid
<1>5. game'.paid = game.paid + p[j] /\ game'.chips = game.chips
  BY CreditPayoutKeeps
<1> HIDE DEF p, j, d, n
<1>6. /\ Total(Credited(p, j + 1)) = Total(Credited(p, d)) + p[j]
      /\ Total(Credited(p, j + 1)) <= Total(p)
  <2>1. /\ n \in Nat /\ d \in Nat /\ p \in [1 .. n -> Nat] /\ j \in 1 .. n
    BY <1>1, <1>2, <1>3
  <2>2. IsNextDue(p, d, j)
    BY <1>2, <1>3, <1>4 DEF IsNextDue
  <2> QED
    BY <2>1, <2>2, CreditedNext
<1>7. Due' = Due
  BY <1>5 DEF Due
<1> QED
  BY <1>1, <1>5, <1>6, <1>7 DEF p, j

(* The payouts of a game that is over add up to the buy-ins, unless chips  *)
(* were minted at the table.                                               *)
LEMMA DueAddsUp ==
  ASSUME GameKept, game.started
  PROVE  /\ Total(Due) \in Nat
         /\ ~ChipsMinted => Total(Due) = BuyIn * Cardinality(Seats)
<1> DEFINE n == Len(game.players)
<1>1. /\ n \in Nat \ {0} /\ game.chips \in [1 .. n -> Nat]
      /\ Seats = 1 .. n /\ Cardinality(Seats) = n /\ IsFiniteSet(Seats)
  BY SeatsAre DEF GameKept
<1>2. Total(Due) \in Nat
  BY <1>1, DueIs, TotalType
<1>3. Total(game.chips) \in Nat
  BY <1>1, TotalType
<1> HIDE DEF n
<1>4. ASSUME ~ChipsMinted PROVE Total(Due) = n * BuyIn
  <2>1. StartingChips * n \in Nat /\ StartingChips * n = n * StartingChips
    BY <1>1, Numbers
  <2>2. Total(game.chips) <= n * StartingChips
    BY <1>1, <1>3, <1>4, <2>1 DEF ChipsMinted
  <2> DEFINE c == game.chips
  <2>3. /\ n \in Nat \ {0} /\ c \in [1 .. n -> Nat]
        /\ Total(c) <= n * StartingChips
        /\ BuyIn \in Nat /\ StartingChips \in Nat \ {0}
    BY <1>1, <2>2, Numbers
  <2> HIDE DEF c
  <2>4. Total(ComputePayouts(c, BuyIn, StartingChips)) = n * BuyIn
    BY <2>3, PayoutsComplete
  <2> QED
    BY <2>4 DEF Due, c
<1>5. n * BuyIn = BuyIn * n
  BY <1>1, Numbers
<1> QED
  BY <1>1, <1>2, <1>4, <1>5

(* A request that ends the game is the only one at the table.              *)
LEMMA EndKeepsBooks ==
  ASSUME GameInv, Alone, BooksKept, NEW r \in Requests, AtTable(r),
         ~game.over, game' = [game EXCEPT !.over = TRUE],
         request'[r].at = "announce",
         \A q \in Requests \ {r} : request'[q] = request[q]
  PROVE  BooksKept'
<1>1. /\ game'.over /\ game'.settled = NotSettled /\ game'.paid = 0
  BY DEF GameInv, GameKept, Games, BooksKept
<1>2. \A q \in Requests \ {r} : request'[q].at \notin Playing \cup Settling
  BY OnlyOne
<1>3. Total(Due') \in Nat
  <2>1. GameKept /\ game.started
    BY DEF GameInv, RequestKept
  <2>2. game'.chips = game.chips
    BY DEF GameInv, GameKept, Games
  <2> QED
    BY <2>1, <2>2, DueAddsUp DEF Due
<1> QED
  BY <1>1, <1>2, <1>3 DEF BooksKept, Playing, Settling

(* One request goes on, with nothing to settle.                            *)
LEMMA BooksGoOn ==
  ASSUME Alone, BooksKept, NEW r \in Requests,
         game'.over = game.over, game'.settled = game.settled,
         game'.paid = game.paid, game.over => game'.chips = game.chips,
         \A q \in Requests \ {r} : Waits(q),
         request'[r].at \notin Settling,
         request'[r].at \in Playing => ~game.over,
         \/ AtTable(r)
         \/ request'[r].at \notin TableSteps
         \/ \A q \in Requests : ~AtTable(q)
  PROVE  Alone' /\ BooksKept'
<1>1. Alone'
  BY AloneStill DEF Waits
<1>2. \A q \in Requests : \/ Waits(q)
                          \/ request'[q].at \notin Playing \cup Settling
                          \/ request'[q].at \in Playing /\ ~game.over
  OBVIOUS
<1>3. BooksKept'
  BY <1>2, BooksStill
<1> QED
  BY <1>1, <1>3

(* Nor do requests that wait for something else than the table.            *)
LEMMA BooksAway ==
  ASSUME Alone, BooksKept, NEW r \in Requests,
         game'.over = game.over, game'.settled = game.settled,
         game'.paid = game.paid, game.over => game'.chips = game.chips,
         \A q \in Requests \ {r} : request'[q] = request[q],
         request'[r].at \notin TableSteps
  PROVE  Alone' /\ BooksKept'
BY BooksGoOn DEF Waits, TableSteps, Playing, Settling

LEMMA BooksUnchanged ==
  ASSUME Alone, BooksKept, UNCHANGED request,
         game'.over = game.over, game'.settled = game.settled,
         game'.paid = game.paid, game.over => game'.chips = game.chips
  PROVE  Alone' /\ BooksKept'
<1>1. \A q \in Requests : Waits(q)
  BY DEF Waits
<1>2. BooksKept'
  BY <1>1, BooksStill
<1> QED
  BY <1>2 DEF Alone, AtTable

(* A failed call ends its request and leaves the game as it is.            *)
LEMMA BooksFail ==
  ASSUME GameInv, Alone, BooksKept, NEW r \in Requests, Fails(r), UNCHANGED game
  PROVE  Alone' /\ BooksKept'
BY FailsIs, IdleWaits, BooksAway DEF TableSteps

LEMMA JoiningBooks ==
  ASSUME GameInv, Alone, BooksKept, NEW r \in Requests,
         \/ \E u \in Users : FirstClaim(r, u) \/ Join(r, u)
         \/ GrantFirst(r) \/ DebitBuyIn(r) \/ Register(r) \/ Refund(r)
         \/ DebitFails(r) \/ RefundFails(r)
  PROVE  Alone' /\ BooksKept'
<1>1. CASE \E u \in Users : FirstClaim(r, u) \/ Join(r, u)
  BY <1>1, JoinKeeps, BooksAway DEF TableSteps
<1>2. CASE GrantFirst(r) \/ DebitBuyIn(r) \/ Refund(r)
  BY <1>2, GrantKeeps, DebitBuyInKeeps, RefundKeeps, BooksAway DEF TableSteps
<1>3. CASE Register(r)
  BY <1>3, RegisterKeeps, BooksAway DEF TableSteps, GameInv, GameKept
<1>4. CASE DebitFails(r) \/ RefundFails(r)
  BY <1>4, DebitFailsKeeps, RefundFailsKeeps, BooksFail
<1> QED
  BY <1>1, <1>2, <1>3, <1>4

LEMMA PlayingBooks ==
  ASSUME ~Overlap, GameInv, Alone, BooksKept, NEW r \in Requests,
         \/ LastAction(r) \/ Fold(r) \/ \E i \in Seats : Resign(r, i)
         \/ ResignFolds(r) \/ AfterFold(r) \/ RecordFails(r)
  PROVE  Alone' /\ BooksKept'
<1> USE DEF Playing, Settling, Waits, MayAct, TableFree
<1>1. CASE LastAction(r) \/ Fold(r)
  BY <1>1, LastActionKeeps, FoldKeeps, BooksGoOn
<1>2. CASE \E i \in Seats : Resign(r, i)
  <2>1. PICK i \in Seats : Resign(r, i)
    BY <1>2
  <2>2. game' = [game EXCEPT !.resigned = @ \cup {i}] /\ game \in Games
    BY <2>1, ResignKeeps DEF GameInv, GameKept
  <2>3. /\ game'.over = game.over /\ game'.settled = game.settled
        /\ game'.paid = game.paid /\ game'.chips = game.chips
    BY <2>2 DEF Games
  <2> QED
    BY <2>1, <2>3, ResignKeeps, BooksGoOn
<1>3. CASE ResignFolds(r)
  BY <1>3, ResignFoldsKeeps, BooksGoOn DEF AtTable, TableSteps, BooksKept
<1>4. CASE AfterFold(r)
  BY <1>4, AfterFoldKeeps, BooksGoOn DEF AtTable, TableSteps, BooksKept
<1>5. CASE RecordFails(r)
  BY <1>5, RecordFailsKeeps, BooksFail
<1> QED
  BY <1>1, <1>2, <1>3, <1>4, <1>5

LEMMA EndingBooks ==
  ASSUME GameInv, Alone, BooksKept, NEW r \in Requests,
         AfterHand(r) \/ Recheck(r)
  PROVE  Alone' /\ BooksKept'
<1> USE DEF Playing, Settling, Waits
<1>1. AtTable(r)
  BY AfterHandKeeps, RecheckKeeps DEF AtTable, TableSteps
<1>2. CASE request'[r].at = "announce"
  <2>1. /\ game' = [game EXCEPT !.over = TRUE]
        /\ \A q \in Requests \ {r} : request'[q] = request[q]
        /\ ~game.over
    BY <1>2, AfterHandKeeps, RecheckKeeps DEF BooksKept
  <2>2. BooksKept'
    BY <1>1, <1>2, <2>1, EndKeepsBooks
  <2> QED
    BY <1>1, <2>1, <2>2, AloneStill
<1>3. CASE request'[r].at # "announce"
  <2>1. CASE AfterHand(r)
    BY <1>1, <1>3, <2>1, AfterHandKeeps, BooksGoOn DEF BooksKept
  <2>2. CASE Recheck(r)
    BY <1>1, <1>3, <2>2, RecheckKeeps, BooksGoOn
  <2> QED
    BY <2>1, <2>2
<1> QED
  BY <1>2, <1>3

LEMMA AnnouncingBooks ==
  ASSUME GameInv, Alone, BooksKept, NEW r \in Requests, Announce(r)
  PROVE  Alone' /\ BooksKept'
<1>1. /\ UNCHANGED game /\ AtTable(r) /\ game.settled = NotSettled
      /\ game.paid = 0 /\ game.over /\ GameKept /\ game.started
      /\ \A q \in Requests \ {r} : Waits(q)
      /\ request'[r].at = "pay" /\ request'[r].due = 1
      /\ request'[r].payouts = Due
  BY AnnounceKeeps
  DEF AtTable, TableSteps, BooksKept, Settling, GameInv, Waits
<1>2. Total(Credited(Due, 1)) = 0
  <2>1. /\ Len(game.players) \in Nat /\ Seats = 1 .. Len(game.players)
        /\ Due \in [Seats -> Nat]
    BY <1>1, SeatsAre, DueIs
  <2> QED
    BY <2>1, CreditedFirst
<1>3. Due' = Due
  BY <1>1 DEF Due
<1>4. \A q \in Requests \ {r} : request'[q].at \notin Playing \cup Settling
  BY <1>1, OnlyOne DEF Waits
<1>5. BooksKept'
  BY <1>1, <1>2, <1>3, <1>4 DEF BooksKept, Playing, Settling
<1>6. Alone'
  BY <1>1, AloneStill DEF Waits
<1> QED
  BY <1>5, <1>6

LEMMA PayingBooks ==
  ASSUME GameInv, Alone, BooksKept, NEW r \in Requests, Pay(r) \/ PayFails(r)
  PROVE  Alone' /\ BooksKept'
<1>1. CASE PayFails(r) /\ UNCHANGED game
  BY <1>1, PayFailsKeeps, BooksFail
<1>2. CASE ~(PayFails(r) /\ UNCHANGED game)
  <2> DEFINE j == NextDue(r)
  <2>1. /\ request[r].at = "pay" /\ Unpaid(r) # {} /\ CreditPayout(r)
        /\ UNCHANGED hand /\ failures' \in Nat /\ restarts' \in Nat
        /\ \A q \in Requests \ {r} : request'[q] = request[q]
        /\ \/ request'[r].at = "idle"
           \/ /\ request'[r].at = "pay" /\ request'[r].due = j + 1
              /\ request'[r].payouts = request[r].payouts
    <3>1. CASE Pay(r)
      BY <3>1, PayKeeps DEF Pay, faultVars, GameInv, Accounts
    <3>2. CASE PayFails(r)
      BY <1>2, <3>2, PayFailsKeeps, FailsIs, IdleWaits
    <3> QED
      BY <3>1, <3>2
  <2>2. /\ game.over /\ request[r].payouts = Due /\ Due' = Due
        /\ game.settled = NotSettled
        /\ game'.paid = Total(Credited(request[r].payouts, j + 1))
        /\ game'.paid <= Total(Due)
    BY <2>1, PayingIs
  <2>3. game'.over = game.over /\ game'.settled = game.settled
    BY <2>1, CreditPayoutKeeps
  <2>4. AtTable(r)
    BY <2>1 DEF AtTable, TableSteps
  <2>5. \A q \in Requests \ {r} : request'[q].at \notin Playing \cup Settling
    BY <2>1, <2>4, OnlyOne
  <2> HIDE DEF j
  <2>6. BooksKept'
    BY <2>1, <2>2, <2>3, <2>5 DEF BooksKept, Playing, Settling
  <2>7. Alone'
    BY <2>1, <2>4, AloneStill
  <2> QED
    BY <2>6, <2>7
<1> QED
  BY <1>1, <1>2

(* All that is due has been paid when the settlement is noted.             *)
LEMMA SettledIsPaid ==
  ASSUME GameInv, BooksKept, NEW r \in Requests, MarkSettled(r)
  PROVE  /\ game.paid = Total(Due) /\ game.over
         /\ game.settled = NotSettled
<1> DEFINE p == request[r].payouts
           d == request[r].due
<1>1. /\ request[r].at = "pay" /\ Unpaid(r) = {} /\ GameKept
      /\ p \in Seq(Nat) /\ d \in Nat /\ Len(p) = Len(game.players)
      /\ game.over /\ game.settled = NotSettled
      /\ p = Due /\ game.paid = Total(Credited(p, d))
  BY MarkSettledKeeps DEF GameInv, Waiting, RequestKept, BooksKept, Settling
<1>2. /\ Len(p) \in Nat /\ p \in [1 .. Len(p) -> Nat]
      /\ DOMAIN p = 1 .. Len(p)
  BY <1>1, SeatsAre, LenProperties
<1>3. \A i \in 1 .. Len(p) : ~(i >= d /\ p[i] > 0)
  BY <1>1, <1>2 DEF Unpaid
<1> HIDE DEF p, d
<1> DEFINE n == Len(p)
<1>4. /\ n \in Nat /\ p \in [1 .. n -> Nat]
      /\ \A i \in 1 .. n : ~(i >= d /\ p[i] > 0)
  BY <1>2, <1>3
<1> HIDE DEF n
<1>5. Credited(p, d) = p
  BY <1>1, <1>4, CreditedAll
<1> QED
  BY <1>1, <1>5

LEMMA SettledBooks ==
  ASSUME GameInv, Alone, BooksKept, NEW r \in Requests, MarkSettled(r)
  PROVE  Alone' /\ BooksKept'
<1>1. /\ game' = [game EXCEPT !.settled = request[r].payouts]
      /\ game \in Games /\ request[r].at = "pay"
      /\ request'[r].at \notin Playing \cup Settling
      /\ \A q \in Requests \ {r} : request'[q].at = request[q].at
  BY MarkSettledKeeps DEF GameInv, GameKept, Playing, Settling
<1>2. /\ game'.over = game.over /\ game'.paid = game.paid
      /\ game'.chips = game.chips
  BY <1>1 DEF Games
<1>3. Due' = Due
  BY <1>2 DEF Due
<1>4. AtTable(r)
  BY <1>1 DEF AtTable, TableSteps
<1>5. \A q \in Requests : request'[q].at \notin Playing \cup Settling
  BY <1>1, <1>4, OnlyOne
<1>6. game.over /\ game.paid <= Total(Due)
  BY SettledIsPaid DEF BooksKept
<1>7. BooksKept'
  BY <1>2, <1>3, <1>5, <1>6 DEF BooksKept, Playing, Settling
<1>8. Alone'
  BY <1>1, <1>4, AloneStill
<1> QED
  BY <1>7, <1>8

LEMMA BooksInit ==
  Init => Alone /\ BooksKept
BY DEF Init, Alone, AtTable, TableSteps, BooksKept, NewGame, Idle, Settling

LEMMA BooksNext ==
  ASSUME ~Overlap, GameInv, Alone, BooksKept, [Next]_vars
  PROVE  Alone' /\ BooksKept'
<1>1. CASE UNCHANGED <<game, request>>
  BY <1>1, BooksUnchanged
<1>2. CASE \E r \in Requests, u \in Users : FirstClaim(r, u) \/ Join(r, u)
  BY <1>2, JoiningBooks
<1>3. CASE Start
  <2>1. /\ game' = [game EXCEPT !.started = TRUE] /\ request' = request
        /\ game \in Games
    BY <1>3, StartKeeps DEF GameInv, GameKept
  <2>2. /\ game'.over = game.over /\ game'.settled = game.settled
        /\ game'.paid = game.paid /\ game'.chips = game.chips
    BY <2>1 DEF Games
  <2> QED
    BY <2>1, <2>2, BooksUnchanged
<1>4. ASSUME NEW r \in Requests,
             \/ LastAction(r) \/ Fold(r) \/ \E i \in Seats : Resign(r, i)
      PROVE  Alone' /\ BooksKept'
  BY <1>4, PlayingBooks
<1>5. ASSUME NEW r \in Requests, Proceed(r)
      PROVE  Alone' /\ BooksKept'
  BY <1>5, JoiningBooks, PlayingBooks, EndingBooks, AnnouncingBooks,
     PayingBooks, SettledBooks DEF Proceed
<1>6. ASSUME NEW r \in Requests,
             \/ DebitFails(r) \/ RefundFails(r) \/ PayFails(r) \/ RecordFails(r)
      PROVE  Alone' /\ BooksKept'
  BY <1>6, JoiningBooks, PlayingBooks, PayingBooks
<1>7. CASE Restart
  <2>1. game' = NewGame /\ \A q \in Requests : request'[q] = Idle
    BY <1>7, RestartKeeps
  <2> QED
    BY <2>1, IdleWaits
    DEF Alone, AtTable, TableSteps, BooksKept, NewGame, Settling
<1>8. (\E u \in Users : Claim(u))
        \/ (\E amount \in 0 .. MaxPlayers * StartingChips : Bet(amount))
        \/ UNCHANGED vars
      => UNCHANGED <<game, request>>
  BY DEF Claim, Bet, vars
<1> QED
  BY <1>1, <1>2, <1>3, <1>4, <1>5, <1>6, <1>7, <1>8 DEF Next

-----------------------------------------------------------------------------
(* Credits are neither made nor lost.                                      *)

(* The buy-ins that are neither in a balance nor at a seat.                *)
Flying == {"register", "refund"}

LEMMA FlightType ==
  InFlight \in Nat
<1>1. IsFiniteSet({r \in Requests : request[r].at \in {"register", "refund"}})
  BY Numbers, FS_Subset
<1> QED
  BY <1>1, FS_CardinalityType DEF InFlight

LEMMA FlightSame ==
  ASSUME NEW r \in Requests,
         \A q \in Requests \ {r} : request'[q].at = request[q].at,
         request'[r].at \in Flying <=> request[r].at \in Flying
  PROVE  InFlight' = InFlight
<1>1. {q \in Requests : request'[q].at \in {"register", "refund"}}
        = {q \in Requests : request[q].at \in {"register", "refund"}}
  BY DEF Flying
<1> QED
  BY <1>1 DEF InFlight

LEMMA FlightMore ==
  ASSUME NEW r \in Requests,
         \A q \in Requests \ {r} : request'[q].at = request[q].at,
         request'[r].at \in Flying, request[r].at \notin Flying
  PROVE  InFlight' = InFlight + 1
<1> DEFINE before == {q \in Requests : request[q].at \in {"register", "refund"}}
           after  == {q \in Requests : request'[q].at \in {"register", "refund"}}
<1>1. after = before \cup {r} /\ r \notin before
  BY DEF Flying
<1>2. IsFiniteSet(before)
  BY Numbers, FS_Subset
<1>3. InFlight = Cardinality(before) /\ InFlight' = Cardinality(after)
  BY DEF InFlight
<1> HIDE DEF before, after
<1> QED
  BY <1>1, <1>2, <1>3, FS_AddElement

LEMMA FlightLess ==
  ASSUME NEW r \in Requests,
         \A q \in Requests \ {r} : request'[q].at = request[q].at,
         request'[r].at \notin Flying, request[r].at \in Flying
  PROVE  InFlight' = InFlight - 1
<1> DEFINE before == {q \in Requests : request[q].at \in {"register", "refund"}}
           after  == {q \in Requests : request'[q].at \in {"register", "refund"}}
<1>1. after = before \ {r} /\ r \in before
  BY DEF Flying
<1>2. IsFiniteSet(before)
  BY Numbers, FS_Subset
<1>3. InFlight = Cardinality(before) /\ InFlight' = Cardinality(after)
  BY DEF InFlight
<1> HIDE DEF before, after
<1> QED
  BY <1>1, <1>2, <1>3, FS_RemoveElement

LEMMA OneMore ==
  ASSUME NEW a \in Nat, NEW k \in Nat
  PROVE  /\ a * (k + 1) = a * k + a /\ a * k \in Nat
         /\ k > 0 => a * (k - 1) = a * k - a
OBVIOUS

LEMMA PotType ==
  ASSUME GameKept
  PROVE  Pot \in Int
<1>1. Cardinality(Seats) \in Nat /\ game.paid \in Nat
  BY SeatsAre
<1>2. BuyIn * Cardinality(Seats) \in Nat
  BY <1>1, Numbers, OneMore
<1> QED
  BY <1>1, <1>2 DEF Pot

LEMMA PotSame ==
  ASSUME game'.settled = game.settled, game'.paid = game.paid,
         game'.players = game.players
  PROVE  Pot' = Pot
BY DEF Pot, Seats

(* What a step changes adds up.                                            *)
LEMMA Flow ==
  ASSUME GameInv, NEW x \in Int, NEW y \in Int, NEW z \in Int, NEW w \in Int,
         Total(balance') + erased' = Total(balance) + erased + x,
         BuyIn * InFlight' = BuyIn * InFlight + y,
         Pot' = Pot + z,
         FaucetAmount * claims' = FaucetAmount * claims + w
  PROVE  Surplus' = Surplus + x + y + z - w
<1>1. /\ erased \in Nat /\ claims \in Nat /\ balance \in [Users -> Nat]
      /\ GameKept
  BY DEF GameInv, Accounts
<1>2. Total(balance) \in Nat /\ InFlight \in Nat /\ Pot \in Int
  BY <1>1, Numbers, TotalType, FlightType, PotType
<1>3. BuyIn * InFlight \in Nat /\ FaucetAmount * claims \in Nat
  BY <1>1, <1>2, Numbers, OneMore
<1> DEFINE t == Total(balance) + erased
           f == BuyIn * InFlight
           p == Pot
           c == FaucetAmount * claims
<1>4. /\ Surplus = t + f + p - c
      /\ Surplus' = (t + x) + (f + y) + (p + z) - (c + w)
  BY DEF Surplus
<1>5. t \in Int /\ f \in Int /\ p \in Int /\ c \in Int
  BY <1>1, <1>2, <1>3
<1> HIDE DEF t, f, p, c
<1> QED
  BY <1>4, <1>5

(* A step at the table moves no credits.                                   *)
LEMMA NothingMoves ==
  ASSUME GameInv, Untouched, InFlight' = InFlight, Pot' = Pot
  PROVE  Surplus' = Surplus
BY DEF Untouched, moneyVars, Surplus

LEMMA TableMovesNothing ==
  ASSUME GameInv, NEW r \in Requests,
         \/ LastAction(r) \/ Fold(r) \/ \E i \in Seats : Resign(r, i)
         \/ ResignFolds(r) \/ AfterFold(r) \/ AfterHand(r) \/ Recheck(r)
         \/ Announce(r) \/ RecordFails(r)
  PROVE  Surplus' = Surplus
<1> DEFINE Elsewhere == /\ request[r].at \notin Flying
                        /\ request'[r].at \notin Flying
                        /\ \A q \in Requests \ {r} : request'[q].at = request[q].at
           SamePot == /\ game'.settled = game.settled /\ game'.paid = game.paid
                      /\ game'.players = game.players
<1>1. Untouched /\ Elsewhere /\ SamePot
  <2> USE DEF Flying
  <2>1. CASE LastAction(r) \/ Fold(r)
    BY <2>1, LastActionKeeps, FoldKeeps, IdleWaits
  <2>2. CASE \E i \in Seats : Resign(r, i)
    <3>1. PICK i \in Seats : Resign(r, i)
      BY <2>2
    <3>2. game' = [game EXCEPT !.resigned = @ \cup {i}] /\ game \in Games
      BY <3>1, ResignKeeps DEF GameInv, GameKept
    <3>3. SamePot
      BY <3>2 DEF Games
    <3> QED
      BY <3>1, <3>3, ResignKeeps, IdleWaits
  <2>3. CASE ResignFolds(r) \/ AfterFold(r)
    BY <2>3, ResignFoldsKeeps, AfterFoldKeeps
  <2>4. CASE AfterHand(r)
    BY <2>4, AfterHandKeeps
  <2>5. CASE Recheck(r)
    <3>1. game' \in {game, [game EXCEPT !.over = TRUE]} /\ game \in Games
      BY <2>5, RecheckKeeps DEF GameInv, GameKept
    <3>2. SamePot
      BY <3>1 DEF Games
    <3> QED
      BY <2>5, <3>2, RecheckKeeps
  <2>6. CASE Announce(r)
    BY <2>6, AnnounceKeeps
  <2>7. CASE RecordFails(r)
    BY <2>7, RecordFailsKeeps, FailsIs, IdleWaits DEF AtTable, TableSteps
  <2> QED
    BY <2>1, <2>2, <2>3, <2>4, <2>5, <2>6, <2>7
<1>2. InFlight' = InFlight
  BY <1>1, FlightSame
<1>3. Pot' = Pot
  BY <1>1, PotSame
<1> QED
  BY <1>1, <1>2, <1>3, NothingMoves

(* A claim is on the faucet's account.                                     *)
LEMMA ClaimsBalance ==
  ASSUME GameInv,
         \/ \E u \in Users : Claim(u)
         \/ \E r \in Requests : GrantFirst(r)
  PROVE  Surplus' = Surplus
<1>1. /\ claims \in Nat /\ erased \in Nat /\ balance \in [Users -> Nat]
      /\ Total(balance) \in Nat
  BY Numbers, TotalType DEF GameInv, Accounts
<1>2. /\ Total(balance') + erased' = Total(balance) + erased + FaucetAmount
      /\ claims' = claims + 1 /\ InFlight' = InFlight /\ game' = game
  <2>1. CASE \E u \in Users : Claim(u)
    <3>1. PICK u \in Users : Claim(u)
      BY <2>1
    <3>2. /\ balance' = [balance EXCEPT ![u] = balance[u] + FaucetAmount]
          /\ claims' = claims + 1
          /\ UNCHANGED <<erased, game, request>>
      BY <3>1 DEF Claim
    <3>3. balance[u] \in Nat /\ balance[u] + FaucetAmount \in Nat
      BY <1>1, Numbers
    <3>4. Total(balance') = Total(balance) - balance[u]
                              + (balance[u] + FaucetAmount)
      <4> DEFINE v == balance[u] + FaucetAmount
      <4>1. balance' = [balance EXCEPT ![u] = v] /\ v \in Nat
        BY <3>2, <3>3
      <4> HIDE DEF v
      <4>2. balance \in [Users -> Nat] /\ IsFiniteSet(Users) /\ v \in Nat
        BY <1>1, <4>1, Numbers
      <4>3. Total([balance EXCEPT ![u] = v]) = Total(balance) - balance[u] + v
        BY <4>2, TotalUpdate
      <4> QED
        BY <4>1, <4>3 DEF v
    <3> QED
      BY <1>1, <3>2, <3>3, <3>4, Numbers DEF InFlight
  <2>2. CASE \E r \in Requests : GrantFirst(r)
    <3>1. PICK r \in Requests : GrantFirst(r)
      BY <2>2
    <3>2. InFlight' = InFlight
      BY <3>1, GrantKeeps, FlightSame DEF Flying
    <3> QED
      BY <3>1, <3>2, GrantKeeps
  <2> QED
    BY <2>1, <2>2
<1>3. Pot' = Pot
  BY <1>2 DEF Pot, Seats
<1>4. FaucetAmount * claims' = FaucetAmount * claims + FaucetAmount
  BY <1>1, <1>2, Numbers, OneMore
<1>5. BuyIn * InFlight' = BuyIn * InFlight + 0 /\ Pot' = Pot + 0
  <2>1. Pot \in Int /\ BuyIn * InFlight \in Nat
    BY Numbers, PotType, FlightType, OneMore DEF GameInv
  <2> QED
    BY <1>2, <1>3, <2>1
<1>6. Surplus' = Surplus + FaucetAmount + 0 + 0 - FaucetAmount
  BY <1>2, <1>4, <1>5, Numbers, Flow
<1>7. Surplus \in Int
  BY <1>1, Numbers, FlightType, PotType, OneMore DEF Surplus, GameInv
<1> QED
  BY <1>6, <1>7, Numbers

LEMMA SurplusType ==
  ASSUME GameInv
  PROVE  /\ Surplus \in Int /\ Total(balance) \in Nat /\ erased \in Nat
         /\ claims \in Nat /\ InFlight \in Nat /\ Pot \in Int
         /\ BuyIn * InFlight \in Nat /\ FaucetAmount * claims \in Nat
<1>1. /\ claims \in Nat /\ erased \in Nat /\ balance \in [Users -> Nat]
      /\ GameKept
  BY DEF GameInv, Accounts
<1>2. /\ Total(balance) \in Nat /\ InFlight \in Nat /\ Pot \in Int
  BY <1>1, Numbers, TotalType, FlightType, PotType
<1>3. BuyIn * InFlight \in Nat /\ FaucetAmount * claims \in Nat
  BY <1>1, <1>2, Numbers, OneMore
<1> QED
  BY <1>1, <1>2, <1>3 DEF Surplus

(* A step that leaves the faucet alone.                                    *)
LEMMA NoClaim ==
  ASSUME GameInv, NEW x \in Int, NEW y \in Int, NEW z \in Int,
         Total(balance') = Total(balance) + x, UNCHANGED <<claims, erased>>,
         BuyIn * InFlight' = BuyIn * InFlight + y, Pot' = Pot + z
  PROVE  Surplus' = Surplus + (x + y + z)
<1>1. /\ Total(balance') + erased' = Total(balance) + erased + x
      /\ FaucetAmount * claims' = FaucetAmount * claims + 0
      /\ Surplus \in Int
  BY SurplusType
<1>2. Surplus' = Surplus + x + y + z - 0
  BY <1>1, Flow
<1> QED
  BY <1>1, <1>2

LEMMA FlightTimes ==
  /\ InFlight' = InFlight => BuyIn * InFlight' = BuyIn * InFlight + 0
  /\ InFlight' = InFlight + 1 => BuyIn * InFlight' = BuyIn * InFlight + BuyIn
  /\ InFlight' = InFlight - 1 /\ InFlight > 0
       => BuyIn * InFlight' = BuyIn * InFlight + (-BuyIn)
<1>1. InFlight \in Nat /\ BuyIn \in Nat /\ BuyIn * InFlight \in Nat
  BY Numbers, FlightType, OneMore
<1> QED
  BY <1>1, OneMore

LEMMA SomeFly ==
  ASSUME NEW r \in Requests, request[r].at \in Flying
  PROVE  InFlight > 0
<1> DEFINE fly == {q \in Requests : request[q].at \in {"register", "refund"}}
<1>1. r \in fly
  BY DEF Flying
<1>2. IsFiniteSet(fly) /\ InFlight = Cardinality(fly)
  BY Numbers, FS_Subset DEF InFlight
<1> HIDE DEF fly
<1>3. Cardinality(fly) \in Nat /\ Cardinality(fly) # 0
  BY <1>1, <1>2, FS_CardinalityType, FS_EmptySet
<1> QED
  BY <1>2, <1>3

(* Another seat is another buy-in in the pot.                              *)
LEMMA PotGrows ==
  ASSUME GameKept, GameKept', Len(game'.players) = Len(game.players) + 1,
         game.settled = NotSettled,
         game'.settled = game.settled, game'.paid = game.paid
  PROVE  Pot' = Pot + BuyIn
<1>1. /\ Cardinality(Seats) = Len(game.players) /\ Len(game.players) \in Nat
      /\ game.paid \in Nat
  BY SeatsAre
<1>2. Cardinality(Seats') = Len(game'.players)
  <2>1. game'.players \in Seq(Users)
    BY DEF GameKept, Games
  <2>2. Seats' = 1 .. Len(game'.players)
    BY <2>1, LenProperties DEF Seats
  <2> QED
    BY <1>1, <2>2, FS_Interval
<1> DEFINE k == Len(game.players)
<1>3. BuyIn * (k + 1) = BuyIn * k + BuyIn /\ BuyIn * k \in Nat
  BY <1>1, Numbers, OneMore
<1>4. Pot = BuyIn * k - game.paid
  BY <1>1 DEF Pot
<1>5. Pot' = BuyIn * (k + 1) - game.paid
  BY <1>2 DEF Pot
<1> HIDE DEF k
<1> QED
  BY <1>1, <1>3, <1>4, <1>5, Numbers

(* Joining moves the buy-in from the balance to the seat, or back; a call  *)
(* that fails loses it at worst.                                           *)
LEMMA JoiningBalances ==
  ASSUME GameInv, BooksKept, NEW r \in Requests,
         \/ \E u \in Users : FirstClaim(r, u) \/ Join(r, u)
         \/ DebitBuyIn(r) \/ Register(r) \/ Refund(r)
  PROVE  Surplus' = Surplus
<1> USE DEF Flying
<1>1. /\ GameKept /\ BuyIn \in Int /\ Surplus \in Int
      /\ Total(balance) \in Nat /\ Pot \in Int
  BY Numbers, SurplusType DEF GameInv
<1>2. CASE \E u \in Users : FirstClaim(r, u) \/ Join(r, u)
  <2>1. /\ Untouched /\ UNCHANGED game
        /\ request[r].at \notin Flying /\ request'[r].at \notin Flying
        /\ \A q \in Requests \ {r} : request'[q].at = request[q].at
    BY <1>2, JoinKeeps
  <2> QED
    BY <2>1, FlightSame, PotSame, NothingMoves
<1>3. CASE DebitBuyIn(r)
  <2>1. /\ UNCHANGED game /\ request[r].at \notin Flying
        /\ \A q \in Requests \ {r} : request'[q].at = request[q].at
    BY <1>3, DebitBuyInKeeps
  <2>2. Pot' = Pot /\ Pot' = Pot + 0
    BY <1>1, <2>1, PotSame
  <2>3. CASE request'[r].at = "register"
    <3>1. /\ Total(balance') = Total(balance) - BuyIn
          /\ UNCHANGED <<claims, erased>>
      BY <1>3, <2>3, DebitBuyInKeeps
    <3>2. InFlight' = InFlight + 1
      BY <2>1, <2>3, FlightMore
    <3>3. BuyIn * InFlight' = BuyIn * InFlight + BuyIn
      BY <3>2, FlightTimes
    <3>4. Total(balance') = Total(balance) + (-BuyIn) /\ -BuyIn \in Int
      BY <1>1, <3>1
    <3>5. Surplus' = Surplus + ((-BuyIn) + BuyIn + 0)
      BY <1>1, <2>2, <3>1, <3>3, <3>4, NoClaim
    <3> QED
      BY <1>1, <3>5
  <2>4. CASE request'[r].at # "register"
    BY <1>3, <2>1, <2>2, <2>4, DebitBuyInKeeps, FlightSame, NothingMoves
  <2> QED
    BY <2>3, <2>4
<1>4. CASE Register(r)
  <2>1. /\ Untouched /\ request[r].at = "register" /\ GameKept'
        /\ \A q \in Requests \ {r} : request'[q].at = request[q].at
    BY <1>4, RegisterKeeps DEF GameInv
  <2>2. CASE request'[r].at = "idle"
    <3>1. /\ Len(game'.players) = Len(game.players) + 1
          /\ game'.settled = game.settled /\ game'.paid = game.paid
          /\ game.settled = NotSettled
      BY <1>1, <1>4, <2>2, RegisterKeeps DEF GameKept, BooksKept
    <3>2. Pot' = Pot + BuyIn
      BY <1>1, <2>1, <3>1, PotGrows
    <3>3. InFlight' = InFlight - 1 /\ InFlight > 0
      BY <2>1, <2>2, FlightLess, SomeFly
    <3>4. BuyIn * InFlight' = BuyIn * InFlight + (-BuyIn)
      BY <3>3, FlightTimes
    <3>5. /\ Total(balance') = Total(balance) + 0
          /\ UNCHANGED <<claims, erased>> /\ -BuyIn \in Int
      BY <1>1, <2>1 DEF Untouched, moneyVars
    <3>6. Surplus' = Surplus + (0 + (-BuyIn) + BuyIn)
      BY <1>1, <3>2, <3>4, <3>5, NoClaim
    <3> QED
      BY <1>1, <3>6
  <2>3. CASE request'[r].at # "idle"
    BY <1>4, <2>1, <2>3, RegisterKeeps, FlightSame, PotSame, NothingMoves
  <2> QED
    BY <2>2, <2>3
<1>5. CASE Refund(r)
  <2>1. /\ Total(balance') = Total(balance) + BuyIn
        /\ UNCHANGED <<claims, erased, game>>
        /\ request[r].at = "refund" /\ request'[r].at = "idle"
        /\ \A q \in Requests \ {r} : request'[q].at = request[q].at
    BY <1>5, RefundKeeps
  <2>2. InFlight' = InFlight - 1 /\ InFlight > 0
    BY <2>1, FlightLess, SomeFly
  <2>3. BuyIn * InFlight' = BuyIn * InFlight + (-BuyIn) /\ -BuyIn \in Int
    BY <1>1, <2>2, FlightTimes
  <2>4. Pot' = Pot + 0
    BY <1>1, <2>1, PotSame
  <2>5. Surplus' = Surplus + (BuyIn + (-BuyIn) + 0)
    BY <1>1, <2>1, <2>3, <2>4, NoClaim
  <2> QED
    BY <1>1, <2>5
<1> QED
  BY <1>2, <1>3, <1>4, <1>5

LEMMA FailedJoinLoses ==
  ASSUME GameInv, NEW r \in Requests, DebitFails(r) \/ RefundFails(r)
  PROVE  Surplus' \in Int /\ Surplus' <= Surplus /\ failures' # failures
<1> USE DEF Flying
<1>1. /\ GameKept /\ BuyIn \in Nat /\ Surplus \in Int
      /\ Total(balance) \in Nat /\ Pot \in Int
  BY Numbers, SurplusType DEF GameInv
<1>2. /\ GameInv' /\ Fails(r) /\ UNCHANGED <<claims, erased, game>>
  BY DebitFailsKeeps, RefundFailsKeeps
<1>3. /\ failures' # failures /\ request'[r].at = "idle"
      /\ \A q \in Requests \ {r} : request'[q].at = request[q].at
  BY <1>2, FailsIs, IdleWaits
<1>4. Pot' = Pot + 0
  BY <1>1, <1>2, PotSame
<1>5. balance' \in [Users -> Nat]
  BY <1>2 DEF GameInv, Accounts
<1>6. Total(balance') \in Nat
  BY <1>5, Numbers, TotalType
<1> DEFINE x == Total(balance') - Total(balance)
<1>7. x \in Int /\ Total(balance') = Total(balance) + x
  BY <1>1, <1>6
<1>8. CASE DebitFails(r)
  <2>1. x <= 0 /\ request[r].at = "debit"
    BY <1>1, <1>6, <1>8, DebitFailsKeeps
  <2> HIDE DEF x
  <2>2. InFlight' = InFlight
    BY <1>3, <2>1, FlightSame
  <2>3. BuyIn * InFlight' = BuyIn * InFlight + 0
    BY <2>2, FlightTimes
  <2>4. Surplus' = Surplus + (x + 0 + 0)
    BY <1>2, <1>4, <1>7, <2>3, NoClaim
  <2> QED
    BY <1>1, <1>3, <1>7, <2>1, <2>4
<1>9. CASE RefundFails(r)
  <2>1. x <= BuyIn /\ request[r].at = "refund"
    BY <1>1, <1>6, <1>9, RefundFailsKeeps
  <2> HIDE DEF x
  <2>2. InFlight' = InFlight - 1 /\ InFlight > 0
    BY <1>3, <2>1, FlightLess, SomeFly
  <2>3. BuyIn * InFlight' = BuyIn * InFlight + (-BuyIn) /\ -BuyIn \in Int
    BY <1>1, <2>2, FlightTimes
  <2>4. Surplus' = Surplus + (x + (-BuyIn) + 0)
    BY <1>2, <1>4, <1>7, <2>3, NoClaim
  <2> QED
    BY <1>1, <1>3, <1>7, <2>1, <2>4
<1> QED
  BY <1>8, <1>9

(* A payout leaves the pot for a balance, even if its call then fails.     *)
LEMMA PayingBalances ==
  ASSUME GameInv, BooksKept, NEW r \in Requests, Pay(r) \/ PayFails(r)
  PROVE  Surplus' = Surplus
<1> USE DEF Flying
<1>1. /\ GameKept /\ Surplus \in Int /\ Pot \in Int
      /\ failures \in Nat /\ restarts \in Nat
  BY SurplusType DEF GameInv, Accounts
<1>2. /\ request[r].at = "pay" /\ Unpaid(r) # {} /\ UNCHANGED hand
      /\ failures' \in Nat /\ restarts' \in Nat
      /\ request'[r].at \in {"pay", "idle"}
      /\ \A q \in Requests \ {r} : request'[q].at = request[q].at
      /\ \/ Untouched /\ UNCHANGED game
         \/ CreditPayout(r)
  <2>1. CASE Pay(r)
    BY <1>1, <2>1, PayKeeps DEF Pay, faultVars
  <2>2. CASE PayFails(r)
    BY <2>2, PayFailsKeeps, FailsIs, IdleWaits
  <2> QED
    BY <2>1, <2>2
<1>3. InFlight' = InFlight
  BY <1>2, FlightSame
<1>4. CASE Untouched /\ UNCHANGED game
  BY <1>3, <1>4, PotSame, NothingMoves
<1>5. CASE CreditPayout(r)
  <2> DEFINE amount == request[r].payouts[NextDue(r)]
  <2>1. /\ Total(balance') = Total(balance) + amount
        /\ UNCHANGED <<claims, erased>>
        /\ game'.paid = game.paid + amount
        /\ game'.players = game.players /\ game'.settled = game.settled
    BY <1>2, <1>5, CreditPayoutKeeps
  <2>2. amount \in Nat /\ game.settled = NotSettled /\ game.paid \in Nat
    BY <1>1, <1>2, <1>5, NextDueIs, PayingIs, SeatsAre
  <2> HIDE DEF amount
  <2>3. Pot' = Pot + (-amount)
    <3>1. BuyIn * Cardinality(Seats) \in Nat
      BY <1>1, SeatsAre, Numbers, OneMore
    <3>2. Pot = BuyIn * Cardinality(Seats) - game.paid
      BY <2>2 DEF Pot
    <3>3. Pot' = BuyIn * Cardinality(Seats) - (game.paid + amount)
      BY <2>1, <2>2 DEF Pot, Seats
    <3> QED
      BY <2>2, <3>1, <3>2, <3>3
  <2>4. BuyIn * InFlight' = BuyIn * InFlight + 0
    BY <1>3, FlightTimes
  <2>5. amount \in Int /\ -amount \in Int
    BY <2>2
  <2>6. Surplus' = Surplus + (amount + 0 + (-amount))
    BY <2>1, <2>3, <2>4, <2>5, NoClaim
  <2> QED
    BY <1>1, <2>5, <2>6
<1> QED
  BY <1>2, <1>4, <1>5

(* Unless chips were minted, the payouts empty the pot.                    *)
LEMMA SettledBalances ==
  ASSUME GameInv, BooksKept, NEW r \in Requests, MarkSettled(r), ~ChipsMinted
  PROVE  Surplus' = Surplus
<1>1. /\ Untouched /\ request[r].at = "pay" /\ game'.settled # NotSettled
      /\ request'[r].at \in {"recheck", "idle"}
      /\ \A q \in Requests \ {r} : request'[q].at = request[q].at
  BY MarkSettledKeeps
<1>2. InFlight' = InFlight
  BY <1>1, FlightSame DEF Flying
<1>3. /\ GameKept /\ game.started /\ game.settled = NotSettled
      /\ game.paid = Total(Due)
  BY SettledIsPaid DEF GameInv, GameKept
<1>4. /\ Total(Due) \in Nat
      /\ Total(Due) = BuyIn * Cardinality(Seats)
  BY <1>3, DueAddsUp
<1>5. Pot = 0
  BY <1>3, <1>4 DEF Pot
<1>6. Pot' = 0
  BY <1>1 DEF Pot
<1> QED
  BY <1>1, <1>2, <1>5, <1>6, NothingMoves

(* A restart loses what was in the pot or on its way, if anything.         *)
LEMMA RestartLoses ==
  ASSUME GameInv, BooksKept, Restart, ~ChipsMinted
  PROVE  Surplus' \in Int /\ Surplus' <= Surplus /\ restarts' # restarts
<1>1. /\ Untouched /\ game' = NewGame /\ restarts' # restarts
      /\ \A q \in Requests : request'[q] = Idle
  BY RestartKeeps
<1>2. /\ GameKept /\ Surplus \in Int /\ Pot \in Int /\ InFlight \in Nat
      /\ BuyIn * InFlight \in Nat /\ Total(balance) \in Nat
      /\ BuyIn * 0 = 0
  BY SurplusType, Numbers DEF GameInv
<1>3. Pot >= 0
  <2>1. BuyIn * Cardinality(Seats) \in Nat /\ game.paid \in Nat
    BY <1>2, SeatsAre, Numbers, OneMore
  <2>2. game.paid <= BuyIn * Cardinality(Seats)
    <3>1. CASE game.over
      <4>1. game.started /\ game.paid <= Total(Due)
        BY <1>2, <3>1 DEF GameKept, BooksKept
      <4> QED
        BY <1>2, <4>1, DueAddsUp
    <3>2. CASE ~game.over
      BY <2>1, <3>2 DEF BooksKept
    <3> QED
      BY <3>1, <3>2
  <2> QED
    BY <2>1, <2>2 DEF Pot
<1>4. Pot' = 0
  <2>1. Seats' = {} /\ game'.settled = NotSettled /\ game'.paid = 0
    BY <1>1 DEF Seats, NewGame
  <2>2. Cardinality(Seats') = 0
    BY <2>1, FS_EmptySet
  <2> QED
    BY <1>2, <2>1, <2>2 DEF Pot
<1>5. InFlight' = 0
  <2>1. {q \in Requests : request'[q].at \in {"register", "refund"}} = {}
    BY <1>1, IdleWaits
  <2> QED
    BY <2>1, FS_EmptySet DEF InFlight
<1> DEFINE p == Pot
           f == BuyIn * InFlight
<1>6. /\ UNCHANGED <<claims, erased>>
      /\ Total(balance') + erased' = Total(balance) + erased + 0
      /\ Pot' = Pot + (-p)
      /\ BuyIn * InFlight' = BuyIn * InFlight + (-f)
      /\ FaucetAmount * claims' = FaucetAmount * claims + 0
  BY <1>1, <1>2, <1>4, <1>5, SurplusType DEF Untouched, moneyVars
<1>7. p \in Int /\ f \in Int /\ p >= 0 /\ f >= 0
  BY <1>2, <1>3
<1> HIDE DEF p, f
<1>8. -p \in Int /\ -f \in Int
  BY <1>7
<1>9. Surplus' = Surplus + 0 + (-f) + (-p) - 0
  BY <1>6, <1>8, Flow
<1> QED
  BY <1>1, <1>2, <1>7, <1>9

LEMMA MoneyStep ==
  ASSUME GameInv, BooksKept, [Next]_vars
  PROVE  \/ Surplus' = Surplus
         \/ Surplus' < Surplus /\ <<failures, restarts>>' # <<failures, restarts>>
         \/ ChipsMinted
<1> DEFINE Goal == \/ Surplus' = Surplus
                   \/ /\ Surplus' < Surplus
                      /\ <<failures, restarts>>' # <<failures, restarts>>
                   \/ ChipsMinted
<1> SUFFICES Goal
  OBVIOUS
<1> HIDE DEF Goal
<1>1. Surplus \in Int
  BY SurplusType
<1>2. CASE \/ \E u \in Users : Claim(u)
           \/ \E r \in Requests : GrantFirst(r)
  BY <1>2, ClaimsBalance DEF Goal
<1>3. ASSUME NEW r \in Requests,
             \/ \E u \in Users : FirstClaim(r, u) \/ Join(r, u)
             \/ DebitBuyIn(r) \/ Register(r) \/ Refund(r)
      PROVE  Goal
  BY <1>3, JoiningBalances DEF Goal
<1>4. CASE Start
  <2>1. /\ game' = [game EXCEPT !.started = TRUE] /\ request' = request
        /\ game \in Games /\ Untouched
    BY <1>4, StartKeeps DEF GameInv, GameKept
  <2>2. /\ game'.players = game.players /\ game'.settled = game.settled
        /\ game'.paid = game.paid
    BY <2>1 DEF Games
  <2> QED
    BY <2>1, <2>2, PotSame, NothingMoves DEF InFlight, Goal
<1>5. ASSUME NEW r \in Requests,
             \/ LastAction(r) \/ Fold(r) \/ \E i \in Seats : Resign(r, i)
             \/ ResignFolds(r) \/ AfterFold(r) \/ AfterHand(r) \/ Recheck(r)
             \/ Announce(r) \/ RecordFails(r)
      PROVE  Goal
  BY <1>5, TableMovesNothing DEF Goal
<1>6. ASSUME NEW r \in Requests, Pay(r) \/ PayFails(r) PROVE Goal
  BY <1>6, PayingBalances DEF Goal
<1>7. ASSUME NEW r \in Requests, MarkSettled(r) PROVE Goal
  BY <1>7, SettledBalances DEF Goal
<1>8. ASSUME NEW r \in Requests, DebitFails(r) \/ RefundFails(r) PROVE Goal
  <2>1. Surplus' \in Int /\ Surplus' <= Surplus /\ failures' # failures
    BY <1>8, FailedJoinLoses
  <2> QED
    BY <1>1, <2>1 DEF Goal
<1>9. CASE Restart
  BY <1>1, <1>9, RestartLoses DEF Goal
<1>10. CASE UNCHANGED <<moneyVars, game, request>>
  BY <1>10 DEF Goal, Surplus, moneyVars, InFlight, Pot, Seats
<1>11. (\E amount \in 0 .. MaxPlayers * StartingChips : Bet(amount))
         \/ UNCHANGED vars
       => UNCHANGED <<moneyVars, game, request>>
  BY DEF Bet, vars, moneyVars
<1>12. CASE \E r \in Requests, u \in Users : FirstClaim(r, u) \/ Join(r, u)
  BY <1>3, <1>12
<1>13. ASSUME NEW r \in Requests, Proceed(r) PROVE Goal
  BY <1>2, <1>3, <1>5, <1>6, <1>7, <1>13 DEF Proceed
<1>14. ASSUME NEW r \in Requests,
              \/ LastAction(r) \/ Fold(r) \/ \E i \in Seats : Resign(r, i)
              \/ DebitFails(r) \/ RefundFails(r) \/ PayFails(r)
              \/ RecordFails(r)
       PROVE  Goal
  BY <1>5, <1>6, <1>8, <1>14
<1> QED
  BY <1>2, <1>4, <1>9, <1>10, <1>11, <1>12, <1>13, <1>14 DEF Next

(* As long as requests do not overlap at the table, credits are neither    *)
(* made nor lost on their way from a balance through a seat to the         *)
(* winners, however joins, refunds, claims and the start of the game       *)
(* interleave; only a failed call or a restart loses any, and only chips   *)
(* minted at the table bring more than was paid in                         *)
(* (game_service.py:88-101, settlement_service.py:26-33, payout.py:25-41). *)
THEOREM CreditsCorrect ==
  ~Overlap => (Spec => MoneyConserved)
<1> DEFINE Moves == \/ Surplus' = Surplus
                    \/ /\ Surplus' < Surplus
                       /\ <<failures, restarts>>' # <<failures, restarts>>
                    \/ ChipsMinted
<1> SUFFICES ASSUME ~Overlap PROVE Spec => MoneyConserved
  OBVIOUS
<1>1. Init => Alone /\ BooksKept
  BY BooksInit
<1>2. GameInv /\ Alone /\ BooksKept /\ [Next]_vars => Alone' /\ BooksKept'
  BY BooksNext
<1>3. GameInv /\ BooksKept /\ [Next]_vars => [Moves]_vars
  BY MoneyStep
<1> QED
  BY <1>1, <1>2, <1>3, GameInvAlways, PTL DEF Spec, MoneyConserved
=============================================================================
