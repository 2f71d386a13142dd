------------------------- MODULE OnchainGameProofs -------------------------
(***************************************************************************)
(* Every safety property of module Escrow holds for any participants, any  *)
(* deposit, any rake and any deadlines, and those of module OnchainGame    *)
(* also for any starting chips, for any number of requests and however     *)
(* many calls fail.  The escrow comes first, by itself; what the server    *)
(* knows of it is always old, so the invariant of the whole only says of   *)
(* the escrow, beside the escrow's own invariant, what cannot be undone.   *)
(***************************************************************************)
EXTENDS OnchainGame, TotalsProofs, SequenceTheorems

(* Claims only come from a settlement, and an escrow that is not deployed  *)
(* has no deposits.                                                        *)
Bookkeeping ==
  /\ status # "SETTLED" => failedClaims = Nothing
  /\ status = "NONE" => hasDeposited = {}

EscrowInv ==
  /\ TypeOK
  /\ Solvent
  /\ ActiveIsFullyFunded
  /\ SettlementHonoured
  /\ RefundsAreExact
  /\ Bookkeeping

-----------------------------------------------------------------------------
(* The rake is part of the payout and at most its rate of it.              *)
LEMMA RakeBounds ==
  ASSUME NEW gross \in Nat
  PROVE  /\ Rake(gross) \in Nat
         /\ Net(gross) \in Nat
         /\ MaxBps * Rake(gross) <= RakeBps * gross
<1>1. RakeBps \in Nat /\ RakeBps < 10000
  BY EscrowAssumption DEF MaxBps
<1> DEFINE product == gross * RakeBps
<1>2. product \in Nat /\ product = RakeBps * gross
  BY <1>1
<1>3. product <= gross * 10000
  BY <1>1
<1> HIDE DEF product
<1>4. /\ product \div 10000 \in Nat
      /\ 10000 * (product \div 10000) <= product
      /\ product \div 10000 <= gross
  BY <1>2, <1>3
<1>5. Rake(gross) = product \div 10000
  BY DEF Rake, MaxBps, product
<1> QED
  BY <1>2, <1>4, <1>5 DEF Net, MaxBps

(* So it is for a whole table of payouts.                                  *)
LEMMA RakeOfTotal ==
  ASSUME NEW payouts \in [Participants -> Nat]
  PROVE  /\ Rakes(payouts) \in [Participants -> Nat]
         /\ Total(Rakes(payouts)) * MaxBps <= Total(payouts) * RakeBps
<1> DEFINE rake   == Rakes(payouts)
           scaled == [p \in Participants |-> MaxBps * rake[p]]
           rated  == [p \in Participants |-> RakeBps * payouts[p]]
<1>1. IsFiniteSet(Participants) /\ RakeBps \in Nat /\ MaxBps \in Nat
  BY EscrowAssumption DEF MaxBps
<1>2. rake \in [Participants -> Nat]
  BY RakeBounds DEF Rakes
<1>3. \A p \in Participants : MaxBps * rake[p] <= RakeBps * payouts[p]
  BY RakeBounds DEF Rakes
<1> HIDE DEF rake
<1>4. scaled \in [Participants -> Nat] /\ rated \in [Participants -> Nat]
  BY <1>1, <1>2
<1>5. \A p \in Participants : scaled[p] <= rated[p]
  BY <1>3
<1>6. Total(scaled) = MaxBps * Total(rake)
  BY <1>1, <1>2, TotalScale
<1>7. Total(rated) = RakeBps * Total(payouts)
  BY <1>1, TotalScale
<1>8. Total(rake) \in Nat /\ Total(payouts) \in Nat
  BY <1>1, <1>2, TotalType
<1> HIDE DEF scaled, rated
<1>9. Total(scaled) <= Total(rated)
  BY <1>1, <1>4, <1>5, TotalMonotone
<1>10. Total(rake) * MaxBps <= Total(payouts) * RakeBps
  BY <1>1, <1>6, <1>7, <1>8, <1>9
<1> QED
  BY <1>2, <1>10 DEF rake

(* What a settlement transfers, what it keeps as claims and the rake add   *)
(* up to the payouts.                                                      *)
LEMMA PayoutsSplit ==
  ASSUME NEW payouts \in [Participants -> Nat],
         NEW failing \in SUBSET Participants
  PROVE  /\ Paid(payouts, failing) \in [Participants -> Nat]
         /\ Owed(payouts, failing) \in [Participants -> Nat]
         /\ \A p \in Participants :
              Paid(payouts, failing)[p] + Owed(payouts, failing)[p]
                = Net(payouts[p])
         /\ Total(payouts) = Total(Paid(payouts, failing))
                             + Total(Owed(payouts, failing))
                             + Total(Rakes(payouts))
<1> DEFINE paid == Paid(payouts, failing)
           owed == Owed(payouts, failing)
           rake == Rakes(payouts)
           nets == [p \in Participants |-> paid[p] + owed[p]]
<1>1. IsFiniteSet(Participants)
  BY EscrowAssumption
<1>2. ASSUME NEW p \in Participants
      PROVE  /\ payouts[p] \in Nat
             /\ Net(payouts[p]) \in Nat
             /\ Rake(payouts[p]) \in Nat
             /\ payouts[p] = Net(payouts[p]) + Rake(payouts[p])
  <2>1. payouts[p] \in Nat
    OBVIOUS
  <2>2. Net(payouts[p]) \in Nat /\ Rake(payouts[p]) \in Nat
    BY <2>1, RakeBounds
  <2> QED
    BY <2>1, <2>2 DEF Net
<1>3. /\ paid \in [Participants -> Nat]
      /\ owed \in [Participants -> Nat]
      /\ rake \in [Participants -> Nat]
  BY <1>2 DEF Paid, Owed, Rakes
<1>4. \A p \in Participants : paid[p] + owed[p] = Net(payouts[p])
  BY <1>2 DEF Paid, Owed
<1>5. \A p \in Participants : payouts[p] = Net(payouts[p]) + rake[p]
  BY <1>2 DEF Rakes
<1> HIDE DEF paid, owed, rake
<1>6. nets \in [Participants -> Nat]
  BY <1>3
<1>7. payouts = [p \in Participants |-> nets[p] + rake[p]]
  BY <1>4, <1>5
<1>8. Total(nets) = Total(paid) + Total(owed)
  BY <1>1, <1>3, TotalAdd
<1>9. Total(payouts) = Total(nets) + Total(rake)
  <2> HIDE DEF nets
  <2> QED
    BY <1>1, <1>3, <1>6, <1>7, TotalAdd
<1>10. Total(payouts) = Total(paid) + Total(owed) + Total(rake)
  BY <1>8, <1>9
<1> QED
  BY <1>3, <1>4, <1>10 DEF paid, owed, rake

-----------------------------------------------------------------------------
(* The initial state.                                                      *)
LEMMA InitSafe == Init => EscrowInv
<1> SUFFICES ASSUME Init PROVE EscrowInv
  OBVIOUS
<1>1. Nothing \in [Participants -> Nat]
  BY DEF Nothing
<1>2. Total(Nothing) = 0
  BY TotalOfZeros DEF Nothing
<1>3. Cardinality({}) = 0
  BY FS_EmptySet
<1>4. TypeOK
  BY <1>1, EscrowAssumption DEF Init, TypeOK
<1>5. Solvent
  BY <1>3, EscrowAssumption DEF Init, Solvent
<1>6. ActiveIsFullyFunded
  BY <1>3, EscrowAssumption DEF Init, ActiveIsFullyFunded
<1>7. SettlementHonoured
  BY DEF Init, SettlementHonoured
<1>8. RefundsAreExact
  <2>1. \A p \in Participants : received[p] = 0
    BY DEF Init, Nothing
  <2>2. vault + Total(received) = DepositAmount * depositCount + gifts
    BY <1>2, EscrowAssumption DEF Init
  <2> QED
    BY <2>1, <2>2 DEF Init, RefundsAreExact
<1>9. Bookkeeping
  BY DEF Init, Bookkeeping
<1> QED
  BY <1>4, <1>5, <1>6, <1>7, <1>8, <1>9 DEF EscrowInv

(* Facts about the state that every step uses.                             *)
LEMMA Typed ==
  ASSUME EscrowInv
  PROVE  /\ IsFiniteSet(Participants) /\ IsFiniteSet(hasDeposited)
         /\ Cardinality(hasDeposited) \in Nat
         /\ Cardinality(Participants) \in Nat
         /\ DepositAmount \in Nat \ {0}
         /\ vault \in Nat /\ gifts \in Nat /\ raked \in Nat
         /\ depositCount \in Nat
         /\ received \in [Participants -> Nat]
         /\ failedClaims \in [Participants -> Nat]
         /\ settlement \in [Participants -> Nat]
         /\ Total(received) \in Nat /\ Total(failedClaims) \in Nat
<1>1. /\ hasDeposited \subseteq Participants
      /\ received \in [Participants -> Nat]
      /\ failedClaims \in [Participants -> Nat]
      /\ settlement \in [Participants -> Nat]
      /\ vault \in Nat /\ gifts \in Nat /\ raked \in Nat
      /\ depositCount \in Nat
  BY EscrowAssumption DEF EscrowInv, TypeOK
<1>2. IsFiniteSet(Participants) /\ DepositAmount \in Nat \ {0}
  BY EscrowAssumption
<1>3. IsFiniteSet(hasDeposited)
  BY <1>1, <1>2, FS_Subset
<1>4. /\ Cardinality(hasDeposited) \in Nat
      /\ Cardinality(Participants) \in Nat
  BY <1>2, <1>3, FS_CardinalityType
<1>5. Total(received) \in Nat /\ Total(failedClaims) \in Nat
  BY <1>1, <1>2, TotalType
<1> QED
  BY <1>1, <1>2, <1>3, <1>4, <1>5
-----------------------------------------------------------------------------
(* Time passes.                                                            *)
LEMMA TickSafe ==
  ASSUME EscrowInv, Tick
  PROVE  EscrowInv'
<1>1. TypeOK'
  BY EscrowAssumption DEF EscrowInv, TypeOK, Tick
<1>2. Solvent' /\ ActiveIsFullyFunded' /\ SettlementHonoured'
  BY DEF EscrowInv, Tick, Solvent, ActiveIsFullyFunded, SettlementHonoured,
         Net, Rake
<1>3. RefundsAreExact' /\ Bookkeeping'
  BY DEF EscrowInv, Tick, RefundsAreExact, Bookkeeping, Nothing
<1> QED
  BY <1>1, <1>2, <1>3 DEF EscrowInv

(* Tokens come in that are no deposit.                                     *)
LEMMA GiftSafe ==
  ASSUME EscrowInv, Gift
  PROVE  EscrowInv'
<1> USE Typed
<1>1. TypeOK'
  BY EscrowAssumption DEF EscrowInv, TypeOK, Gift
<1>2. Solvent'
  BY DEF EscrowInv, Gift, Solvent
<1>3. ActiveIsFullyFunded'
  BY DEF EscrowInv, Gift, ActiveIsFullyFunded
<1>4. SettlementHonoured' /\ Bookkeeping'
  BY DEF EscrowInv, Gift, SettlementHonoured, Bookkeeping, Net, Rake, Nothing
<1>5. RefundsAreExact'
  BY DEF EscrowInv, Gift, RefundsAreExact
<1> QED
  BY <1>1, <1>2, <1>3, <1>4, <1>5 DEF EscrowInv

-----------------------------------------------------------------------------
(* A deposit, the first one or a later one.                                *)
LEMMA DepositSafe ==
  ASSUME EscrowInv, NEW p \in Participants \ hasDeposited,
         NEW arrived \in 0 .. DepositAmount,
         status \in {"NONE", "FUNDING"},
         TakeIn(arrived), RecordDeposit(p),
         UNCHANGED <<now, failedClaims, received, raked, gifts, settlement>>
  PROVE  EscrowInv'
<1> USE Typed
<1>1. /\ vault' = vault + DepositAmount
      /\ hasDeposited' = hasDeposited \cup {p}
      /\ depositCount' = depositCount + 1
      /\ status' = IF depositCount' = Cardinality(Participants)
                   THEN "ACTIVE" ELSE "FUNDING"
  BY DEF TakeIn, RecordDeposit
<1>2. Cardinality(hasDeposited') = Cardinality(hasDeposited) + 1
  BY <1>1, FS_AddElement
<1>3. hasDeposited' \subseteq Participants
  BY <1>1 DEF EscrowInv, TypeOK
<1>4. TypeOK'
  BY <1>1, <1>3 DEF EscrowInv, TypeOK
<1>5. depositCount' = Cardinality(hasDeposited')
  BY <1>1, <1>2 DEF EscrowInv, ActiveIsFullyFunded
<1>6. DepositAmount * Cardinality(hasDeposited')
        = DepositAmount * Cardinality(hasDeposited) + DepositAmount
  BY <1>2
<1>7. Solvent'
  BY <1>1, <1>6 DEF EscrowInv, Solvent
<1>8. /\ \A q \in Participants : received[q] = 0
      /\ Total(received) = 0
  <2>1. \A q \in Participants : received[q] = 0
    BY DEF EscrowInv, RefundsAreExact
  <2>2. received = [q \in Participants |-> 0]
    BY <2>1
  <2>3. Total(received) = 0
    BY <2>2, TotalOfZeros
  <2> QED
    BY <2>1, <2>3
<1>9. raked = 0 /\ vault = DepositAmount * depositCount + gifts
  BY <1>8 DEF EscrowInv, RefundsAreExact
<1>10. vault' = DepositAmount * depositCount' + gifts
  BY <1>1, <1>9
<1>11. ActiveIsFullyFunded'
  <2>1. CASE depositCount' = Cardinality(Participants)
    <3>1. hasDeposited' = Participants
      BY <2>1, <1>3, <1>5, FS_Subset
    <3> QED
      BY <1>1, <1>5, <1>10, <2>1, <3>1 DEF ActiveIsFullyFunded
  <2>2. CASE depositCount' # Cardinality(Participants)
    <3>1. hasDeposited' # Participants
      BY <1>5, <2>2
    <3> QED
      BY <1>1, <1>5, <2>2, <3>1 DEF ActiveIsFullyFunded
  <2> QED
    BY <2>1, <2>2
<1>12. SettlementHonoured'
  BY <1>1 DEF SettlementHonoured
<1>13. RefundsAreExact'
  BY <1>1, <1>8, <1>9, <1>10 DEF RefundsAreExact
<1>14. Bookkeeping'
  BY <1>1 DEF EscrowInv, Bookkeeping, Nothing
<1> QED
  BY <1>4, <1>7, <1>11, <1>12, <1>13, <1>14 DEF EscrowInv

-----------------------------------------------------------------------------
(* A settlement.                                                           *)
LEMMA SettleSafe ==
  ASSUME EscrowInv, NEW payouts \in Payouts,
         NEW failing \in SUBSET Participants, Settle(payouts, failing)
  PROVE  EscrowInv'
<1> USE Typed
<1> DEFINE paid == Paid(payouts, failing)
           owed == Owed(payouts, failing)
           rake == Rakes(payouts)
<1>1. payouts \in [Participants -> Nat]
  BY DEF Payouts
<1>2. /\ paid \in [Participants -> Nat]
      /\ owed \in [Participants -> Nat]
      /\ \A p \in Participants : paid[p] + owed[p] = Net(payouts[p])
      /\ Total(payouts) = Total(paid) + Total(owed) + Total(rake)
      /\ Total(paid) \in Nat /\ Total(owed) \in Nat /\ Total(rake) \in Nat
  BY <1>1, PayoutsSplit, RakeOfTotal, TotalType
<1>3. Total(rake) * MaxBps <= Total(payouts) * RakeBps
  BY <1>1, RakeOfTotal
<1>4. /\ status' = "SETTLED" /\ settlement' = payouts
      /\ Total(payouts) = vault
      /\ failedClaims' = [p \in Participants |-> failedClaims[p] + owed[p]]
      /\ received' = [p \in Participants |-> received[p] + paid[p]]
      /\ raked' = raked + Total(rake)
      /\ vault' = vault - Total(paid) - Total(rake)
      /\ UNCHANGED <<now, hasDeposited, depositCount, gifts>>
  BY DEF Settle, Distribute
<1>5. /\ \A p \in Participants : received[p] = 0 /\ failedClaims[p] = 0
      /\ raked = 0
  BY DEF EscrowInv, Settle, RefundsAreExact, Bookkeeping, Nothing
<1> HIDE DEF paid, owed, rake
<1>6. failedClaims' = owed /\ received' = paid /\ raked' = Total(rake)
  <2>1. \A p \in Participants : owed[p] \in Nat /\ paid[p] \in Nat
    BY <1>2
  <2>2. failedClaims' = [p \in Participants |-> owed[p]]
    BY <1>4, <1>5, <2>1
  <2>3. received' = [p \in Participants |-> paid[p]]
    BY <1>4, <1>5, <2>1
  <2> QED
    BY <1>2, <1>4, <1>5, <2>2, <2>3
<1>7. vault' = Total(owed)
  BY <1>2, <1>4
<1>8. TypeOK'
  BY <1>1, <1>2, <1>4, <1>6, <1>7 DEF EscrowInv, TypeOK
<1>9. Solvent'
  BY <1>2, <1>4, <1>6, <1>7 DEF Solvent
<1>10. ActiveIsFullyFunded'
  BY <1>4 DEF ActiveIsFullyFunded
<1>11. SettlementHonoured'
  BY <1>2, <1>3, <1>4, <1>6 DEF SettlementHonoured, Net, Rake
<1>12. RefundsAreExact' /\ Bookkeeping'
  BY <1>4 DEF RefundsAreExact, Bookkeeping
<1> QED
  BY <1>8, <1>9, <1>10, <1>11, <1>12 DEF EscrowInv

(* The claim of a payout that could not be transferred.                    *)
LEMMA ClaimSafe ==
  ASSUME EscrowInv, NEW p \in Participants, ClaimFailed(p)
  PROVE  EscrowInv'
<1> USE Typed
<1>1. /\ status = "SETTLED" /\ status' = "SETTLED"
      /\ failedClaims' = [failedClaims EXCEPT ![p] = 0]
      /\ vault >= failedClaims[p] /\ failedClaims[p] \in Nat
      /\ vault' = vault - failedClaims[p]
      /\ received' = [received EXCEPT ![p] = @ + failedClaims[p]]
      /\ UNCHANGED <<now, hasDeposited, depositCount, raked, gifts,
                     settlement>>
  BY DEF ClaimFailed
<1>2. TypeOK'
  BY <1>1 DEF EscrowInv, TypeOK
<1>3. Total(failedClaims') = Total(failedClaims) - failedClaims[p]
  <2>1. IsFiniteSet(Participants) /\ failedClaims \in [Participants -> Nat]
    OBVIOUS
  <2>2. /\ Total([failedClaims EXCEPT ![p] = 0]) \in Nat
        /\ Total(failedClaims)
             = Total([failedClaims EXCEPT ![p] = 0]) + failedClaims[p]
    BY <2>1, TotalSplit
  <2> QED
    BY <1>1, <2>2
<1>4. Solvent'
  BY <1>1, <1>3 DEF EscrowInv, Solvent
<1>5. ActiveIsFullyFunded'
  BY <1>1 DEF ActiveIsFullyFunded
<1>6. SettlementHonoured'
  <2>1. \A q \in Participants :
          received'[q] + failedClaims'[q] = received[q] + failedClaims[q]
    BY <1>1
  <2> QED
    BY <1>1, <2>1 DEF EscrowInv, SettlementHonoured, Net, Rake
<1>7. RefundsAreExact' /\ Bookkeeping'
  BY <1>1 DEF RefundsAreExact, Bookkeeping
<1> QED
  BY <1>2, <1>4, <1>5, <1>6, <1>7 DEF EscrowInv

-----------------------------------------------------------------------------
(* A deadline has passed.                                                  *)
LEMMA ExpireSafe ==
  ASSUME EscrowInv, Expire
  PROVE  EscrowInv'
<1>1. TypeOK'
  BY DEF EscrowInv, TypeOK, Expire
<1>2. Solvent' /\ ActiveIsFullyFunded' /\ SettlementHonoured'
  BY DEF EscrowInv, Expire, Solvent, ActiveIsFullyFunded, SettlementHonoured
<1>3. RefundsAreExact' /\ Bookkeeping'
  BY DEF EscrowInv, Expire, RefundsAreExact, Bookkeeping, Nothing
<1> QED
  BY <1>1, <1>2, <1>3 DEF EscrowInv

(* A refund.                                                               *)
LEMMA WithdrawSafe ==
  ASSUME EscrowInv, NEW p \in Participants, Withdraw(p)
  PROVE  EscrowInv'
<1> USE Typed
<1>1. /\ status = "EXPIRED" /\ status' = "EXPIRED"
      /\ p \in hasDeposited
      /\ vault >= DepositAmount
      /\ hasDeposited' = hasDeposited \ {p}
      /\ vault' = vault - DepositAmount
      /\ received' = [received EXCEPT ![p] = @ + DepositAmount]
      /\ UNCHANGED <<now, depositCount, failedClaims, raked, gifts,
                     settlement>>
  BY DEF Withdraw
<1>2. TypeOK'
  BY <1>1 DEF EscrowInv, TypeOK
<1>3. Cardinality(hasDeposited') = Cardinality(hasDeposited) - 1
  BY <1>1, FS_RemoveElement
<1>4. DepositAmount * Cardinality(hasDeposited')
        = DepositAmount * Cardinality(hasDeposited) - DepositAmount
  BY <1>3
<1>5. Solvent'
  BY <1>1, <1>4 DEF EscrowInv, Solvent
<1>6. ActiveIsFullyFunded' /\ SettlementHonoured'
  BY <1>1 DEF ActiveIsFullyFunded, SettlementHonoured
<1>7. RefundsAreExact'
  <2>1. /\ raked = 0 /\ received[p] = 0
        /\ vault + Total(received) = DepositAmount * depositCount + gifts
    BY <1>1 DEF EscrowInv, RefundsAreExact
  <2>2. Total(received') = Total(received) + DepositAmount
    <3>1. Total([received EXCEPT ![p] = DepositAmount])
            = Total(received) - received[p] + DepositAmount
      BY TotalUpdate
    <3>2. received' = [received EXCEPT ![p] = DepositAmount]
      <4>1. received[p] + DepositAmount = DepositAmount
        BY <2>1
      <4>2. received' = [received EXCEPT ![p] = received[p] + DepositAmount]
        BY <1>1
      <4> QED
        BY <4>1, <4>2, Zenon
    <3> QED
      BY <2>1, <3>1, <3>2
  <2>3. vault' + Total(received') = DepositAmount * depositCount' + gifts'
    <3> DEFINE deposits == DepositAmount * depositCount
    <3>1. deposits' = deposits /\ gifts' = gifts
      BY <1>1
    <3> HIDE DEF deposits
    <3>2. vault + Total(received) = deposits + gifts
      BY <2>1 DEF deposits
    <3>3. vault' + Total(received') = deposits' + gifts'
      BY <1>1, <2>2, <3>1, <3>2
    <3> QED
      BY <3>3 DEF deposits
  <2>4. \A q \in Participants :
          /\ received'[q] \in {0, DepositAmount}
          /\ q \in hasDeposited' => received'[q] = 0
    BY <1>1, <2>1 DEF EscrowInv, RefundsAreExact
  <2> QED
    BY <1>1, <2>1, <2>3, <2>4 DEF RefundsAreExact
<1>8. Bookkeeping'
  BY <1>1 DEF EscrowInv, Bookkeeping, Nothing
<1> QED
  BY <1>2, <1>5, <1>6, <1>7, <1>8 DEF EscrowInv

-----------------------------------------------------------------------------
(* Every step preserves the invariant.                                     *)
LEMMA StepSafe == EscrowInv /\ [Next]_vars => EscrowInv'
<1> SUFFICES ASSUME EscrowInv, [Next]_vars PROVE EscrowInv'
  OBVIOUS
<1>1. CASE Tick
  BY <1>1, TickSafe
<1>2. CASE Gift
  BY <1>2, GiftSafe
<1>3. ASSUME NEW p \in Participants, NEW arrived \in 0 .. DepositAmount,
             CreateAndDeposit(p, arrived)
      PROVE  EscrowInv'
  <2>1. status = "NONE" /\ p \notin hasDeposited
    BY <1>3 DEF CreateAndDeposit, EscrowInv, Bookkeeping
  <2> QED
    BY <1>3, <2>1, DepositSafe DEF CreateAndDeposit
<1>4. ASSUME NEW p \in Participants, NEW arrived \in 0 .. DepositAmount,
             Deposit(p, arrived)
      PROVE  EscrowInv'
  BY <1>4, DepositSafe DEF Deposit
<1>5. ASSUME NEW payouts \in Payouts, NEW failing \in SUBSET Participants,
             Settle(payouts, failing)
      PROVE  EscrowInv'
  BY <1>5, SettleSafe
<1>6. CASE Expire
  BY <1>6, ExpireSafe
<1>7. ASSUME NEW p \in Participants, Withdraw(p) PROVE EscrowInv'
  BY <1>7, WithdrawSafe
<1>8. ASSUME NEW p \in Participants, ClaimFailed(p) PROVE EscrowInv'
  BY <1>8, ClaimSafe
<1>9. CASE UNCHANGED vars
  BY <1>9 DEF EscrowInv, vars, TypeOK, Solvent, ActiveIsFullyFunded,
              SettlementHonoured, RefundsAreExact, Bookkeeping, Nothing,
              Net, Rake
<1> QED
  BY <1>1, <1>2, <1>3, <1>4, <1>5, <1>6, <1>7, <1>8, <1>9 DEF Next

(* So it holds throughout.                                                 *)
LEMMA AlwaysSafe == Spec => []EscrowInv
<1> QED
  BY InitSafe, StepSafe, PTL DEF Spec

(* Whatever is deposited, given, settled or refunded, every variable keeps *)
(* its type; in particular the balance never goes negative.                *)
THEOREM EscrowTyped == Spec => []TypeOK
<1>1. EscrowInv => TypeOK
  BY DEF EscrowInv
<1> QED
  BY <1>1, AlwaysSafe, PTL

(* The escrow can always pay what it owes (Escrow.sol:303-320).            *)
THEOREM EscrowSolvent == Spec => []Solvent
<1>1. EscrowInv => Solvent
  BY DEF EscrowInv
<1> QED
  BY <1>1, AlwaysSafe, PTL

(* ACTIVE means that the whole pot is in the escrow (Escrow.sol:234-243).  *)
THEOREM ActiveFunded == Spec => []ActiveIsFullyFunded
<1>1. EscrowInv => ActiveIsFullyFunded
  BY DEF EscrowInv
<1> QED
  BY <1>1, AlwaysSafe, PTL

(* A settlement pays everybody exactly what was signed less the rake, and  *)
(* the rake stays within its rate (Escrow.sol:371-400).                    *)
THEOREM SettlementCorrect == Spec => []SettlementHonoured
<1>1. EscrowInv => SettlementHonoured
  BY DEF EscrowInv
<1> QED
  BY <1>1, AlwaysSafe, PTL

(* Without a settlement everybody gets back exactly his deposit, once      *)
(* (Escrow.sol:289-309).                                                   *)
THEOREM RefundsCorrect == Spec => []RefundsAreExact
<1>1. EscrowInv => RefundsAreExact
  BY DEF EscrowInv
<1> QED
  BY <1>1, AlwaysSafe, PTL

-----------------------------------------------------------------------------
(* The game around the escrow.                                             *)

(* A participant whose deposit was once in the escrow: it still is, or it  *)
(* was refunded, or a settlement has paid everything out.                  *)
HasPaid(p) ==
  \/ p \in hasDeposited
  \/ received[p] > 0
  \/ status = "SETTLED"

(* An escrow that expires before the settlement deadline was never full:   *)
(* somebody has neither a deposit in it nor a refund from it.              *)
EarlyExpiry ==
  status = "EXPIRED" /\ now <= SettlementDeadline =>
    \E p \in Participants : p \notin hasDeposited /\ received[p] = 0

Answered == [config : 1 .. Seconds, address : 1 .. Seconds]

Settlements == [escrow : 1 .. Seconds, payouts : [1 .. MaxPlayers -> Nat]]

Waits ==
  [at : {"idle", "attest", "address", "audit", "funding"},
   cfg : 0 .. Seconds, seen : Seq(BOOLEAN)]

Shape ==
  /\ players \in Seq(Participants) /\ Len(players) <= MaxPlayers
  /\ game \in [started : BOOLEAN, over : BOOLEAN,
               chips : [1 .. Len(players) -> Nat]]
  /\ config \in [escrow : 0 .. Seconds, address : 0 .. Seconds,
                 funded : BOOLEAN]
  /\ request \in [Requests -> Waits]
  /\ offers \subseteq Answered
  /\ signed \subseteq Settlements
  /\ deployed \in 0 .. Seconds
  /\ second \in 1 .. Seconds

Seated == \A i, j \in 1 .. Len(players) : players[i] = players[j] => i = j

(* The configuration comes before its address, and that before the         *)
(* deposits; from the first on nobody can join or start any more.          *)
Stages ==
  /\ game.started => config.funded
  /\ game.over => game.started
  /\ config.funded => config.address # Missing
  /\ config.address # Missing => config.escrow # Missing
  /\ config.escrow # Missing => Full

(* A request that waits knows what it waits for, and of every deposit it   *)
(* has seen that it was made.                                              *)
RequestSound(r) ==
  /\ request[r].at # "idle" => Full
  /\ request[r].at # "funding" => request[r].seen = <<>>
  /\ request[r].at \in {"address", "audit"} =>
       request[r].cfg # Missing /\ config.escrow # Missing
  /\ request[r].at = "funding" =>
       /\ config.address # Missing
       /\ Len(request[r].seen) <= Len(players)
       /\ \A i \in 1 .. Len(request[r].seen) :
            request[r].seen[i] => HasPaid(players[i])

(* Somebody is on the way to the address, or never will be.                *)
AddressUnderWay ==
  config.escrow # Missing /\ config.address = Missing /\ failures = 0 =>
    \E r \in Requests : request[r].at = "address"

(* What is signed pays out the buy-ins, unless chips were minted.          *)
ChipsSound ==
  /\ NothingMinted => \A s \in signed : Total(s.payouts) = MaxPlayers * BuyIn
  /\ signed # {} => game.over

ServerInv ==
  /\ Shape
  /\ Seated
  /\ Stages
  /\ \A r \in Requests : RequestSound(r)
  /\ AddressUnderWay
  /\ ChipsSound
  /\ failures \in Nat

OnchainInv ==
  /\ EscrowInv
  /\ EarlyExpiry
  /\ ServerInv
  /\ FundedIsPaid

-----------------------------------------------------------------------------
(* What the constants are.                                                 *)
LEMMA Numbers ==
  /\ IsFiniteSet(Participants)
  /\ MaxPlayers \in Nat \ {0}
  /\ BuyIn \in Nat \ {0} /\ StartingChips \in Nat \ {0}
  /\ Seconds \in Nat \ {0}
<1>1. IsFiniteSet(Participants) /\ Participants # {}
  BY EscrowAssumption
<1>2. Cardinality(Participants) \in Nat /\ Cardinality(Participants) # 0
  BY <1>1, FS_CardinalityType, FS_EmptySet
<1> QED
  BY <1>1, <1>2, EscrowAssumption, OnchainAssumption DEF MaxPlayers, BuyIn

(* A table of numbers with one more at its end.                            *)
LEMMA OneMore ==
  ASSUME NEW n \in Nat, NEW f \in [1 .. n -> Nat], NEW x \in Nat
  PROVE  Append(f, x) \in [1 .. n + 1 -> Nat]
<1>1. f \in Seq(Nat)
  BY SeqDef
<1>2. 1 .. Len(f) = 1 .. n /\ Len(f) \in Nat
  BY <1>1, LenProperties
<1>3. Len(f) = n
  BY <1>2
<1>4. Append(f, x) \in Seq(Nat) /\ Len(Append(f, x)) = n + 1
  BY <1>1, <1>3, AppendProperties
<1> QED
  BY <1>4, LenProperties

(* In a full game every participant sits somewhere.                        *)
LEMMA EverybodySits ==
  ASSUME Shape, Seated, Full, NEW p \in Participants
  PROVE  \E i \in 1 .. Len(players) : players[i] = p
<1>1. /\ Len(players) \in Nat
      /\ players \in [1 .. Len(players) -> Participants]
  BY DEF Shape
<1>2. players \in Injection(1 .. Len(players), Participants)
  BY <1>1, Fun_IsInj DEF Seated
<1>3. Cardinality(1 .. Len(players)) = Cardinality(Participants)
  BY <1>1, FS_Interval DEF Full, MaxPlayers
<1>4. players \in Surjection(1 .. Len(players), Participants)
  BY <1>2, <1>3, FS_Injection, Numbers
<1> QED
  BY <1>4 DEF Surjection

(* A value is part of the total.                                           *)
LEMMA PartOfTotal ==
  ASSUME NEW S, IsFiniteSet(S), NEW f \in [S -> Nat], NEW x \in S
  PROVE  f[x] <= Total(f)
<1>1. /\ Total([f EXCEPT ![x] = 0]) \in Nat
      /\ Total(f) = Total([f EXCEPT ![x] = 0]) + f[x]
  BY TotalSplit
<1>2. f[x] \in Nat
  OBVIOUS
<1> QED
  BY <1>1, <1>2

-----------------------------------------------------------------------------
(* The escrow, whatever it is told.                                        *)

(* The pot was complete once and is not given back before its time.        *)
PotSafe ==
  \/ status = "ACTIVE" /\ hasDeposited = Participants
  \/ status = "SETTLED"
  \/ status = "EXPIRED" /\ now > SettlementDeadline

(* What has been paid stays paid, and so does a complete pot.              *)
LEMMA PaidStaysPaid ==
  ASSUME EscrowInv, [Next]_vars
  PROVE  /\ \A p \in Participants : HasPaid(p) => HasPaid(p)'
         /\ PotSafe => PotSafe'
<1> USE Typed, EscrowAssumption DEF HasPaid, PotSafe
<1>1. now \in Nat /\ SettlementDeadline \in Nat
  BY DEF EscrowInv, TypeOK
<1>2. CASE Tick
  BY <1>1, <1>2 DEF Tick
<1>3. CASE Gift
  BY <1>3 DEF Gift
<1>4. ASSUME NEW p \in Participants, NEW arrived \in 0 .. DepositAmount,
             CreateAndDeposit(p, arrived) \/ Deposit(p, arrived)
      PROVE  /\ \A q \in Participants : HasPaid(q) => HasPaid(q)'
             /\ PotSafe => PotSafe'
  BY <1>4 DEF CreateAndDeposit, Deposit, RecordDeposit
<1>5. ASSUME NEW payouts \in Payouts, NEW failing \in SUBSET Participants,
             Settle(payouts, failing)
      PROVE  /\ \A q \in Participants : HasPaid(q) => HasPaid(q)'
             /\ PotSafe => PotSafe'
  BY <1>5 DEF Settle
<1>6. CASE Expire
  BY <1>6 DEF Expire
<1>7. ASSUME NEW p \in Participants, Withdraw(p)
      PROVE  /\ \A q \in Participants : HasPaid(q) => HasPaid(q)'
             /\ PotSafe => PotSafe'
  <2>1. /\ status = "EXPIRED" /\ status' = "EXPIRED"
        /\ hasDeposited' = hasDeposited \ {p}
        /\ received' = [received EXCEPT ![p] = received[p] + DepositAmount]
        /\ now' = now
    BY <1>7 DEF Withdraw
  <2>2. received'[p] > 0
    BY <2>1
  <2> QED
    BY <2>1, <2>2
<1>8. ASSUME NEW p \in Participants, ClaimFailed(p)
      PROVE  /\ \A q \in Participants : HasPaid(q) => HasPaid(q)'
             /\ PotSafe => PotSafe'
  BY <1>8 DEF ClaimFailed
<1>9. CASE UNCHANGED vars
  BY <1>9 DEF vars
<1> QED
  BY <1>2, <1>3, <1>4, <1>5, <1>6, <1>7, <1>8, <1>9 DEF Next

(* An escrow that expires early has somebody who never paid, and keeps it. *)
LEMMA EarlyExpirySafe ==
  ASSUME EscrowInv, EarlyExpiry, [Next]_vars
  PROVE  EarlyExpiry'
<1> USE Typed, EscrowAssumption DEF EarlyExpiry
<1>1. now \in Nat /\ SettlementDeadline \in Nat
  BY DEF EscrowInv, TypeOK
<1>2. CASE Tick
  BY <1>1, <1>2 DEF Tick
<1>3. CASE Gift
  BY <1>3 DEF Gift
<1>4. ASSUME NEW p \in Participants, NEW arrived \in 0 .. DepositAmount,
             CreateAndDeposit(p, arrived) \/ Deposit(p, arrived)
      PROVE  EarlyExpiry'
  BY <1>4 DEF CreateAndDeposit, Deposit, RecordDeposit
<1>5. ASSUME NEW payouts \in Payouts, NEW failing \in SUBSET Participants,
             Settle(payouts, failing)
      PROVE  EarlyExpiry'
  BY <1>5 DEF Settle
<1>6. CASE Expire
  <2>1. /\ status' = "EXPIRED" /\ UNCHANGED <<now, hasDeposited, received>>
        /\ \/ status = "FUNDING"
           \/ status = "ACTIVE" /\ now > SettlementDeadline
    BY <1>6 DEF Expire
  <2>2. CASE status = "FUNDING"
    <3>1. hasDeposited \subseteq Participants /\ hasDeposited # Participants
      BY <2>2 DEF EscrowInv, TypeOK, ActiveIsFullyFunded
    <3>2. \A p \in Participants : received[p] = 0
      BY <2>2 DEF EscrowInv, RefundsAreExact
    <3> QED
      BY <2>1, <3>1, <3>2
  <2>3. CASE status = "ACTIVE" /\ now > SettlementDeadline
    BY <1>1, <2>1, <2>3
  <2> QED
    BY <2>1, <2>2, <2>3
<1>7. ASSUME NEW p \in Participants, Withdraw(p) PROVE EarlyExpiry'
  <2>1. /\ status = "EXPIRED" /\ p \in hasDeposited
        /\ hasDeposited' = hasDeposited \ {p}
        /\ received' = [received EXCEPT ![p] = received[p] + DepositAmount]
        /\ now' = now
    BY <1>7 DEF Withdraw
  <2>2. SUFFICES ASSUME now <= SettlementDeadline
                 PROVE  \E q \in Participants :
                          q \notin hasDeposited' /\ received'[q] = 0
    BY <2>1
  <2>3. PICK q \in Participants : q \notin hasDeposited /\ received[q] = 0
    BY <2>1, <2>2
  <2> QED
    BY <2>1, <2>3
<1>8. ASSUME NEW p \in Participants, ClaimFailed(p) PROVE EarlyExpiry'
  BY <1>8 DEF ClaimFailed
<1>9. CASE UNCHANGED vars
  BY <1>9 DEF vars
<1> QED
  BY <1>2, <1>3, <1>4, <1>5, <1>6, <1>7, <1>8, <1>9 DEF Next

(* Whoever has seen all deposits, one after the other, knows that the pot  *)
(* was complete at some moment.                                            *)
LEMMA AllPaid ==
  ASSUME EscrowInv, EarlyExpiry, \A p \in Participants : HasPaid(p)
  PROVE  PotSafe
<1> USE Typed, EscrowAssumption DEF HasPaid, PotSafe
<1>1. /\ status \in {"NONE", "FUNDING", "ACTIVE", "SETTLED", "EXPIRED"}
      /\ hasDeposited \subseteq Participants
      /\ now \in Nat /\ SettlementDeadline \in Nat
  BY DEF EscrowInv, TypeOK
<1>2. status \in {"NONE", "FUNDING"} => hasDeposited = Participants
  BY <1>1 DEF EscrowInv, RefundsAreExact
<1>3. status \notin {"NONE", "FUNDING"}
  BY <1>2 DEF EscrowInv, ActiveIsFullyFunded
<1>4. status = "ACTIVE" => hasDeposited = Participants
  BY DEF EscrowInv, ActiveIsFullyFunded
<1>5. status = "EXPIRED" => now > SettlementDeadline
  BY <1>1 DEF EarlyExpiry
<1> QED
  BY <1>1, <1>3, <1>4, <1>5

-----------------------------------------------------------------------------
(* To the escrow everything that happens is a step of its own.             *)

(* What the escrow is given to settle on is a table of payouts.            *)
LEMMA ByWalletType ==
  ASSUME ServerInv, NEW s \in signed
  PROVE  ByWallet(s.payouts) \in [Participants -> Nat]
<1>1. /\ Shape /\ Seated /\ Full
      /\ s.payouts \in [1 .. MaxPlayers -> Nat]
      /\ DOMAIN players = 1 .. Len(players)
  BY DEF ServerInv, Stages, ChipsSound, Shape, Settlements
<1>2. ASSUME NEW p \in Participants
      PROVE  s.payouts[CHOOSE i \in DOMAIN players : players[i] = p] \in Nat
  <2>1. \E i \in DOMAIN players : players[i] = p
    BY <1>1, EverybodySits
  <2>2. (CHOOSE i \in DOMAIN players : players[i] = p) \in 1 .. MaxPlayers
    BY <1>1, <2>1 DEF Full
  <2> QED
    BY <1>1, <2>2
<1> QED
  BY <1>2 DEF ByWallet

LEMMA EscrowStep ==
  ASSUME ServerInv, [OnchainNext]_onchainVars
  PROVE  [Next]_vars
<1>1. ASSUME NEW p \in Participants, Deploy(p) \/ Follow(p)
      PROVE  Next
  <2>1. DepositAmount \in 0 .. DepositAmount
    BY EscrowAssumption
  <2>2. CreateAndDeposit(p, DepositAmount) \/ Deposit(p, DepositAmount)
    BY <1>1 DEF Deploy, Follow
  <2> QED
    BY <2>1, <2>2 DEF Next
<1>2. ASSUME NEW failing \in SUBSET Participants, SubmitSettlement(failing)
      PROVE  Next
  <2>1. PICK s \in signed : Settle(ByWallet(s.payouts), failing)
    BY <1>2 DEF SubmitSettlement
  <2> DEFINE payouts == ByWallet(s.payouts)
  <2>2. payouts \in [Participants -> Nat]
    BY ByWalletType
  <2>3. Total(payouts) = vault
    BY <2>1 DEF Settle
  <2>4. Settle(payouts, failing)
    BY <2>1
  <2> HIDE DEF payouts
  <2>5. ASSUME NEW p \in Participants PROVE payouts[p] \in 0 .. vault
    <3>1. payouts[p] \in Nat /\ payouts[p] <= Total(payouts)
          /\ Total(payouts) \in Nat
      BY <2>2, PartOfTotal, TotalType, Numbers
    <3> QED
      BY <2>3, <3>1
  <2>6. payouts \in Payouts
    BY <2>2, <2>3, <2>5 DEF Payouts
  <2> QED
    BY <2>4, <2>6 DEF Next
<1>3. CASE OtherTransaction
  BY <1>3 DEF OtherTransaction, TimePasses, Next
<1>4. CASE UNCHANGED onchainVars
  BY <1>4 DEF onchainVars
<1>5. ASSUME NEW p \in Participants, Join(p)
      PROVE  UNCHANGED vars
  BY <1>5 DEF Join, escrowVars
<1>6. CASE Start \/ GameOver \/ SignSettlement
  BY <1>6 DEF Start, GameOver, SignSettlement, escrowVars
<1>7. ASSUME NEW r \in Requests,
             \/ AskEscrow(r) \/ Build(r) \/ TakeAddress(r) \/ Answer(r)
             \/ AskFunding(r) \/ ReadDeposit(r) \/ Confirm(r)
             \/ CallFails(r)
      PROVE  UNCHANGED vars
  BY <1>7 DEF AskEscrow, Build, TakeAddress, Answer, AskFunding, ReadDeposit,
              Confirm, CallFails, escrowVars
<1> QED
  BY <1>1, <1>2, <1>3, <1>4, <1>5, <1>6, <1>7 DEF OnchainNext

-----------------------------------------------------------------------------
(* The lobby.                                                              *)

LEMMA InitSound == OnchainInit => OnchainInv
<1> SUFFICES ASSUME OnchainInit PROVE OnchainInv
  OBVIOUS
<1> USE DEF OnchainInit
<1>1. EscrowInv
  BY InitSafe
<1>2. EarlyExpiry /\ FundedIsPaid
  BY DEF Init, EarlyExpiry, FundedIsPaid
<1>3. Shape
  <2>1. Idle \in Waits
    BY Numbers DEF Idle, Waits, Missing
  <2> QED
    BY <2>1, Numbers DEF Shape, Missing
<1>4. Seated /\ Stages /\ ChipsSound /\ failures \in Nat
  BY DEF Seated, Stages, ChipsSound
<1>5. \A r \in Requests : RequestSound(r)
  BY DEF RequestSound, Idle
<1>6. AddressUnderWay
  BY DEF AddressUnderWay
<1> QED
  BY <1>1, <1>2, <1>3, <1>4, <1>5, <1>6 DEF OnchainInv, ServerInv

(* Nobody joins a full game, or twice.                                     *)
LEMMA JoinSound ==
  ASSUME OnchainInv, NEW p \in Participants, Join(p)
  PROVE  ServerInv' /\ config' = config
<1> USE Numbers DEF OnchainInv, ServerInv
<1> DEFINE n == Len(players)
<1>1. /\ players \in Seq(Participants) /\ n \in Nat /\ n <= MaxPlayers
      /\ n # MaxPlayers /\ ~game.started
      /\ \A i \in 1 .. n : players[i] # p
      /\ players' = Append(players, p)
      /\ game' = [game EXCEPT !.chips = Append(game.chips, StartingChips)]
      /\ UNCHANGED <<escrowVars, config, request, offers, signed, deployed,
                     second, failures>>
  BY DEF Join, Shape, Full
<1>2. /\ players' \in Seq(Participants) /\ Len(players') = n + 1
      /\ players'[n + 1] = p
      /\ \A i \in 1 .. n : players'[i] = players[i]
  BY <1>1, AppendProperties
<1>3. game'.chips \in [1 .. n + 1 -> Nat]
  <2>1. game.chips \in [1 .. n -> Nat]
    BY DEF Shape
  <2>2. Append(game.chips, StartingChips) \in [1 .. n + 1 -> Nat]
    BY <1>1, <2>1, OneMore
  <2> QED
    BY <1>1, <2>2 DEF Shape
<1>4. ~game.over /\ ~config.funded /\ config.address = Missing
      /\ config.escrow = Missing
  BY <1>1 DEF Stages, Full
<1>5. \A r \in Requests : request[r].at = "idle"
  BY <1>1 DEF RequestSound, Full
<1>6. Shape'
  <2>1. game' \in [started : BOOLEAN, over : BOOLEAN,
                   chips : [1 .. Len(players') -> Nat]]
    BY <1>1, <1>2, <1>3 DEF Shape
  <2>2. Len(players') <= MaxPlayers
    BY <1>1, <1>2
  <2> QED
    BY <1>1, <1>2, <2>1, <2>2 DEF Shape
<1>7. Seated'
  BY <1>1, <1>2 DEF Seated
<1>8. Stages'
  BY <1>1, <1>4 DEF Stages, Shape
<1>9. ASSUME NEW r \in Requests PROVE RequestSound(r)'
  BY <1>1, <1>5 DEF RequestSound
<1>10. AddressUnderWay' /\ ChipsSound'
  BY <1>1, <1>4 DEF AddressUnderWay, ChipsSound, NothingMinted, Shape
<1> QED
  BY <1>1, <1>6, <1>7, <1>8, <1>9, <1>10

(* The game starts, and ends with any distribution of chips.               *)
LEMMA StartSound ==
  ASSUME OnchainInv, Start
  PROVE  ServerInv' /\ config' = config
<1> USE Numbers DEF OnchainInv, ServerInv
<1>1. /\ config.funded
      /\ game' = [game EXCEPT !.started = TRUE]
      /\ UNCHANGED <<escrowVars, players, config, request, offers, signed,
                     deployed, second, failures>>
  BY DEF Start
<1>2. Shape'
  BY <1>1 DEF Shape
<1>3. Seated' /\ AddressUnderWay'
  BY <1>1 DEF Seated, AddressUnderWay
<1>4. Stages' /\ ChipsSound'
  BY <1>1 DEF Stages, Full, ChipsSound, NothingMinted, Shape
<1>5. ASSUME NEW r \in Requests PROVE RequestSound(r)'
  BY <1>1 DEF RequestSound, Full, HasPaid, escrowVars, vars
<1> QED
  BY <1>1, <1>2, <1>3, <1>4, <1>5

LEMMA GameOverSound ==
  ASSUME OnchainInv, GameOver
  PROVE  ServerInv' /\ config' = config
<1> USE Numbers DEF OnchainInv, ServerInv
<1>1. PICK chips \in [DOMAIN players -> Stacks] :
        game' = [game EXCEPT !.over = TRUE, !.chips = chips]
  BY DEF GameOver
<1>2. /\ game.started /\ ~game.over
      /\ UNCHANGED <<escrowVars, players, config, request, offers, signed,
                     deployed, second, failures>>
  BY DEF GameOver
<1>3. chips \in [1 .. Len(players) -> Nat]
  <2>1. DOMAIN players = 1 .. Len(players) /\ Stacks \subseteq Nat
    BY DEF Shape, Stacks
  <2> QED
    BY <2>1
<1>4. Shape'
  BY <1>1, <1>2, <1>3 DEF Shape
<1>5. Seated' /\ AddressUnderWay'
  BY <1>2 DEF Seated, AddressUnderWay
<1>6. Stages' /\ ChipsSound'
  BY <1>1, <1>2 DEF Stages, Full, ChipsSound, Shape
<1>7. ASSUME NEW r \in Requests PROVE RequestSound(r)'
  BY <1>2 DEF RequestSound, Full, HasPaid, escrowVars, vars
<1> QED
  BY <1>2, <1>4, <1>5, <1>6, <1>7

-----------------------------------------------------------------------------
(* Requests.                                                               *)

(* A step of one request that leaves the configuration alone: it is sound  *)
(* if that request is, and if one that was to bring the address only       *)
(* leaves with a failure.                                                  *)
LEMMA RequestStep ==
  ASSUME OnchainInv, NEW r \in Requests, NEW w \in Waits,
         request' = [request EXCEPT ![r] = w],
         UNCHANGED <<vars, players, game, config, signed, deployed, second>>,
         offers' \subseteq Answered,
         failures' \in Nat,
         RequestSound(r)',
         \/ failures' = failures /\ request[r].at # "address"
         \/ failures' > 0
  PROVE  ServerInv'
<1> USE DEF OnchainInv, ServerInv
<1>1. Shape'
  BY DEF Shape
<1>2. Seated' /\ Stages' /\ ChipsSound'
  BY DEF Seated, Stages, Full, ChipsSound, NothingMinted
<1>3. ASSUME NEW q \in Requests PROVE RequestSound(q)'
  <2>1. CASE q # r
    <3>1. request'[q] = request[q]
      BY <2>1 DEF Shape
    <3> QED
      BY <3>1 DEF RequestSound, Full, HasPaid, vars
  <2> QED
    BY <2>1
<1>4. AddressUnderWay'
  <2>1. SUFFICES ASSUME config.escrow # Missing, config.address = Missing,
                        failures' = 0
                 PROVE  \E q \in Requests : request'[q].at = "address"
    BY DEF AddressUnderWay
  <2>2. PICK q \in Requests : request[q].at = "address"
    BY <2>1 DEF AddressUnderWay
  <2>3. q # r
    BY <2>1, <2>2
  <2>4. request'[q] = request[q]
    BY <2>3 DEF Shape
  <2> QED
    BY <2>2, <2>4
<1> QED
  BY <1>1, <1>2, <1>3, <1>4

LEMMA IdleIs == Idle \in Waits /\ Idle.at = "idle" /\ Idle.seen = <<>>
BY Numbers DEF Idle, Waits, Missing

LEMMA AskEscrowSound ==
  ASSUME OnchainInv, NEW r \in Requests, AskEscrow(r)
  PROVE  ServerInv' /\ config' = config
<1> USE DEF OnchainInv, ServerInv
<1> DEFINE w == IF config.escrow = Missing
                  THEN [Idle EXCEPT !.at = "attest"]
                  ELSE [Idle EXCEPT !.at = "audit", !.cfg = config.escrow]
<1>1. /\ request[r] = Idle /\ Full
      /\ request' = [request EXCEPT ![r] = w]
      /\ UNCHANGED <<vars, players, game, config, signed, deployed, second,
                     offers, failures>>
  BY DEF AskEscrow, escrowVars, serverVars
<1>2. config.escrow \in 0 .. Seconds
  BY DEF Shape
<1>3. w \in Waits
  BY <1>2, IdleIs DEF Waits, Idle
<1>4. request'[r] = w
  BY <1>1 DEF Shape
<1>5. /\ w.seen = <<>> /\ w.at # "funding"
      /\ w.at = "audit" => w.cfg # Missing /\ config.escrow # Missing
      /\ w.at \in {"attest", "audit"}
  BY DEF Idle
<1>6. RequestSound(r)'
  BY <1>1, <1>4, <1>5 DEF RequestSound, Full
<1>7. request[r].at # "address" /\ offers' \subseteq Answered
  BY <1>1, IdleIs DEF Shape
<1> HIDE DEF w
<1> QED
  BY <1>1, <1>3, <1>6, <1>7, RequestStep

LEMMA AnswerSound ==
  ASSUME OnchainInv, NEW r \in Requests, Answer(r)
  PROVE  ServerInv' /\ config' = config
<1> USE DEF OnchainInv, ServerInv
<1>1. /\ request[r].at = "audit"
      /\ request' = [request EXCEPT ![r] = Idle]
      /\ UNCHANGED <<vars, players, game, config, signed, deployed, second,
                     failures>>
  BY DEF Answer, Done, escrowVars
<1>2. offers' \subseteq Answered
  <2>1. /\ request[r].cfg \in 1 .. Seconds
        /\ config.address # Missing => config.address \in 1 .. Seconds
    BY <1>1, Numbers DEF RequestSound, Shape, Waits, Missing
  <2>2. \/ offers' = offers
        \/ /\ config.address # Missing
           /\ offers' = offers \cup {[config |-> request[r].cfg,
                                      address |-> config.address]}
    BY DEF Answer
  <2> QED
    BY <2>1, <2>2 DEF Shape, Answered
<1>3. request'[r] = Idle
  BY <1>1 DEF Shape
<1>4. RequestSound(r)'
  BY <1>3, IdleIs DEF RequestSound
<1> QED
  BY <1>1, <1>2, <1>4, IdleIs, RequestStep

LEMMA CallFailsSound ==
  ASSUME OnchainInv, NEW r \in Requests, CallFails(r)
  PROVE  ServerInv' /\ config' = config
<1> USE DEF OnchainInv, ServerInv
<1>1. /\ request' = [request EXCEPT ![r] = Idle]
      /\ failures' = failures + 1
      /\ UNCHANGED <<vars, players, game, config, signed, deployed, second,
                     offers>>
  BY DEF CallFails, Done, escrowVars, serverVars
<1>2. request'[r] = Idle
  BY <1>1 DEF Shape
<1>3. RequestSound(r)'
  BY <1>2, IdleIs DEF RequestSound
<1>4. failures' \in Nat /\ failures' > 0 /\ offers' \subseteq Answered
  BY <1>1 DEF Shape
<1> QED
  BY <1>1, <1>3, <1>4, IdleIs, RequestStep

LEMMA BuildSound ==
  ASSUME OnchainInv, NEW r \in Requests, Build(r)
  PROVE  ServerInv' /\ config'.funded = config.funded
<1> USE DEF OnchainInv, ServerInv
<1>1. PICK t \in second .. Seconds :
        /\ second' = t
        /\ config' = [config EXCEPT !.escrow = t]
        /\ request' = [request EXCEPT ![r].at = "address", ![r].cfg = t]
  BY DEF Build
<1>2. /\ request[r].at = "attest"
      /\ UNCHANGED <<vars, players, game, offers, signed, deployed, failures>>
  BY DEF Build, escrowVars
<1>3. t \in 1 .. Seconds /\ t \in 0 .. Seconds /\ t # Missing
  BY Numbers DEF Shape, Missing
<1>4. Full /\ request[r].seen = <<>>
  BY <1>2 DEF RequestSound
<1>5. /\ request' \in [Requests -> Waits]
      /\ request'[r].at = "address" /\ request'[r].cfg = t
      /\ request'[r].seen = <<>>
      /\ \A q \in Requests \ {r} : request'[q] = request[q]
  BY <1>1, <1>3, <1>4 DEF Shape, Waits
<1>6. config' \in [escrow : 0 .. Seconds, address : 0 .. Seconds,
                   funded : BOOLEAN]
      /\ config'.escrow = t /\ config'.address = config.address
      /\ config'.funded = config.funded
  BY <1>1, <1>3 DEF Shape
<1>7. Shape'
  BY <1>1, <1>2, <1>3, <1>5, <1>6 DEF Shape
<1>8. Seated' /\ ChipsSound'
  BY <1>2 DEF Seated, ChipsSound, NothingMinted
<1>9. Stages'
  BY <1>2, <1>3, <1>4, <1>6 DEF Stages, Full
<1>10. ASSUME NEW q \in Requests PROVE RequestSound(q)'
  <2>1. CASE q = r
    BY <1>2, <1>3, <1>4, <1>5, <1>6, <2>1 DEF RequestSound, Full
  <2>2. CASE q # r
    <3>1. request'[q] = request[q]
      BY <1>5, <2>2
    <3> QED
      BY <1>2, <1>3, <1>6, <3>1 DEF RequestSound, Full, HasPaid, vars
  <2> QED
    BY <2>1, <2>2
<1>11. AddressUnderWay'
  BY <1>5 DEF AddressUnderWay
<1> QED
  BY <1>2, <1>6, <1>7, <1>8, <1>9, <1>10, <1>11

LEMMA TakeAddressSound ==
  ASSUME OnchainInv, NEW r \in Requests, TakeAddress(r)
  PROVE  ServerInv' /\ config'.funded = config.funded
<1> USE DEF OnchainInv, ServerInv
<1>1. /\ request[r].at = "address"
      /\ config' = [config EXCEPT !.address = request[r].cfg]
      /\ request' = [request EXCEPT ![r].at = "audit",
                                    ![r].cfg = config.escrow]
      /\ UNCHANGED <<vars, players, game, offers, signed, deployed, second,
                     failures>>
  BY DEF TakeAddress, StoreAddress, escrowVars
<1>2. /\ request[r].cfg \in 0 .. Seconds /\ request[r].cfg # Missing
      /\ config.escrow \in 0 .. Seconds /\ config.escrow # Missing
      /\ Full /\ request[r].seen = <<>>
  BY <1>1 DEF Shape, Waits, RequestSound
<1>3. /\ request' \in [Requests -> Waits]
      /\ request'[r].at = "audit" /\ request'[r].cfg = config.escrow
      /\ request'[r].seen = <<>>
      /\ \A q \in Requests \ {r} : request'[q] = request[q]
  BY <1>1, <1>2 DEF Shape, Waits
<1>4. config' \in [escrow : 0 .. Seconds, address : 0 .. Seconds,
                   funded : BOOLEAN]
      /\ config'.escrow = config.escrow /\ config'.address # Missing
      /\ config'.funded = config.funded
  BY <1>1, <1>2 DEF Shape
<1>5. Shape'
  BY <1>1, <1>3, <1>4 DEF Shape
<1>6. Seated' /\ ChipsSound' /\ AddressUnderWay'
  BY <1>1, <1>4 DEF Seated, ChipsSound, NothingMinted, AddressUnderWay
<1>7. Stages'
  BY <1>1, <1>2, <1>4 DEF Stages, Full
<1>8. ASSUME NEW q \in Requests PROVE RequestSound(q)'
  <2>1. CASE q = r
    BY <1>1, <1>2, <1>3, <1>4, <2>1 DEF RequestSound, Full
  <2>2. CASE q # r
    <3>1. request'[q] = request[q]
      BY <1>3, <2>2
    <3> QED
      BY <1>1, <1>4, <3>1 DEF RequestSound, Full, HasPaid, vars
  <2> QED
    BY <2>1, <2>2
<1> QED
  BY <1>1, <1>4, <1>5, <1>6, <1>7, <1>8

-----------------------------------------------------------------------------
(* The funding.                                                            *)

LEMMA AskFundingSound ==
  ASSUME OnchainInv, NEW r \in Requests, AskFunding(r)
  PROVE  ServerInv' /\ config' = config
<1> USE DEF OnchainInv, ServerInv
<1> DEFINE w == [request[r] EXCEPT !.at = "funding", !.cfg = config.address]
<1>1. /\ request[r] = Idle /\ config.address # Missing
      /\ request' = [request EXCEPT ![r].at = "funding",
                                    ![r].cfg = config.address]
      /\ UNCHANGED <<vars, players, game, config, signed, deployed, second,
                     offers, failures>>
  BY DEF AskFunding, escrowVars, serverVars
<1>2. config.address \in 0 .. Seconds /\ Full
  BY <1>1 DEF Shape, Stages
<1>3. /\ w \in Waits /\ w.seen = <<>> /\ w.at = "funding"
  BY <1>1, <1>2, IdleIs DEF Waits, Idle
<1>4. request' = [request EXCEPT ![r] = w] /\ request'[r] = w
  BY <1>1 DEF Shape, Waits
<1> HIDE DEF w
<1>5. Len(players) \in Nat
  BY DEF Shape
<1>6. RequestSound(r)'
  <2>1. Len(w.seen) = 0
    BY <1>3, EmptySeq
  <2>2. /\ request'[r].at = "funding" /\ Len(request'[r].seen) = 0
        /\ 1 .. Len(request'[r].seen) = {}
    BY <1>3, <1>4, <2>1
  <2>3. Len(request'[r].seen) <= Len(players')
    BY <1>1, <1>5, <2>2
  <2> QED
    BY <1>1, <1>2, <2>2, <2>3 DEF RequestSound, Full
<1>7. request[r].at # "address" /\ offers' \subseteq Answered
  BY <1>1, IdleIs DEF Shape
<1> QED
  BY <1>1, <1>3, <1>4, <1>6, <1>7, RequestStep

(* What a request is told of a deposit stays true in the sense of HasPaid. *)
LEMMA ReadDepositSound ==
  ASSUME OnchainInv, NEW r \in Requests, ReadDeposit(r)
  PROVE  ServerInv' /\ config' = config
<1> USE DEF OnchainInv, ServerInv
<1> DEFINE k == Len(request[r].seen)
           p == players[k + 1]
           told == Append(request[r].seen, p \in hasDeposited)
           w == [request[r] EXCEPT !.seen = told]
<1>1. /\ request[r].at = "funding" /\ k < Len(players)
      /\ UNCHANGED <<vars, players, game, config, signed, deployed, second,
                     offers, failures>>
      /\ \/ request' = [request EXCEPT ![r].seen = told]
         \/ request' = [request EXCEPT ![r] = Idle]
  BY DEF ReadDeposit, Done, escrowVars, serverVars
<1>2. /\ request[r] \in Waits /\ request[r].seen \in Seq(BOOLEAN)
      /\ k \in Nat /\ Len(players) \in Nat
      /\ config.address # Missing /\ Full
      /\ \A i \in 1 .. k : request[r].seen[i] => HasPaid(players[i])
  BY <1>1 DEF Shape, RequestSound, Waits
<1>3. request[r].at # "address" /\ offers' \subseteq Answered
  BY <1>1 DEF Shape
<1>4. CASE request' = [request EXCEPT ![r].seen = told]
  <2>1. /\ told \in Seq(BOOLEAN) /\ Len(told) = k + 1
        /\ told[k + 1] = (p \in hasDeposited)
        /\ \A i \in 1 .. k : told[i] = request[r].seen[i]
    <3>1. (p \in hasDeposited) \in BOOLEAN
      OBVIOUS
    <3> QED
      BY <1>2, <3>1, AppendProperties
  <2> HIDE DEF told
  <2>2. ASSUME NEW i \in 1 .. k + 1, told[i] PROVE HasPaid(players[i])
    <3>1. CASE i = k + 1
      BY <2>1, <2>2, <3>1 DEF HasPaid
    <3>2. CASE i # k + 1
      <4>1. i \in 1 .. k
        BY <1>2, <3>2
      <4>2. told[i] = request[r].seen[i]
        BY <2>1, <4>1
      <4> QED
        BY <1>2, <2>2, <4>1, <4>2
    <3> QED
      BY <3>1, <3>2
  <2>3. w \in Waits /\ w.at = "funding" /\ w.seen = told
    BY <1>1, <1>2, <2>1 DEF Waits
  <2>4. request' = [request EXCEPT ![r] = w] /\ request'[r] = w
    BY <1>4 DEF Shape, Waits
  <2> HIDE DEF w
  <2>5. /\ request'[r].at = "funding" /\ Len(request'[r].seen) = k + 1
        /\ \A i \in 1 .. k + 1 :
             request'[r].seen[i] => HasPaid(players[i])
    BY <2>1, <2>2, <2>3, <2>4
  <2>6. RequestSound(r)'
    BY <1>1, <1>2, <2>5 DEF RequestSound, Full, HasPaid, vars
  <2> QED
    BY <1>1, <1>3, <2>3, <2>4, <2>6, RequestStep
<1>5. CASE request' = [request EXCEPT ![r] = Idle]
  <2>1. request'[r] = Idle
    BY <1>5 DEF Shape
  <2>2. RequestSound(r)'
    BY <2>1, IdleIs DEF RequestSound
  <2> QED
    BY <1>1, <1>3, <1>5, <2>2, IdleIs, RequestStep
<1> QED
  BY <1>1, <1>4, <1>5

(* Only who has seen the deposit of everybody confirms the funding.        *)
LEMMA ConfirmSound ==
  ASSUME OnchainInv, NEW r \in Requests, Confirm(r)
  PROVE  ServerInv' /\ FundedIsPaid'
<1> USE DEF OnchainInv, ServerInv
<1>1. /\ request[r].at = "funding"
      /\ Len(request[r].seen) = Len(players)
      /\ request' = [request EXCEPT ![r] = Idle]
      /\ UNCHANGED <<vars, players, game, offers, signed, deployed, second,
                     failures>>
  BY DEF Confirm, Done, escrowVars
<1>2. \/ config' = config
      \/ /\ AllDeposited(request[r].seen)
         /\ config' = [config EXCEPT !.funded = TRUE]
  BY DEF Confirm
<1>3. CASE config' = config
  <2>1. request'[r] = Idle
    BY <1>1 DEF Shape
  <2>2. RequestSound(r)'
    BY <2>1, IdleIs DEF RequestSound
  <2>3. request[r].at # "address" /\ offers' \subseteq Answered
    BY <1>1 DEF Shape
  <2>4. ServerInv'
    BY <1>1, <1>3, <2>2, <2>3, IdleIs, RequestStep
  <2>5. FundedIsPaid'
    BY <1>1, <1>3 DEF FundedIsPaid, vars
  <2> QED
    BY <2>4, <2>5
<1>4. CASE /\ AllDeposited(request[r].seen)
           /\ config' = [config EXCEPT !.funded = TRUE]
  <2>1. /\ Full /\ config.address # Missing
        /\ \A i \in 1 .. Len(players) : HasPaid(players[i])
    <3>1. DOMAIN request[r].seen = 1 .. Len(request[r].seen)
      <4>1. request[r].seen \in Seq(BOOLEAN)
        BY DEF Shape, Waits
      <4> QED
        BY <4>1
    <3> QED
      BY <1>1, <1>4, <3>1 DEF RequestSound, AllDeposited
  <2>2. \A p \in Participants : HasPaid(p)
    BY <2>1, EverybodySits
  <2>3. PotSafe
    BY <2>2, AllPaid
  <2>4. FundedIsPaid'
    BY <1>1, <2>3 DEF PotSafe, FundedIsPaid, vars
  <2>5. config' \in [escrow : 0 .. Seconds, address : 0 .. Seconds,
                     funded : BOOLEAN]
        /\ config'.escrow = config.escrow /\ config'.address = config.address
    BY <1>4 DEF Shape
  <2>6. /\ request' \in [Requests -> Waits] /\ request'[r] = Idle
        /\ \A q \in Requests \ {r} : request'[q] = request[q]
    BY <1>1, IdleIs DEF Shape
  <2>7. Shape'
    BY <1>1, <2>5, <2>6 DEF Shape
  <2>8. Seated' /\ ChipsSound'
    BY <1>1 DEF Seated, ChipsSound, NothingMinted
  <2>9. Stages'
    BY <1>1, <1>4, <2>1, <2>5 DEF Stages, Full, Shape
  <2>10. ASSUME NEW q \in Requests PROVE RequestSound(q)'
    <3>1. CASE q = r
      BY <2>6, <3>1, IdleIs DEF RequestSound
    <3>2. CASE q # r
      <4>1. request'[q] = request[q]
        BY <2>6, <3>2
      <4> QED
        BY <1>1, <2>5, <4>1 DEF RequestSound, Full, HasPaid, vars
    <3> QED
      BY <3>1, <3>2
  <2>11. AddressUnderWay'
    BY <2>1, <2>5 DEF AddressUnderWay
  <2> QED
    BY <1>1, <2>4, <2>7, <2>8, <2>9, <2>10, <2>11
<1> QED
  BY <1>2, <1>3, <1>4

(* What the server signs pays out the buy-ins, no more and no less, unless *)
(* chips were minted.                                                      *)
LEMMA SignSettlementSound ==
  ASSUME OnchainInv, SignSettlement
  PROVE  ServerInv' /\ config' = config
<1> USE DEF OnchainInv, ServerInv
<1> DEFINE payouts == ComputePayouts(game.chips, BuyIn, StartingChips)
<1>1. /\ game.over /\ config.address # Missing
      /\ signed' = signed \cup {[escrow |-> config.address,
                                 payouts |-> payouts]}
      /\ UNCHANGED <<vars, players, game, config, request, offers, deployed,
                     second, failures>>
  BY DEF SignSettlement, escrowVars
<1>2. /\ game.chips \in [1 .. MaxPlayers -> Nat]
      /\ config.address \in 1 .. Seconds
  <2>1. Len(players) = MaxPlayers
    BY <1>1 DEF Stages, Full
  <2>2. game.chips \in [1 .. Len(players) -> Nat]
    BY DEF Shape
  <2>3. config.address \in 0 .. Seconds
    BY DEF Shape
  <2>4. config.address \in 1 .. Seconds
    BY <1>1, <2>3, Numbers DEF Missing
  <2> QED
    BY <2>1, <2>2, <2>4
<1>3. /\ payouts \in [1 .. MaxPlayers -> Nat]
      /\ NothingMinted => Total(payouts) = MaxPlayers * BuyIn
  BY <1>2, Numbers, PayoutsType, PayoutsComplete DEF NothingMinted
<1> HIDE DEF payouts
<1>4. Shape'
  BY <1>1, <1>2, <1>3 DEF Shape, Settlements
<1>5. ChipsSound'
  BY <1>1, <1>3 DEF ChipsSound, NothingMinted
<1>6. Seated' /\ Stages' /\ AddressUnderWay'
  BY <1>1 DEF Seated, Stages, Full, AddressUnderWay
<1>7. ASSUME NEW r \in Requests PROVE RequestSound(r)'
  BY <1>1 DEF RequestSound, Full, HasPaid, vars
<1> QED
  BY <1>1, <1>4, <1>5, <1>6, <1>7

-----------------------------------------------------------------------------
(* A transaction on the chain changes nothing the server knows.            *)
LEMMA TransactionSound ==
  ASSUME OnchainInv, [Next]_vars,
         UNCHANGED <<serverVars, request, second, failures>>,
         deployed' = deployed \/ \E offer \in offers : deployed' = offer.config
  PROVE  ServerInv' /\ config' = config
<1> USE DEF OnchainInv, ServerInv, serverVars
<1>1. deployed' \in 0 .. Seconds
  BY Numbers DEF Shape, Answered
<1>2. Shape'
  BY <1>1 DEF Shape
<1>3. Seated' /\ Stages' /\ AddressUnderWay' /\ ChipsSound'
  BY DEF Seated, Stages, Full, AddressUnderWay, ChipsSound, NothingMinted
<1>4. ASSUME NEW r \in Requests PROVE RequestSound(r)'
  <2>1. ASSUME request[r].at = "funding", NEW i \in 1 .. Len(request[r].seen),
               request[r].seen[i]
        PROVE  HasPaid(players[i])'
    <3>1. i \in 1 .. Len(players)
      <4>1. Len(request[r].seen) \in Nat /\ Len(players) \in Nat
        BY DEF Shape, Waits
      <4>2. Len(request[r].seen) <= Len(players)
        BY <2>1 DEF RequestSound
      <4> QED
        BY <4>1, <4>2
    <3>2. players[i] \in Participants
      BY <3>1 DEF Shape
    <3>3. HasPaid(players[i])
      BY <2>1 DEF RequestSound
    <3> DEFINE p == players[i]
    <3>4. HasPaid(p)'
      <4>1. p' = p
        OBVIOUS
      <4>2. ASSUME NEW q \in Participants, q = p PROVE HasPaid(q)'
        BY <3>3, <4>2, PaidStaysPaid
      <4> QED
        BY <3>2, <4>1, <4>2 DEF HasPaid
    <3> QED
      BY <3>4
  <2> QED
    BY <2>1 DEF RequestSound, Full
<1> QED
  BY <1>2, <1>3, <1>4

LEMMA StepSound == OnchainInv /\ [OnchainNext]_onchainVars => OnchainInv'
<1> SUFFICES ASSUME OnchainInv, [OnchainNext]_onchainVars PROVE OnchainInv'
  OBVIOUS
<1>1. [Next]_vars
  BY EscrowStep DEF OnchainInv
<1>2. EscrowInv' /\ EarlyExpiry' /\ (PotSafe => PotSafe')
  BY <1>1, StepSafe, EarlyExpirySafe, PaidStaysPaid DEF OnchainInv
<1>3. SUFFICES ServerInv' /\ (config'.funded = config.funded \/ FundedIsPaid')
  BY <1>2 DEF OnchainInv, FundedIsPaid, PotSafe
<1>4. ASSUME NEW p \in Participants, Join(p)
      PROVE  ServerInv' /\ config' = config
  BY <1>4, JoinSound
<1>5. ASSUME NEW p \in Participants, Deploy(p) \/ Follow(p)
      PROVE  ServerInv' /\ config' = config
  BY <1>1, <1>5, TransactionSound DEF Deploy, Follow, ServerUntouched
<1>6. ASSUME NEW r \in Requests,
             \/ AskEscrow(r) \/ Answer(r) \/ CallFails(r)
             \/ AskFunding(r) \/ ReadDeposit(r)
      PROVE  ServerInv' /\ config' = config
  BY <1>6, AskEscrowSound, AnswerSound, CallFailsSound, AskFundingSound,
     ReadDepositSound
<1>7. ASSUME NEW r \in Requests, Build(r) \/ TakeAddress(r)
      PROVE  ServerInv' /\ config'.funded = config.funded
  BY <1>7, BuildSound, TakeAddressSound
<1>8. ASSUME NEW r \in Requests, Confirm(r)
      PROVE  ServerInv' /\ FundedIsPaid'
  BY <1>8, ConfirmSound
<1>9. CASE Start \/ GameOver \/ SignSettlement
  BY <1>9, StartSound, GameOverSound, SignSettlementSound
<1>10. ASSUME NEW failing \in SUBSET Participants, SubmitSettlement(failing)
       PROVE  ServerInv' /\ config' = config
  BY <1>1, <1>10, TransactionSound DEF SubmitSettlement, ServerUntouched
<1>11. CASE OtherTransaction
  BY <1>1, <1>11, TransactionSound DEF OtherTransaction, ServerUntouched
<1>12. CASE UNCHANGED onchainVars
  BY <1>1, <1>12, TransactionSound DEF onchainVars
<1> QED
  BY <1>4, <1>5, <1>6, <1>7, <1>8, <1>9, <1>10, <1>11, <1>12 DEF OnchainNext

LEMMA AlwaysSound == OnchainSpec => []OnchainInv
<1> QED
  BY InitSound, StepSound, PTL DEF OnchainSpec

-----------------------------------------------------------------------------
(* The server never makes the escrow do what its contract does not allow:  *)
(* every run of the game is, seen from the chain, a run of the contract,   *)
(* so everything proved of the contract holds within the game.  What has   *)
(* to be shown is that what the server signs is a table of payouts the     *)
(* contract can take (escrow_service.py:250-274, Escrow.sol:249-280).      *)
THEOREM GameRespectsContract == OnchainSpec => Spec
<1>1. OnchainInit => Init
  BY DEF OnchainInit
<1>2. OnchainInv /\ [OnchainNext]_onchainVars => [Next]_vars
  BY EscrowStep DEF OnchainInv
<1> QED
  BY <1>1, <1>2, AlwaysSound, PTL DEF OnchainSpec, Spec

(* What the server keeps stays well formed however many requests overlap:  *)
(* nobody sits twice, nothing starts unfunded or with an empty seat        *)
(* (game_config.py:12-25).                                                 *)
THEOREM OnchainTyped == OnchainSpec => []OnchainTypeOK
<1>1. ASSUME OnchainInv PROVE OnchainTypeOK
  <2>1. Shape /\ Seated /\ Stages /\ DOMAIN players = 1 .. Len(players)
    BY <1>1 DEF OnchainInv, ServerInv, Shape
  <2>2. \A r \in Requests : request[r].seen \in Seq(BOOLEAN)
    BY <2>1 DEF Shape, Waits
  <2>3. game.chips \in [DOMAIN players -> Nat]
    BY <2>1 DEF Shape
  <2>4. {config.escrow, config.address, deployed} \subseteq 0 .. Seconds
    BY <2>1 DEF Shape
  <2>5. config.funded => Full /\ config.address # Missing
    BY <2>1 DEF Stages
  <2> QED
    BY <2>1, <2>2, <2>3, <2>4, <2>5 DEF OnchainTypeOK, Seated, Stages
<1> QED
  BY <1>1, AlwaysSound, PTL

(* Once a game counts as funded its pot was complete, and it is not given  *)
(* back before a settlement or the settlement deadline, for any number of  *)
(* participants read one by one (escrow_service.py:193-214).               *)
THEOREM FundingCorrect == OnchainSpec => []FundedIsPaid
<1>1. OnchainInv => FundedIsPaid
  BY DEF OnchainInv
<1> QED
  BY <1>1, AlwaysSound, PTL

(* The order of the players does not matter to what the contract checks:   *)
(* listed by wallet the payouts add up to the same.                        *)
LEMMA WalletsKeepTotal ==
  ASSUME OnchainInv, NEW s \in signed
  PROVE  Total(ByWallet(s.payouts)) = Total(s.payouts)
<1> DEFINE seat == [p \in Participants |->
                      CHOOSE i \in DOMAIN players : players[i] = p]
<1>1. /\ Shape /\ Seated /\ Full /\ DOMAIN players = 1 .. MaxPlayers
      /\ players \in [1 .. MaxPlayers -> Participants]
      /\ s.payouts \in [1 .. MaxPlayers -> Nat]
  BY DEF OnchainInv, ServerInv, Shape, Stages, ChipsSound, Settlements, Full
<1>2. ASSUME NEW p \in Participants
      PROVE  seat[p] \in 1 .. MaxPlayers /\ players[seat[p]] = p
  <2>1. \E i \in DOMAIN players : players[i] = p
    BY <1>1, EverybodySits DEF Full
  <2> QED
    BY <1>1, <2>1
<1>3. seat \in [Participants -> 1 .. MaxPlayers]
  BY <1>2
<1> HIDE DEF seat
<1>4. ASSUME NEW i \in 1 .. MaxPlayers PROVE seat[players[i]] = i
  <2>1. players[i] \in Participants
    BY <1>1
  <2>2. /\ seat[players[i]] \in 1 .. MaxPlayers
        /\ players[seat[players[i]]] = players[i]
    BY <1>2, <2>1
  <2> QED
    BY <1>1, <2>2 DEF Seated, Full
<1>5. seat \in Bijection(Participants, 1 .. MaxPlayers)
  <2>1. seat \in Injection(Participants, 1 .. MaxPlayers)
    BY <1>2, <1>3, Fun_IsInj
  <2>2. seat \in Surjection(Participants, 1 .. MaxPlayers)
    BY <1>1, <1>3, <1>4, Fun_IsSurj
  <2> QED
    BY <2>1, <2>2 DEF Bijection
<1>6. ByWallet(s.payouts) = [p \in Participants |-> s.payouts[seat[p]]]
  BY DEF ByWallet, seat
<1>7. Total(ByWallet(s.payouts)) = Total(s.payouts)
  <2>1. IsFiniteSet(Participants) /\ IsFiniteSet(1 .. MaxPlayers)
    BY Numbers, FS_Interval
  <2>2. ASSUME NEW T, IsFiniteSet(T), seat \in Bijection(Participants, T),
               NEW f \in [T -> Nat]
        PROVE  Total([p \in Participants |-> f[seat[p]]]) = Total(f)
    BY <2>1, <2>2, TotalReordered
  <2> QED
    BY <1>1, <1>5, <1>6, <2>1, <2>2
<1> QED
  BY <1>7

(* An active escrow holds the pot and what was sent to it outside a        *)
(* deposit, and a signed settlement is the pot unless chips were minted.   *)
LEMMA SettlementsFitNow == OnchainInv => SettlementAccepted
<1> SUFFICES ASSUME OnchainInv, NEW s \in signed, status = "ACTIVE",
                    NothingMinted
             PROVE  Settles(s) <=> s.escrow = deployed /\ gifts = 0
  BY DEF SettlementAccepted
<1> DEFINE pot == MaxPlayers * BuyIn
<1>1. Total(ByWallet(s.payouts)) = pot
  BY WalletsKeepTotal DEF OnchainInv, ServerInv, ChipsSound
<1>2. vault = DepositAmount * Cardinality(Participants) + gifts
  BY DEF OnchainInv, EscrowInv, ActiveIsFullyFunded
<1>3. pot = DepositAmount * Cardinality(Participants) /\ pot \in Nat
  BY Numbers DEF MaxPlayers, BuyIn
<1>4. gifts \in Nat
  BY Typed DEF OnchainInv
<1> HIDE DEF pot
<1>5. Total(ByWallet(s.payouts)) = vault <=> gifts = 0
  BY <1>1, <1>2, <1>3, <1>4
<1> QED
  BY <1>5 DEF Settles

(* Every settlement the server signs for the deployed escrow, and no       *)
(* other, is taken by it while it is active, unless somebody sent it       *)
(* tokens or the game minted chips: for any number of participants, in     *)
(* whatever order they joined, and any requests that overlap               *)
(* (escrow_service.py:250-274, payout.py:25-41, Escrow.sol:249-280).       *)
THEOREM SettlementsFit == OnchainSpec => []SettlementAccepted
<1> QED
  BY SettlementsFitNow, AlwaysSound, PTL

(* A kept configuration is without the address of its escrow only while a  *)
(* request is at work on it, or after a call has failed                    *)
(* (escrow_service.py:121-125, 144).                                       *)
THEOREM AddressFollows == OnchainSpec => []ConfigHasAddress
<1>1. ASSUME OnchainInv PROVE ConfigHasAddress
  BY <1>1, IdleIs DEF OnchainInv, ServerInv, AddressUnderWay, ConfigHasAddress
<1> QED
  BY <1>1, AlwaysSound, PTL
=============================================================================
