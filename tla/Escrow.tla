------------------------------- MODULE Escrow -------------------------------
(***************************************************************************)
(* The contract that holds the buy-ins of one on-chain game: Escrow.sol,   *)
(* deployed by EscrowFactory.sol together with the first deposit.          *)
(*                                                                         *)
(* Every action is one transaction that succeeds; a transaction that       *)
(* reverts changes nothing and is not modelled.  The token is external: a  *)
(* transfer may move less than asked for (a fee), and a transfer made by   *)
(* settle may fail.  The admin's signature is not modelled: settle takes   *)
(* any table of payouts, as the admin may sign any.                        *)
(***************************************************************************)
EXTENDS Totals

CONSTANTS
  Participants,        \* cfg.participants
  DepositAmount,       \* cfg.depositAmount
  RakeBps,             \* cfg.rakeBps, hundredths of a percent
  FundingDeadline,     \* cfg.fundingDeadline
  SettlementDeadline,  \* cfg.settlementDeadline
  EndOfTime,           \* bound: block.timestamp goes from 0 to EndOfTime
  MaxGift              \* bound: tokens sent to the escrow outside a deposit

MaxBps == 10000

ASSUME EscrowAssumption ==
  /\ IsFiniteSet(Participants) /\ Participants # {}
  /\ DepositAmount \in Nat \ {0}
  /\ RakeBps \in Nat /\ RakeBps < MaxBps
  /\ FundingDeadline \in Nat \ {0}
  /\ SettlementDeadline \in Nat /\ FundingDeadline < SettlementDeadline
  /\ EndOfTime \in Nat /\ SettlementDeadline < EndOfTime
  /\ MaxGift \in Nat

VARIABLES
  now,           \* block.timestamp
  status,
  hasDeposited,  \* the participants whose entry is true
  depositCount,
  failedClaims,
  vault,         \* the token balance of the escrow
  received,      \* what each participant has got out of the escrow
  raked,         \* what the beneficiary has got
  gifts,         \* tokens sent to the escrow outside a deposit
  settlement     \* the payouts settled on, by participant

vars == <<now, status, hasDeposited, depositCount, failedClaims, vault,
          received, raked, gifts, settlement>>

Nothing == [p \in Participants |-> 0]

Rake(gross) == (gross * RakeBps) \div MaxBps

(* Seeded fault: the rake is not deducted from the payout.                 *)
NetGross(gross) == gross

Net(gross) == gross - Rake(gross)

Init ==
  /\ now = 0
  /\ status = "NONE"  \* not deployed yet
  /\ hasDeposited = {}
  /\ depositCount = 0
  /\ failedClaims = Nothing
  /\ vault = 0
  /\ received = Nothing
  /\ raked = 0
  /\ gifts = 0
  /\ settlement = Nothing

Tick ==
  /\ now < EndOfTime
  /\ now' = now + 1
  /\ UNCHANGED <<status, hasDeposited, depositCount, failedClaims, vault,
                 received, raked, gifts, settlement>>

(* Someone sends tokens to the address of the escrow, deployed or not.     *)
Gift ==
  /\ gifts < MaxGift
  /\ gifts' = gifts + 1
  /\ vault' = vault + 1
  /\ UNCHANGED <<now, status, hasDeposited, depositCount, failedClaims,
                 received, raked, settlement>>

-----------------------------------------------------------------------------
(* Seeded fault: the balance is not compared with the one before.          *)
TakeInUnchecked(arrived) == vault' = vault + arrived

(* What a transfer of depositAmount to the escrow brought must be all.     *)
TakeIn(arrived) ==
  /\ arrived = DepositAmount
  /\ vault' = vault + arrived

(* Seeded fault: the last deposit leaves the escrow in FUNDING.            *)
RecordDepositPassive(p) ==
  /\ hasDeposited' = hasDeposited \cup {p}
  /\ depositCount' = depositCount + 1
  /\ status' = "FUNDING"

RecordDeposit(p) ==
  /\ hasDeposited' = hasDeposited \cup {p}
  /\ depositCount' = depositCount + 1
  /\ status' = IF depositCount' = Cardinality(Participants)
               THEN "ACTIVE" ELSE "FUNDING"

(* EscrowFactory.createAndDeposit, with or without Permit2.                *)
CreateAndDeposit(p, arrived) ==
  /\ status = "NONE"
  /\ now < FundingDeadline
  /\ TakeIn(arrived)
  /\ RecordDeposit(p)
  /\ UNCHANGED <<now, failedClaims, received, raked, gifts, settlement>>

(* deposit and depositWithPermit2; anybody may pay for participant p.      *)
Deposit(p, arrived) ==
  /\ status = "FUNDING"
  /\ now <= FundingDeadline
  /\ p \notin hasDeposited
  /\ TakeIn(arrived)
  /\ RecordDeposit(p)
  /\ UNCHANGED <<now, failedClaims, received, raked, gifts, settlement>>

(* What settling on a table of payouts transfers to each participant, what *)
(* it keeps for him as a claim when his transfer fails, and the rake.      *)
Paid(payouts, failing) ==
  [p \in Participants |-> IF p \in failing THEN 0 ELSE Net(payouts[p])]

Owed(payouts, failing) ==
  [p \in Participants |-> IF p \in failing THEN Net(payouts[p]) ELSE 0]

Rakes(payouts) == [p \in Participants |-> Rake(payouts[p])]

(* _distribute; the transfer of the rake does not fail, or all is undone.  *)
Distribute(payouts, failing) ==
  LET paid == Paid(payouts, failing)
      owed == Owed(payouts, failing)
      rake == Total(Rakes(payouts))
  IN  /\ failedClaims' = [p \in Participants |-> failedClaims[p] + owed[p]]
      /\ received' = [p \in Participants |-> received[p] + paid[p]]
      /\ raked' = raked + rake
      /\ vault' = vault - Total(paid) - rake

(* Seeded fault: a settlement is accepted after the refunds have begun.    *)
SettleExpired(payouts, failing) ==
  /\ status \in {"FUNDING", "ACTIVE", "EXPIRED"}
  /\ Total(payouts) = vault
  /\ status' = "SETTLED"
  /\ settlement' = payouts
  /\ Distribute(payouts, failing)
  /\ UNCHANGED <<now, hasDeposited, depositCount, gifts>>

Settle(payouts, failing) ==
  /\ status \in {"FUNDING", "ACTIVE"}
  /\ Total(payouts) = vault
  /\ status' = "SETTLED"
  /\ settlement' = payouts
  /\ Distribute(payouts, failing)
  /\ UNCHANGED <<now, hasDeposited, depositCount, gifts>>

(* Seeded fault: an escrow that was funded in full never expires.          *)
ExpireFundingOnly ==
  /\ status = "FUNDING" /\ now > FundingDeadline
  /\ status' = "EXPIRED"
  /\ UNCHANGED <<now, hasDeposited, depositCount, failedClaims, vault,
                 received, raked, gifts, settlement>>

Expire ==
  /\ \/ status = "FUNDING" /\ now > FundingDeadline
     \/ status = "ACTIVE" /\ now > SettlementDeadline
  /\ status' = "EXPIRED"
  /\ UNCHANGED <<now, hasDeposited, depositCount, failedClaims, vault,
                 received, raked, gifts, settlement>>

(* Seeded fault: the entry of the depositor is not cleared.                *)
WithdrawAgain(p) ==
  /\ status = "EXPIRED"
  /\ p \in hasDeposited
  /\ vault >= DepositAmount
  /\ vault' = vault - DepositAmount
  /\ received' = [received EXCEPT ![p] = @ + DepositAmount]
  /\ UNCHANGED <<now, status, hasDeposited, depositCount, failedClaims,
                 raked, gifts, settlement>>

(* The transfer goes through only if the balance covers it.                *)
Withdraw(p) ==
  /\ status = "EXPIRED"
  /\ p \in hasDeposited
  /\ vault >= DepositAmount
  /\ hasDeposited' = hasDeposited \ {p}
  /\ vault' = vault - DepositAmount
  /\ received' = [received EXCEPT ![p] = @ + DepositAmount]
  /\ UNCHANGED <<now, status, depositCount, failedClaims, raked, gifts,
                 settlement>>

ClaimFailed(p) ==
  /\ status = "SETTLED"
  /\ failedClaims[p] > 0
  /\ vault >= failedClaims[p]
  /\ failedClaims' = [failedClaims EXCEPT ![p] = 0]
  /\ vault' = vault - failedClaims[p]
  /\ received' = [received EXCEPT ![p] = @ + failedClaims[p]]
  /\ UNCHANGED <<now, status, hasDeposited, depositCount, raked, gifts,
                 settlement>>

-----------------------------------------------------------------------------
(* Payouts the admin may sign: any that add up to what the escrow holds.   *)
Payouts == {t \in [Participants -> 0 .. vault] : Total(t) = vault}

Next ==
  \/ Tick
  \/ Gift
  \/ \E p \in Participants, arrived \in 0 .. DepositAmount :
       CreateAndDeposit(p, arrived) \/ Deposit(p, arrived)
  \/ \E payouts \in Payouts, failing \in SUBSET Participants :
       Settle(payouts, failing)
  \/ Expire
  \/ \E p \in Participants : Withdraw(p) \/ ClaimFailed(p)

Spec == Init /\ [][Next]_vars

(* Time passes; anybody may call expire, and a depositor whose money is at *)
(* stake does; each participant takes what is his, trying again until the  *)
(* token lets the transfer through.                                        *)
Fairness ==
  /\ WF_vars(Tick)
  /\ WF_vars(Expire)
  /\ \A p \in Participants : WF_vars(Withdraw(p)) /\ WF_vars(ClaimFailed(p))

FairSpec == Spec /\ Fairness

-----------------------------------------------------------------------------
(* Properties.                                                             *)

(* Statuses, counters and balances are well formed (Escrow.sol:61-89).     *)
TypeOK ==
  /\ now \in 0 .. EndOfTime
  /\ status \in {"NONE", "FUNDING", "ACTIVE", "SETTLED", "EXPIRED"}
  /\ hasDeposited \subseteq Participants
  /\ depositCount \in Nat
  /\ failedClaims \in [Participants -> Nat]
  /\ vault \in Nat
  /\ received \in [Participants -> Nat]
  /\ raked \in Nat
  /\ gifts \in 0 .. MaxGift
  /\ settlement \in [Participants -> Nat]

(* The escrow always holds what it owes: every deposit that has not been   *)
(* refunded before a settlement, every unclaimed payout after one, however *)
(* deposits, gifts, fees, failing transfers and deadlines interleave.  The *)
(* withdraw and claimFailed of the last participant therefore never fail   *)
(* for want of tokens (Escrow.sol:303-320).                                *)
Solvent ==
  IF status = "SETTLED"
    THEN vault >= Total(failedClaims)
    ELSE vault >= DepositAmount * Cardinality(hasDeposited)

(* The escrow is ACTIVE exactly when all have paid, none is refunded and   *)
(* nothing settled: whoever sees ACTIVE knows that the whole pot is there. *)
(* depositCount, which is never lowered, is compared only here and only    *)
(* while it agrees with the entries (Escrow.sol:234-243).                  *)
ActiveIsFullyFunded ==
  /\ status = "ACTIVE" =>
       /\ hasDeposited = Participants
       /\ vault = DepositAmount * Cardinality(Participants) + gifts
  /\ status \in {"NONE", "FUNDING"} => hasDeposited # Participants
  /\ status \in {"NONE", "FUNDING", "ACTIVE"} =>
       depositCount = Cardinality(hasDeposited)

(* A settlement pays each participant his payout less the rake exactly     *)
(* once, pushed or claimed, and rounding never takes more than the         *)
(* configured rate from the whole pot (Escrow.sol:371-400).                *)
SettlementHonoured ==
  status = "SETTLED" =>
    /\ \A p \in Participants :
         received[p] + failedClaims[p] = Net(settlement[p])
    /\ raked * MaxBps <= Total(settlement) * RakeBps

(* Without a settlement no rake is taken, and everybody gets back exactly  *)
(* what was deposited for him, once (Escrow.sol:289-309).                  *)
RefundsAreExact ==
  status # "SETTLED" =>
    /\ raked = 0
    /\ \A p \in Participants :
         /\ received[p] \in {0, DepositAmount}
         /\ p \in hasDeposited => received[p] = 0
         /\ received[p] > 0 => status = "EXPIRED"
    /\ vault + Total(received) = DepositAmount * depositCount + gifts

(* No deposit is locked in: it ends in a settlement or with its depositor, *)
(* and a payout that could not be pushed is claimed in the end.            *)
NothingLockedIn ==
  \A p \in Participants :
    /\ p \in hasDeposited ~> (status = "SETTLED" \/ p \notin hasDeposited)
    /\ failedClaims[p] > 0 ~> failedClaims[p] = 0
=============================================================================
