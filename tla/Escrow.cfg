SPECIFICATION FairSpec
CONSTANTS
  Participants = {p1, p2, p3}
  DepositAmount = 3
  RakeBps = 2500
  FundingDeadline = 1
  SettlementDeadline = 2
  EndOfTime = 3
  MaxGift = 1
INVARIANTS
  TypeOK
  Solvent
  ActiveIsFullyFunded
  SettlementHonoured
  RefundsAreExact
PROPERTIES
  NothingLockedIn
CHECK_DEADLOCK FALSE
