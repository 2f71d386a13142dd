SPECIFICATION OnchainSpec
CONSTANTS
  Participants = {p1, p2}
  DepositAmount = 3
  RakeBps = 2500
  FundingDeadline = 1
  SettlementDeadline = 2
  EndOfTime = 3
  MaxGift = 1
  Requests = {r1, r2}
  StartingChips = 2
  Seconds = 2
  MaxFailures = 1
SYMMETRY Symmetry
INVARIANTS
  OnchainTypeOK
  FundedIsPaid
  SettlementAccepted
  ConfigHasAddress
CHECK_DEADLOCK FALSE
