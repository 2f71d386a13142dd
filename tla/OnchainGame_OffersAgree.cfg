SPECIFICATION OnchainSpec
CONSTANTS
  Participants = {p1, p2}
  DepositAmount = 3
  RakeBps = 2500
  FundingDeadline = 1
  SettlementDeadline = 2
  EndOfTime = 3
  MaxGift = 0
  Requests = {r1, r2}
  StartingChips = 2
  Seconds = 2
  MaxFailures = 0
CHECK_DEADLOCK FALSE
INVARIANT OffersAgree
