SPECIFICATION FairReplaySpec
CONSTANTS
  SmallBlind = 1
  BigBlind = 2
  MaxSeats = 3
  MaxStack = 4
INVARIANTS
  TypeOK
  PotIsContributions
  TurnOwesAction
  ActedHaveMatched
  ChipsAccounted
  ReplayShowsHand
PROPERTIES
  StreetsInOrder
  ShowdownPays
  HandShortens
  HandEnds
CHECK_DEADLOCK FALSE
