SPECIFICATION BotSpec
CONSTANTS
  SmallBlind = 2
  BigBlind = 4
  MaxSeats = 4
  MaxStack = 64
  TableSizes = {2, 3, 4}
  Stacks <- MCStacks
  Attempts = 2
  MaxRivalRaises = 1
  MaxResignations <- MCResignations
INVARIANTS
  NoFreeFold
  StopsOnlyIfOvertaken
PROPERTIES
  PostflopAccepted
  RefusalOnlyChecks
CHECK_DEADLOCK FALSE
