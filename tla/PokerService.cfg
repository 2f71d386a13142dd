SPECIFICATION ServiceFairSpec
CONSTANTS
  SmallBlind = 1
  BigBlind = 2
  MaxPlayers = 2
  StartingChips = 2
  Requests = {r1, r2}
  Observers = {1}
  Extensions = 1
INVARIANTS
  ServiceTypeOK
  VersionTellsTable
PROPERTIES
  TableKeepsMoving
CHECK_DEADLOCK FALSE
