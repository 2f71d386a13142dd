SPECIFICATION FairSpec
CONSTANTS
  MaxPlayers = 3
  StartingChips = 7
  Ante = 3
INVARIANTS
  TurnIsDue
  OverWhenNobodyCanPlay
PROPERTIES
  OnlyAntesGetLost
  RoundsComplete
CHECK_DEADLOCK FALSE
