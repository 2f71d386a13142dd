SPECIFICATION ServiceSpec
CONSTANTS
  SmallBlind = 1
  BigBlind = 2
  MaxPlayers = 2
  StartingChips = 3
  Requests = {r1}
  Observers = {1, 2}
  Extensions = 0
PROPERTY StaleActionsRefused
CHECK_DEADLOCK FALSE
