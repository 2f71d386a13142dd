SPECIFICATION Spec
CONSTANTS
  SmallBlind = 1
  BigBlind = 2
  MaxPlayers = 3
  StartingChips = 3
INVARIANTS
  SeatsMatchPlayers
PROPERTIES
  LostChipsAreOverbets
  BetsStayForfeited
  TournamentPromise
CHECK_DEADLOCK FALSE
