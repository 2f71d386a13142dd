SPECIFICATION Spec
CONSTANTS
  Users = {u1, u2, u3}
  Nobody = Nobody
  Requests = {r1, r2}
  MaxPlayers = 2
  BuyIn = 3
  StartingChips = 2
  FaucetAmount = 3
  MaxClaims = 3
  MaxFailures = 0
  MaxRestarts = 0
  Overlap = TRUE
SYMMETRY Symmetry
INVARIANT SettledOnce
CHECK_DEADLOCK FALSE
