SPECIFICATION Spec
CONSTANTS
  Users = {u1, u2, u3}
  Nobody = Nobody
  Requests = {r1, r2}
  MaxPlayers = 2
  BuyIn = 3
  StartingChips = 2
  FaucetAmount = 3
  MaxClaims = 3
  MaxFailures = 1
  MaxRestarts = 1
  Overlap = FALSE
SYMMETRY Symmetry
INVARIANTS
  TypeOK
  OverIsSettled
PROPERTY MoneyConserved
CHECK_DEADLOCK FALSE
