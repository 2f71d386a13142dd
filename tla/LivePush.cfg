SPECIFICATION FairSpec
CONSTANTS
  Sockets = {s1, s2}
  Requests = {r1}
  QueueSize = 2
INVARIANT
  LastEventIsShown
PROPERTY
  GameOverIsShown
CHECK_DEADLOCK FALSE
