SPECIFICATION FairSpec
CONSTANTS
  Clients = {1, 3}
  Pushes = {2}
  ConnWindow = 2
  MaxQueued = 3
  Confs <- Several
INVARIANTS  StreamsCounted WireLegal GoAwayHonest
PROPERTY ServeEnds
CHECK_DEADLOCK FALSE
