SPECIFICATION Spec
CONSTANTS
  People = {p1, p2}
  Rooms = {r1, r2}
  START_PORT = 16355
  MaxPorts = 2
  MaxServers = 2
  OtherPorts = {}
  OneAtATime = FALSE
INVARIANTS
  DifferentPorts
CHECK_DEADLOCK FALSE
