SPECIFICATION FairSpec
CONSTANTS
  People = {p1, p2}
  Rooms = {r1, r2}
  START_PORT = 16355
  MaxPorts = 2
  MaxServers = 3
  OtherPorts = {16355}
  OneAtATime = TRUE
INVARIANTS
  RoomTypeOK
  ServersHaveRooms
  RoomInv
PROPERTIES
  NobodyIsCut
  EmptyRoomsEnd
CHECK_DEADLOCK FALSE
