\* Two browsers, two rooms created (a and b), one message, a shutdown.
SPECIFICATION FairSpec
CONSTANTS
  p1 = p1
  p2 = p2
  m1 = m1
  a = a
  b = b
  Conns = {c1, c2}
  Creates = {p1, p2}
  Sends = {m1}
  Shutdown = Shutdown
  Rooms = {a, b}
  RoomOf <- MCRoomOf
  FirstRooms = {}
  None = None
CHECK_DEADLOCK FALSE
INVARIANT RoomsKnown
INVARIANT SocksAreConnected
PROPERTY OnlyEmbraceHangs
