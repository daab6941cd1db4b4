CONSTANTS
  Sockets = {s1, s2}
  Handlers = {h1, h2}
SPECIFICATION RoomSpec
SYMMETRY Symmetric
CHECK_DEADLOCK FALSE
INVARIANTS
  LaterStampIsNoStaler
