SPECIFICATION Spec
CONSTANTS
  c1 = c1
  c2 = c2
  hislip0 = hislip0
  hislip1 = hislip1
  NoName = NoName
  NoLoad = NoLoad
  Conn <- OneConn
  Names <- Registered
  WithCallback <- Registered
  MaxSessions = 2
  Messages <- NoNames
  MaxMessages = 1
  MaxRegister = 1
CHECK_DEADLOCK FALSE
INVARIANT NullOpensDefault
