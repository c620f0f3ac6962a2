SPECIFICATION SystemSpec
CONSTANTS
  p1 = p1
  p2 = p2
  p3 = p3
  hislip0 = hislip0
  NoName = NoName
  NoLoad = NoLoad
  Clients <- OneClient
  Conn <- Channels
  Names <- Registered
  WithCallback <- Registered
  Subaddresses <- Registered
  MaxSessions = 2
  Messages <- MayBeSent
  MaxMessages = 2
  MaxRegister = 1
CHECK_DEADLOCK FALSE
PROPERTY ResponseReceived
