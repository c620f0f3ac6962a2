SPECIFICATION Spec
CONSTANTS
  c1 = c1
  c2 = c2
  hislip0 = hislip0
  hislip1 = hislip1
  NoName = NoName
  NoLoad = NoLoad
  Conn <- TwoConns
  Names <- Registered
  WithCallback <- Hislip0
  MaxSessions = 2
  Messages <- AllMessages
  MaxMessages = 2
  MaxRegister = 2
SYMMETRY ConnSymmetry
CHECK_DEADLOCK FALSE
INVARIANT TypeOK
INVARIANT SessionAccount
INVARIANT RepliesFollowRequests
INVARIANT StaysUp
PROPERTY RefinesOwners
