SPECIFICATION Spec
CONSTANTS
  MaxConns = 2
  MaxMessages = 1
  MaxFds = 2
  Backlog = 1
CHECK_DEADLOCK FALSE
INVARIANT CallbackForEach
