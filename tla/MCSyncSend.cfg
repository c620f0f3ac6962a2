SPECIFICATION Spec
CONSTANTS
  HeaderSize = 2
  WordSize = 32
  IdSpace = 8
  InitialId = 4
  InitialSize = 5
  Sizes <- AnnouncedSizes
  Lengths <- CommandLengths
  MaxFailures = 2
CHECK_DEADLOCK FALSE
INVARIANT TypeOK
INVARIANT FittingSentOnce
INVARIANT ReturnedEndsIffFits
PROPERTY FittingReturns
