SPECIFICATION Spec
CONSTANTS
  Base = 2
  HeaderSize = 2
  WordSize = 256
  Messages <- SomeMessages
  MaximumSizes <- SomeSizes
  MaxMessages = 2
  MaxBytes = 10
  MaxFailures = 1
CHECK_DEADLOCK FALSE
INVARIANT TypeOK
INVARIANT TakenInOrder
INVARIANT WithinMaximum
INVARIANT NetworkOrder
PROPERTY EachTaken
PROPERTY StreamEnds
PROPERTY RefinesQueue
