SPECIFICATION FairSpec
CONSTANTS
  BufferSize = 2
  MaxLines = 7
CHECK_DEADLOCK FALSE
INVARIANTS NothingForgotten DestructorFlushes
PROPERTIES WritesInOrder FullIsCollected DestructorReturns
