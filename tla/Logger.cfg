SPECIFICATION FairSpec
CONSTANTS
  Workers = {w1, w2}
  Callers = {c1, c2}
  MaxLines = 3
  MaxRotations = 1
CHECK_DEADLOCK FALSE
INVARIANTS NothingForgotten DestructorDrains
PROPERTIES EveryLineIsWritten DestructorReturns
