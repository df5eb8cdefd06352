SPECIFICATION Spec
CONSTANTS
  Main = Main
  Connections = {c1, c2}
  Workers = {w1}
  MaxBuffers = 3
  Null = Null
CHECK_DEADLOCK FALSE
INVARIANT ReleasedCorrectly
