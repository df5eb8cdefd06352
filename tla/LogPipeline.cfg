SPECIFICATION FairSpec
CONSTANTS
  c1 = c1
  c2 = c2
  Clients <- MCClients
  Workers = {w1}
  MaxConn = 1
  MaxLines = 3
  Environments <- MCEnvironments
  Levels = {"INFO", "WARNING"}
  None = None
CHECK_DEADLOCK FALSE
INVARIANTS InStepWhileWhole
PROPERTIES TakesInOrder ClientIsAnswered ThreadsEnd
