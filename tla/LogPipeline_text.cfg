SPECIFICATION FairSpec
CONSTANTS
  c1 = c1
  c2 = c2
  Clients <- MCClients
  Workers = {w1}
  MaxConn = 1
  MaxLines = 1
  Environments <- TextOnly
  Levels = {"INFO", "WARNING"}
  None = None
CHECK_DEADLOCK FALSE
PROPERTY WarningsAreStored
