SPECIFICATION FairSpec
CONSTANTS
  Tasks = {t1, t2, t3}
  Workers = {w1, w2}
  Main = Main
  NoTask = NoTask
CHECK_DEADLOCK FALSE
INVARIANTS InOrder EachOnce ShutdownDrains
PROPERTIES AcceptedIsSettled ShutdownEnds
