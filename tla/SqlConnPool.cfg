SPECIFICATION FairSpec
CONSTANTS
  Threads = {t1, t2, t3}
  Conns = {c1, c2}
  ConnSize = 2
  MaxHeld = 2
INVARIANTS FrontIsThere SemaphoreCounts NoWaitCycle
PROPERTIES LendsExclusively WaitersServed
