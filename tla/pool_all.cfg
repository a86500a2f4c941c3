\* More threads than connections, three guards deep, under fairness.
SPECIFICATION FairSpec
CONSTANTS
  Threads = {t1, t2, t3, t4, t5}
  Conns = {c1, c2, c3}
  MaxNesting = 3
INVARIANTS TypeOK PooledConnectionsAreFree WaitersHoldNothing NoLostWakeup
PROPERTIES OneConnectionPerTransaction FreeConnectionIsTaken
