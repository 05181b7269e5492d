SPECIFICATION FairSpec
CONSTANTS
  Threads = {t1, t2}
  Conns = {c1, c2, c3}
  NoConn = NoConn
  MaxReads = 1
INVARIANTS TypeOK NoLeakNoDangling AcceptExclusive KeepsAccepting OneActivity AnsweredOnce
PROPERTIES ReplyStable SignalExits ClientServed
CHECK_DEADLOCK FALSE
