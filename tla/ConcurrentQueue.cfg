SPECIFICATION FairSpec
CONSTANTS
  Threads = {t1, t2, t3}
  Values = {x, y}
  NoValue = NoValue
  NoThread = NoThread
  MaxCalls = 4
  MaxSpurious = 1
INVARIANTS TypeOK MutualExclusion PopsWhatItRead NoLostWakeup
PROPERTIES CallsReturn ImplementsFifo
CHECK_DEADLOCK FALSE
