SPECIFICATION FairSpec
CONSTANTS
  Lines <- MCLines
  MaxLines = 3
  PerTopic = {1, 2}
  Cpus = {0, 1}
INVARIANTS SplitsAtCommas OneQueuePerName EveryServiceStaffed PoolBounded PoolAliveUntilStop
PROPERTIES MainReturns
CHECK_DEADLOCK FALSE
