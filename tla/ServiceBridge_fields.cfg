SPECIFICATION Spec
CONSTANTS
  Lines <- MCLines
  MaxLines = 3
  PerTopic = {1, 2}
  Cpus = {0, 1}
CHECK_DEADLOCK FALSE
INVARIANT EveryFieldReturned
