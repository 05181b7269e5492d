SPECIFICATION LQFairSpec
CONSTANTS
  Producers = {p1, p2}
  Consumers = {c1, c2}
  iterations = 3
INVARIANT EverythingConsumed
PROPERTY Finishes
\* The program ends.
CHECK_DEADLOCK FALSE
