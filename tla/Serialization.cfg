SPECIFICATION FairSpec
CONSTANTS
  Clients = {c1, c2}
  Sizes = {1, 3, 4}
  Base = 2
  header_length = 2
  MaxEndpoints = 2
INVARIANTS FramesAgree
PROPERTIES ClientEnds DeafServerExits
\* Both programs may end.
CHECK_DEADLOCK FALSE
