SPECIFICATION Spec
CONSTANTS
  Threads = {t1, t2}
  Sizes = {0, 3}
  BAD_INDEX = BAD_INDEX
  NoMsg = NoMsg
  MaxPushes = 3
SYMMETRY Symmetric
INVARIANTS NumbersUnique NumberedInOrder
CHECK_DEADLOCK FALSE
