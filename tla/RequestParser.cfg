SPECIFICATION Spec
CONSTANTS
  Alphabet = {"H", "T", "P", "9", ".", "/", ":", "SP", "HT", "CR", "LF", "high"}
  IntMax = 150
  MaxChunk = 2
  MaxTarget = 2
  MaxVersion = 4
  MaxInput = 6
INVARIANTS TrueOnlyForRequests FalseOnlyForInvalid CanFinish HeaderToAppendTo
CHECK_DEADLOCK FALSE
