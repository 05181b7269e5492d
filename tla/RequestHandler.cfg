SPECIFICATION Spec
CONSTANTS
  Uris <- ManyUris
  FileSizes = {0, 511, 512, 513, 1025}
  BufSize = 512
INVARIANTS DecodesUnits RefusedOnlyInvalid StaysUnderRoot WholeFile ReplyFramed
CHECK_DEADLOCK FALSE
