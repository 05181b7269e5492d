SPECIFICATION Spec
CONSTANTS
  Uris <- ManyUris
  FileSizes = {0, 511, 512, 513, 1025}
  BufSize = 512
INVARIANT InvalidEncodingRefused
CHECK_DEADLOCK FALSE
