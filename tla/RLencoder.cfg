\* bytes of two bits
CONSTANTS
  Bytes = {0, 3}
  MaxByte = 3
  MinRunLen = 3
  BufSize = 8
  MaxFed = 12

SPECIFICATION Spec

INVARIANT RLLossless

\* nothing is written after close()
CHECK_DEADLOCK FALSE
