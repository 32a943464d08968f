\* A five-byte buffer: reads of 3 after reads of 2 force the memmove, and a
\* read of 7 is longer than the buffer.
CONSTANTS
  K = 5
  ReadSizes = {0, 1, 2, 3, 5, 7}
  StreamLength = 12
SPECIFICATION Spec
INVARIANTS
  TypeOK
  NoZeroLengthRecv
PROPERTIES
  IsTokenProvider
CHECK_DEADLOCK FALSE
