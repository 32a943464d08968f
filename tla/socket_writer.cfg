\* A four-byte buffer, writes that fill it, straddle it and go round it
\* twice, and a send() that may take any part of what it is offered.
CONSTANTS
  K = 4
  WriteSizes = {0, 1, 3, 4, 9}
  RequestLength = 9
  PartialSends = TRUE
  StreamLength = 9
SPECIFICATION Spec
INVARIANTS
  TypeOK
  CountKept
  FlushedRequests
  WholeWritesInOrder
CHECK_DEADLOCK FALSE
