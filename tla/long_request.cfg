\* Requests a little longer than the buffer, over a send() that takes all it
\* is offered.
CONSTANTS
  K = 5
  WriteSizes = {1, 2, 3}
  RequestLength = 7
  PartialSends = FALSE
  StreamLength = 15
SPECIFICATION Spec
INVARIANT WireInOrder
CHECK_DEADLOCK FALSE
