\* A ring of three characters that fills up and wraps, and lines longer than
\* the destination.
SPECIFICATION Spec
CONSTANTS
  CHAR_BUFFER_SIZE = 3
  READ_SIZE = 3
  MAX_RECEIVED = 5
INVARIANTS TypeOK Fifo ReturnsWholeLine
PROPERTIES EveryLineRead
