SPECIFICATION MmcSpec
CONSTANTS
  Sector = {s1, s2}
  TIMEOUT = 2
  FIFO_BLOCKS = 2
  Corrupt = Corrupt
  Junk = Junk
INVARIANTS CopiesArrivedBlock ReadsWanted
PROPERTIES ReadReturns
CHECK_DEADLOCK FALSE
