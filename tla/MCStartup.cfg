SPECIFICATION StartupSpec
CONSTANTS
  Line = {68, 72, 73}
  NUM_INTERRUPTS = 128
  MaxArrivals = 3
INVARIANTS HandlersReady OnlyEarlyInputStops
PROPERTIES Served
CHECK_DEADLOCK FALSE
