SPECIFICATION Spec
CONSTANTS
  Line = {68}
  NUM_INTERRUPTS = 128
  TIMER_MAX_COUNT = 7
  CLOCKS_PER_MS = 2
  TickMs = {1, 3, 4}
  timer_index = 2
  MaxOverflows = 3
INVARIANTS TickPerOverflow
PROPERTIES Period QuietWhenStopped Handled
CHECK_DEADLOCK FALSE
