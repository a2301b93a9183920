\* Where a preempted process continues.
SPECIFICATION Spec
CONSTANTS
  GENERIC_BUFFER_SIZE = 4
  NUM_TASKS = 2
  OS_STACK = 3
  IrqPossible = TRUE
PROPERTIES ResumesWhereItStopped
