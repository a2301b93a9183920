\* Two tasks, interrupts anywhere the I bit allows them.
SPECIFICATION Spec
CONSTANTS
  GENERIC_BUFFER_SIZE = 4
  NUM_TASKS = 2
  OS_STACK = 3
  IrqPossible = TRUE
INVARIANTS NeverDeaf TasksConserved ContextsPrivate
PROPERTIES SwitchPreserves
