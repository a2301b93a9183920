\* Few slots, and one task more than fits: every count of tasks from 0 to 4,
\* the failing process_create included.
SPECIFICATION Spec
CONSTANTS
  GENERIC_BUFFER_SIZE = 7
  MAX_PROCESSES = 4
  MAX_TASKS = 4
  NULL = NULL
INVARIANTS ReadyConservation SlotAccounting
PROPERTIES ImplementsRoundRobin DispatchedInTurn
