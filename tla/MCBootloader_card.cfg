\* Is a card that is called invalid invalid?
SPECIFICATION Spec
CONSTANTS
  Bit = {0, 1}
  DDR_WORDS = 2
  SECTORS_PER_CLUSTER = 2
  BYTE = 8
  WORD = 64
  END = 15
  Foreign <- Strangers
  MEM_PHYS_SECTIONS = 512
  SECTION = 4
  Image <- Images
  Machine <- Machines
INVARIANT InvalidMeansInvalid
CHECK_DEADLOCK FALSE
