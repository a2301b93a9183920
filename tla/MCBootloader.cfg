\* Directories of two clusters of two sectors, damaged ones included; two words
\* of memory with any bit of two stuck; kernels on both sides of the end of a
\* section of four units.
SPECIFICATION Spec
CONSTANTS
  Bit = {0, 1}
  DDR_WORDS = 2
  SECTORS_PER_CLUSTER = 2
  BYTE = 8
  WORD = 64
  END = 15
  Foreign <- Strangers
  MEM_PHYS_SECTIONS = 512
  SECTION = 4
  Image <- Images
  Machine <- Machines
INVARIANTS PanicsForCause JumpsIntoKernel MmuKeepsGoing KernelMapped BssClear
PROPERTIES Settles
CHECK_DEADLOCK FALSE
