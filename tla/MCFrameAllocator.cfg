\* Four sections of two bytes, the first in use and the third the page table;
\* every address from below the memory to behind it.
SPECIFICATION Spec
CONSTANTS
  MEM_PHYS_BASE = 4
  MEM_SECTION_SIZE = 2
  FRAMES = 4
  MEM_BOOT_PAGE_TABLE_BASE = 8
  mapped_sections = 1
  Address = {2, 4, 6, 7, 8, 10, 12}
INVARIANTS NeverTwice NoLeak ListIsFree
