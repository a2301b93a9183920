-------------------------------- MODULE Mmu --------------------------------
(***************************************************************************)
(* The first-level table of the bootloader (mmu.c) and what the processor  *)
(* makes of it.  An address is the number of its 1 MB section.  The table  *)
(* is the sequence of what was written to it, the newest first: runs of n  *)
(* entries from va on that map to as many sections from pa on.             *)
(***************************************************************************)
EXTENDS Integers, Sequences, FiniteSetsExt

CONSTANT MEM_PHYS_SECTIONS   \* sections of RAM mapped 1:1; 512

ASSUME MmuAssumption == MEM_PHYS_SECTIONS \in Nat \ {0}

MEM_PHYS_BASE == 2048              \* 0x800 (00000)
MEM_KERNEL_BASE == 2560            \* 0xA00
MEM_BOOT_PAGE_TABLE_BASE == 2304   \* 0x900
L1_ENTRIES == 4096

SRAM_FLAGS == {"C", "S"}
L1_KERNEL_DATA_EXEC_FLAGS == {"C", "S"}
L1_KERNEL_DEVICE_FLAGS == {"XN", "B", "S"}
PHYS_MEM_FLAGS == {"B", "C", "S", "SUPER"}   \* 0x00050C0E, bit 18 included

VARIABLES l1,      \* the table at MEM_BOOT_PAGE_TABLE_BASE
          mmu_on

mmuVars == <<l1, mmu_on>>

Block(first, n) == first .. first + n - 1

Run(va, pa, n, flags) == [va |-> va, pa |-> pa, n |-> n, flags |-> flags]
Same(s, n, flags) == Run(s, s, n, flags)

MMU_map_section(table, vaddr, paddr, flags) == <<Run(vaddr, paddr, 1, flags)>> \o table

\* On-chip memory (0x402), L4 WKUP (0x44C), L4 PER (0x480), L4 FAST (0x4A0),
\* EMIF0 (0x4C0), GPMC (0x500) and the RAM, all 1:1.
mmu_map_hardware_pages ==
  <<Same(1026, 2, SRAM_FLAGS), Same(1100, 4, L1_KERNEL_DEVICE_FLAGS),
    Same(1152, 16, L1_KERNEL_DEVICE_FLAGS), Same(1184, 16, L1_KERNEL_DEVICE_FLAGS),
    Same(1216, 16, L1_KERNEL_DEVICE_FLAGS), Same(1280, 16, L1_KERNEL_DEVICE_FLAGS),
    Same(MEM_PHYS_BASE, MEM_PHYS_SECTIONS, PHYS_MEM_FLAGS)>>

\* Mutant: the table is not cleared before it is filled.
InitKeepsTable == l1' = mmu_map_hardware_pages \o l1 /\ UNCHANGED mmu_on

\* clear_boot_tables, the domains, the hardware pages, TTBR0.
MMU_init == l1' = mmu_map_hardware_pages /\ UNCHANGED mmu_on

MMU_enable == mmu_on' = TRUE /\ UNCHANGED l1

\* The table holds what the memory held at power-up: nothing, or anything.
PowerUp == {<< >>, <<Run(L1_ENTRIES - 1, 0, 1, {})>>}

MmuInit(table) == l1 = table /\ mmu_on = FALSE

-----------------------------------------------------------------------------
(* The processor. *)
Holds(va) == {k \in DOMAIN l1 : va \in Block(l1[k].va, l1[k].n)}
Mapped(va) == Holds(va) # {}
Flags(va) == l1[Min(Holds(va))].flags

\* The physical sections an access may go to.  A processor with supersections
\* takes an entry with bit 18 set for one of 16 MB, of whose address only the upper
\* part counts; "Supersection not supported on hardware" (log_l1_pte) says that
\* this one has none.  Both are allowed for.
Translations(va) ==
  LET r == l1[Min(Holds(va))]
      pa == r.pa + (va - r.va)
  IN {pa} \union (IF "SUPER" \in r.flags THEN {(pa \div 16) * 16 + (va % 16)} ELSE {})

Reaches(va, pa) == Mapped(va) /\ Translations(va) = {pa}
=============================================================================
