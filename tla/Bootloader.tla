----------------------------- MODULE Bootloader -----------------------------
(***************************************************************************)
(* __BootloaderEntry (bootloader.c): memory setup and test (Ddr), mount,   *)
(* open and load of the kernel (Fat32Lookup), its header, the page table   *)
(* (Mmu), the bss, the jump.  Interrupts are in Startup, single sectors in *)
(* Mmc, the bytes of the file in Fat32File.                                *)
(*                                                                         *)
(* Sizes count units of the header's size; a section has SECTION of them.  *)
(***************************************************************************)
EXTENDS Ddr, Fat32Lookup, Mmu

CONSTANTS SECTION,    \* units in MEM_SECTION_SIZE; 0x100000 / 64
          Image,      \* kernels: magic, the sizes text, data and bss, and the
                      \* alignment gaps before data and before bss
          Machine     \* the memory, card, tree and image the bootloader meets

ASSUME ImageAssumption ==
  /\ SECTION \in Nat \ {0}
  /\ \A m \in Machine : m.image \in Image /\ m.memory \in Memory /\ m.table \in PowerUp
  /\ \A m \in Image : /\ m.text \in Nat \ {0} /\ m.data \in Nat /\ m.bss \in Nat
                      /\ m.text_gap \in Nat /\ m.data_gap \in 0 .. m.text

HEADER == 1           \* linker.ld pads the header to 64 bytes

\* A volume, damaged perhaps: its root and its directories are directories, the
\* chain of one does not lead to other clusters below BYTE, no volume label has
\* the name of the kernel, and no file is empty.
SoundVolume(c, t) ==
  /\ c.bpb.root \in DOMAIN t.dir
  /\ \A d \in DOMAIN t.dir :
       /\ DOMAIN t.dir[d] = 1 .. SECTORS_PER_CLUSTER
       /\ d \in DOMAIN t.fat => t.fat[d] \in {c1 \in Nat : c1 \in DOMAIN t.dir \/ c1 >= BYTE}
       /\ \A s \in DOMAIN t.dir[d] :
            /\ DOMAIN t.dir[d][s] = 1 .. Len(t.dir[d][s]) /\ Len(t.dir[d][s]) \in Nat
            /\ \A k \in DOMAIN t.dir[d][s] : LET e == t.dir[d][s][k] IN
                 /\ e.size \in Nat /\ (e.attr = "file" => e.size # 0)
                 /\ e.attr = "dir" => e.start \in DOMAIN t.dir
                 /\ e.name = format_name_to_fat32(Path[2]) => e.attr \in {"file", "dir"}

ASSUME VolumeAssumption == \A m \in Machine : SoundVolume(m.card, m.tree)

\* The memory map: page table and sector buffer are RAM, and a kernel, with as much
\* behind it as its text is long, ends below the page table.
ASSUME LayoutAssumption ==
  /\ MEM_PHYS_BASE + MEM_PHYS_SECTIONS > 2320
  /\ \A m \in Image : HEADER + 2 * m.text + m.text_gap + m.data + m.bss
                        <= (MEM_BOOT_PAGE_TABLE_BASE - MEM_PHYS_BASE) * SECTION

VARIABLES
  kernel_header,   \* what the header in memory says; a member of Image
  part,            \* clusters of the file that fat32_read has stored
  loaded,          \* history: those of them that stand in memory as in the file
  current_frame,
  cleared,         \* units behind MEM_PHYS_BASE that were set to 0
  mapped_sections  \* boot_header.mapped_sections

boot == <<kernel_header, part, loaded, current_frame, cleared, mapped_sections>>
vars == <<ddrVars, lookupVars, mmuVars, boot>>

\* The header gives addresses, which count the gaps, but sums up the sizes.
text_section_size == kernel_header.text + kernel_header.text_gap   \* with .rodata
data_section_size == kernel_header.data + kernel_header.data_gap
kernel_size == kernel_header.text + kernel_header.data + kernel_header.bss
bss_section_offset == HEADER + text_section_size + data_section_size
bss_section_size == kernel_size - data_section_size
kernel_end == bss_section_offset + kernel_header.bss

\* Mutant: the last, partial section is not counted.
SectionsDown == kernel_size \div SECTION

kernel_sections == (kernel_size + SECTION - 1) \div SECTION

Init ==
  /\ \E m \in Machine :
       /\ DdrInit(m.memory) /\ LookupInit(m.card, m.tree, m.tail_zero, m.noisy)
       /\ MmuInit(m.table) /\ kernel_header = m.image
  /\ pc = "ddr"
  /\ part = 0 /\ loaded = 0 /\ current_frame = 0 /\ cleared = {} /\ mapped_sections = 0

-----------------------------------------------------------------------------
\* That the memory test failed is logged and no more; mmc_controller_init has no
\* result, so that it failed is not seen here.
Initialised ==
  /\ pc = "ddr" /\ Tested /\ pc' = "sector0"
  /\ UNCHANGED <<ddrVars, disk, ret, fs, level, cluster, sector, file, failed, garbled,
                 astray, mmuVars, boot>>

\* It has failed: without a clock the card never answers the first command, and
\* the loop that waits for the answer has no end.
NoClock ==
  /\ pc = "sector0" /\ pc' = "hung"
  /\ UNCHANGED <<ddrVars, disk, ret, fs, level, cluster, sector, file, failed, garbled,
                 astray, mmuVars, boot>>

SetUpMemory == pc = "ddr" /\ DdrNext /\ UNCHANGED <<lookupVars, mmuVars, boot>>

FindKernel == Lookup /\ UNCHANGED <<ddrVars, mmuVars, boot>>

Panic == pc' = "panic" /\ UNCHANGED <<level, cluster, sector, file>>

\* fat32_read: the walk along the chain ends at a cluster of the volume.
Reached == file.start > 2 /\ InVolume(fs, ChainAt(file.start, part))

\* The next cluster of the file is read and stored, or there is none: fat32_read
\* returns an error, or less than the size.
LoadPart ==
  /\ pc = "opened" /\ part < file.size
  /\ \/ /\ Reached /\ part' = part + 1 /\ loaded' = loaded + 1
        /\ UNCHANGED <<pc, level, cluster, sector, file>>
     \/ ~Reached /\ Panic /\ UNCHANGED <<part, loaded>>
  /\ UNCHANGED <<ddrVars, disk, ret, fs, failed, garbled, astray, mmuVars,
                 kernel_header, current_frame, cleared, mapped_sections>>

\* It returns less because a sector of the file or of the FAT could not be read,
\* or because one of the FAT was another.
LoadFails ==
  /\ pc = "opened" /\ part < file.size /\ Panic
  /\ \/ failed' = TRUE /\ UNCHANGED garbled
     \/ noisy /\ part > 0 /\ garbled' = TRUE /\ UNCHANGED failed
  /\ UNCHANGED <<ddrVars, disk, ret, fs, astray, mmuVars, boot>>

\* It stores other bytes: after a sector of the FAT could not be read it looks for
\* the entry of the error code and goes on (Fat32File); a sector was another; or
\* the memory does not keep them.  The first ones are the header.
LoadsWrong ==
  /\ pc = "opened" /\ part < file.size
  /\ part' = part + 1 /\ UNCHANGED loaded
  /\ kernel_header' \in IF part = 0 THEN Image ELSE {kernel_header}
  /\ \/ part > 1 /\ failed' = TRUE /\ astray' = TRUE /\ UNCHANGED garbled
     \/ noisy /\ garbled' = TRUE /\ UNCHANGED <<failed, astray>>
     \/ (\E a \in DdrAddr : ~Sound(a)) /\ UNCHANGED <<failed, garbled, astray>>
  /\ UNCHANGED <<ddrVars, disk, pc, ret, fs, level, cluster, sector, file, mmuVars,
                 current_frame, cleared, mapped_sections>>

\* It returns the size of the file.
LoadKernel ==
  /\ pc = "opened" /\ part = file.size /\ pc' = "magic"
  /\ UNCHANGED <<ddrVars, disk, ret, fs, level, cluster, sector, file, failed, garbled,
                 astray, mmuVars, boot>>

\* Mutant: the magic number is not looked at.
CheckNothing ==
  /\ pc = "magic" /\ pc' = "mmu"
  /\ UNCHANGED <<ddrVars, disk, ret, fs, level, cluster, sector, file, failed, garbled,
                 astray, mmuVars, boot>>

CheckMagic ==
  /\ pc = "magic"
  /\ IF kernel_header.magic THEN pc' = "mmu" /\ UNCHANGED <<level, cluster, sector, file>>
     ELSE Panic
  /\ UNCHANGED <<ddrVars, disk, ret, fs, failed, garbled, astray, mmuVars, boot>>

InitMmu ==
  /\ pc = "mmu" /\ MMU_init /\ pc' = "map"
  /\ UNCHANGED <<ddrVars, disk, ret, fs, level, cluster, sector, file, failed, garbled,
                 astray, boot>>

MapKernel ==
  /\ pc = "map" /\ current_frame < kernel_sections
  /\ l1' = MMU_map_section(l1, MEM_KERNEL_BASE + current_frame,
                           MEM_PHYS_BASE + current_frame, L1_KERNEL_DATA_EXEC_FLAGS)
  /\ current_frame' = current_frame + 1
  /\ UNCHANGED <<ddrVars, lookupVars, mmu_on, kernel_header, part, loaded, cleared,
                 mapped_sections>>

EnableMmu ==
  /\ pc = "map" /\ current_frame = kernel_sections /\ MMU_enable /\ pc' = "bss"
  /\ UNCHANGED <<ddrVars, disk, ret, fs, level, cluster, sector, file, failed, garbled,
                 astray, boot>>

\* Mutant: the loop starts at the data section.
ClearData ==
  /\ pc = "bss" /\ pc' = "jump"
  /\ cleared' = Block(HEADER + text_section_size, bss_section_size)
  /\ mapped_sections' = kernel_sections
  /\ UNCHANGED <<ddrVars, disk, ret, fs, level, cluster, sector, file, failed, garbled,
                 astray, mmuVars, kernel_header, part, loaded, current_frame>>

\* The loop clears as much behind the bss as the text is long.  Then the header
\* for the kernel is filled in.
ClearBss ==
  /\ pc = "bss" /\ pc' = "jump"
  /\ cleared' = Block(bss_section_offset, bss_section_size)
  /\ mapped_sections' = kernel_sections
  /\ UNCHANGED <<ddrVars, disk, ret, fs, level, cluster, sector, file, failed, garbled,
                 astray, mmuVars, kernel_header, part, loaded, current_frame>>

Jump ==
  /\ pc = "jump" /\ pc' = "kernel"
  /\ UNCHANGED <<ddrVars, disk, ret, fs, level, cluster, sector, file, failed, garbled,
                 astray, mmuVars, boot>>

__BootloaderEntry ==
  \/ SetUpMemory \/ Initialised \/ NoClock \/ FindKernel
  \/ LoadPart \/ LoadFails \/ LoadsWrong \/ LoadKernel \/ CheckMagic
  \/ InitMmu \/ MapKernel \/ EnableMmu \/ ClearBss \/ Jump

\* The processor runs; sector reads return if the card has its clock (Mmc).
Spec == Init /\ [][__BootloaderEntry]_vars /\ WF_vars(__BootloaderEntry)

-----------------------------------------------------------------------------
\* A panic has a cause: a sector could not be read, the volume or the file is not
\* there, the file has fewer clusters than its size needs, its magic number is
\* wrong, bytes behind the sector buffer that belong to nobody are not 0, or the
\* memory is bad.  Excepted are the boots that have read another sector than they
\* asked for (mmc_read_sector may report success) or left the directory.
PanicsForCause ==
  pc = "panic" /\ ~astray /\ ~garbled =>
    \/ failed \/ ~tail_zero \/ ~HasVolume \/ Named = {} \/ (\E e \in Named : ~Whole(e))
    \/ ~kernel_header.magic \/ errors > 0

\* The processor jumps only into the whole kernel file that the first FAT32 volume
\* of the card names, its magic number in place, unless the memory test has
\* warned, the directory or the chain of the file was lost on the way, or a read
\* reported success and had stored another sector: nothing checks the bytes.
JumpsIntoKernel ==
  pc = "kernel" /\ ~astray /\ ~garbled =>
    /\ HasVolume /\ fs.start = VolumeStart
    /\ file \in Named /\ kernel_header.magic
    /\ loaded = file.size \/ errors > 0

\* The sections the bootloader and the kernel go on to use: its code and stack,
\* the kernel, the table and the sector buffer; UART0 and the clocks, the timers,
\* GPIO1 and the card, the interrupt controller.
Code == Block(1026, 2)
Ram == Block(MEM_PHYS_BASE, kernel_sections) \union {MEM_BOOT_PAGE_TABLE_BASE, 2320}
Devices == {1102, 1152, 1154}

\* Once the MMU is on, the bootloader still runs and finds its stack, the table
\* and the loaded kernel where they are, registers are not cached, and no entry
\* is left of what the memory held before.  This holds whether bit 18 of the RAM
\* entries makes them supersections or, as log_l1_pte has it, is not supported.
MmuKeepsGoing ==
  mmu_on =>
    /\ \A s \in Code \union Ram \union Devices : Reaches(s, s)
    /\ \A s \in Code : "XN" \notin Flags(s)
    /\ \A s \in Devices : "C" \notin Flags(s)
    /\ \A k \in DOMAIN l1 : \/ l1[k].va = l1[k].pa
                           \/ l1[k].va \in Block(MEM_KERNEL_BASE, kernel_sections)

\* Once the MMU is on, every unit of the kernel can be reached at the address it
\* was linked for and lies in a section the frame allocator is told to leave
\* alone, the last ones excepted, as many as the header and the gaps between the
\* sections have: kernel_size leaves those out.
KernelMapped ==
  mmu_on =>
    \A u \in Block(0, kernel_end) :
      \/ /\ Reaches(MEM_KERNEL_BASE + u \div SECTION, MEM_PHYS_BASE + u \div SECTION)
         /\ "XN" \notin Flags(MEM_KERNEL_BASE + u \div SECTION)
         /\ mapped_sections # 0 => u \div SECTION < mapped_sections
      \/ u >= kernel_size

\* The kernel starts with its whole bss at 0 and with header, text and data as
\* they were loaded; what is cleared behind it lies below the page table.
BssClear ==
  pc = "kernel" =>
    /\ Block(bss_section_offset, kernel_header.bss) \subseteq cleared
    /\ cleared \intersect Block(0, bss_section_offset) = {}
    /\ \A u \in cleared : MEM_PHYS_BASE + u \div SECTION < MEM_BOOT_PAGE_TABLE_BASE

\* The bootloader comes to an end, in the kernel or in a panic, unless the card has
\* no clock, a chain is a cycle, read_dir_entry reads what is no directory, or a
\* sector was taken for another.
Settles == Acyclic ~> pc \in {"kernel", "panic", "hung"} \/ astray \/ garbled
=============================================================================
