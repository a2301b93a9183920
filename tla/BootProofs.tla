----------------------------- MODULE BootProofs -----------------------------
(***************************************************************************)
(* Bootloader for any machine: memory, card, directory tree and kernel of  *)
(* any size that fits.  And Mmc, the driver by which it reads every        *)
(* sector, for any set of sectors, number of polls and depth of the buffer.*)
(***************************************************************************)
EXTENDS Bootloader, Mmc, SequenceTheorems, WellFoundedInduction, TLAPS

-----------------------------------------------------------------------------
(* The inductive invariant.                                                *)

Searching == {"dir", "next"}
Entered == {"mmu", "map", "bss", "jump", "kernel"}
Opened == {"opened", "magic"} \union Entered
Mounted == {"mounted"} \union Searching \union Opened

Types ==
  /\ pc \in {"ddr", "sector0", "boot_sector", "panic", "hung"} \union Mounted
  /\ kernel_header \in Image /\ level \in {1, 2}
  /\ sector \in 0 .. SECTORS_PER_CLUSTER - 1

\* The words that have been written with a pattern have read it back, or there
\* are errors; nothing goes on before all have.
MemoryTested ==
  /\ stuck \in Memory /\ errors \in Nat /\ p \in 1 .. 5 /\ mem_addr \in DdrAddr
  /\ \A a \in DdrAddr, q \in 1 .. 4 :
       (q < p \/ (q = p /\ a < mem_addr)) /\ ReadBack(a, patterns[q]) # patterns[q]
         => errors > 0
  /\ pc # "ddr" => p = 5

\* The volume that is mounted is the one the card holds, if its sectors were read.
VolumeFound ==
  /\ SoundVolume(card, tree)
  /\ pc = "boot_sector" /\ ~garbled => FoundViaMbr(card) /\ fs.start = VolumeStart
  /\ pc \in Mounted /\ ~garbled => HasVolume /\ fs = initialize_fat32_fs(card, VolumeStart)

\* The directory in which the component of the path is searched starts in c.
Directory(c) ==
  IF level = 1 THEN c = card.bpb.root
  ELSE \E d : d.attr = "dir" /\ c = d.start /\ Entries(tree, card.bpb.root, Path[1]) = {d}

\* Cluster x is behind the search.
Passed(x, X) ==
  /\ ~EndsIn(tree, x, Path[level])
  /\ x \notin DOMAIN tree.fat \/ tree.fat[x] \in X \/ tree.fat[x] \notin DOMAIN tree.dir

\* The search for it from c has come to this cluster and sector.
CameFrom(c) ==
  /\ cluster \in Searched(tree, c, Path[level])
  /\ \E X \in SUBSET DOMAIN tree.dir : /\ c \in X /\ cluster \in X
                                       /\ \A x \in X : x = cluster \/ Passed(x, X)
  /\ \A r \in 1 .. sector : \A k \in DOMAIN tree.dir[cluster][r] :
       ~Ends(tree.dir[cluster][r][k], Path[level])
  /\ pc = "next" => ~EndsIn(tree, cluster, Path[level])

OnTheWay == pc \in Searching /\ ~astray /\ ~garbled => \E c : Directory(c) /\ CameFrom(c)

\* What was opened is the file the path names, what was stored of it is right, and
\* what is entered is all of it with its magic number, unless something was noticed
\* or a sector was another.
KernelRight ==
  /\ part \in Nat /\ loaded \in Nat
  /\ pc \in Opened /\ ~astray /\ ~garbled => file \in Named /\ file.size \in Nat
  /\ loaded = part \/ astray \/ garbled \/ errors > 0
  /\ pc \in Opened \ {"opened"} => part = file.size
  /\ pc \in Entered => kernel_header.magic

-----------------------------------------------------------------------------
(* Searching a directory.                                                  *)

\* A set of numbers that is not empty has a least element.
LEMMA LeastElement ==
  ASSUME NEW T, T \subseteq Nat, T # {}
  PROVE  \E x \in T : \A y \in T : x <= y
<1> DEFINE R == OpToRel(<, Nat)
<1>1. IsWellFoundedOn(R, Nat)
  BY NatLessThanWellFounded
<1>2. \A x, y \in Nat : x < y => <<x, y>> \in R
  BY DEF OpToRel
<1> HIDE DEF R
<1>3. PICK x \in T : \A y \in T : ~ (<<y, x>> \in R)
  BY <1>1, WFMin
<1>4. \A y \in T : x <= y
  <2> TAKE y \in T
  <2>1. x \in Nat /\ y \in Nat
    OBVIOUS
  <2>2. ~ (<<y, x>> \in R)
    BY <1>3
  <2>3. ~ (y < x)
    BY <2>1, <2>2, <1>2, Zenon
  <2> QED BY <2>1, <2>3
<1> QED BY <1>4

\* Min is that element.
LEMMA MinIsLeast ==
  ASSUME NEW T, T \subseteq Nat, T # {}
  PROVE  Min(T) \in T /\ \A y \in T : Min(T) <= y
BY LeastElement DEF Min

\* What it means to be the entry a name leads to.
LEMMA InEntries ==
  ASSUME NEW c, NEW name, NEW x
  PROVE  x \in Entries(tree, c, name) <=>
           /\ x # FAT32_ENTRY_EMPTY
           /\ \E d \in Searched(tree, c, name) : \E s \in DOMAIN tree.dir[d] :
                \E k \in DOMAIN tree.dir[d][s] :
                  EndsAt(tree, d, s, k, name) /\ x = tree.dir[d][s][k]
<1> DEFINE B(d, s) == {tree.dir[d][s][k] :
                         k \in {k \in DOMAIN tree.dir[d][s] : EndsAt(tree, d, s, k, name)}}
           A(d) == UNION {B(d, s) : s \in DOMAIN tree.dir[d]}
<1>1. \A d, s : x \in B(d, s) <=> \E k \in DOMAIN tree.dir[d][s] :
                                    EndsAt(tree, d, s, k, name) /\ x = tree.dir[d][s][k]
  BY Zenon
<1> HIDE DEF B
<1>2. \A d : x \in A(d) <=> \E s \in DOMAIN tree.dir[d] : x \in B(d, s)
  BY Zenon
<1>3. Entries(tree, c, name) =
        (UNION {A(d) : d \in Searched(tree, c, name)}) \ {FAT32_ENTRY_EMPTY}
  BY DEF Entries, B
<1> HIDE DEF A
<1>4. x \in UNION {A(d) : d \in Searched(tree, c, name)} <=>
        \E d \in Searched(tree, c, name) : x \in A(d)
  BY Zenon
<1>5. x \in Entries(tree, c, name) <=>
        x # FAT32_ENTRY_EMPTY /\ \E d \in Searched(tree, c, name) : x \in A(d)
  BY <1>3, <1>4
<1>6. \A d : x \in A(d) <=> \E s \in DOMAIN tree.dir[d] : \E k \in DOMAIN tree.dir[d][s] :
                               EndsAt(tree, d, s, k, name) /\ x = tree.dir[d][s][k]
  BY <1>1, <1>2, Zenon
<1> QED BY <1>5, <1>6, Zenon

\* The search for a component of the path that has come from c ends at the first
\* entry of this sector that ends it: the name leads there, or nowhere if that
\* entry is the end mark.
LEMMA SearchEnds ==
  ASSUME NEW c, CameFrom(c), SoundVolume(card, tree), Types, pc = "dir",
         NEW m \in DOMAIN tree.dir[cluster][sector + 1],
         Ends(tree.dir[cluster][sector + 1][m], Path[level]),
         \A j \in 1 .. m - 1 : ~Ends(tree.dir[cluster][sector + 1][j], Path[level])
  PROVE  Entries(tree, c, Path[level]) =
           {tree.dir[cluster][sector + 1][m]} \ {FAT32_ENTRY_EMPTY}
<1> DEFINE name == Path[level]
           s == sector + 1
           e == tree.dir[cluster][s][m]
<1>1. cluster \in DOMAIN tree.dir /\ c \in DOMAIN tree.dir
  BY DEF CameFrom, Searched
<1>2. /\ DOMAIN tree.dir[cluster] = 1 .. SECTORS_PER_CLUSTER /\ s \in 1 .. SECTORS_PER_CLUSTER
      /\ sector \in Nat
      /\ \A r \in 1 .. SECTORS_PER_CLUSTER :
           /\ DOMAIN tree.dir[cluster][r] = 1 .. Len(tree.dir[cluster][r])
           /\ Len(tree.dir[cluster][r]) \in Nat
  BY <1>1, LookupAssumption DEF SoundVolume, Types
<1>3. EndsIn(tree, cluster, name) /\ EndsAt(tree, cluster, s, m, name)
  <2>1. EndsIn(tree, cluster, name)
    BY <1>2 DEF EndsIn
  <2>2. \A r \in 1 .. s - 1 : \A j \in DOMAIN tree.dir[cluster][r] :
          ~Ends(tree.dir[cluster][r][j], name)
    BY <1>2 DEF CameFrom
  <2> QED BY <2>1, <2>2 DEF EndsAt
<1>4. ASSUME NEW d \in Searched(tree, c, name), EndsIn(tree, d, name)  PROVE d = cluster
  <2>1. PICK X \in SUBSET DOMAIN tree.dir : /\ c \in X /\ cluster \in X
                                            /\ \A x \in X : x = cluster \/ Passed(x, X)
    BY DEF CameFrom
  <2>2. Closed(tree, X, name)
    BY <2>1, <1>3 DEF Closed, Passed
  <2>3. d \in X
    BY <2>1, <2>2 DEF Searched
  <2> QED BY <2>1, <2>3, <1>4 DEF Passed
<1>5. ASSUME NEW s2 \in DOMAIN tree.dir[cluster], NEW k \in DOMAIN tree.dir[cluster][s2],
             EndsAt(tree, cluster, s2, k, name)
      PROVE  tree.dir[cluster][s2][k] = e
  <2>1. /\ Ends(tree.dir[cluster][s2][k], name)
        /\ \A j \in 1 .. k - 1 : ~Ends(tree.dir[cluster][s2][j], name)
        /\ \A r \in 1 .. s2 - 1 : \A j \in DOMAIN tree.dir[cluster][r] :
             ~Ends(tree.dir[cluster][r][j], name)
    BY <1>5 DEF EndsAt
  <2>2. /\ \A r \in 1 .. sector : \A j \in DOMAIN tree.dir[cluster][r] :
             ~Ends(tree.dir[cluster][r][j], name)
    BY DEF CameFrom
  <2>3. s2 \in Nat /\ k \in Nat /\ m \in Nat /\ s2 >= 1 /\ k >= 1 /\ m >= 1
    BY <1>2, LookupAssumption
  <2>4. ~(s2 < s)
    BY <2>1, <2>2, <2>3, <1>2
  <2>5. ~(s < s2)
    BY <2>1, <2>3, <1>2
  <2>6. s2 = s
    BY <2>3, <2>4, <2>5, <1>2
  <2>7. ~(k < m) /\ ~(m < k)
    BY <2>1, <2>3, <2>6
  <2>8. k = m
    BY <2>3, <2>7
  <2> QED BY <2>6, <2>8
<1> HIDE DEF e, s, name
<1>6. ASSUME NEW x \in Entries(tree, c, name)  PROVE x = e /\ x # FAT32_ENTRY_EMPTY
  <2>1. PICK d \in Searched(tree, c, name) : \E s2 \in DOMAIN tree.dir[d] :
               \E k \in DOMAIN tree.dir[d][s2] :
                 EndsAt(tree, d, s2, k, name) /\ x = tree.dir[d][s2][k] /\ x # FAT32_ENTRY_EMPTY
    BY <1>6, InEntries, Zenon
  <2>2. EndsIn(tree, d, name)
    BY <2>1 DEF EndsAt, EndsIn
  <2>3. d = cluster
    BY <2>2, <1>4
  <2> QED BY <2>1, <2>3, <1>5
<1>7. ASSUME e # FAT32_ENTRY_EMPTY  PROVE e \in Entries(tree, c, name)
  <2>1. cluster \in Searched(tree, c, name)
    BY DEF CameFrom, name
  <2>2. s \in DOMAIN tree.dir[cluster] /\ m \in DOMAIN tree.dir[cluster][s]
    BY <1>2 DEF s
  <2> QED BY <2>1, <2>2, <1>3, <1>7, InEntries, Zenon DEF e
<1>8. Entries(tree, c, name) = {e} \ {FAT32_ENTRY_EMPTY}
  BY <1>6, <1>7
<1> QED BY <1>8 DEF e, s, name

-----------------------------------------------------------------------------
(* The memory test.                                                        *)

\* There are four patterns.
LEMMA FourPatterns == Len(patterns) = 4 /\ patterns[3] = {} /\ patterns[4] = Bit
BY DEF patterns

\* A step of the setup or a word of the test.
LEMMA TestStep ==
  ASSUME MemoryTested, pc = "ddr", pc' = pc, DdrNext
  PROVE  MemoryTested'
<1>1. CASE setup_memory
  <2>1. UNCHANGED <<stuck, p, mem_addr, errors>>
    BY <1>1 DEF setup_memory, enable_core_pll, enable_ddr_pll, enable_emif_clocks, init_emif,
         configure_ddr_phy, configure_ddr_phy_cmd_data, configure_ddr_io, init_ddr3, AtStep
  <2> QED BY <2>1 DEF MemoryTested, ReadBack
<1>2. CASE TestWord
  <2> DEFINE bad(a, q) == ReadBack(a, patterns[q]) # patterns[q]
  <2>1. /\ p \in 1 .. 4 /\ UNCHANGED stuck
        /\ errors' = IF bad(mem_addr, p) THEN errors + 1 ELSE errors
        /\ IF mem_addr < DDR_WORDS THEN mem_addr' = mem_addr + 1 /\ UNCHANGED p
           ELSE mem_addr' = 1 /\ p' = p + 1
    BY <1>2, FourPatterns DEF TestWord, MemoryTested
  <2>2. /\ errors \in Nat /\ mem_addr \in 1 .. DDR_WORDS /\ DDR_WORDS \in Nat \ {0}
        /\ \A a \in 1 .. DDR_WORDS, q \in 1 .. 4 :
             (q < p \/ (q = p /\ a < mem_addr)) /\ bad(a, q) => errors > 0
    BY DdrAssumption DEF MemoryTested, DdrAddr
  <2>3. \A a, q : (ReadBack(a, patterns[q]) # patterns[q])' <=> bad(a, q)
    BY <2>1 DEF ReadBack, patterns
  <2> HIDE DEF bad
  <2>4. errors' \in Nat /\ p' \in 1 .. 5 /\ mem_addr' \in 1 .. DDR_WORDS
    BY <2>1, <2>2
  <2>5. ASSUME NEW a \in 1 .. DDR_WORDS, NEW q \in 1 .. 4,
               q < p' \/ (q = p' /\ a < mem_addr'), bad(a, q)
        PROVE  errors' > 0
    <3>1. CASE q = p /\ a = mem_addr
      BY <3>1, <2>1, <2>2, <2>5
    <3>2. CASE q < p \/ (q = p /\ a < mem_addr)
      <4>1. errors > 0
        BY <3>2, <2>2, <2>5
      <4> QED BY <4>1, <2>1, <2>2
    <3> QED BY <3>1, <3>2, <2>1, <2>2, <2>5
  <2>6. pc' = "ddr" /\ stuck' \in Memory
    BY <2>1 DEF MemoryTested
  <2> QED BY <2>3, <2>4, <2>5, <2>6 DEF MemoryTested, DdrAddr
<1> QED BY <1>1, <1>2 DEF DdrNext

\* A bit that sticks shows with the pattern of zeroes or with that of ones.
LEMMA TestIsExact ==
  ASSUME MemoryTested, pc # "ddr", NEW a \in DdrAddr, ~Sound(a)
  PROVE  errors > 0
<1>1. /\ stuck[a] \in [one : SUBSET Bit, zero : SUBSET Bit]
      /\ stuck[a].one \intersect stuck[a].zero = {}
  BY DEF MemoryTested, Memory
<1>2. stuck[a].one # {} \/ stuck[a].zero # {}
  BY <1>1 DEF Sound
<1>3. \/ ReadBack(a, patterns[3]) # patterns[3] \/ ReadBack(a, patterns[4]) # patterns[4]
  BY <1>1, <1>2, FourPatterns DEF ReadBack
<1> QED BY <1>3 DEF MemoryTested

-----------------------------------------------------------------------------
(* Mounting the volume.                                                    *)

BootInv == Types /\ MemoryTested /\ VolumeFound /\ OnTheWay /\ KernelRight /\ PanicsForCause

\* The card is not written.
LEMMA CardKept ==
  ASSUME UNCHANGED <<card, tree>>
  PROVE  /\ VolumeStart' = VolumeStart
         /\ HasVolume' <=> HasVolume
         /\ Named' = Named
         /\ \A e : Whole(e)' <=> Whole(e)
         /\ SoundVolume(card, tree)' <=> SoundVolume(card, tree)
<1>3. VolumeStart' = VolumeStart
  BY DEF VolumeStart
<1>4. HasVolume' <=> HasVolume
  BY <1>3 DEF HasVolume
<1>5. Named' = Named
  BY DEF Named
<1>6. SoundVolume(card, tree)' <=> SoundVolume(card, tree)
  BY DEF SoundVolume
<1>7. \A e : Whole(e)' <=> Whole(e)
  BY <1>3 DEF Whole, ChainAt
<1> QED BY <1>3, <1>4, <1>5, <1>6, <1>7

\* What the mount does with the sectors of a card, whichever it is.
LEMMA ValidateEnds ==
  ASSUME NEW c, NEW start, Validate(c, start)
  PROVE  /\ pc' \in {"mounted", "panic"} /\ UNCHANGED <<level, sector>>
         /\ pc' = "mounted" => start \in c.signed /\ fs' = initialize_fat32_fs(c, start)
         /\ pc' = "panic" => ~tail_zero \/ start \notin c.signed
<1>1. CASE validate_fat32_boot_sector(c, start)
  BY <1>1 DEF Validate, validate_fat32_boot_sector
<1>2. CASE ~validate_fat32_boot_sector(c, start)
  BY <1>2 DEF Validate, validate_fat32_boot_sector, Finish
<1> QED BY <1>1, <1>2

\* After the mount, unless it panics.
LEMMA MountStep ==
  ASSUME BootInv, ReadSector0 \/ ReadBootSector \/ MountFails,
         UNCHANGED <<ddrVars, mmuVars, boot>>
  PROVE  BootInv'
<1> USE DEF disk
<1>1. /\ UNCHANGED <<card, tree, tail_zero, kernel_header, part, loaded>>
      /\ UNCHANGED <<errors, stuck, p, mem_addr>>
      /\ UNCHANGED astray
      /\ pc \in {"sector0", "boot_sector"}
  BY DEF ReadSector0, ReadBootSector, MountFails, ddrVars, boot
<1>2. MemoryTested' /\ (SoundVolume(card, tree) /\ SoundVolume(card, tree)')
  <2>1. pc' # "ddr"
    BY ValidateEnds DEF ReadSector0, ReadBootSector, MountFails, Finish
  <2>2. pc # "ddr"
    BY <1>1
  <2> QED BY <1>1, <2>1, <2>2, CardKept DEF BootInv, VolumeFound, MemoryTested, ReadBack
<1>3. /\ pc' \in {"boot_sector", "mounted", "panic"} /\ UNCHANGED <<level, sector>>
      /\ garbled => garbled'
      /\ pc' = "boot_sector" /\ ~garbled' => FoundViaMbr(card) /\ fs'.start = VolumeStart
      /\ pc' = "mounted" /\ ~garbled' => /\ HasVolume
                                        /\ fs' = initialize_fat32_fs(card, VolumeStart)
      /\ pc' = "panic" /\ ~garbled' => failed' \/ ~tail_zero \/ ~HasVolume
  <2>1. CASE MountFails
    BY <2>1 DEF MountFails, Finish
  <2>3. CASE ReadBootSector
    <3>1. PICK c \in Foreign \union {card} : Seen(c) /\ Validate(c, fs.start)
      BY <2>3 DEF ReadBootSector
    <3>2. /\ garbled => garbled'
          /\ ~garbled' => c = card /\ FoundViaMbr(card) /\ fs.start = VolumeStart
      BY <2>3, <3>1 DEF Seen, ReadBootSector, BootInv, VolumeFound
    <3> QED BY <3>1, <3>2, ValidateEnds DEF HasVolume
  <2>4. CASE ReadSector0
    <3>1. PICK c \in Foreign \union {card} : /\ Seen(c)
       /\ CASE FoundViaMbr(c) ->
                 /\ pc' = "boot_sector"
                 /\ fs' = [NoFs EXCEPT !.start = c.table[FirstFat32(c)].start]
                 /\ UNCHANGED <<ret, level, cluster, sector, file>>
            [] ~FoundViaMbr(c) /\ check_sector0_for_fat32(c) -> Validate(c, 0)
            [] OTHER -> Finish(FAT32_ERROR_INVALID_BOOT_SECTOR) /\ UNCHANGED fs
      BY <2>4 DEF ReadSector0
    <3>2. (garbled => garbled') /\ (~garbled' => c = card)
      BY <3>1 DEF Seen
    <3>3. CASE FoundViaMbr(c)
      <4>1. /\ pc' = "boot_sector" /\ fs'.start = c.table[FirstFat32(c)].start
            /\ UNCHANGED <<level, sector>>
        BY <3>1, <3>3 DEF NoFs
      <4> QED BY <4>1, <3>2, <3>3 DEF VolumeStart
    <3>4. CASE ~FoundViaMbr(c) /\ check_sector0_for_fat32(c)
      <4>1. Validate(c, 0)
        BY <3>1, <3>4
      <4> QED BY <4>1, <3>2, <3>4, ValidateEnds DEF VolumeStart, HasVolume, check_sector0_for_fat32
    <3>5. CASE ~FoundViaMbr(c) /\ ~check_sector0_for_fat32(c)
      <4>1. pc' = "panic" /\ UNCHANGED <<level, sector>>
        BY <3>1, <3>5 DEF Finish
      <4> QED BY <4>1, <3>2, <3>5 DEF VolumeStart, HasVolume, check_sector0_for_fat32
    <3> QED BY <3>3, <3>4, <3>5
  <2> QED BY <2>1, <2>3, <2>4
<1>4. Types'
  BY <1>1, <1>3 DEF BootInv, Types, Mounted
<1>5. VolumeFound'
  <2>1. /\ FoundViaMbr(card)' <=> FoundViaMbr(card)
        /\ initialize_fat32_fs(card, VolumeStart)' = initialize_fat32_fs(card, VolumeStart)
    BY <1>1, CardKept DEF FoundViaMbr, initialize_fat32_fs
  <2> QED BY <1>1, <1>2, <1>3, <2>1, CardKept DEF VolumeFound, Mounted, Searching, Opened, Entered
<1>6. OnTheWay' /\ KernelRight'
  BY <1>1, <1>3 DEF BootInv, OnTheWay, KernelRight, Searching, Opened, Entered
<1>7. PanicsForCause'
  BY <1>1, <1>3, CardKept DEF PanicsForCause
<1> QED BY <1>2, <1>4, <1>5, <1>6, <1>7 DEF BootInv

-----------------------------------------------------------------------------
(* Opening the file.                                                       *)

\* The path has two components.
LEMMA TwoComponents == Len(Path) = 2 /\ Path[1] = "boot" /\ Path[2] = "kernel.bin"
BY DEF Path

\* The first sector of a directory is where its search begins.
LEMMA BeginsHere ==
  ASSUME NEW c, c \in DOMAIN tree.dir, cluster' = c, sector' = 0, pc' = "dir", UNCHANGED tree
  PROVE  CameFrom(c)'
<1>1. c \in Searched(tree', c, Path[level'])
  BY DEF Searched
<1>2. \E X \in SUBSET DOMAIN tree'.dir : /\ c \in X /\ cluster' \in X
                                         /\ \A x \in X : x = cluster' \/ Passed(x, X)'
  <2>1. {c} \in SUBSET DOMAIN tree'.dir
    OBVIOUS
  <2> QED BY <2>1
<1>3. \A r \in 1 .. sector' : FALSE
  OBVIOUS
<1> QED BY <1>1, <1>2, <1>3 DEF CameFrom

\* A step that leaves the volume alone and is still in the directories.
LEMMA OpenFrame ==
  ASSUME BootInv, UNCHANGED <<ddrVars, disk, fs, boot>>, garbled => garbled',
         pc \in Mounted, pc' \in Mounted \union {"panic"},
         level' \in {1, 2}, sector' \in 0 .. SECTORS_PER_CLUSTER - 1
  PROVE  Types' /\ MemoryTested' /\ VolumeFound'
<1>1. UNCHANGED <<card, tree, kernel_header, errors, stuck, p, mem_addr, fs>>
  BY DEF ddrVars, disk, boot
<1>2. pc # "ddr" /\ pc' # "ddr" /\ pc' # "boot_sector"
  BY DEF Mounted, Searching, Opened, Entered
<1>3. Types'
  BY <1>1 DEF BootInv, Types
<1>4. MemoryTested'
  BY <1>1, <1>2 DEF BootInv, MemoryTested, ReadBack
<1>5. VolumeFound'
  <2>1. initialize_fat32_fs(card, VolumeStart)' = initialize_fat32_fs(card, VolumeStart)
    BY <1>1, CardKept DEF initialize_fat32_fs
  <2> QED BY <1>1, <1>2, <2>1, CardKept DEF BootInv, VolumeFound
<1> QED BY <1>3, <1>4, <1>5

\* fat32_open begins in the root directory.
LEMMA OpenStep ==
  ASSUME BootInv, OpenBegin, UNCHANGED <<ddrVars, mmuVars, boot>>
  PROVE  BootInv'
<1>1. /\ pc = "mounted" /\ pc' = "dir" /\ level' = 1 /\ cluster' = fs.root /\ sector' = 0
      /\ UNCHANGED <<card, tree>> /\ UNCHANGED <<ddrVars, disk, fs, boot>>
      /\ UNCHANGED <<part, loaded, errors, garbled, astray>>
  BY DEF OpenBegin, disk, boot, ddrVars
<1>2. Types' /\ MemoryTested' /\ VolumeFound'
  BY <1>1, OpenFrame, LookupAssumption DEF Mounted, Searching
<1>3. PICK c : c = card.bpb.root
  OBVIOUS
<1>4. ASSUME ~garbled  PROVE c \in DOMAIN tree.dir /\ cluster' = c
  <2>1. fs = initialize_fat32_fs(card, VolumeStart)
    BY <1>1, <1>4 DEF BootInv, VolumeFound, Mounted
  <2>2. fs.root = c
    BY <2>1, <1>3 DEF initialize_fat32_fs
  <2> QED BY <1>1, <1>3, <2>2 DEF BootInv, VolumeFound, SoundVolume
<1>5. ASSUME ~garbled  PROVE CameFrom(c)' /\ Directory(c)'
  BY <1>1, <1>3, <1>4, <1>5, BeginsHere DEF Directory
<1>6. OnTheWay' /\ KernelRight' /\ PanicsForCause'
  BY <1>1, <1>5 DEF BootInv, OnTheWay, KernelRight, PanicsForCause, Opened, Entered
<1> QED BY <1>2, <1>6 DEF BootInv

\* read_dir_entry goes on to the next cluster of the chain.
LEMMA NextStep ==
  ASSUME BootInv, NextCluster, UNCHANGED <<ddrVars, mmuVars, boot>>
  PROVE  BootInv'
<1>1. /\ pc = "next" /\ pc' = "dir" /\ sector' = 0
      /\ garbled => garbled'
      /\ ~garbled' => cluster' \in fat32_read_fat_entry(cluster)
      /\ astray' = (astray \/ cluster \notin DOMAIN tree.fat \/ cluster' # tree.fat[cluster])
      /\ UNCHANGED <<card, tree, level>> /\ UNCHANGED <<ddrVars, disk, fs, boot>>
      /\ UNCHANGED <<part, loaded, errors>>
  BY DEF NextCluster, disk, boot, ddrVars
<1>2. Types' /\ MemoryTested' /\ VolumeFound'
  BY <1>1, OpenFrame, LookupAssumption DEF Mounted, Searching, BootInv, Types
<1>3. ASSUME ~astray', ~garbled'  PROVE \E c : Directory(c)' /\ CameFrom(c)'
  <2>1. /\ ~astray /\ cluster \in DOMAIN tree.fat /\ cluster' = tree.fat[cluster]
        /\ ~garbled
    BY <1>1, <1>3, Zenon
  <2>2. PICK c : Directory(c) /\ CameFrom(c)
    BY <1>1, <2>1 DEF BootInv, OnTheWay, Searching
  <2> DEFINE name == Path[level]
  <2>3. /\ cluster \in DOMAIN tree.dir /\ cluster \in Searched(tree, c, name)
        /\ ~EndsIn(tree, cluster, name)
    BY <1>1, <2>2 DEF CameFrom, Searched
  <2>4. /\ tree.fat[cluster] \in Nat
        /\ (tree.fat[cluster] \in DOMAIN tree.dir \/ tree.fat[cluster] >= BYTE)
    BY <2>1, <2>3 DEF BootInv, VolumeFound, SoundVolume
  <2>5. cluster' \in DOMAIN tree.dir
    <3>1. cluster' = tree.fat[cluster] % BYTE
      BY <1>1, <1>3, <2>1 DEF fat32_read_fat_entry
    <3>2. tree.fat[cluster] < BYTE
      BY <2>1, <2>4, <3>1, LookupAssumption
    <3> QED BY <2>1, <2>4, <3>2, LookupAssumption
  <2>6. cluster' \in Searched(tree, c, name)
    BY <2>1, <2>3, <2>5 DEF Searched, Closed
  <2>7. PICK X \in SUBSET DOMAIN tree.dir : /\ c \in X /\ cluster \in X
                                            /\ \A x \in X : x = cluster \/ Passed(x, X)
    BY <2>2 DEF CameFrom
  <2>8. PICK Y : Y = X \union {cluster'}
    OBVIOUS
  <2>9. \A x \in Y : x = cluster' \/ Passed(x, Y)
    BY <2>1, <2>3, <2>7, <2>8 DEF Passed
  <2>10. /\ Y \in SUBSET DOMAIN tree'.dir /\ c \in Y /\ cluster' \in Y
         /\ \A x \in Y : x = cluster' \/ Passed(x, Y)'
    BY <1>1, <2>5, <2>7, <2>8, <2>9 DEF Passed
  <2>11. CameFrom(c)'
    <3>1. cluster' \in Searched(tree', c, Path[level'])
      BY <1>1, <2>6
    <3>2. \A r \in 1 .. sector' : FALSE
      BY <1>1
    <3> QED BY <1>1, <2>10, <3>1, <3>2 DEF CameFrom
  <2>12. Directory(c)'
    BY <1>1, <2>2 DEF Directory
  <2> QED BY <2>11, <2>12
<1>4. OnTheWay' /\ PanicsForCause'
  BY <1>1, <1>3 DEF OnTheWay, PanicsForCause
<1>5. KernelRight'
  <2>1. astray => astray'
    BY <1>1, Zenon
  <2> QED BY <1>1, <2>1 DEF BootInv, KernelRight, Opened, Entered
<1> QED BY <1>2, <1>4, <1>5 DEF BootInv

\* What the path names, from what its first component leads to.
LEMMA NamedInside ==
  ASSUME NEW d, d.attr = "dir", Entries(tree, card.bpb.root, Path[1]) = {d}
  PROVE  Named = {e \in Entries(tree, d.start, Path[2]) : e.attr = "file"}
<1>1. {x \in Entries(tree, card.bpb.root, Path[1]) : x.attr = "dir"} = {d}
  OBVIOUS
<1> HIDE DEF Entries
<1>2. UNION {Entries(tree, x.start, Path[2]) :
               x \in {x \in Entries(tree, card.bpb.root, Path[1]) : x.attr = "dir"}}
        = Entries(tree, d.start, Path[2])
  BY <1>1
<1> QED BY <1>2 DEF Named

\* Without a first component it names nothing.
LEMMA NamedNothing ==
  ASSUME Entries(tree, card.bpb.root, Path[1]) = {}
  PROVE  Named = {}
<1>1. {x \in Entries(tree, card.bpb.root, Path[1]) : x.attr = "dir"} = {}
  OBVIOUS
<1> QED BY <1>1 DEF Named

\* A sector of a directory is read, and the search ends in it or goes on.
LEMMA ReadDirStep ==
  ASSUME BootInv, ReadDirSector, UNCHANGED <<ddrVars, mmuVars, boot>>
  PROVE  BootInv'
<1>1. /\ pc = "dir" /\ UNCHANGED <<card, tree, failed>> /\ UNCHANGED <<ddrVars, disk, fs, boot>>
      /\ level \in {1, 2} /\ sector \in 0 .. SECTORS_PER_CLUSTER - 1
      /\ UNCHANGED <<part, loaded, errors>>
  BY DEF ReadDirSector, disk, BootInv, Types, boot, ddrVars
<1>2. PICK s \in AnySector : SeenDir(s) /\
       IF Stops(s) = {}
       THEN /\ IF sector + 1 < SECTORS_PER_CLUSTER
               THEN sector' = sector + 1 /\ UNCHANGED pc
               ELSE pc' = "next" /\ UNCHANGED sector
            /\ UNCHANGED <<ret, level, cluster, file, astray>>
       ELSE LET e == s[Min(Stops(s))] IN
            IF e = FAT32_ENTRY_EMPTY THEN Miss /\ UNCHANGED astray ELSE Follow(e)
  BY DEF ReadDirSector
<1> DEFINE e == s[Min(Stops(s))]
<1>3. \/ /\ Stops(s) = {}
         /\ \/ sector + 1 < SECTORS_PER_CLUSTER /\ sector' = sector + 1 /\ pc' = "dir"
            \/ ~(sector + 1 < SECTORS_PER_CLUSTER) /\ sector' = sector /\ pc' = "next"
         /\ UNCHANGED <<level, cluster, astray>>
      \/ /\ Stops(s) # {} /\ e = FAT32_ENTRY_EMPTY
         /\ pc' = "panic" /\ UNCHANGED <<level, sector, astray>>
      \/ /\ Stops(s) # {} /\ e # FAT32_ENTRY_EMPTY /\ level = 1
         /\ level' = 2 /\ cluster' = e.start /\ sector' = 0 /\ pc' = "dir"
         /\ astray' = (astray \/ e.attr # "dir")
      \/ /\ Stops(s) # {} /\ e # FAT32_ENTRY_EMPTY /\ level = 2 /\ e.attr = "dir"
         /\ pc' = "panic" /\ UNCHANGED <<level, sector, astray>>
      \/ /\ Stops(s) # {} /\ e # FAT32_ENTRY_EMPTY /\ level = 2 /\ e.attr # "dir"
         /\ pc' = "opened" /\ file' = e /\ UNCHANGED <<level, sector, astray>>
  BY <1>1, <1>2, TwoComponents DEF Miss, Finish, Follow
<1>4. (garbled => garbled') /\ (~garbled' => s \in Content)
  BY <1>2 DEF SeenDir
<1>5. astray => astray'
  BY <1>3, Zenon
<1>6. part' \in Nat /\ loaded' \in Nat
       /\ (loaded' = part' \/ astray' \/ garbled' \/ errors' > 0)
  BY <1>1, <1>4, <1>5 DEF BootInv, KernelRight
<1>7. Types' /\ MemoryTested' /\ VolumeFound'
  <2>1. /\ pc \in Mounted /\ pc' \in Mounted \union {"panic"}
        /\ level' \in {1, 2} /\ sector' \in 0 .. SECTORS_PER_CLUSTER - 1
    BY <1>1, <1>3, LookupAssumption DEF Mounted, Searching, Opened
  <2> QED BY <1>1, <1>4, <2>1, OpenFrame
<1>8. CASE astray \/ garbled'
  <2>1. astray' \/ garbled'
    BY <1>5, <1>8
  <2>2. OnTheWay' /\ KernelRight' /\ PanicsForCause'
    BY <2>1, <1>6, <1>3 DEF OnTheWay, KernelRight, PanicsForCause, Opened, Entered
  <2> QED BY <1>7, <2>2 DEF BootInv
<1>9. CASE ~astray /\ ~garbled'
  <2>1. PICK c : Directory(c) /\ CameFrom(c)
    BY <1>1, <1>9, <1>4 DEF BootInv, OnTheWay, Searching
  <2>2. cluster \in DOMAIN tree.dir
    BY <2>1 DEF CameFrom, Searched
  <2>3. s = tree.dir[cluster][sector + 1]
    BY <1>9, <1>4, <2>2 DEF Content
  <2>4. Stops(s) = {k \in DOMAIN s : Ends(s[k], Path[level])}
    BY DEF Stops, Ends
  <2>5. SoundVolume(card, tree) /\ Types
    BY DEF BootInv, VolumeFound
  <2>6. /\ DOMAIN tree.dir[cluster] = 1 .. SECTORS_PER_CLUSTER
        /\ sector + 1 \in DOMAIN tree.dir[cluster]
        /\ DOMAIN s = 1 .. Len(s) /\ Len(s) \in Nat
        /\ \A k \in DOMAIN s :
                 /\ s[k].size \in Nat
                 /\ s[k].attr = "dir" => s[k].start \in DOMAIN tree.dir
                 /\ s[k].name = format_name_to_fat32(Path[2]) => s[k].attr \in {"file", "dir"}
    BY <1>1, <2>2, <2>3, <2>5, LookupAssumption DEF SoundVolume
  <2>7. CASE Stops(s) = {}
    <3>1. \A k \in DOMAIN s : ~Ends(s[k], Path[level])
      BY <2>4, <2>7
    <3>2. \A r \in 1 .. sector + 1 : \A k \in DOMAIN tree.dir[cluster][r] :
            ~Ends(tree.dir[cluster][r][k], Path[level])
      <4>1. \A r \in 1 .. sector : \A k \in DOMAIN tree.dir[cluster][r] :
              ~Ends(tree.dir[cluster][r][k], Path[level])
        BY <2>1 DEF CameFrom
      <4>2. \A r \in 1 .. sector + 1 : r \in 1 .. sector \/ r = sector + 1
        BY <1>1, LookupAssumption
      <4> QED BY <4>1, <4>2, <3>1, <2>3
    <3>3. /\ \/ sector + 1 < SECTORS_PER_CLUSTER /\ sector' = sector + 1 /\ pc' = "dir"
             \/ ~(sector + 1 < SECTORS_PER_CLUSTER) /\ sector' = sector /\ pc' = "next"
          /\ UNCHANGED <<level, cluster, astray>>
      BY <1>3, <2>7
    <3>4. \A r \in 1 .. sector' : \A k \in DOMAIN tree'.dir[cluster'][r] :
            ~Ends(tree'.dir[cluster'][r][k], Path[level'])
      <4>1. tree' = tree /\ cluster' = cluster /\ level' = level
        BY <1>1, <3>3
      <4>2. \A r \in 1 .. sector' : r \in 1 .. sector + 1
        BY <1>1, <3>3, LookupAssumption
      <4> QED BY <4>1, <4>2, <3>2
    <3>5. pc' = "next" => ~EndsIn(tree', cluster', Path[level'])
      <4>1. SUFFICES ASSUME pc' = "next"  PROVE ~EndsIn(tree, cluster, Path[level])
        BY <1>1, <3>3
      <4>2. DOMAIN tree.dir[cluster] = 1 .. sector + 1
        BY <4>1, <1>1, <2>6, <3>3, LookupAssumption
      <4> QED BY <4>2, <3>2 DEF EndsIn
    <3>6. CameFrom(c)'
      <4>1. cluster' \in Searched(tree', c, Path[level'])
        BY <2>1, <1>1, <3>3 DEF CameFrom
      <4>2. \E X \in SUBSET DOMAIN tree'.dir : /\ c \in X /\ cluster' \in X
                                               /\ \A x \in X : x = cluster' \/ Passed(x, X)'
        BY <2>1, <1>1, <3>3 DEF CameFrom, Passed
      <4> QED BY <4>1, <4>2, <3>4, <3>5 DEF CameFrom
    <3>7. Directory(c)'
      BY <2>1, <1>1, <3>3 DEF Directory
    <3>8. OnTheWay' /\ KernelRight' /\ PanicsForCause'
      BY <1>6, <3>3, <3>6, <3>7 DEF OnTheWay, KernelRight, PanicsForCause, Opened, Entered
    <3> QED BY <1>7, <3>8 DEF BootInv
  <2>8. CASE Stops(s) # {}
    <3> DEFINE m == Min(Stops(s))
    <3>1. m \in DOMAIN s /\ Ends(s[m], Path[level]) /\ \A y \in Stops(s) : m <= y
      <4>1. Stops(s) \subseteq Nat
        BY <2>4, <2>6
      <4>2. m \in Stops(s) /\ \A y \in Stops(s) : m <= y
        BY <4>1, <2>8, MinIsLeast
      <4> QED BY <4>2, <2>4
    <3>2. \A j \in 1 .. m - 1 : ~Ends(s[j], Path[level])
      <4>1. \A j \in 1 .. m - 1 : j \in DOMAIN s /\ ~(m <= j)
        BY <3>1, <2>6
      <4> QED BY <4>1, <3>1, <2>4
    <3> HIDE DEF m
    <3>3. Entries(tree, c, Path[level]) = {s[m]} \ {FAT32_ENTRY_EMPTY}
      BY <1>1, <2>1, <2>3, <2>5, <3>1, <3>2, SearchEnds
    <3>4. e = s[m]
      BY DEF m
    <3>5. /\ e.attr = "dir" => e.start \in DOMAIN tree.dir
          /\ level = 2 /\ e # FAT32_ENTRY_EMPTY => e.attr \in {"file", "dir"}
      BY <3>1, <3>4, <2>6 DEF Ends
    <3>6. e.size \in Nat
      BY <3>1, <3>4, <2>6
    <3> HIDE DEF e
    <3>7. CASE e = FAT32_ENTRY_EMPTY
      <4>1. Named = {}
        <5>1. Entries(tree, c, Path[level]) = {}
          BY <3>3, <3>4, <3>7
        <5>2. CASE level = 1
          BY <5>1, <5>2, <2>1, NamedNothing DEF Directory
        <5>3. CASE level = 2
          <6>1. PICK d : /\ d.attr = "dir" /\ c = d.start
                         /\ Entries(tree, card.bpb.root, Path[1]) = {d}
            BY <5>3, <2>1 DEF Directory
          <6>2. Named = {x \in Entries(tree, d.start, Path[2]) : x.attr = "file"}
            BY <6>1, NamedInside
          <6>3. Entries(tree, d.start, Path[2]) = {}
            BY <6>1, <5>1, <5>3
          <6> QED BY <6>2, <6>3
        <5> QED BY <1>1, <5>2, <5>3
      <4>2. pc' = "panic"
        BY <1>3, <2>8, <3>7
      <4>3. Named' = {}
        BY <4>1, <1>1, CardKept
      <4>4. OnTheWay' /\ KernelRight' /\ PanicsForCause'
        BY <1>6, <4>2, <4>3 DEF OnTheWay, KernelRight, PanicsForCause, Searching, Opened, Entered
      <4> QED BY <1>7, <4>4 DEF BootInv
    <3>8. CASE e # FAT32_ENTRY_EMPTY /\ level = 1
      <4>1. /\ level' = 2 /\ cluster' = e.start /\ sector' = 0 /\ pc' = "dir"
            /\ astray' = (astray \/ e.attr # "dir")
        BY <1>3, <2>8, <3>8
      <4>2. ASSUME ~astray'  PROVE \E d : Directory(d)' /\ CameFrom(d)'
        <5>1. e.attr = "dir"
          BY <4>1, <4>2, Zenon
        <5>2. Entries(tree, card.bpb.root, Path[1]) = {e}
          BY <3>3, <3>4, <3>8, <2>1 DEF Directory
        <5>3. PICK x, d : x = e /\ d = e.start
          OBVIOUS
        <5>4. Directory(d)'
          <6>1. tree' = tree /\ card' = card /\ level' = 2
            BY <1>1, <4>1
          <6>2. x.attr = "dir" /\ d = x.start /\ Entries(tree', card'.bpb.root, Path[1]) = {x}
            BY <6>1, <5>1, <5>2, <5>3
          <6> QED BY <6>1, <6>2 DEF Directory
        <5>5. CameFrom(d)'
          BY <5>1, <5>3, <3>5, <4>1, <1>1, BeginsHere
        <5> QED BY <5>4, <5>5
      <4>3. OnTheWay' /\ KernelRight' /\ PanicsForCause'
        BY <1>6, <4>1, <4>2 DEF OnTheWay, KernelRight, PanicsForCause, Opened, Entered
      <4> QED BY <1>7, <4>3 DEF BootInv
    <3>9. CASE e # FAT32_ENTRY_EMPTY /\ level = 2
      <4>1. PICK d : /\ d.attr = "dir" /\ c = d.start
                     /\ Entries(tree, card.bpb.root, Path[1]) = {d}
        BY <3>9, <2>1 DEF Directory
      <4>2. Named = {x \in Entries(tree, d.start, Path[2]) : x.attr = "file"}
        BY <4>1, NamedInside
      <4>3. Entries(tree, d.start, Path[2]) = {e}
        BY <4>1, <3>3, <3>4, <3>9
      <4>4. CASE e.attr = "dir"
        <5>1. Named = {}
          BY <4>2, <4>3, <4>4
        <5>2. pc' = "panic"
          BY <1>3, <2>8, <3>9, <4>4
        <5>3. Named' = {}
          BY <5>1, <1>1, CardKept
        <5>4. OnTheWay' /\ KernelRight' /\ PanicsForCause'
          BY <1>6, <5>2, <5>3 DEF OnTheWay, KernelRight, PanicsForCause, Searching, Opened, Entered
        <5> QED BY <1>7, <5>4 DEF BootInv
      <4>5. CASE e.attr # "dir"
        <5>1. e \in Named
          BY <4>2, <4>3, <4>5, <3>5, <3>9
        <5>2. pc' = "opened" /\ file' = e
          BY <1>3, <2>8, <3>9, <4>5
        <5>3. file' \in Named' /\ file'.size \in Nat
          BY <5>1, <5>2, <1>1, <3>6, CardKept
        <5>4. OnTheWay' /\ KernelRight' /\ PanicsForCause'
          BY <1>6, <5>2, <5>3 DEF OnTheWay, KernelRight, PanicsForCause, Searching, Opened, Entered
        <5> QED BY <1>7, <5>4 DEF BootInv
      <4> QED BY <4>4, <4>5
    <3> QED BY <1>1, <3>7, <3>8, <3>9
  <2> QED BY <2>7, <2>8
<1> QED BY <1>8, <1>9

\* A sector of the directory or of the FAT could not be read.
LEMMA LookupFailsStep ==
  ASSUME BootInv, LookupFails, UNCHANGED <<ddrVars, mmuVars, boot>>
  PROVE  BootInv'
<1>1. /\ pc \in Searching /\ pc' = "panic" /\ failed' = TRUE /\ UNCHANGED <<level, sector>>
      /\ UNCHANGED <<ddrVars, disk, fs, boot>>
      /\ UNCHANGED <<part, loaded, errors, astray, garbled>>
  BY DEF LookupFails, Miss, Finish, Searching, boot, ddrVars
<1>2. Types' /\ MemoryTested' /\ VolumeFound'
  BY <1>1, OpenFrame DEF Mounted, BootInv, Types
<1>3. OnTheWay' /\ KernelRight' /\ PanicsForCause'
  BY <1>1 DEF BootInv, OnTheWay, KernelRight, PanicsForCause, Searching, Opened, Entered
<1> QED BY <1>2, <1>3 DEF BootInv

-----------------------------------------------------------------------------
(* The whole of __BootloaderEntry.                                         *)

\* The memory is set up and tested before the card is looked at.
LEMMA MemoryStep ==
  ASSUME BootInv, SetUpMemory \/ Initialised \/ NoClock
  PROVE  BootInv'
<1>1. UNCHANGED <<card, tree, level, sector, kernel_header, part, loaded, astray, garbled>>
  BY DEF SetUpMemory, Initialised, NoClock, disk, lookupVars, boot
<1>2. /\ pc \in {"ddr", "sector0"} /\ pc' \in {"ddr", "sector0", "hung"}
  BY <1>1 DEF SetUpMemory, Initialised, NoClock, lookupVars
<1>3. MemoryTested'
  <2>1. CASE SetUpMemory
    BY <2>1, TestStep DEF SetUpMemory, lookupVars, BootInv
  <2>2. CASE Initialised
    <3>1. UNCHANGED <<stuck, p, mem_addr, errors>> /\ p > 4
      BY <2>2, FourPatterns DEF Initialised, Tested, ddrVars
    <3>2. p \in 1 .. 5
      BY DEF BootInv, MemoryTested
    <3>3. p = 5
      BY <3>1, <3>2
    <3> QED BY <3>1, <3>3 DEF BootInv, MemoryTested, ReadBack
  <2>3. CASE NoClock
    <3>1. UNCHANGED <<stuck, p, mem_addr, errors>> /\ pc # "ddr"
      BY <2>3 DEF NoClock, ddrVars
    <3> QED BY <3>1 DEF BootInv, MemoryTested, ReadBack
  <2> QED BY <2>1, <2>2, <2>3
<1>4. Types' /\ VolumeFound'
  BY <1>1, <1>2, CardKept DEF BootInv, Types, VolumeFound, Mounted, Searching, Opened, Entered
<1>5. errors > 0 => errors' > 0
  <2>1. errors \in Nat
    BY DEF BootInv, MemoryTested
  <2> QED BY <2>1 DEF SetUpMemory, Initialised, NoClock, ddrVars, DdrNext, TestWord, setup_memory,
         enable_core_pll, enable_ddr_pll, enable_emif_clocks, init_emif, configure_ddr_phy,
         configure_ddr_phy_cmd_data, configure_ddr_io, init_ddr3, AtStep
<1>6. OnTheWay' /\ KernelRight' /\ PanicsForCause'
  BY <1>1, <1>2, <1>5 DEF BootInv, OnTheWay, KernelRight, PanicsForCause, Searching, Opened, Entered
<1> QED BY <1>3, <1>4, <1>6 DEF BootInv

\* The clusters of the file are read into memory, or a read fails.
LEMMA LoadStep ==
  ASSUME BootInv, LoadPart \/ LoadFails \/ LoadsWrong \/ LoadKernel
  PROVE  BootInv'
<1>1. /\ pc = "opened" /\ pc' \in {"opened", "magic", "panic"}
      /\ UNCHANGED <<card, tree, level, sector, fs, file, errors, stuck, p, mem_addr>>
  BY DEF LoadPart, LoadKernel, LoadFails, LoadsWrong, Panic, disk, ddrVars
<1>2. kernel_header' \in Image
  BY DEF LoadPart, LoadKernel, LoadFails, LoadsWrong, boot, BootInv, Types
<1>3. MemoryTested'
  BY <1>1 DEF BootInv, MemoryTested, ReadBack
<1>4. (astray => astray') /\ (garbled => garbled')
  BY DEF LoadPart, LoadKernel, LoadFails, LoadsWrong
<1>5. Types' /\ VolumeFound'
  <2>1. initialize_fat32_fs(card, VolumeStart)' = initialize_fat32_fs(card, VolumeStart)
    BY <1>1, CardKept DEF initialize_fat32_fs
  <2> QED BY <1>1, <1>2, <1>4, <2>1, CardKept
        DEF BootInv, Types, VolumeFound, Mounted, Opened, Searching, Entered
<1>6. ~astray' /\ ~garbled' =>
        /\ file \in Named /\ file.size \in Nat
        /\ fs = initialize_fat32_fs(card, VolumeStart)
  BY <1>1, <1>4 DEF BootInv, KernelRight, VolumeFound, Mounted, Opened
<1>7. part \in Nat /\ loaded \in Nat
  BY DEF BootInv, KernelRight
<1>8. OnTheWay' /\ PanicsForCause'
  <2>1. ASSUME pc' = "panic", ~astray', ~garbled'
        PROVE  failed' \/ \E e \in Named : ~Whole(e)
    <3>1. CASE LoadFails
      BY <2>1, <3>1 DEF LoadFails
    <3>2. CASE LoadPart
      <4>1. ~Reached /\ part < file.size
        BY <1>1, <2>1, <3>2 DEF LoadPart
      <4>2. part \in 0 .. file.size - 1
        BY <4>1, <1>6, <1>7, <2>1
      <4>3. ~Whole(file)
        BY <4>1, <4>2, <1>6, <2>1 DEF Whole, Reached
      <4> QED BY <4>3, <1>6, <2>1
    <3>3. CASE LoadsWrong \/ LoadKernel
      BY <1>1, <2>1, <3>3 DEF LoadsWrong, LoadKernel
    <3> QED BY <3>1, <3>2, <3>3
  <2>2. Named' = Named /\ \A e : Whole(e)' <=> Whole(e)
    BY <1>1, CardKept
  <2> QED BY <1>1, <2>1, <2>2 DEF OnTheWay, PanicsForCause, Searching
<1>9. part' \in Nat /\ loaded' \in Nat /\ (loaded' = part' \/ astray' \/ garbled' \/ errors > 0)
  <2>1. loaded = part \/ astray \/ garbled \/ errors > 0
    BY DEF BootInv, KernelRight
  <2>2. CASE LoadPart
    BY <2>1, <2>2, <1>4, <1>7 DEF LoadPart
  <2>3. CASE LoadFails \/ LoadKernel
    BY <2>1, <2>3, <1>4, <1>7 DEF LoadFails, LoadKernel, boot
  <2>4. CASE LoadsWrong
    <3>1. part' \in Nat /\ loaded' \in Nat
      BY <2>4, <1>7 DEF LoadsWrong
    <3>2. astray' \/ garbled' \/ \E a \in DdrAddr : ~Sound(a)
      BY <2>4 DEF LoadsWrong
    <3>3. (\E a \in DdrAddr : ~Sound(a)) => errors > 0
      BY <1>1, TestIsExact DEF BootInv
    <3> QED BY <3>1, <3>2, <3>3
  <2> QED BY <2>2, <2>3, <2>4
<1>10. KernelRight'
  <2>1. pc' = "magic" => part' = file'.size
    BY <1>1 DEF LoadPart, LoadKernel, LoadFails, LoadsWrong, Panic, boot
  <2>2. ~astray' /\ ~garbled' => file' \in Named' /\ file'.size \in Nat
    BY <1>1, <1>6, CardKept
  <2> QED BY <1>1, <1>9, <2>1, <2>2 DEF KernelRight, Opened, Entered
<1> QED BY <1>3, <1>5, <1>8, <1>10 DEF BootInv

\* From the magic number to the jump.
LEMMA EnterStep ==
  ASSUME BootInv,
         CheckMagic \/ InitMmu \/ MapKernel \/ EnableMmu \/ ClearBss \/ Jump
  PROVE  BootInv'
<1>1. /\ UNCHANGED <<card, tree, level, sector, fs, file, errors, stuck, p, mem_addr>>
      /\ UNCHANGED <<kernel_header, part, loaded, astray, garbled>>
  BY DEF CheckMagic, InitMmu, MapKernel, EnableMmu, ClearBss, Jump, Panic, disk, ddrVars,
         lookupVars, boot
<1>2. \/ pc = "magic" /\ ~kernel_header.magic /\ pc' = "panic"
      \/ pc = "magic" /\ kernel_header.magic /\ pc' \in Entered
      \/ pc \in Entered /\ pc' \in Entered
  BY DEF CheckMagic, InitMmu, MapKernel, EnableMmu, ClearBss, Jump, Panic, Entered, lookupVars
<1>3. pc \in Opened \ {"opened"} /\ pc # "ddr" /\ pc' # "ddr"
  BY <1>2 DEF Opened, Entered
<1>4. MemoryTested'
  BY <1>1, <1>3 DEF BootInv, MemoryTested, ReadBack
<1>5. Types' /\ VolumeFound'
  <2>1. initialize_fat32_fs(card, VolumeStart)' = initialize_fat32_fs(card, VolumeStart)
    BY <1>1, CardKept DEF initialize_fat32_fs
  <2> QED BY <1>1, <1>2, <1>3, <2>1, CardKept
        DEF BootInv, Types, VolumeFound, Mounted, Opened, Entered
<1>6. OnTheWay' /\ PanicsForCause'
  BY <1>1, <1>2 DEF OnTheWay, PanicsForCause, Searching, Entered
<1>7. KernelRight'
  <2>1. /\ ~astray /\ ~garbled => file \in Named /\ file.size \in Nat
        /\ part \in Nat /\ loaded \in Nat /\ part = file.size
        /\ loaded = part \/ astray \/ garbled \/ errors > 0
        /\ pc \in Entered => kernel_header.magic
    BY <1>3 DEF BootInv, KernelRight
  <2>2. Named' = Named
    BY <1>1, CardKept
  <2>3. pc' \in Entered => kernel_header.magic
    BY <1>2, <2>1 DEF Entered
  <2> QED BY <1>1, <2>1, <2>2, <2>3 DEF KernelRight
<1> QED BY <1>4, <1>5, <1>6, <1>7 DEF BootInv

\* Of the machines that may be met.
LEMMA BootInit == Init => BootInv
<1> SUFFICES ASSUME Init PROVE BootInv
  OBVIOUS
<1>1. PICK m \in Machine :
        /\ DdrInit(m.memory) /\ LookupInit(m.card, m.tree, m.tail_zero, m.noisy)
        /\ MmuInit(m.table) /\ kernel_header = m.image
  BY DEF Init
<1>2. m.image \in Image /\ m.memory \in Memory /\ SoundVolume(m.card, m.tree)
  BY ImageAssumption, VolumeAssumption
<1>3. pc = "ddr"
  BY DEF Init
<1>4. Types
  BY <1>1, <1>2, <1>3, LookupAssumption DEF Types, LookupInit
<1>5. MemoryTested
  <2>1. stuck \in Memory /\ errors = 0 /\ p = 1 /\ mem_addr = 1 /\ 1 \in DdrAddr
    BY <1>1, <1>2, DdrAssumption DEF DdrInit, DdrAddr
  <2>2. \A a \in DdrAddr, q \in 1 .. 4 : ~(q < p \/ (q = p /\ a < mem_addr))
    BY <2>1 DEF DdrAddr
  <2> QED BY <1>3, <2>1, <2>2 DEF MemoryTested
<1>6. VolumeFound
  BY <1>1, <1>2, <1>3 DEF VolumeFound, LookupInit, Mounted, Searching, Opened, Entered
<1>7. OnTheWay /\ KernelRight /\ PanicsForCause
  BY <1>3 DEF Init, OnTheWay, KernelRight, PanicsForCause, Searching, Opened, Entered
<1> QED BY <1>4, <1>5, <1>6, <1>7 DEF BootInv

\* Nothing happens.
LEMMA BootStutters ==
  ASSUME BootInv, UNCHANGED vars
  PROVE  BootInv'
<1>1. /\ UNCHANGED <<card, tree, tail_zero, level, cluster, sector, fs, file>>
      /\ UNCHANGED <<errors, stuck, p, mem_addr>>
      /\ UNCHANGED <<pc, kernel_header, part, loaded, astray, failed, garbled>>
  BY DEF vars, ddrVars, lookupVars, disk, boot
<1>2. Types' /\ VolumeFound' /\ KernelRight' /\ PanicsForCause'
  <2>1. /\ FoundViaMbr(card)' <=> FoundViaMbr(card)
        /\ initialize_fat32_fs(card, VolumeStart)' = initialize_fat32_fs(card, VolumeStart)
    BY <1>1, CardKept DEF FoundViaMbr, initialize_fat32_fs
  <2> QED BY <1>1, <2>1, CardKept DEF BootInv, Types, VolumeFound, KernelRight, PanicsForCause
<1>3. MemoryTested'
  BY <1>1 DEF BootInv, MemoryTested, ReadBack
<1>4. OnTheWay'
  BY <1>1 DEF BootInv, OnTheWay, Directory, CameFrom, Passed
<1> QED BY <1>2, <1>3, <1>4 DEF BootInv

\* The invariant is inductive.
THEOREM BootInvariance == Spec => []BootInv
<1>1. ASSUME BootInv, [__BootloaderEntry]_vars
      PROVE  BootInv'
  <2>1. CASE FindKernel
    BY <1>1, <2>1, MountStep, OpenStep, ReadDirStep, NextStep, LookupFailsStep
      DEF FindKernel, Lookup
  <2>2. CASE ~FindKernel /\ __BootloaderEntry
    BY <1>1, <2>2, MemoryStep, LoadStep, EnterStep DEF __BootloaderEntry
  <2> QED BY <1>1, <2>1, <2>2, BootStutters
<1> QED BY <1>1, BootInit, PTL DEF Spec

\* PanicsForCause: whatever the card, the memory and the kernel, __BootloaderEntry
\* panics only when one of them, or a sector that could not be read, gives cause.
THEOREM PanicsHaveCause == Spec => []PanicsForCause
<1>1. BootInv => PanicsForCause
  BY DEF BootInv
<1> QED BY <1>1, BootInvariance, PTL

\* JumpsIntoKernel: the jump at the end of __BootloaderEntry enters the kernel file
\* that the path names on the first FAT32 volume, complete and with its magic number.
THEOREM EntersTheKernel == Spec => []JumpsIntoKernel
<1>1. BootInv => JumpsIntoKernel
  BY DEF BootInv, VolumeFound, KernelRight, JumpsIntoKernel, Mounted, Opened, Entered,
         initialize_fat32_fs
<1> QED BY <1>1, BootInvariance, PTL

-----------------------------------------------------------------------------
(* The table and the bss.                                                  *)

Mapping == {"map", "bss", "jump", "kernel"}
MmuOn == {"bss", "jump", "kernel"}
Cleared == {"jump", "kernel"}
Descriptor == [va : Nat, pa : Nat, n : Nat, flags : SUBSET {"B", "C", "S", "XN", "SUPER"}]

\* The table with f sections of the kernel, the last one first, before the hardware.
Filled(table, f) ==
  /\ table \in Seq(Descriptor) /\ Len(table) = f + 7
  /\ \A k \in 1 .. f : table[k] = Run(MEM_KERNEL_BASE + (f - k), MEM_PHYS_BASE + (f - k), 1,
                                      L1_KERNEL_DATA_EXEC_FLAGS)
  /\ \A k \in 1 .. 7 : table[f + k] = mmu_map_hardware_pages[k]

TableInv ==
  /\ kernel_header \in Image
  /\ mmu_on => pc \in MmuOn
  /\ pc \in Mapping => current_frame \in 0 .. kernel_sections /\ Filled(l1, current_frame)
  /\ pc \in MmuOn => current_frame = kernel_sections
  /\ pc \notin Mapping => current_frame = 0
  /\ pc \notin Cleared => mapped_sections = 0
  /\ pc \in Cleared => /\ mapped_sections = kernel_sections
                       /\ cleared = Block(bss_section_offset, bss_section_size)

\* Division by the size of a section.
LEMMA Division ==
  ASSUME NEW a \in Nat, NEW s \in Nat \ {0}
  PROVE  /\ a \div s \in Nat
         /\ s * (a \div s) <= a /\ a < s * (a \div s) + s
OBVIOUS

\* Fewer units than b sections have are in one of those.
LEMMA DivisionBelow ==
  ASSUME NEW a \in Nat, NEW s \in Nat \ {0}, NEW b \in Nat, a < s * b
  PROVE  a \div s < b
<1>1. PICK q \in Nat : q = a \div s /\ s * q <= a
  BY Division
<1>2. s * q < s * b
  BY <1>1
<1>3. q < b
  <2>1. SUFFICES ASSUME b <= q PROVE FALSE
    BY <1>1
  <2>2. PICK r \in Nat : q = b + r
    BY <2>1
  <2>3. s * q = s * b + s * r /\ s * r \in Nat /\ s * b \in Nat
    BY <2>2
  <2> QED BY <1>2, <2>3
<1> QED BY <1>1, <1>3

\* Rounding up counts the section of every unit below n.
LEMMA RoundsUp ==
  ASSUME NEW u \in Nat, NEW n \in Nat, NEW s \in Nat \ {0}, u < n
  PROVE  u \div s < (n + s - 1) \div s
<1>1. PICK q \in Nat : q = u \div s /\ s * q <= u
  BY Division
<1>2. n + s - 1 \in Nat
  OBVIOUS
<1>3. PICK r \in Nat : r = (n + s - 1) \div s /\ n + s - 1 < s * r + s
  BY <1>2, Division
<1>4. SUFFICES ASSUME r <= q PROVE FALSE
  BY <1>1, <1>3
<1>5. PICK x \in Nat : q = r + x
  BY <1>4
<1>6. s * q = s * r + s * x /\ s * x \in Nat /\ s * r \in Nat
  BY <1>5
<1>7. n < s * r + 1
  BY <1>3, <1>6
<1> QED BY <1>1, <1>6, <1>7

\* The sizes a header gives, and that the kernel ends below the page table.
LEMMA Sizes ==
  ASSUME kernel_header \in Image
  PROVE  /\ SECTION \in Nat \ {0} /\ kernel_size \in Nat /\ bss_section_offset \in Nat
         /\ kernel_sections \in 0 .. 256
         /\ bss_section_size \in Nat /\ kernel_header.bss \in Nat
         /\ kernel_header.bss <= bss_section_size
         /\ bss_section_offset + bss_section_size <= SECTION * 256
<1>1. /\ SECTION \in Nat \ {0}
      /\ kernel_header.text \in Nat /\ kernel_header.data \in Nat /\ kernel_header.bss \in Nat
      /\ kernel_header.text_gap \in Nat /\ kernel_header.data_gap \in 0 .. kernel_header.text
      /\ 1 + 2 * kernel_header.text + kernel_header.text_gap + kernel_header.data
           + kernel_header.bss <= SECTION * 256
  BY ImageAssumption, LayoutAssumption DEF HEADER, MEM_BOOT_PAGE_TABLE_BASE, MEM_PHYS_BASE
<1>2. /\ kernel_size \in Nat /\ bss_section_offset \in Nat
      /\ bss_section_size = kernel_header.text + kernel_header.bss - kernel_header.data_gap
      /\ bss_section_size \in Nat /\ kernel_header.bss <= bss_section_size
      /\ bss_section_offset + bss_section_size <= SECTION * 256
      /\ kernel_size < SECTION * 256
  BY <1>1 DEF kernel_size, bss_section_offset, bss_section_size, text_section_size,
              data_section_size, HEADER
<1>3. kernel_size + SECTION - 1 \in Nat /\ kernel_size + SECTION - 1 < SECTION * 257
  BY <1>1, <1>2
<1>4. kernel_sections \in Nat /\ kernel_sections < 257
  <2> HIDE DEF kernel_size
  <2>1. (kernel_size + SECTION - 1) \div SECTION \in Nat
    BY <1>1, <1>3, Division
  <2>2. (kernel_size + SECTION - 1) \div SECTION < 257
    BY <1>1, <1>3, DivisionBelow
  <2> QED BY <2>1, <2>2 DEF kernel_sections
<1> QED BY <1>1, <1>2, <1>4

\* mmu_map_hardware_pages leaves no section of the kernel mapped.
LEMMA HardwareOnly == Filled(mmu_map_hardware_pages, 0)
<1> USE DEF mmu_map_hardware_pages, Same, Run, Descriptor, SRAM_FLAGS, L1_KERNEL_DEVICE_FLAGS,
            PHYS_MEM_FLAGS, MEM_PHYS_BASE
<1>1. MEM_PHYS_SECTIONS \in Nat
  BY MmuAssumption
<1>2. mmu_map_hardware_pages \in Seq(Descriptor)
  BY <1>1
<1>3. Len(mmu_map_hardware_pages) = 7
  OBVIOUS
<1> QED BY <1>2, <1>3 DEF Filled

\* MMU_map_section puts the next section in front.
LEMMA OneMore ==
  ASSUME NEW table, NEW f \in Nat, Filled(table, f)
  PROVE  Filled(MMU_map_section(table, MEM_KERNEL_BASE + f, MEM_PHYS_BASE + f,
                                L1_KERNEL_DATA_EXEC_FLAGS), f + 1)
<1> DEFINE r == Run(MEM_KERNEL_BASE + f, MEM_PHYS_BASE + f, 1, L1_KERNEL_DATA_EXEC_FLAGS)
           new == <<r>> \o table
<1>1. r \in Descriptor
  BY DEF Run, Descriptor, L1_KERNEL_DATA_EXEC_FLAGS, MEM_KERNEL_BASE, MEM_PHYS_BASE
<1>2. table \in Seq(Descriptor) /\ Len(table) = f + 7
  BY DEF Filled
<1> HIDE DEF r
<1>3. /\ new \in Seq(Descriptor) /\ Len(new) = f + 8 /\ new[1] = r
      /\ \A k \in 1 .. f + 7 : new[k + 1] = table[k]
  <2>1. <<r>> \in Seq(Descriptor) /\ Len(<<r>>) = 1 /\ <<r>>[1] = r
    BY <1>1
  <2> QED BY <1>2, <2>1
<1> HIDE DEF new
<1>4. ASSUME NEW k \in 1 .. f + 1
      PROVE  new[k] = Run(MEM_KERNEL_BASE + (f + 1 - k), MEM_PHYS_BASE + (f + 1 - k), 1,
                          L1_KERNEL_DATA_EXEC_FLAGS)
  <2>1. CASE k = 1
    <3>1. f + 1 - k = f
      BY <2>1
    <3> QED BY <1>3, <2>1, <3>1 DEF r
  <2>2. CASE k # 1
    <3>1. k - 1 \in 1 .. f /\ (k - 1) + 1 = k /\ f - (k - 1) = f + 1 - k
      BY <2>2
    <3>2. new[k] = table[k - 1]
      BY <3>1, <1>3
    <3> QED BY <3>1, <3>2 DEF Filled
  <2> QED BY <2>1, <2>2
<1>5. ASSUME NEW k \in 1 .. 7
      PROVE  new[f + 1 + k] = mmu_map_hardware_pages[k]
  <2>1. f + k \in 1 .. f + 7 /\ f + 1 + k = (f + k) + 1
    OBVIOUS
  <2> QED BY <2>1, <1>3 DEF Filled
<1>6. Filled(new, f + 1)
  BY <1>3, <1>4, <1>5 DEF Filled
<1> QED BY <1>6 DEF new, r, MMU_map_section

\* The invariant is inductive.
THEOREM TableInvariance == Spec => []TableInv
<1>1. Init => TableInv
  BY ImageAssumption DEF Init, TableInv, Mapping, MmuOn, Cleared, MmuInit
<1>2. ASSUME TableInv, [__BootloaderEntry]_vars
      PROVE  TableInv'
  <2> USE DEF TableInv, Mapping, MmuOn, Cleared
  <2>1. /\ kernel_sections \in Nat
        /\ kernel_header' = kernel_header => /\ kernel_sections' = kernel_sections
                                             /\ bss_section_offset' = bss_section_offset
                                             /\ bss_section_size' = bss_section_size
    <3>1. kernel_sections \in Nat
      BY <1>2, Sizes
    <3> QED BY <3>1 DEF kernel_sections, bss_section_offset, bss_section_size, kernel_size,
                        text_section_size, data_section_size
  <2>2. CASE UNCHANGED vars
    BY <1>2, <2>1, <2>2 DEF vars, lookupVars, mmuVars, boot
  <2>3. CASE SetUpMemory
    BY <1>2, <2>1, <2>3 DEF SetUpMemory, lookupVars, mmuVars, boot
  <2>4. CASE Initialised \/ NoClock
    BY <1>2, <2>1, <2>4 DEF Initialised, NoClock, mmuVars, boot
  <2>5. CASE FindKernel
    <3>1. pc \notin Mapping /\ pc' \notin Mapping
      <4>1. CASE ReadSector0 \/ ReadBootSector \/ MountFails
        BY <4>1, ValidateEnds DEF ReadSector0, ReadBootSector, MountFails, Finish
      <4>2. CASE OpenBegin \/ NextCluster \/ ReadDirSector \/ LookupFails
        BY <4>2 DEF OpenBegin, NextCluster, ReadDirSector, LookupFails, Finish, Miss, Follow
      <4> QED BY <2>5, <4>1, <4>2 DEF FindKernel, Lookup
    <3> QED BY <1>2, <2>1, <2>5, <3>1 DEF FindKernel, mmuVars, boot
  <2>6. CASE LoadPart \/ LoadKernel \/ LoadFails \/ LoadsWrong
    <3>1. /\ pc = "opened" /\ pc' \in {"opened", "magic", "panic"} /\ kernel_header' \in Image
          /\ UNCHANGED <<mmu_on, current_frame, mapped_sections>>
      BY <1>2, <2>6 DEF LoadPart, LoadKernel, LoadFails, LoadsWrong, Panic, mmuVars, boot
    <3> QED BY <1>2, <3>1
  <2>7. CASE CheckMagic
    BY <1>2, <2>1, <2>7 DEF CheckMagic, Panic, mmuVars, boot
  <2>8. CASE InitMmu
    BY <1>2, <2>1, <2>8, HardwareOnly DEF InitMmu, MMU_init, boot
  <2>9. CASE MapKernel
    <3>1. /\ pc = "map" /\ pc' = "map" /\ current_frame < kernel_sections
          /\ current_frame' = current_frame + 1
          /\ UNCHANGED <<kernel_header, mmu_on, mapped_sections, cleared>>
          /\ l1' = MMU_map_section(l1, MEM_KERNEL_BASE + current_frame,
                           MEM_PHYS_BASE + current_frame, L1_KERNEL_DATA_EXEC_FLAGS)
      BY <2>9 DEF MapKernel, lookupVars
    <3>2. current_frame \in Nat /\ Filled(l1, current_frame)
      BY <1>2, <3>1
    <3>3. Filled(l1', current_frame')
      BY <3>1, <3>2, OneMore
    <3> QED BY <1>2, <2>1, <3>1, <3>2, <3>3
  <2>10. CASE EnableMmu
    BY <1>2, <2>1, <2>10 DEF EnableMmu, MMU_enable, boot
  <2>11. CASE ClearBss
    BY <1>2, <2>1, <2>11 DEF ClearBss, mmuVars, Block
  <2>12. CASE Jump
    BY <1>2, <2>1, <2>12 DEF Jump, mmuVars, boot
  <2> QED BY <1>2, <2>2, <2>3, <2>4, <2>5, <2>6, <2>7, <2>8, <2>9, <2>10,
            <2>11, <2>12 DEF __BootloaderEntry
<1> QED BY <1>1, <1>2, PTL DEF Spec

\* Min of a set of numbers whose least element is known.
LEMMA MinIs ==
  ASSUME NEW T, T \subseteq Nat, NEW x \in T, \A y \in T : x <= y
  PROVE  Min(T) = x
<1>1. PICK m : m = Min(T)
  OBVIOUS
<1>2. m \in T /\ \A y \in T : m <= y
  BY <1>1, MinIsLeast
<1>3. m <= x /\ x <= m /\ m \in Nat /\ x \in Nat
  BY <1>2
<1> QED BY <1>1, <1>3

\* The section of a kernel address is the one it was mapped to.
LEMMA KernelSection ==
  ASSUME NEW f \in Nat, Filled(l1, f), NEW d \in Nat, d < f
  PROVE  /\ Reaches(MEM_KERNEL_BASE + d, MEM_PHYS_BASE + d)
         /\ "XN" \notin Flags(MEM_KERNEL_BASE + d)
<1> DEFINE va == MEM_KERNEL_BASE + d
           k == f - d
<1>1. DOMAIN l1 = 1 .. f + 7
  BY DEF Filled
<1>2. k \in 1 .. f /\ f - k = d
  OBVIOUS
<1>3. l1[k] = Run(MEM_KERNEL_BASE + d, MEM_PHYS_BASE + d, 1, L1_KERNEL_DATA_EXEC_FLAGS)
  BY <1>2 DEF Filled
<1>4. k \in Holds(va)
  BY <1>1, <1>2, <1>3 DEF Holds, Block, Run, MEM_KERNEL_BASE
<1>5. ASSUME NEW j \in Holds(va)  PROVE k <= j
  <2>1. j \in 1 .. f + 7 /\ va \in Block(l1[j].va, l1[j].n)
    BY <1>1 DEF Holds
  <2>2. SUFFICES ASSUME j <= f PROVE j = k
    BY <2>1
  <2>3. l1[j] = Run(MEM_KERNEL_BASE + (f - j), MEM_PHYS_BASE + (f - j), 1,
                    L1_KERNEL_DATA_EXEC_FLAGS)
    BY <2>1, <2>2 DEF Filled
  <2>4. l1[j].va = MEM_KERNEL_BASE + (f - j) /\ l1[j].n = 1
    BY <2>3 DEF Run
  <2> QED BY <2>1, <2>2, <2>4 DEF Block, MEM_KERNEL_BASE
<1>6. Min(Holds(va)) = k
  <2>1. Holds(va) \subseteq Nat
    BY <1>1 DEF Holds
  <2> HIDE DEF k, va
  <2> QED BY <2>1, <1>4, <1>5, MinIs
<1>7. Flags(va) = L1_KERNEL_DATA_EXEC_FLAGS /\ Translations(va) = {MEM_PHYS_BASE + d}
  BY <1>3, <1>6 DEF Flags, Translations, Run, L1_KERNEL_DATA_EXEC_FLAGS,
         MEM_PHYS_BASE, MEM_KERNEL_BASE
<1> QED BY <1>4, <1>7 DEF Reaches, Mapped, L1_KERNEL_DATA_EXEC_FLAGS

\* KernelMapped: the sections mapped by __BootloaderEntry hold every unit of the
\* kernel at the address it was linked for, except the last ones, as many as the
\* header and the gaps between the sections have.
THEOREM KernelIsMapped == Spec => []KernelMapped
<1>1. TableInv => KernelMapped
  <2> SUFFICES ASSUME TableInv, mmu_on, NEW u \in Block(0, kernel_end),
                      ~(u >= kernel_size)
               PROVE  /\ Reaches(MEM_KERNEL_BASE + u \div SECTION, MEM_PHYS_BASE + u \div SECTION)
                      /\ "XN" \notin Flags(MEM_KERNEL_BASE + u \div SECTION)
                      /\ mapped_sections # 0 => u \div SECTION < mapped_sections
    BY DEF KernelMapped
  <2>1. kernel_header \in Image
    BY DEF TableInv
  <2>2. SECTION \in Nat \ {0} /\ kernel_size \in Nat /\ kernel_sections \in Nat
    BY <2>1, Sizes
  <2>3. u \in Nat /\ u < kernel_size
    <3> HIDE DEF kernel_size, kernel_end
    <3> QED BY <2>2 DEF Block
  <2>4. u \div SECTION \in Nat /\ u \div SECTION < kernel_sections
    <3> HIDE DEF kernel_size
    <3> QED BY <2>2, <2>3, Division, RoundsUp DEF kernel_sections
  <2>5. /\ Filled(l1, kernel_sections)
        /\ (mapped_sections = 0 \/ mapped_sections = kernel_sections)
    BY DEF TableInv, MmuOn, Mapping
  <2> QED BY <2>2, <2>4, <2>5, KernelSection
<1> QED BY <1>1, TableInvariance, PTL

\* A section below the kernel's addresses that the hardware pages cover goes to
\* itself, by one of their entries.
LEMMA SameSection ==
  ASSUME NEW f \in Nat, Filled(l1, f), NEW s \in Nat, s < MEM_KERNEL_BASE,
         NEW k \in 1 .. 7,
         s \in Block(mmu_map_hardware_pages[k].va, mmu_map_hardware_pages[k].n)
  PROVE  /\ Reaches(s, s)
         /\ \E j \in 1 .. 7 :
              /\ s \in Block(mmu_map_hardware_pages[j].va, mmu_map_hardware_pages[j].n)
              /\ Flags(s) = mmu_map_hardware_pages[j].flags
<1>1. DOMAIN l1 = 1 .. f + 7
  BY DEF Filled
<1>2. f + k \in Holds(s)
  <2>1. l1[f + k] = mmu_map_hardware_pages[k]
    BY Zenon DEF Filled
  <2>2. f + k \in 1 .. f + 7
    OBVIOUS
  <2> QED BY <1>1, <2>1, <2>2 DEF Holds
<1>3. Holds(s) \subseteq Nat /\ Holds(s) # {}
  BY <1>1, <1>2 DEF Holds
<1>4. PICK m : m = Min(Holds(s))
  OBVIOUS
<1>5. m \in Holds(s)
  BY <1>3, <1>4, MinIsLeast
<1>6. m \in 1 .. f + 7 /\ s \in Block(l1[m].va, l1[m].n)
  BY <1>1, <1>5 DEF Holds
<1>7. m > f
  <2> SUFFICES ASSUME m <= f PROVE FALSE
    BY <1>6
  <2>1. l1[m] = Run(MEM_KERNEL_BASE + (f - m), MEM_PHYS_BASE + (f - m), 1,
                    L1_KERNEL_DATA_EXEC_FLAGS)
    <3>1. m \in 1 .. f
      BY <1>6
    <3> QED BY <3>1, Zenon DEF Filled
  <2>2. l1[m].va = MEM_KERNEL_BASE + (f - m) /\ l1[m].n = 1
    BY <2>1 DEF Run
  <2> QED BY <2>2, <1>6 DEF Block, MEM_KERNEL_BASE
<1>8. PICK j \in 1 .. 7 : m = f + j
  <2>1. m - f \in 1 .. 7 /\ m = f + (m - f)
    BY <1>6, <1>7
  <2> QED BY <2>1
<1>9. l1[m] = mmu_map_hardware_pages[j]
  BY <1>8 DEF Filled
<1>10. l1[m].pa = l1[m].va /\ l1[m].va \in Nat
  BY <1>9 DEF mmu_map_hardware_pages, Same, Run, MEM_PHYS_BASE
<1>11. (s \div 16) * 16 + (s % 16) = s
  OBVIOUS
<1>12. Translations(s) = {s}
  <2>1. l1[m].pa + (s - l1[m].va) = s
    BY <1>10
  <2> QED BY <1>4, <1>11, <2>1 DEF Translations
<1>13. Flags(s) = mmu_map_hardware_pages[j].flags
  BY <1>4, <1>9 DEF Flags
<1> QED BY <1>2, <1>6, <1>9, <1>12, <1>13 DEF Reaches, Mapped

\* Where the hardware pages are, and that the RAM goes up to the sector buffer.
LEMMA HardwarePages ==
  /\ \A j \in 1 .. 7 : /\ mmu_map_hardware_pages[j].va = mmu_map_hardware_pages[j].pa
                       /\ j \in 2 .. 6 =>
                            mmu_map_hardware_pages[j].flags = L1_KERNEL_DEVICE_FLAGS
  /\ mmu_map_hardware_pages[1] = Run(1026, 1026, 2, SRAM_FLAGS)
  /\ \A j \in 2 .. 7 : mmu_map_hardware_pages[j].va > 1027
  /\ mmu_map_hardware_pages[2].va = 1100 /\ mmu_map_hardware_pages[2].n = 4
  /\ mmu_map_hardware_pages[3].va = 1152 /\ mmu_map_hardware_pages[3].n = 16
  /\ mmu_map_hardware_pages[7].va = 2048 /\ mmu_map_hardware_pages[7].n = MEM_PHYS_SECTIONS
<1> USE DEF mmu_map_hardware_pages, Same, Run, MEM_PHYS_BASE
<1>1. \A j \in 1 .. 7 : j = 1 \/ j = 2 \/ j = 3 \/ j = 4 \/ j = 5 \/ j = 6 \/ j = 7
  OBVIOUS
<1> QED BY <1>1

\* MmuKeepsGoing: the table MMU_init and the loop of __BootloaderEntry have built
\* keeps the running code, the RAM in use and the registers where they are.
THEOREM MmuIsSafe == Spec => []MmuKeepsGoing
<1>1. TableInv => MmuKeepsGoing
  <2> SUFFICES ASSUME TableInv, mmu_on
               PROVE  /\ \A s \in Code \union Ram \union Devices : Reaches(s, s)
                      /\ \A s \in Code : "XN" \notin Flags(s)
                      /\ \A s \in Devices : "C" \notin Flags(s)
                      /\ \A k \in DOMAIN l1 :
                           \/ l1[k].va = l1[k].pa
                           \/ l1[k].va \in Block(MEM_KERNEL_BASE, kernel_sections)
    BY DEF MmuKeepsGoing
  <2>1. kernel_sections \in 0 .. 256
    BY Sizes DEF TableInv
  <2>2. Filled(l1, kernel_sections)
    BY DEF TableInv, MmuOn, Mapping
  <2>3. MEM_PHYS_SECTIONS \in Nat /\ 2048 + MEM_PHYS_SECTIONS > 2320
    BY MmuAssumption, LayoutAssumption DEF MEM_PHYS_BASE
  <2> DEFINE In(s, k) == s \in Block(mmu_map_hardware_pages[k].va, mmu_map_hardware_pages[k].n)
  <2>4. ASSUME NEW s \in Code
        PROVE  s \in Nat /\ s < MEM_KERNEL_BASE /\ In(s, 1) /\ \A j \in 2 .. 7 : ~In(s, j)
    <3>1. s \in {1026, 1027}
      BY DEF Code, Block
    <3>2. In(s, 1)
      BY <3>1, HardwarePages DEF Block, Run
    <3>3. \A j \in 2 .. 7 : mmu_map_hardware_pages[j].va \in Nat
      BY DEF mmu_map_hardware_pages, Same, Run, MEM_PHYS_BASE
    <3>4. \A j \in 2 .. 7 : mmu_map_hardware_pages[j].va > 1027
      BY HardwarePages
    <3>5. \A j \in 2 .. 7 : ~In(s, j)
      BY <3>1, <3>3, <3>4 DEF Block
    <3> QED BY <3>1, <3>2, <3>5 DEF MEM_KERNEL_BASE
  <2>5. ASSUME NEW s \in Devices
        PROVE  /\ s \in Nat /\ s < MEM_KERNEL_BASE
               /\ (In(s, 2) \/ In(s, 3)) /\ ~In(s, 1) /\ ~In(s, 7)
    <3>1. s \in {1102, 1152, 1154}
      BY DEF Devices
    <3>2. In(s, 2) \/ In(s, 3)
      BY <3>1, HardwarePages DEF Block
    <3>3. ~In(s, 1) /\ ~In(s, 7)
      BY <3>1, HardwarePages DEF Block, Run
    <3> QED BY <3>1, <3>2, <3>3 DEF MEM_KERNEL_BASE
  <2>6. ASSUME NEW s \in Ram
        PROVE  s \in Nat /\ s < MEM_KERNEL_BASE /\ In(s, 7)
    <3>1. s \in 2048 .. 2320
      BY <2>1 DEF Ram, Block, MEM_PHYS_BASE, MEM_BOOT_PAGE_TABLE_BASE
    <3> QED BY <3>1, <2>3, HardwarePages DEF Block, MEM_KERNEL_BASE
  <2> HIDE DEF In
  <2>7. ASSUME NEW s \in Nat, s < MEM_KERNEL_BASE, NEW k \in 1 .. 7, In(s, k)
        PROVE  /\ Reaches(s, s)
               /\ \E j \in 1 .. 7 : In(s, j) /\ Flags(s) = mmu_map_hardware_pages[j].flags
    BY <2>1, <2>2, <2>7, SameSection DEF In
  <2>8. ASSUME NEW s \in Code \union Ram \union Devices  PROVE Reaches(s, s)
    BY <2>4, <2>5, <2>6, <2>7
  <2>9. ASSUME NEW s \in Code  PROVE "XN" \notin Flags(s)
    <3>1. PICK j \in 1 .. 7 : In(s, j) /\ Flags(s) = mmu_map_hardware_pages[j].flags
      BY <2>4, <2>7
    <3>2. j = 1
      BY <2>4, <3>1
    <3> QED BY <3>1, <3>2, HardwarePages DEF Run, SRAM_FLAGS
  <2>10. ASSUME NEW s \in Devices  PROVE "C" \notin Flags(s)
    <3>1. PICK j \in 1 .. 7 : In(s, j) /\ Flags(s) = mmu_map_hardware_pages[j].flags
      BY <2>5, <2>7
    <3>2. j \in 2 .. 6
      BY <2>5, <3>1
    <3> QED BY <3>1, <3>2, HardwarePages DEF L1_KERNEL_DEVICE_FLAGS
  <2>11. ASSUME NEW k \in DOMAIN l1
         PROVE  l1[k].va = l1[k].pa \/ l1[k].va \in Block(MEM_KERNEL_BASE, kernel_sections)
    <3>1. k \in 1 .. kernel_sections + 7
      BY <2>2 DEF Filled
    <3>2. CASE k <= kernel_sections
      <4>1. l1[k] = Run(MEM_KERNEL_BASE + (kernel_sections - k),
                        MEM_PHYS_BASE + (kernel_sections - k), 1, L1_KERNEL_DATA_EXEC_FLAGS)
        BY <2>1, <2>2, <3>1, <3>2 DEF Filled
      <4>2. l1[k].va = MEM_KERNEL_BASE + (kernel_sections - k)
        BY <4>1 DEF Run
      <4> QED BY <4>2, <2>1, <3>1, <3>2 DEF Block, MEM_KERNEL_BASE
    <3>3. CASE k > kernel_sections
      <4>1. PICK j \in 1 .. 7 : k = kernel_sections + j
        <5>1. k - kernel_sections \in 1 .. 7 /\ k = kernel_sections + (k - kernel_sections)
          BY <2>1, <3>1, <3>3
        <5> QED BY <5>1
      <4>2. l1[k] = mmu_map_hardware_pages[j]
        BY <2>2, <4>1 DEF Filled
      <4> QED BY <4>2, HardwarePages
    <3> QED BY <2>1, <3>1, <3>2, <3>3
  <2> QED BY <2>8, <2>9, <2>10, <2>11
<1> QED BY <1>1, TableInvariance, PTL

\* BssClear: the loop of __BootloaderEntry over bss_section_size words from the end of
\* the data clears the bss, nothing before it, and stops below the page table.
THEOREM BssIsClear == Spec => []BssClear
<1>1. TableInv => BssClear
  <2> SUFFICES ASSUME TableInv, pc = "kernel"
               PROVE  /\ Block(bss_section_offset, kernel_header.bss) \subseteq cleared
                      /\ cleared \intersect Block(0, bss_section_offset) = {}
                      /\ \A u \in cleared :
                           MEM_PHYS_BASE + u \div SECTION < MEM_BOOT_PAGE_TABLE_BASE
    BY DEF BssClear
  <2>1. PICK a, n : a = bss_section_offset /\ n = bss_section_size
    OBVIOUS
  <2>2. kernel_header \in Image /\ cleared = Block(a, n)
    BY <2>1 DEF TableInv, Cleared
  <2>3. /\ a \in Nat /\ n \in Nat /\ kernel_header.bss \in Nat /\ kernel_header.bss <= n
        /\ SECTION \in Nat \ {0} /\ a + n <= SECTION * 256
    BY <2>1, <2>2, Sizes
  <2>4. Block(a, kernel_header.bss) \subseteq cleared
    BY <2>2, <2>3 DEF Block
  <2>5. cleared \intersect Block(0, a) = {}
    BY <2>2, <2>3 DEF Block
  <2>6. ASSUME NEW u \in cleared
        PROVE  MEM_PHYS_BASE + u \div SECTION < MEM_BOOT_PAGE_TABLE_BASE
    <3>1. u \in Nat /\ u < SECTION * 256
      BY <2>2, <2>3 DEF Block
    <3>2. u \div SECTION \in Nat /\ u \div SECTION < 256
      BY <2>3, <3>1, Division, DivisionBelow
    <3> QED BY <3>2 DEF MEM_PHYS_BASE, MEM_BOOT_PAGE_TABLE_BASE
  <2> QED BY <2>1, <2>4, <2>5, <2>6
<1> QED BY <1>1, TableInvariance, PTL

-----------------------------------------------------------------------------
(* The card driver.                                                        *)
CardTypes ==
  /\ phase \in {"init", "idle", "pstate", "response", "data"}
  /\ stat \in SUBSET Flag
  /\ cmd \in Sector \union {Junk} /\ xfer \in Sector \union {Junk}
  /\ want \in Sector \union {Junk} /\ fifo \in Seq(Sector \union {Corrupt})
  /\ result \in {-1, 0} /\ flagged \in BOOLEAN /\ adrift \in BOOLEAN

\* In the two loops of a read: CC is set in the second one, and BRR is only set
\* while a block is waiting.
Arrived ==
  /\ phase = "data" => "CC" \in stat
  /\ phase \in {"response", "data"} /\ "BRR" \in stat => fifo # << >>

Quiet == cmd = Junk /\ xfer = Junk /\ fifo = << >>

\* Where the sector of this read is, one place at a time.
Requested == cmd = want /\ xfer = Junk /\ fifo = << >> /\ stat = {}
Sending == cmd = Junk /\ xfer = want /\ fifo = << >>
Waiting == /\ cmd = Junk /\ xfer = Junk
           /\ fifo = <<want>> \/ (fifo = <<Corrupt>> /\ "ERRI" \in stat)

\* Unless an earlier read was given up too soon, nothing of it is under way.
InFlight ==
  /\ phase = "init" => Quiet /\ buffer = Junk /\ want = Junk
  /\ phase \in {"idle", "pstate"} /\ ~adrift => Quiet
  /\ phase \in {"pstate", "response", "data"} => want \in Sector
  /\ phase \in {"response", "data"} /\ ~adrift => Requested \/ Sending \/ Waiting \/ Quiet

CardInv == CardTypes /\ Arrived /\ InFlight /\ ReadsWanted

-----------------------------------------------------------------------------
\* The steps of mmc_controller_init send nothing and read nothing.
LEMMA InitSteps_Inv ==
  ASSUME CardInv, mmc_controller_init
  PROVE  CardInv'
<1> USE DEF CardInv, CardTypes, Arrived, InFlight, ReadsWanted, Quiet, Requested,
            Sending, Waiting, driver, wire, At, Advance, Leave, Wait
<1>1. CASE enableClocks
  BY <1>1 DEF enableClocks
<1>2. CASE enableInternalClock
  BY <1>2 DEF enableInternalClock
<1>3. CASE disableAutoidle
  BY <1>3 DEF disableAutoidle
<1>4. CASE SetSysctl
  BY <1>4 DEF SetSysctl
<1>5. CASE setBusPowerOn
  BY <1>5 DEF setBusPowerOn
<1>6. CASE linesReset
  BY <1>6 DEF linesReset
<1>7. CASE CheckClock
  BY <1>7 DEF CheckClock
<1>8. CASE SetBlockSize
  BY <1>8 DEF SetBlockSize
<1> QED
  BY <1>1, <1>2, <1>3, <1>4, <1>5, <1>6, <1>7, <1>8 DEF mmc_controller_init

\* A read that is given up leaves nothing under way, or adrift is set.
LEMMA Fail_Inv ==
  ASSUME CardInv, (phase = "response" /\ "CTO" \in stat) \/ phase = "data",
         Fail, stat' \in SUBSET Flag
  PROVE  CardInv'
<1> USE DEF CardInv, Fail, wire
<1>1. /\ phase' = "idle" /\ result' = -1 /\ want' = want /\ flagged' = flagged
      /\ cmd' = cmd /\ xfer' = xfer /\ fifo' = fifo
  OBVIOUS
<1>2. adrift' \in BOOLEAN
  BY Zenon
<1>3. CardTypes'
  BY <1>1, <1>2 DEF CardTypes
<1>4. Arrived' /\ ReadsWanted'
  BY <1>1 DEF Arrived, ReadsWanted
<1>5. ASSUME ~adrift'
      PROVE  Quiet'
  <2>1. ~adrift /\ xfer = Junk /\ fifo = << >>
    BY <1>5, Zenon
  <2>2. ~Requested
    BY DEF Arrived, Requested
  <2> QED BY <1>1, <2>1, <2>2 DEF InFlight, Sending, Waiting, Quiet
<1>6. InFlight'
  BY <1>1, <1>5 DEF InFlight
<1> QED BY <1>3, <1>4, <1>6

\* The copy takes the block that is waiting, and there is one.
LEMMA Copy_Inv ==
  ASSUME CardInv, CopyBlock
  PROVE  CardInv'
<1> USE DEF CardInv, CopyBlock
<1>1. phase = "data" /\ fifo # << >> /\ fifo \in Seq(Sector \union {Corrupt})
  BY DEF CardTypes, Arrived
<1>2. /\ buffer' = Head(fifo) /\ fifo' = Tail(fifo) /\ phase' = "idle" /\ result' = 0
      /\ stat' \in SUBSET Flag /\ flagged' \in BOOLEAN
      /\ cmd' = cmd /\ xfer' = xfer /\ want' = want /\ adrift' = adrift
  BY <1>1 DEF CardTypes
<1>3. fifo' \in Seq(Sector \union {Corrupt})
  BY <1>1, <1>2
<1>4. CardTypes' /\ Arrived'
  BY <1>2, <1>3 DEF CardTypes, Arrived
<1>5. ASSUME ~adrift
      PROVE  Quiet' /\ (buffer' = want \/ (flagged' /\ buffer' = Corrupt))
  <2>1. Waiting
    BY <1>1, <1>5 DEF InFlight, Requested, Sending, Quiet, Arrived
  <2>2. ASSUME NEW b, fifo = <<b>>
        PROVE  Head(fifo) = b /\ Tail(fifo) = << >>
    BY <2>2
  <2>3. CASE fifo = <<want>>
    BY <1>2, <2>1, <2>2, <2>3 DEF Waiting, Quiet
  <2>4. CASE fifo = <<Corrupt>> /\ "ERRI" \in stat
    BY <1>2, <2>1, <2>2, <2>4 DEF Waiting, Quiet
  <2> QED BY <2>1, <2>3, <2>4 DEF Waiting
<1>6. InFlight' /\ ReadsWanted'
  BY <1>2, <1>5 DEF InFlight, ReadsWanted
<1> QED BY <1>4, <1>6

\* The other steps of a read.
LEMMA Read_Inv ==
  ASSUME CardInv,
         (\E n \in Sector : ReadBegin(n)) \/ mmc_read_sector
  PROVE  CardInv'
<1> USE BlockAssumption DEF CardInv, CardTypes, Arrived, InFlight, ReadsWanted, Quiet,
            Requested, Sending, Waiting, driver, wire
<1>1. ASSUME NEW n \in Sector, ReadBegin(n)
      PROVE  CardInv'
  BY <1>1 DEF ReadBegin
<1>2. CASE SendCommand
  BY <1>2 DEF SendCommand
<1>3. CASE ResponseComplete
  BY <1>3 DEF ResponseComplete
<1>4. CASE ResponseTimeout
  BY <1>4, Fail_Inv DEF ResponseTimeout
<1>5. CASE CopyBlock
  BY <1>5, Copy_Inv
<1>6. CASE DataError
  BY <1>6, Fail_Inv DEF DataError
<1>7. CASE Poll
  <2>1. CASE timeout = 1
    BY <1>7, <2>1, Fail_Inv DEF Poll
  <2>2. CASE timeout # 1
    BY <1>7, <2>2 DEF Poll
  <2> QED BY <2>1, <2>2
<1> QED
  BY <1>1, <1>2, <1>3, <1>4, <1>5, <1>6, <1>7 DEF mmc_read_sector

\* The card moves the sector one place on, or loses it.
LEMMA Card_Inv ==
  ASSUME CardInv, Answer \/ Deliver
  PROVE  CardInv'
<1> USE BlockAssumption DEF CardInv, CardTypes, Arrived, InFlight, ReadsWanted, Quiet,
            Requested, Sending, Waiting, driver, Flag
<1>1. CASE Answer
  BY <1>1 DEF Answer
<1>2. CASE Deliver
  <2>1. CASE fifo' = fifo /\ stat' = stat \union {"DTO", "ERRI"}
    BY <1>2, <2>1 DEF Deliver
  <2>2. ASSUME NEW b \in Sector \union {Corrupt}, fifo' = Append(fifo, b),
               stat \union {"BRR"} \subseteq stat', stat' \in SUBSET Flag,
               b = xfer \/ (b = Corrupt /\ "ERRI" \in stat')
        PROVE  CardInv'
    <3>1. fifo' \in Seq(Sector \union {Corrupt}) /\ fifo' # << >>
      BY <2>2
    <3>2. fifo = << >> => fifo' = <<b>>
      BY <2>2
    <3>3. CardTypes' /\ Arrived' /\ ReadsWanted'
      BY <1>2, <2>2, <3>1 DEF Deliver
    <3>4. InFlight'
      BY <1>2, <2>2, <3>2 DEF Deliver
    <3> QED BY <3>3, <3>4
  <2>3. CASE fifo' = Append(fifo, xfer) /\ stat' = stat \union {"BRR"}
    BY <1>2, <2>2, <2>3 DEF Deliver
  <2>4. CASE fifo' = Append(fifo, Corrupt) /\ stat' = stat \union {"BRR", "DCRC", "ERRI"}
    BY <2>2, <2>4
  <2> QED BY <1>2, <2>1, <2>3, <2>4 DEF Deliver
<1> QED BY <1>1, <1>2

\* The invariant is inductive.
THEOREM CardInvariance == MmcSpec => []CardInv
<1>1. MmcInit => CardInv
  <2>1. MmcInit => CardTypes
    <3>1. << >> \in Seq(Sector \union {Corrupt})
      OBVIOUS
    <3>2. MmcInit => flagged \in BOOLEAN /\ adrift \in BOOLEAN
      BY DEF MmcInit
    <3>3. MmcInit => stat \in SUBSET Flag
      BY DEF MmcInit, Flag
    <3> QED BY <3>1, <3>2, <3>3 DEF MmcInit, CardTypes
  <2>2. MmcInit => Arrived /\ InFlight /\ ReadsWanted
    BY DEF MmcInit, Arrived, InFlight, ReadsWanted, Quiet
  <2> QED BY <2>1, <2>2 DEF CardInv
<1>2. ASSUME CardInv, [MmcNext]_mmcVars
      PROVE  CardInv'
  <2>1. CASE UNCHANGED mmcVars
    BY <1>2, <2>1 DEF CardInv, CardTypes, Arrived, InFlight, ReadsWanted, Quiet,
         Requested, Sending, Waiting, mmcVars, driver, wire
  <2>2. CASE MmcNext
    BY <1>2, <2>2, InitSteps_Inv, Read_Inv, Card_Inv DEF MmcNext
  <2> QED BY <1>2, <2>1, <2>2
<1> QED BY <1>1, <1>2, PTL DEF MmcSpec

\* CopiesArrivedBlock: mmc_read_sector never copies from an empty data register,
\* although the branch "No response from card" would.
THEOREM NoEmptyCopy == MmcSpec => []CopiesArrivedBlock
<1>1. CardInv => CopiesArrivedBlock
  BY DEF CardInv, Arrived, CopiesArrivedBlock
<1> QED BY <1>1, CardInvariance, PTL

\* ReadsWanted: a read that returns 0 has stored the sector it was asked for, the
\* flagged block and a read that was given up before it excepted.
THEOREM RightSector == MmcSpec => []ReadsWanted
<1>1. CardInv => ReadsWanted
  BY DEF CardInv
<1> QED BY <1>1, CardInvariance, PTL
=============================================================================
