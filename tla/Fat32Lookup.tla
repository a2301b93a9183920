---------------------------- MODULE Fat32Lookup ----------------------------
(***************************************************************************)
(* fat32_mount and fat32_open (fat32.c) as the bootloader calls them, each *)
(* sector read a step because each may fail.  Fat32File has what follows,  *)
(* the reads of the opened file.                                           *)
(*                                                                         *)
(* The card holds a partition table, boot sectors, a FAT and directories,  *)
(* and is never written.  A directory is a function from its clusters to   *)
(* their sectors, each a sequence of entries.  An entry's name is the      *)
(* 11 bytes it holds, its size the number of clusters it fills.  A sector   *)
(* read that reports success may have stored another block (Mmc).          *)
(***************************************************************************)
EXTENDS Integers, Sequences, SequencesExt, FiniteSetsExt

CONSTANTS SECTORS_PER_CLUSTER,
          BYTE,        \* a FAT entry is read as a number below this; 256
          WORD,        \* uint32_t counts modulo this; 2^32
          END,         \* FAT entry of a last cluster
          Foreign      \* cards whose sectors a sector may be taken for

ASSUME LookupAssumption ==
  /\ SECTORS_PER_CLUSTER \in Nat \ {0} /\ BYTE \in Nat \ {0} /\ WORD \in Nat \ {0}
  /\ END \in Nat /\ END >= BYTE

FAT32_SUCCESS == 0
FAT32_ERROR_IO == -1
FAT32_ERROR_INVALID_BOOT_SECTOR == -2
FAT32_ERROR_NO_FILE == -3
FAT32_ERROR_NO_PATH == -8
FAT32_ERROR_IS_DIR == -9
FAT32_PART_TYPES == {"0B", "0C"}

\* Directory entries that hold no name.
FAT32_ENTRY_EMPTY == [name |-> "", attr |-> "", start |-> 0, size |-> 0]
FAT32_ENTRY_DELETED == [name |-> "E5", attr |-> "", start |-> 0, size |-> 0]

\* parse_fat32_path("/boot/kernel.bin").
Path == <<"boot", "kernel.bin">>

\* Upper case, name and extension padded with blanks.
format_name_to_fat32(name) ==
  CASE name = "boot" -> "BOOT       " [] name = "kernel.bin" -> "KERNEL  BIN"

VARIABLES
  card,        \* signed (the sectors that end in 0xAA55), table, spf0, bpb
  tree,        \* dir, fat
  tail_zero,   \* the two bytes behind sector_buffer are 0
  noisy,       \* a read may store another sector and report success
  pc, ret,
  fs,          \* the mounted volume
  level, cluster, sector,  \* component of the path and place of read_dir_entry
  file,        \* entry that was opened
  failed,      \* history: a sector could not be read
  garbled,     \* history: a sector was read and is another one, or damaged
  astray       \* history: read_dir_entry has left the directory it is in

disk == <<card, tree, tail_zero, noisy>>
lookupVars == <<disk, pc, ret, fs, level, cluster, sector, file, failed, garbled, astray>>

NoFs == [start |-> 0, fat_start |-> 0, first_data |-> 0, root |-> 0, total_clusters |-> 0]

LookupInit(c, t, zero, noise) ==
  /\ card = c /\ tree = t /\ tail_zero = zero /\ noisy = noise
  /\ ret = 0 /\ fs = NoFs /\ level = 1 /\ cluster = 0 /\ sector = 0
  /\ file = FAT32_ENTRY_EMPTY /\ failed = FALSE /\ garbled = FALSE
  /\ astray = FALSE

\* The call ends with r; a caller that gets no success panics.
Finish(r) == pc' = "panic" /\ ret' = r /\ UNCHANGED <<level, cluster, sector, file>>

-----------------------------------------------------------------------------
(* fat32_mount *)

\* The card whose sector is in sector_buffer after a read without an error.
Seen(c) == \/ c = card /\ UNCHANGED garbled
           \/ noisy /\ c \in Foreign /\ garbled' = TRUE

\* The first of the partitions that are FAT32.
FirstFat32(c) == Min({k \in DOMAIN c.table : c.table[k].type \in FAT32_PART_TYPES})

FoundViaMbr(c) ==
  0 \in c.signed /\ \E k \in DOMAIN c.table : c.table[k].type \in FAT32_PART_TYPES

check_sector0_for_fat32(c) == 0 \in c.signed /\ c.spf0 # 0

initialize_fat32_fs(c, start) ==
  LET b == c.bpb
      first_data == start + b.reserved + b.numFATs * b.spf
      total == IF b.total16 # 0 THEN b.total16 ELSE b.total32
  IN [start |-> start, fat_start |-> start + b.reserved, first_data |-> first_data,
      root |-> b.root,
      total_clusters |-> ((total - (first_data - start)) % WORD)
                           \div SECTORS_PER_CLUSTER]

\* The signature is read as 32 bits, the last two bytes from behind the buffer.
validate_fat32_boot_sector(c, start) == start \in c.signed /\ tail_zero

Validate(c, start) ==
  IF validate_fat32_boot_sector(c, start)
  THEN /\ fs' = initialize_fat32_fs(c, start) /\ pc' = "mounted" /\ ret' = FAT32_SUCCESS
       /\ UNCHANGED <<level, cluster, sector, file>>
  ELSE Finish(FAT32_ERROR_INVALID_BOOT_SECTOR) /\ UNCHANGED fs

\* Sector 0 is read: a partition is chosen, or it is the boot sector itself.
ReadSector0 ==
  /\ pc = "sector0"
  /\ \E c \in Foreign \union {card} : /\ Seen(c)
       /\ CASE FoundViaMbr(c) ->
                 /\ pc' = "boot_sector"
                 /\ fs' = [NoFs EXCEPT !.start = c.table[FirstFat32(c)].start]
                 /\ UNCHANGED <<ret, level, cluster, sector, file>>
            [] ~FoundViaMbr(c) /\ check_sector0_for_fat32(c) -> Validate(c, 0)
            [] OTHER -> Finish(FAT32_ERROR_INVALID_BOOT_SECTOR) /\ UNCHANGED fs
  /\ UNCHANGED <<disk, failed, astray>>

ReadBootSector ==
  /\ pc = "boot_sector"
  /\ \E c \in Foreign \union {card} : Seen(c) /\ Validate(c, fs.start)
  /\ UNCHANGED <<disk, failed, astray>>

\* Either of them cannot be read.
MountFails ==
  /\ pc \in {"sector0", "boot_sector"}
  /\ Finish(FAT32_ERROR_IO) /\ failed' = TRUE
  /\ UNCHANGED <<disk, fs, garbled, astray>>

-----------------------------------------------------------------------------
(* fat32_open *)
OpenBegin ==
  /\ pc = "mounted"
  /\ pc' = "dir" /\ level' = 1 /\ cluster' = fs.root /\ sector' = 0
  /\ UNCHANGED <<disk, ret, fs, file, failed, garbled, astray>>

\* Whatever made read_dir_entry fail.
Miss == Finish(IF level < Len(Path) THEN FAT32_ERROR_NO_PATH ELSE FAT32_ERROR_NO_FILE)

\* The entry e has the name.  For all but the last component it is taken for a
\* directory, whatever its attributes say.
Follow(e) ==
  \/ /\ level < Len(Path)
     /\ level' = level + 1 /\ cluster' = e.start /\ sector' = 0
     /\ astray' = (astray \/ e.attr # "dir")
     /\ UNCHANGED <<pc, ret, file>>
  \/ /\ level = Len(Path) /\ e.attr = "dir"
     /\ Finish(FAT32_ERROR_IS_DIR) /\ UNCHANGED astray
  \/ /\ level = Len(Path) /\ e.attr # "dir"
     /\ file' = e /\ pc' = "opened" /\ ret' = FAT32_SUCCESS
     /\ UNCHANGED <<level, cluster, sector, astray>>

\* The sectors there are, and those that stand where read_dir_entry reads: outside
\* the directories any.
AnySector == UNION {ToSet(tree.dir[c]) : c \in DOMAIN tree.dir}
Content == IF cluster \in DOMAIN tree.dir THEN {tree.dir[cluster][sector + 1]} ELSE AnySector

\* The sector the read stores: that one, or another.
SeenDir(s) == \/ s \in Content /\ UNCHANGED garbled
              \/ noisy /\ s \in AnySector /\ garbled' = TRUE

\* The loop over the entries stops at the first one that is free or has the name.
Stops(s) == {k \in DOMAIN s : \/ s[k] = FAT32_ENTRY_EMPTY
                              \/ s[k].name = format_name_to_fat32(Path[level])}

\* Mutant: every cluster is taken to have one sector.
ReadDirFirst ==
  /\ pc = "dir"
  /\ \E s \in AnySector : SeenDir(s) /\
       IF Stops(s) = {}
       THEN pc' = "next" /\ UNCHANGED <<ret, level, cluster, sector, file, astray>>
       ELSE LET e == s[Min(Stops(s))] IN
            IF e = FAT32_ENTRY_EMPTY THEN Miss /\ UNCHANGED astray ELSE Follow(e)
  /\ UNCHANGED <<disk, fs, failed>>

\* A sector of the directory is read and searched.
ReadDirSector ==
  /\ pc = "dir"
  /\ \E s \in AnySector : SeenDir(s) /\
       IF Stops(s) = {}
       THEN /\ IF sector + 1 < SECTORS_PER_CLUSTER
               THEN sector' = sector + 1 /\ UNCHANGED pc
               ELSE pc' = "next" /\ UNCHANGED sector
            /\ UNCHANGED <<ret, level, cluster, file, astray>>
       ELSE LET e == s[Min(Stops(s))] IN
            IF e = FAT32_ENTRY_EMPTY THEN Miss /\ UNCHANGED astray ELSE Follow(e)
  /\ UNCHANGED <<disk, fs, failed>>

\* fat32_read_fat_entry keeps one byte of the entry.  The marks of an end and of
\* a bad cluster are larger, so they are never seen, and the loop over the
\* clusters is only left from inside.
fat32_read_fat_entry(c) ==
  IF c \in DOMAIN tree.fat THEN {tree.fat[c] % BYTE} ELSE 0 .. BYTE - 1

\* Mutant: the cluster stays the same.
NextSame ==
  /\ pc = "next" /\ sector' = 0 /\ pc' = "dir"
  /\ UNCHANGED <<disk, ret, fs, level, cluster, file, failed, garbled, astray>>

NextCluster ==
  /\ pc = "next"
  /\ \/ cluster' \in fat32_read_fat_entry(cluster) /\ UNCHANGED garbled
     \/ noisy /\ cluster' \in 0 .. BYTE - 1 /\ garbled' = TRUE
  /\ sector' = 0 /\ pc' = "dir"
  /\ astray' = (astray \/ cluster \notin DOMAIN tree.fat \/ cluster' # tree.fat[cluster])
  /\ UNCHANGED <<disk, ret, fs, level, file, failed>>

\* A sector of the directory or of the FAT cannot be read.
LookupFails ==
  /\ pc \in {"dir", "next"}
  /\ Miss /\ failed' = TRUE
  /\ UNCHANGED <<disk, fs, garbled, astray>>

Lookup == \/ ReadSector0 \/ ReadBootSector \/ MountFails
          \/ OpenBegin \/ ReadDirSector \/ NextCluster \/ LookupFails

-----------------------------------------------------------------------------
(* What the format defines. *)

\* The volume starts in the first FAT32 partition or, without one, in sector 0.
VolumeStart == IF FoundViaMbr(card) THEN card.table[FirstFat32(card)].start ELSE 0
HasVolume == VolumeStart \in card.signed /\ (FoundViaMbr(card) \/ card.spf0 # 0)

\* Cluster k of the chain that starts in c.
ChainAt(c, k) ==
  LET n[j \in 0 .. k] == IF j = 0 THEN c
                         ELSE IF n[j-1] \in DOMAIN tree.fat THEN tree.fat[n[j-1]] ELSE END
  IN n[k]

\* An entry ends the search for the name: it has it, or is the end mark.
Ends(e, name) == e = FAT32_ENTRY_EMPTY \/ e.name = format_name_to_fat32(name)

\* One of cluster d does, in the tree t.
EndsIn(t, d, name) ==
  \E s \in DOMAIN t.dir[d] : \E k \in DOMAIN t.dir[d][s] : Ends(t.dir[d][s][k], name)

\* Entry k of sector s is the first such entry of cluster d.
EndsAt(t, d, s, k, name) ==
  /\ Ends(t.dir[d][s][k], name)
  /\ \A j \in 1 .. k - 1 : ~Ends(t.dir[d][s][j], name)
  /\ \A r \in 1 .. s - 1 : \A j \in DOMAIN t.dir[d][r] : ~Ends(t.dir[d][r][j], name)

\* The clusters of the directory that starts in c, as far as the search goes: the
\* smallest set that holds c and, with a cluster where the search does not end,
\* the next one of the chain.
Closed(t, X, name) ==
  \A d \in X : \/ EndsIn(t, d, name) \/ d \notin DOMAIN t.fat
              \/ t.fat[d] \in X \/ t.fat[d] \notin DOMAIN t.dir

Searched(t, c, name) ==
  {d \in DOMAIN t.dir :
     /\ c \in DOMAIN t.dir
     /\ \A X \in SUBSET DOMAIN t.dir : c \in X /\ Closed(t, X, name) => d \in X}

\* The entry the name leads to from c: none or one.
Entries(t, c, name) ==
  (UNION {UNION {{t.dir[d][s][k] :
                    k \in {k \in DOMAIN t.dir[d][s] : EndsAt(t, d, s, k, name)}} :
                   s \in DOMAIN t.dir[d]} : d \in Searched(t, c, name)}) \ {FAT32_ENTRY_EMPTY}

\* The file the path names: none or one.
Named ==
  {e \in UNION {Entries(tree, d.start, Path[2]) :
                  d \in {d \in Entries(tree, card.bpb.root, Path[1]) : d.attr = "dir"}} :
     e.attr = "file"}

\* The data area has this cluster.
InVolume(v, c) == c \in 2 .. 1 + v.total_clusters

\* There is a cluster for every part of the file.  (A file that starts in cluster
\* 2, where the root directory is, does not count.)
Whole(e) ==
  /\ e.start > 2
  /\ \A k \in 0 .. e.size - 1 :
       InVolume(initialize_fat32_fs(card, VolumeStart), ChainAt(e.start, k))

Acyclic == \A c \in DOMAIN tree.fat : \E k \in 1 .. Cardinality(DOMAIN tree.fat) :
             ChainAt(c, k) = END

\* README.md:20, "if you get a `PANIC: Failed to mount FAT32 filesystem: Invalid
\* boot sector` [...] make again and reflash the sd card": the card is invalid,
\* or was read wrong.
InvalidMeansInvalid ==
  ret = FAT32_ERROR_INVALID_BOOT_SECTOR /\ ~garbled => ~HasVolume
=============================================================================
