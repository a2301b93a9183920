----------------------------- MODULE Fat32File -----------------------------
(***************************************************************************)
(* An open file of the FAT32 driver (fat32.c): fat32_seek and fat32_read,  *)
(* with the walk along the cluster chain and each sector read as a step of *)
(* its own, because each may fail.  The volume is chosen in Init and never *)
(* written: any chain, sound or damaged.                                   *)
(*                                                                         *)
(* A byte is the place on the disk it comes from, <<sector, offset>>.      *)
(* Cluster numbers are uint32 in the code; an error code that is returned  *)
(* as a cluster number keeps its negative value here, and like the huge    *)
(* number it is in the code it is not a cluster of the volume.             *)
(* file->current_cluster is written and never read, and left out.          *)
(***************************************************************************)
EXTENDS Integers, Sequences, SequencesExt

CONSTANTS BYTES_PER_SECTOR,     \* 512
          SECTORS_PER_CLUSTER,
          TOTAL_CLUSTERS,
          FIRST_DATA_SECTOR,
          FileSize,             \* sizes of the file
          ReadSize              \* sizes passed to fat32_read

ASSUME GeometryAssumption ==
  /\ BYTES_PER_SECTOR \in Nat \ {0} /\ SECTORS_PER_CLUSTER \in Nat \ {0}
  /\ TOTAL_CLUSTERS \in Nat \ {0} /\ FIRST_DATA_SECTOR \in Nat
ASSUME SizesAssumption == FileSize \subseteq Nat /\ ReadSize \subseteq Nat

FAT32_ERROR_IO == -1
FAT32_ERROR_BAD_PARAMETER == -4
FAT32_ERROR_CORRUPTED_FS == -5
FAT32_ERROR_INVALID_CLUSTER == -13
FAT32_EOC_MARKER == 268435455    \* 0x0FFFFFFF
FAT32_LAST_MARKER == 268435448   \* 0x0FFFFFF8, the lowest mark of an end
BAD_CLUSTER == 268435447         \* 0x0FFFFFF7

\* The numbers of the clusters lie below the marks, as the format has it.
ASSUME NumbersAssumption == TOTAL_CLUSTERS + 1 < BAD_CLUSTER

CLUSTER_SIZE == BYTES_PER_SECTOR * SECTORS_PER_CLUSTER
Cluster == 2 .. TOTAL_CLUSTERS + 1
\* A FAT entry: next cluster, free, bad, a number behind the volume, or an end.
FatEntry == Cluster \union {0, BAD_CLUSTER, TOTAL_CLUSTERS + 2,
                            FAT32_LAST_MARKER, FAT32_EOC_MARKER}

VARIABLES
  fat, start_cluster, file_size,     \* the volume and the directory entry
  file_offset,
  pc,          \* position in fat32_read; "idle" outside
  buf,         \* bytes stored in the buffer of the caller; bytes_read is Len(buf)
  remaining, bytes_to_read,
  i, cluster,  \* of get_cluster_at_index; cluster is the target at its end
  current_sector,
  ret,         \* result of the last call
  request, from,  \* history: size of the last read, and the offset at its start
  failed,      \* history: a sector read has failed during it
  astray       \* history: during it the FAT was read for a number that is no
               \* cluster of the volume

file == <<fat, start_cluster, file_size>>
walk == <<i, cluster>>
locals == <<remaining, bytes_to_read, i, cluster, current_sector>>
history == <<request, from, failed, astray>>
vars == <<file, file_offset, pc, buf, locals, ret, history>>

bytes_read == Len(buf)
cluster_index == file_offset \div CLUSTER_SIZE
cluster_offset == file_offset % CLUSTER_SIZE

\* Entry k of the chain of a file, by the definition of the format.
ClusterAt[k \in Nat] ==
  IF k = 0 THEN start_cluster
  ELSE IF ClusterAt[k-1] \in Cluster THEN fat[ClusterAt[k-1]] ELSE ClusterAt[k-1]

Used == {ClusterAt[k] : k \in 0 .. TOTAL_CLUSTERS} \intersect Cluster

\* After fat32_open.  Clusters the file does not use are free.
Init ==
  /\ fat \in [Cluster -> FatEntry]
  /\ start_cluster \in Cluster
  /\ \A c \in Cluster \ Used : fat[c] = 0
  /\ file_size \in FileSize
  /\ file_offset = 0
  /\ pc = "idle" /\ buf = << >> /\ remaining = 0 /\ bytes_to_read = 0
  /\ i = 0 /\ cluster = 0 /\ current_sector = 0
  /\ ret = 0 /\ request = 0 /\ from = 0 /\ failed = FALSE /\ astray = FALSE

-----------------------------------------------------------------------------
fat32_seek(offset) ==
  /\ pc = "idle"
  /\ IF offset < 0 \/ offset > file_size
     THEN ret' = FAT32_ERROR_BAD_PARAMETER /\ UNCHANGED file_offset
     ELSE ret' = 0 /\ file_offset' = offset
  /\ buf' = << >> /\ request' = 0 /\ from' = file_offset'
  /\ failed' = FALSE /\ astray' = FALSE
  /\ UNCHANGED <<file, pc, locals>>

\* fat32_read up to its loop.
ReadBegin(size) ==
  /\ pc = "idle"
  /\ buf' = << >> /\ request' = size /\ from' = file_offset
  /\ failed' = FALSE /\ astray' = FALSE
  /\ IF file_offset >= file_size \/ size = 0
     THEN ret' = 0 /\ UNCHANGED <<pc, remaining>>
     ELSE /\ pc' = "cluster"
          /\ remaining' = IF size > file_size - file_offset
                          THEN file_size - file_offset ELSE size
          /\ UNCHANGED ret
  /\ UNCHANGED <<file, file_offset, bytes_to_read, walk, current_sector>>

\* Leave fat32_read with r; its locals are dead.
Return(r) ==
  /\ pc' = "idle" /\ ret' = r
  /\ remaining' = 0 /\ bytes_to_read' = 0 /\ i' = 0 /\ cluster' = 0
  /\ current_sector' = 0

\* Leave it with the number of bytes read so far or, if there are none, error e.
ReturnShort(e) == Return(IF bytes_read > 0 THEN bytes_read ELSE e)

\* get_cluster_at_index up to its loop.
WalkBegin ==
  /\ pc = "cluster"
  /\ IF start_cluster <= 2
     THEN ReturnShort(FAT32_ERROR_BAD_PARAMETER)
     ELSE /\ pc' = "walk" /\ i' = 0 /\ cluster' = start_cluster
          /\ UNCHANGED <<ret, remaining, bytes_to_read, current_sector>>
  /\ UNCHANGED <<file, file_offset, buf, history>>

\* What fat32_get_next_cluster makes of a FAT entry.
NextOf(value) ==
  CASE value >= FAT32_LAST_MARKER -> FAT32_EOC_MARKER
    [] value = BAD_CLUSTER -> FAT32_ERROR_IO
    [] value < 2 -> FAT32_ERROR_CORRUPTED_FS
    [] OTHER -> value

\* The possible results of fat32_get_next_cluster(curr) if the sector is read.
\* For a number that is no cluster that sector lies outside the FAT, or the
\* entry outside the used part of it: any value may be found there.
fat32_get_next_cluster(curr) ==
  {NextOf(value) : value \in IF curr \in Cluster THEN {fat[curr]} ELSE FatEntry}

\* Mutant of the loop: the index is not advanced.
WalkStuck ==
  /\ pc = "walk" /\ i < cluster_index
  /\ cluster' \in fat32_get_next_cluster(cluster)
  /\ astray' = (astray \/ cluster \notin Cluster)
  /\ UNCHANGED <<file, file_offset, pc, buf, remaining, bytes_to_read, i,
                 current_sector, ret, request, from, failed>>

\* One round of the loop of get_cluster_at_index.
WalkStep ==
  /\ pc = "walk" /\ i < cluster_index
  /\ \E next \in fat32_get_next_cluster(cluster) :
       IF next = FAT32_EOC_MARKER /\ i < cluster_index - 1
       THEN ReturnShort(FAT32_ERROR_CORRUPTED_FS)
       ELSE /\ cluster' = next /\ i' = i + 1
            /\ UNCHANGED <<pc, ret, remaining, bytes_to_read, current_sector>>
  /\ astray' = (astray \/ cluster \notin Cluster)
  /\ UNCHANGED <<file, file_offset, buf, request, from, failed>>

\* The same if the FAT sector cannot be read: the error code becomes the cluster.
WalkFails ==
  /\ pc = "walk" /\ i < cluster_index
  /\ cluster' = FAT32_ERROR_IO /\ i' = i + 1
  /\ failed' = TRUE
  /\ astray' = (astray \/ cluster \notin Cluster)
  /\ UNCHANGED <<file, file_offset, pc, buf, remaining, bytes_to_read,
                 current_sector, ret, request, from>>

\* Mutant of the bound: the first two numbers are not counted.
ToSectorShort(c) ==
  IF c \notin 2 .. TOTAL_CLUSTERS THEN FAT32_ERROR_INVALID_CLUSTER
  ELSE (c - 2) * SECTORS_PER_CLUSTER + FIRST_DATA_SECTOR

cluster_to_sector(c) ==
  IF c \notin Cluster THEN FAT32_ERROR_INVALID_CLUSTER
  ELSE (c - 2) * SECTORS_PER_CLUSTER + FIRST_DATA_SECTOR

\* Mutant: the whole cluster is read wherever the offset is.
WalkEndWhole ==
  /\ pc = "walk" /\ i = cluster_index
  /\ IF cluster_to_sector(cluster) < 0
     THEN Return(cluster_to_sector(cluster))
     ELSE /\ pc' = "sector"
          /\ bytes_to_read' = IF remaining < CLUSTER_SIZE THEN remaining ELSE CLUSTER_SIZE
          /\ current_sector' = cluster_to_sector(cluster)
                                 + cluster_offset \div BYTES_PER_SECTOR
          /\ UNCHANGED <<ret, remaining, walk>>
  /\ UNCHANGED <<file, file_offset, buf, history>>

\* From the return of get_cluster_at_index to the sector loop.  An invalid
\* cluster ends the call with an error, whatever has been read before.
WalkEnd ==
  LET bytes_in_cluster == CLUSTER_SIZE - cluster_offset IN
  /\ pc = "walk" /\ i = cluster_index
  /\ IF cluster_to_sector(cluster) < 0
     THEN Return(cluster_to_sector(cluster))
     ELSE /\ pc' = "sector"
          /\ bytes_to_read' = IF remaining < bytes_in_cluster
                              THEN remaining ELSE bytes_in_cluster
          /\ current_sector' = cluster_to_sector(cluster)
                                 + cluster_offset \div BYTES_PER_SECTOR
          /\ UNCHANGED <<ret, remaining, walk>>
  /\ UNCHANGED <<file, file_offset, buf, history>>

\* Mutant of the sector loop: the offset in the sector is not reset.
SectorOffsetKept ==
  LET sector_offset == from % BYTES_PER_SECTOR
      bytes_in_sector == BYTES_PER_SECTOR - sector_offset
      n == IF bytes_to_read < bytes_in_sector THEN bytes_to_read ELSE bytes_in_sector
  IN /\ pc = "sector"
     /\ buf' = buf \o [k \in 1 .. n |-> <<current_sector, sector_offset + k - 1>>]
     /\ file_offset' = file_offset + n
     /\ IF n = remaining THEN Return(Len(buf'))
        ELSE /\ pc' = IF n = bytes_to_read THEN "cluster" ELSE "sector"
             /\ remaining' = remaining - n
             /\ bytes_to_read' = bytes_to_read - n
             /\ current_sector' = current_sector + 1
             /\ UNCHANGED <<walk, ret>>
     /\ UNCHANGED <<file, history>>

\* One round of the sector loop: the sector is read and copied.  What follows
\* the loop when bytes_to_read is not 0 then is never reached (see TypeOK).
ReadSector ==
  LET sector_offset == file_offset % BYTES_PER_SECTOR
      bytes_in_sector == BYTES_PER_SECTOR - sector_offset
      n == IF bytes_to_read < bytes_in_sector THEN bytes_to_read ELSE bytes_in_sector
  IN /\ pc = "sector"
     /\ buf' = buf \o [k \in 1 .. n |-> <<current_sector, sector_offset + k - 1>>]
     /\ file_offset' = file_offset + n
     /\ IF n = remaining THEN Return(Len(buf'))
        ELSE /\ pc' = IF n = bytes_to_read THEN "cluster" ELSE "sector"
             /\ remaining' = remaining - n
             /\ bytes_to_read' = bytes_to_read - n
             /\ current_sector' = current_sector + 1
             /\ UNCHANGED <<walk, ret>>
     /\ UNCHANGED <<file, history>>

\* The sector cannot be read.
SectorFails ==
  /\ pc = "sector"
  /\ ReturnShort(FAT32_ERROR_IO)
  /\ failed' = TRUE
  /\ UNCHANGED <<file, file_offset, buf, request, from, astray>>

fat32_read == \/ WalkBegin \/ WalkStep \/ WalkFails \/ WalkEnd
              \/ ReadSector \/ SectorFails

Next == \/ \E offset \in -1 .. file_size + 1 : fat32_seek(offset)
        \/ \E size \in ReadSize : ReadBegin(size)
        \/ fat32_read

Spec == Init /\ [][Next]_vars /\ WF_vars(fat32_read)

-----------------------------------------------------------------------------
Result == -13 .. -1

TypeOK ==
  /\ fat \in [Cluster -> FatEntry] /\ start_cluster \in Cluster
  /\ file_size \in FileSize /\ file_offset \in 0 .. file_size
  /\ pc \in {"idle", "cluster", "walk", "sector"}
  /\ buf \in Seq(Nat \X (0 .. BYTES_PER_SECTOR - 1))
  /\ remaining \in 0 .. file_size /\ bytes_to_read \in 0 .. CLUSTER_SIZE
  /\ i \in Nat /\ cluster \in FatEntry \union Result
  /\ current_sector \in Nat
  /\ ret \in Result \union Nat /\ request \in Nat /\ from \in 0 .. file_size
  /\ failed \in BOOLEAN /\ astray \in BOOLEAN
  /\ pc = "sector" =>
       /\ current_sector - cluster_to_sector(cluster) < SECTORS_PER_CLUSTER
       /\ bytes_to_read <= CLUSTER_SIZE - cluster_offset

\* Where byte p of the file is, by the definition of the format.
ByteAt(p) ==
  <<FIRST_DATA_SECTOR + (ClusterAt[p \div CLUSTER_SIZE] - 2) * SECTORS_PER_CLUSTER
      + (p % CLUSTER_SIZE) \div BYTES_PER_SECTOR,
    p % BYTES_PER_SECTOR>>

IsPartOfFile(s) == s = [k \in 1 .. Len(s) |-> ByteAt(from + k - 1)]

\* The chain has a cluster of its own for every part of the file.
Sound ==
  LET Part == 0 .. (file_size - 1) \div CLUSTER_SIZE IN
  \A k \in Part : /\ ClusterAt[k] \in Cluster
                  /\ \A l \in Part : ClusterAt[k] = ClusterAt[l] => k = l

\* As long as the FAT is only read for clusters of the volume, the buffer holds
\* at every moment the bytes of the file that start at the offset of the call,
\* and file_offset counts them, on damaged chains and across failing sectors
\* too.  A call that reports success reports their number, and one that reports
\* an error has read nothing, the error for an invalid cluster excepted.
ReadsFileBytes ==
  ~astray => /\ IsPartOfFile(buf)
             /\ file_offset = from + bytes_read
             /\ pc = "idle" /\ ret # FAT32_ERROR_INVALID_CLUSTER =>
                  bytes_read = IF ret < 0 THEN 0 ELSE ret

\* On a sound chain that does not start in cluster 2 only a failing sector keeps
\* fat32_read from delivering all that was asked for and is there.
CompleteUnlessFailed ==
  pc = "idle" /\ Sound /\ start_cluster # 2 /\ request > 0 /\ ~failed =>
    ret = IF request < file_size - from THEN request ELSE file_size - from

\* Every read returns, whatever the chain looks like (it may be a cycle).
ReadReturns == pc # "idle" ~> pc = "idle"
=============================================================================
