---------------------------- MODULE MCBootloader ----------------------------
(* Bootloader for TLC: cards and trees vary one at a time. *)
EXTENDS Bootloader

Entry(name, attr, start, size) ==
  [name |-> name, attr |-> attr, start |-> start, size |-> size]
Other == Entry("MLO        ", "file", 6, 1)
BootDir == Entry("BOOT       ", "dir", 3, 0)
KernelFile == Entry("KERNEL  BIN", "file", 5, 3)

\* What the two sectors of the root (cluster 2) and of the directory boot (3) may
\* hold, and the first one of the cluster that continues one of them (4).
Root1 == {FAT32_ENTRY_DELETED, Other, BootDir, Entry("BOOT       ", "label", 0, 0)}
Root2 == {FAT32_ENTRY_EMPTY, BootDir}
Boot1 == {FAT32_ENTRY_EMPTY, FAT32_ENTRY_DELETED, KernelFile}
Boot2 == {Other, KernelFile, Entry("KERNEL  BIN", "dir", 4, 0)}
More1 == {FAT32_ENTRY_EMPTY, Other, BootDir}

Sectors(a, b) == <<<<a>>, <<b>>>>

\* 10 is a cluster behind the first BYTE of them.
AllTrees ==
  {[dir |-> (2 :> Sectors(r1, r2) @@ 3 :> Sectors(b1, b2) @@ 4 :> Sectors(m, KernelFile)),
    fat |-> (2 :> f2 @@ 3 :> f3 @@ 4 :> f4 @@ 5 :> 6 @@ 6 :> 7 @@ 7 :> END)] :
     r1 \in Root1, r2 \in Root2, b1 \in Boot1, b2 \in Boot2, m \in More1,
     f2 \in {END, 4, 10}, f3 \in {END, 4}, f4 \in {END, 2}}

\* The directories are good, the kernel starts in c and has these clusters.
KernelIn(c, f5, f6, f7) ==
  [dir |-> (2 :> Sectors(FAT32_ENTRY_DELETED, BootDir) @@
            3 :> Sectors(FAT32_ENTRY_DELETED, Other) @@
            4 :> Sectors(Other, Entry("KERNEL  BIN", "file", c, 3))),
   fat |-> (2 :> END @@ 3 :> 4 @@ 4 :> END @@ 5 :> f5 @@ 6 :> f6 @@ 7 :> f7)]
GoodTree == KernelIn(5, 6, 7, END)
Chains == {KernelIn(c, f5, f6, f7) :
             c \in {2, 5, 8}, f5 \in {6, END}, f6 \in {7, 9, END}, f7 \in {5, END}}

Bpb(reserved, numFATs, spf, total16, total32) ==
  [reserved |-> reserved, numFATs |-> numFATs, spf |-> spf,
   total16 |-> total16, total32 |-> total32, root |-> 2]

Partition(type, start) == [type |-> type, start |-> start]

GoodCard == [signed |-> {0, 3}, spf0 |-> 0, bpb |-> Bpb(1, 2, 1, 0, 16),
             table |-> <<Partition("0C", 3), Partition("83", 5)>>]

AllCards ==
  {[signed |-> signed, spf0 |-> spf0, bpb |-> bpb, table |-> <<p1, p2>>] :
     signed \in SUBSET {0, 3, 5}, spf0 \in {0, 1},
     bpb \in {Bpb(r, n, 1, t, 16) : r \in {1, 2}, n \in {1, 2}, t \in {0, 9, 2}},
     p1 \in {Partition("00", 0), Partition("0C", 3)},
     p2 \in {Partition("83", 5), Partition("0B", 5)}}

\* What stands where another sector was asked for: nothing, or another volume.
Strangers == {[GoodCard EXCEPT !.signed = {}],
              [GoodCard EXCEPT !.signed = {0, 3, 5}, !.table[1].start = 5]}

Kernel(magic, text, text_gap, data, data_gap, bss) ==
  [magic |-> magic, text |-> text, text_gap |-> text_gap, data |-> data,
   data_gap |-> data_gap, bss |-> bss]
Images == {Kernel(TRUE, t, g, 2, g, b) : t \in {1, 3}, g \in 0 .. 1, b \in 0 .. 2}
            \union {Kernel(FALSE, 1, 0, 2, 1, 1)}
GoodImage == Kernel(TRUE, 3, 0, 2, 0, 2)

GoodMemory == [a \in DdrAddr |-> [one |-> {}, zero |-> {}]]

With(memory, card0, tree0, image, zero, noise, table) ==
  [memory |-> memory, card |-> card0, tree |-> tree0, image |-> image,
   tail_zero |-> zero, noisy |-> noise, table |-> table]

\* One of memory, card, tree and kernel varies, the others are plain.
Machines ==
  {With(m, GoodCard, GoodTree, GoodImage, TRUE, FALSE, << >>) : m \in Memory}
    \union {With(GoodMemory, GoodCard, t, GoodImage, TRUE, FALSE, << >>) : t \in AllTrees}
    \union {With(GoodMemory, GoodCard, t, GoodImage, TRUE, TRUE, << >>) : t \in Chains}
    \union {With(GoodMemory, c, GoodTree, GoodImage, z, FALSE, << >>) :
              c \in AllCards, z \in BOOLEAN}
    \union {With(GoodMemory, GoodCard, GoodTree, i, TRUE, n, l) :
              i \in Images, n \in BOOLEAN, l \in PowerUp}
=============================================================================
