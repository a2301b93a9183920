-------------------------- MODULE Fat32FileProofs --------------------------
(***************************************************************************)
(* fat32_read for every geometry of the volume, every chain, sound or      *)
(* damaged, every file and every sequence of seeks, reads and failures.    *)
(***************************************************************************)
EXTENDS Fat32File, SequenceTheorems, WellFoundedInduction, TLAPS

\* How far a call has come: the offset counts the bytes in the buffer, and what
\* remains is what was asked for, or is there, without them.
Wanted == IF request < file_size - from THEN request ELSE file_size - from
Progress ==
  /\ file_offset = from + Len(buf)
  /\ pc # "idle" => /\ remaining > 0 /\ file_offset + remaining <= file_size
                    /\ remaining + Len(buf) = Wanted

\* The walk has followed the chain, unless it has left the volume; a number in
\* the volume is the right one even after a failed read.
Walking ==
  pc = "walk" =>
    /\ i <= cluster_index
    /\ ~astray /\ (cluster \in Cluster \/ (~failed /\ ClusterAt[i] \in Cluster)) =>
         cluster = ClusterAt[i]

\* The next sector is the one file_offset lies in.
InSector ==
  pc = "sector" =>
    /\ cluster \in Cluster
    /\ ~astray => cluster = ClusterAt[cluster_index]
    /\ current_sector = cluster_to_sector(cluster) + cluster_offset \div BYTES_PER_SECTOR
    /\ bytes_to_read \in 1 .. remaining
    /\ bytes_to_read <= CLUSTER_SIZE - cluster_offset

\* On a sound chain only a failing sector makes the walk leave the volume.
OnPath == pc # "idle" /\ Sound /\ ~failed => ~astray

Delivered == ~astray => IsPartOfFile(buf)

Reported ==
  pc = "idle" /\ ret # FAT32_ERROR_INVALID_CLUSTER =>
    bytes_read = IF ret < 0 THEN 0 ELSE ret

Inv == /\ TypeOK /\ Progress /\ Walking /\ InSector /\ OnPath
       /\ Delivered /\ Reported /\ CompleteUnlessFailed

-----------------------------------------------------------------------------
(* Arithmetic: sectors and clusters.                                       *)

\* A quotient and a remainder are the only ones.
LEMMA QuotientUnique ==
  ASSUME NEW b \in Nat \ {0}, NEW q \in Nat, NEW r \in 0 .. b - 1, NEW a,
         a = b * q + r
  PROVE  a \in Nat /\ a \div b = q /\ a % b = r
<1>1. b * q \in Nat
  OBVIOUS
<1>2. a \in Nat
  BY <1>1
<1> DEFINE p == a \div b
           t == a % b
<1>3. p \in Nat /\ t \in 0 .. b - 1 /\ a = b * p + t
  BY <1>2
<1> HIDE DEF p, t
<1>4. ASSUME NEW x \in Nat, NEW y \in Nat, x < y
      PROVE  b * x + b <= b * y
  <2>1. PICK d \in Nat : y = x + 1 + d
    <3>1. y - x - 1 \in Nat /\ y = x + 1 + (y - x - 1)
      BY <1>4
    <3> QED BY <3>1
  <2>2. b * y = b * x + b + b * d
    BY <2>1
  <2>3. b * d \in Nat /\ b * x \in Nat
    OBVIOUS
  <2> QED BY <2>2, <2>3
<1>5. b * p \in Nat
  BY <1>3
<1>6. ~ (p < q)
  <2> SUFFICES ASSUME p < q PROVE FALSE
    OBVIOUS
  <2>1. b * p + b <= b * q
    BY <1>3, <1>4
  <2> QED BY <2>1, <1>1, <1>3, <1>5
<1>7. ~ (q < p)
  <2> SUFFICES ASSUME q < p PROVE FALSE
    OBVIOUS
  <2>1. b * q + b <= b * p
    BY <1>3, <1>4
  <2> QED BY <2>1, <1>1, <1>3, <1>5
<1>8. p = q
  BY <1>3, <1>6, <1>7
<1>9. t = r
  BY <1>1, <1>3, <1>8
<1> QED BY <1>2, <1>8, <1>9 DEF p, t

\* A place o in a file is byte t of sector s of cluster q.
Place(o, q, s, t) ==
  /\ q \in Nat /\ s \in 0 .. SECTORS_PER_CLUSTER - 1 /\ t \in 0 .. BYTES_PER_SECTOR - 1
  /\ o = CLUSTER_SIZE * q + (BYTES_PER_SECTOR * s + t)

\* The size of a cluster is a number, and that of the sectors before sector s
\* leaves room for one more.
LEMMA Sizes ==
  /\ CLUSTER_SIZE \in Nat \ {0}
  /\ \A s \in 0 .. SECTORS_PER_CLUSTER - 1 :
       /\ BYTES_PER_SECTOR * s \in Nat
       /\ BYTES_PER_SECTOR * s + BYTES_PER_SECTOR <= CLUSTER_SIZE
       /\ s < SECTORS_PER_CLUSTER - 1 <=>
            BYTES_PER_SECTOR * s + BYTES_PER_SECTOR < CLUSTER_SIZE
<1> DEFINE b == BYTES_PER_SECTOR
           m == SECTORS_PER_CLUSTER
<1>1. b \in Nat \ {0} /\ m \in Nat \ {0}
  BY GeometryAssumption
<1>2. CLUSTER_SIZE = b * m
  BY DEF CLUSTER_SIZE
<1> HIDE DEF b, m
<1>3. b * m \in Nat \ {0}
  <2>1. PICK d \in Nat : m = 1 + d
    <3>1. m - 1 \in Nat /\ m = 1 + (m - 1)
      BY <1>1
    <3> QED BY <3>1
  <2>2. b * m = b + b * d /\ b * d \in Nat
    BY <2>1, <1>1
  <2> QED BY <2>2, <1>1
<1>4. ASSUME NEW s \in 0 .. m - 1
      PROVE  /\ b * s \in Nat /\ b * s + b <= b * m
             /\ s < m - 1 <=> b * s + b < b * m
  <2>0. s \in Nat
    BY <1>1
  <2>1. PICK d \in Nat : m = s + 1 + d
    <3>1. m - s - 1 \in Nat /\ m = s + 1 + (m - s - 1)
      BY <1>1
    <3> QED BY <3>1
  <2>2. b * m = b * s + b + b * d
    BY <2>0, <2>1, <1>1
  <2>3. b * s \in Nat /\ b * d \in Nat
    BY <2>0, <1>1
  <2>4. b * d = 0 <=> d = 0
    <3>1. CASE d = 0
      BY <3>1, <1>1
    <3>2. CASE d # 0
      <4>1. PICK e \in Nat : d = 1 + e
        <5>1. d - 1 \in Nat /\ d = 1 + (d - 1)
          BY <3>2
        <5> QED BY <5>1
      <4>2. b * d = b + b * e /\ b * e \in Nat
        BY <4>1, <1>1
      <4> QED BY <3>2, <4>2, <1>1
    <3> QED BY <3>1, <3>2
  <2> QED BY <2>0, <2>1, <2>2, <2>3, <2>4, <1>1
<1> QED BY <1>2, <1>3, <1>4 DEF b, m

\* What the code computes from a place.
LEMMA PlaceParts ==
  ASSUME NEW o, NEW q, NEW s, NEW t, Place(o, q, s, t)
  PROVE  /\ o \in Nat /\ o \div CLUSTER_SIZE = q
         /\ o % CLUSTER_SIZE = BYTES_PER_SECTOR * s + t
         /\ (o % CLUSTER_SIZE) \div BYTES_PER_SECTOR = s
         /\ o % BYTES_PER_SECTOR = t
<1> DEFINE b == BYTES_PER_SECTOR
           m == SECTORS_PER_CLUSTER
           r == b * s + t
<1>1. b \in Nat \ {0} /\ m \in Nat \ {0}
  BY GeometryAssumption
<1>2. /\ q \in Nat /\ s \in 0 .. m - 1 /\ t \in 0 .. b - 1
      /\ o = CLUSTER_SIZE * q + r
  BY DEF Place
<1>3. /\ b * s \in Nat /\ b * s + b <= CLUSTER_SIZE /\ CLUSTER_SIZE \in Nat \ {0}
  BY <1>2, Sizes
<1>4. r \in 0 .. CLUSTER_SIZE - 1
  BY <1>1, <1>2, <1>3
<1>5. s \in Nat /\ t \in 0 .. b - 1 /\ r = b * s + t
  BY <1>1, <1>2
<1>6. CLUSTER_SIZE = b * m
  BY DEF CLUSTER_SIZE
<1> HIDE DEF b, m, r
<1>7. o \in Nat /\ o \div CLUSTER_SIZE = q /\ o % CLUSTER_SIZE = r
  BY <1>2, <1>3, <1>4, QuotientUnique
<1>8. r \div b = s
  BY <1>1, <1>5, QuotientUnique
<1>9. o % b = t
  <2> DEFINE u == m * q + s
  <2>1. u \in Nat
    BY <1>1, <1>2, <1>5
  <2>2. (b * m) * q = b * (m * q)
    BY <1>1, <1>2
  <2>3. b * u = b * (m * q) + b * s
    BY <1>1, <1>2, <1>5
  <2>4. o = b * u + t
    <3>1. m * q \in Nat
      BY <1>1, <1>2
    <3>2. b * (m * q) \in Nat
      BY <1>1, <3>1
    <3>3. b * s \in Nat
      BY <1>3
    <3> HIDE DEF u
    <3>4. CLUSTER_SIZE * q = b * (m * q)
      BY <1>6, <2>2
    <3> QED BY <3>2, <3>3, <3>4, <2>3, <1>2, <1>5
  <2> HIDE DEF u
  <2> QED BY <2>1, <2>4, <1>1, <1>5, QuotientUnique
<1> QED BY <1>7, <1>8, <1>9 DEF b, r

\* Every offset is such a place.
LEMMA HasPlace ==
  ASSUME NEW o \in Nat
  PROVE  Place(o, o \div CLUSTER_SIZE, (o % CLUSTER_SIZE) \div BYTES_PER_SECTOR,
               o % BYTES_PER_SECTOR)
<1> DEFINE b == BYTES_PER_SECTOR
           m == SECTORS_PER_CLUSTER
           q == o \div CLUSTER_SIZE
           r == o % CLUSTER_SIZE
<1>1. b \in Nat \ {0} /\ m \in Nat \ {0} /\ CLUSTER_SIZE \in Nat \ {0}
  BY GeometryAssumption, Sizes
<1>2. q \in Nat /\ r \in 0 .. CLUSTER_SIZE - 1 /\ o = CLUSTER_SIZE * q + r
  BY <1>1
<1>3. CLUSTER_SIZE = b * m
  BY DEF CLUSTER_SIZE
<1> HIDE DEF b, m, q, r
<1> DEFINE s == r \div b
           t == r % b
<1>4. r \in Nat
  BY <1>1, <1>2
<1>5. s \in Nat /\ t \in 0 .. b - 1 /\ r = b * s + t
  BY <1>1, <1>4
<1> HIDE DEF s, t
<1>6. s < m
  <2> SUFFICES ASSUME s >= m PROVE FALSE
    BY <1>1, <1>5
  <2>1. PICK d \in Nat : s = m + d
    <3>1. s - m \in Nat /\ s = m + (s - m)
      BY <1>1, <1>5
    <3> QED BY <3>1
  <2>2. b * s = b * m + b * d /\ b * d \in Nat /\ b * m \in Nat
    BY <2>1, <1>1
  <2> QED BY <2>2, <1>1, <1>2, <1>3, <1>5
<1>7. Place(o, q, s, t)
  BY <1>1, <1>2, <1>5, <1>6 DEF Place, b, m
<1>8. o % b = t
  BY <1>7, PlaceParts DEF b
<1> QED BY <1>7, <1>8 DEF b, q, r, s, t

-----------------------------------------------------------------------------
(* The chain.                                                              *)

\* Induction over the natural numbers, for sets: the least number outside the
\* set has a predecessor inside it.
LEMMA SetInduction ==
  ASSUME NEW T, T \subseteq Nat, 0 \in T, \A n \in T : n + 1 \in T
  PROVE  \A n \in Nat : n \in T
<1> SUFFICES ASSUME NEW m \in Nat, m \notin T PROVE FALSE
  OBVIOUS
<1> DEFINE R == OpToRel(<, Nat)
           U == Nat \ T
<1>1. IsWellFoundedOn(R, Nat)
  BY NatLessThanWellFounded
<1>2. \A x, y \in Nat : x < y => <<x, y>> \in R
  BY DEF OpToRel
<1>3. U \subseteq Nat /\ U # {}
  OBVIOUS
<1> HIDE DEF R, U
<1>4. PICK x \in U : \A y \in U : ~ (<<y, x>> \in R)
  BY <1>1, <1>3, WFMin
<1>5. x \in Nat /\ x \notin T /\ x # 0
  BY DEF U
<1>6. x - 1 \in Nat /\ x - 1 < x /\ (x - 1) + 1 = x
  BY <1>5
<1>7. <<x - 1, x>> \in R
  BY <1>2, <1>5, <1>6
<1>8. x - 1 \notin U
  BY <1>4, <1>7, Zenon
<1>9. x - 1 \in T
  BY <1>6, <1>8 DEF U
<1>10. (x - 1) + 1 \in T
  BY <1>9
<1> QED BY <1>5, <1>6, <1>10

\* The recursion in ClusterAt, and its solutions on an initial part.
Entry(f, k) == IF k = 0 THEN start_cluster
               ELSE IF f[k-1] \in Cluster THEN fat[f[k-1]] ELSE f[k-1]
IsChain(f, n) == f = [k \in 0 .. n |-> Entry(f, k)]

\* Two solutions agree where both are defined.
LEMMA ChainUnique ==
  ASSUME NEW n \in Nat, NEW m \in Nat, NEW f, NEW g, IsChain(f, n), IsChain(g, m)
  PROVE  \A k \in Nat : k <= n /\ k <= m => f[k] = g[k]
<1> DEFINE T == {k \in Nat : k <= n /\ k <= m => f[k] = g[k]}
<1>1. 0 \in T
  <2>1. f[0] = Entry(f, 0) /\ g[0] = Entry(g, 0)
    <3>1. 0 \in 0 .. n /\ 0 \in 0 .. m
      OBVIOUS
    <3> QED BY <3>1 DEF IsChain
  <2> QED BY <2>1 DEF Entry
<1>2. ASSUME NEW k \in T PROVE k + 1 \in T
  <2> SUFFICES ASSUME k + 1 <= n, k + 1 <= m PROVE f[k+1] = g[k+1]
    OBVIOUS
  <2>1. f[k] = g[k]
    OBVIOUS
  <2>2. k + 1 \in 0 .. n /\ k + 1 \in 0 .. m /\ k + 1 # 0 /\ (k + 1) - 1 = k
    OBVIOUS
  <2>3. f[k+1] = Entry(f, k+1) /\ g[k+1] = Entry(g, k+1)
    BY <2>2 DEF IsChain
  <2> QED BY <2>1, <2>2, <2>3 DEF Entry
<1>3. T \subseteq Nat
  OBVIOUS
<1> HIDE DEF T
<1>4. \A k \in Nat : k \in T
  BY <1>1, <1>2, <1>3, SetInduction
<1> QED BY <1>4 DEF T

\* There is one of every length.
LEMMA ChainExists == \A n \in Nat : \E f : IsChain(f, n)
<1> DEFINE T == {n \in Nat : \E f : IsChain(f, n)}
<1>1. 0 \in T
  <2> DEFINE f == [k \in 0 .. 0 |-> start_cluster]
  <2>1. f = [k \in 0 .. 0 |-> Entry(f, k)]
    BY DEF Entry
  <2> HIDE DEF f
  <2>2. IsChain(f, 0)
    BY <2>1 DEF IsChain
  <2> QED BY <2>2
<1>2. ASSUME NEW n \in T PROVE n + 1 \in T
  <2>1. n \in Nat
    OBVIOUS
  <2>2. PICK f : IsChain(f, n)
    OBVIOUS
  <2> DEFINE g == [k \in 0 .. n + 1 |-> IF k = n + 1 THEN Entry(f, n + 1) ELSE f[k]]
  <2>3. ASSUME NEW k \in 0 .. n + 1 PROVE g[k] = Entry(g, k)
    <3>1. CASE k = 0
      BY <2>1, <2>2, <3>1 DEF Entry, IsChain
    <3>2. CASE k # 0
      <4>1. k - 1 \in 0 .. n /\ k - 1 \in 0 .. n + 1 /\ k - 1 # n + 1
        BY <2>1, <3>2
      <4>2. g[k-1] = f[k-1]
        BY <4>1
      <4>3. Entry(g, k) = Entry(f, k)
        BY <4>2, <3>2 DEF Entry
      <4>4. CASE k = n + 1
        BY <4>3, <4>4, <2>1
      <4>5. CASE k # n + 1
        <5>1. k \in 0 .. n
          BY <2>1, <4>5
        <5>2. g[k] = f[k] /\ f[k] = Entry(f, k)
          BY <2>2, <4>5, <5>1 DEF IsChain
        <5> QED BY <4>3, <5>2
      <4> QED BY <4>4, <4>5
    <3> QED BY <3>1, <3>2
  <2>4. g = [k \in 0 .. n + 1 |-> Entry(g, k)]
    BY <2>3
  <2> HIDE DEF g
  <2>5. IsChain(g, n + 1)
    BY <2>4 DEF IsChain
  <2> QED BY <2>1, <2>5
<1>3. T \subseteq Nat
  OBVIOUS
<1> HIDE DEF T
<1>4. \A n \in Nat : n \in T
  BY <1>1, <1>2, <1>3, SetInduction
<1> QED BY <1>4 DEF T

\* So ClusterAt follows the chain from start_cluster entry by entry.
LEMMA ChainSteps ==
  /\ ClusterAt[0] = start_cluster
  /\ \A k \in Nat : ClusterAt[k+1] =
       IF ClusterAt[k] \in Cluster THEN fat[ClusterAt[k]] ELSE ClusterAt[k]
<1> DEFINE c(n) == CHOOSE f : IsChain(f, n)
           g == [n \in Nat |-> c(n)[n]]
<1>1. \A n \in Nat : IsChain(c(n), n)
  BY ChainExists
<1> HIDE DEF c
<1>2. ASSUME NEW n \in Nat PROVE g[n] = Entry(g, n)
  <2>1. c(n)[n] = Entry(c(n), n)
    <3>1. n \in 0 .. n
      OBVIOUS
    <3> QED BY <3>1, <1>1 DEF IsChain
  <2>2. CASE n = 0
    BY <2>1, <2>2 DEF Entry
  <2>3. CASE n # 0
    <3>1. n - 1 \in Nat /\ n - 1 <= n /\ n - 1 <= n - 1
      BY <2>3
    <3>2. c(n)[n-1] = c(n-1)[n-1]
      BY <3>1, <1>1, ChainUnique
    <3>3. g[n-1] = c(n)[n-1]
      BY <3>1, <3>2
    <3>4. Entry(g, n) = Entry(c(n), n)
      BY <3>3, <2>3 DEF Entry
    <3> QED BY <2>1, <3>4
  <2> QED BY <2>2, <2>3
<1>3. g = [n \in Nat |-> Entry(g, n)]
  BY <1>2
<1> HIDE DEF g
<1>4. \E f : f = [k \in Nat |-> IF k = 0 THEN start_cluster
                 ELSE IF f[k-1] \in Cluster THEN fat[f[k-1]] ELSE f[k-1]]
  BY <1>3 DEF Entry
<1>5. ClusterAt = [k \in Nat |-> IF k = 0 THEN start_cluster
        ELSE IF ClusterAt[k-1] \in Cluster THEN fat[ClusterAt[k-1]] ELSE ClusterAt[k-1]]
  BY <1>4 DEF ClusterAt
<1>6. ASSUME NEW k \in Nat
      PROVE  ClusterAt[k+1] =
               IF ClusterAt[k] \in Cluster THEN fat[ClusterAt[k]] ELSE ClusterAt[k]
  <2>1. k + 1 \in Nat /\ k + 1 # 0 /\ (k + 1) - 1 = k
    OBVIOUS
  <2> QED BY <2>1, <1>5
<1>7. ClusterAt[0] = start_cluster
  BY <1>5
<1> QED BY <1>6, <1>7

\* No step writes the volume, so the chain stays what it is.
LEMMA FileKept ==
  ASSUME UNCHANGED file
  PROVE  /\ ClusterAt' = ClusterAt /\ (Sound' <=> Sound)
         /\ \A p : ByteAt(p)' = ByteAt(p)
<1>1. fat' = fat /\ start_cluster' = start_cluster /\ file_size' = file_size
  BY DEF file
<1>2. ClusterAt' = ClusterAt
  BY <1>1 DEF ClusterAt
<1>3. ASSUME NEW p PROVE ByteAt(p)' = ByteAt(p)
  BY <1>2 DEF ByteAt
<1> QED BY <1>1, <1>2, <1>3 DEF Sound

\* fat32_get_next_cluster keeps the numbers of clusters and makes none.
LEMMA NextFacts ==
  ASSUME NEW value \in FatEntry
  PROVE  /\ NextOf(value) \in FatEntry \union Result
         /\ NextOf(value) \in Cluster <=> value \in Cluster
         /\ value \in Cluster => NextOf(value) = value /\ value # FAT32_EOC_MARKER
<1>1. \A c \in Cluster : c \in Int /\ c >= 2 /\ c < BAD_CLUSTER
  BY GeometryAssumption, NumbersAssumption DEF Cluster, BAD_CLUSTER
<1>2. CASE value \in Cluster
  <2>1. NextOf(value) = value
    BY <1>1, <1>2 DEF NextOf, BAD_CLUSTER, FAT32_LAST_MARKER
  <2> QED BY <1>1, <1>2, <2>1 DEF FatEntry, BAD_CLUSTER, FAT32_EOC_MARKER
<1>3. CASE value \notin Cluster
  <2>1. value \in Int
    BY <1>3, GeometryAssumption
       DEF FatEntry, BAD_CLUSTER, FAT32_LAST_MARKER, FAT32_EOC_MARKER
  <2>2. NextOf(value) \in {FAT32_EOC_MARKER, FAT32_ERROR_IO, FAT32_ERROR_CORRUPTED_FS, value}
    BY <2>1 DEF NextOf
  <2>3. /\ FAT32_EOC_MARKER \notin Cluster /\ FAT32_ERROR_IO \notin Cluster
        /\ FAT32_ERROR_CORRUPTED_FS \notin Cluster
    BY <1>1 DEF BAD_CLUSTER, FAT32_EOC_MARKER, FAT32_ERROR_IO, FAT32_ERROR_CORRUPTED_FS
  <2>4. /\ FAT32_EOC_MARKER \in FatEntry /\ FAT32_ERROR_IO \in Result
        /\ FAT32_ERROR_CORRUPTED_FS \in Result
    BY DEF FatEntry, FAT32_ERROR_IO, FAT32_ERROR_CORRUPTED_FS, Result
  <2> QED BY <1>3, <2>2, <2>3, <2>4
<1> QED BY <1>2, <1>3

\* cluster_to_sector gives a sector for a cluster, and the one error otherwise.
LEMMA SectorFacts ==
  /\ \A c \in Cluster :
       /\ cluster_to_sector(c) = (c - 2) * SECTORS_PER_CLUSTER + FIRST_DATA_SECTOR
       /\ cluster_to_sector(c) \in Nat
       /\ (c - 2) * SECTORS_PER_CLUSTER \in Nat
  /\ \A c : c \notin Cluster => cluster_to_sector(c) = FAT32_ERROR_INVALID_CLUSTER
<1>1. ASSUME NEW c \in Cluster
      PROVE  (c - 2) * SECTORS_PER_CLUSTER \in Nat
  <2>1. c - 2 \in Nat
    BY GeometryAssumption DEF Cluster
  <2> QED BY <2>1, GeometryAssumption
<1> QED BY <1>1, GeometryAssumption DEF cluster_to_sector

\* A file offset behind which something remains lies in a part of the file, and
\* so does every earlier cluster.
LEMMA PartFacts ==
  ASSUME NEW o \in Nat, NEW z \in Nat, o < z
  PROVE  o \div CLUSTER_SIZE <= (z - 1) \div CLUSTER_SIZE
<1> DEFINE C == CLUSTER_SIZE
           q == o \div C
           p == (z - 1) \div C
<1>1. C \in Nat \ {0} /\ z - 1 \in Nat
  BY Sizes
<1> HIDE DEF C
<1>2. /\ q \in Nat /\ o % C \in 0 .. C - 1 /\ o = C * q + (o % C)
      /\ p \in Nat /\ (z - 1) % C \in 0 .. C - 1 /\ z - 1 = C * p + ((z - 1) % C)
  BY <1>1
<1> DEFINE x == o % C
           y == (z - 1) % C
<1> HIDE DEF q, p, x, y
<1>3. ~ (p < q)
  <2> SUFFICES ASSUME p < q PROVE FALSE
    OBVIOUS
  <2>1. PICK d \in Nat : q = p + 1 + d
    <3>1. q - p - 1 \in Nat /\ q = p + 1 + (q - p - 1)
      BY <1>2
    <3> QED BY <3>1
  <2>2. C * q = C * p + C + C * d /\ C * d \in Nat /\ C * p \in Nat
    BY <2>1, <1>1, <1>2
  <2>3. x \in 0 .. C - 1 /\ y \in 0 .. C - 1 /\ o = C * q + x /\ z - 1 = C * p + y
    BY <1>2 DEF x, y
  <2> QED BY <2>2, <2>3, <1>1
<1>4. q \in Int /\ p \in Int
  BY <1>2
<1>5. p >= q
  BY <1>3, <1>4
<1> QED BY <1>5, <1>4 DEF q, p, C

-----------------------------------------------------------------------------
(* The invariant.                                                          *)

\* The geometry and the sizes are numbers.
LEMMA Numbers ==
  /\ CLUSTER_SIZE \in Nat \ {0} /\ BYTES_PER_SECTOR \in Nat \ {0}
  /\ SECTORS_PER_CLUSTER \in Nat \ {0} /\ FIRST_DATA_SECTOR \in Nat
  /\ 0 \in FatEntry /\ 0 \notin Cluster
  /\ FileSize \subseteq Nat /\ ReadSize \subseteq Nat
BY Sizes, GeometryAssumption, SizesAssumption DEF FatEntry, Cluster

\* No bytes are a part of every file.
LEMMA EmptyIsPart ==
  IsPartOfFile(<< >>) /\ Len(<< >>) = 0 /\ << >> \in Seq(Nat \X (0 .. BYTES_PER_SECTOR - 1))
BY DEF IsPartOfFile

\* At the start of the system.

LEMMA InitInv == Init => Inv
<1> SUFFICES ASSUME Init PROVE Inv
  OBVIOUS
<1> USE Numbers
<1>1. file_size \in Nat /\ pc = "idle" /\ buf = << >>
  BY DEF Init
<1>2. TypeOK
  <2>1. buf \in Seq(Nat \X (0 .. BYTES_PER_SECTOR - 1))
    BY <1>1, EmptyIsPart
  <2>2. pc # "sector"
    BY <1>1
  <2>3. cluster \in FatEntry \union Result /\ ret \in Result \union Nat
    BY DEF Init
  <2>4. /\ fat \in [Cluster -> FatEntry] /\ start_cluster \in Cluster
        /\ file_size \in FileSize /\ file_offset \in 0 .. file_size
        /\ pc = "idle" /\ remaining \in 0 .. file_size /\ bytes_to_read \in 0 .. CLUSTER_SIZE
        /\ i \in Nat /\ current_sector \in Nat
        /\ request \in Nat /\ from \in 0 .. file_size
    BY <1>1 DEF Init
  <2>5. failed \in BOOLEAN /\ astray \in BOOLEAN
    BY DEF Init
  <2> QED BY <2>1, <2>2, <2>3, <2>4, <2>5 DEF TypeOK
<1>3. Progress /\ Walking /\ InSector /\ OnPath
  BY <1>1 DEF Init, Progress, Walking, InSector, OnPath
<1>4. Delivered
  BY <1>1, EmptyIsPart DEF Delivered
<1>5. Reported /\ CompleteUnlessFailed
  BY <1>1 DEF Init, Reported, CompleteUnlessFailed, bytes_read
<1> QED BY <1>2, <1>3, <1>4, <1>5 DEF Inv

\* fat32_seek, whatever the offset.
LEMMA SeekStep ==
  ASSUME Inv, NEW offset \in Int, fat32_seek(offset)
  PROVE  Inv'
<1> USE Numbers
<1>1. /\ UNCHANGED file /\ UNCHANGED <<pc, locals>> /\ pc' = "idle" /\ buf' = << >>
      /\ request' = 0 /\ from' = file_offset' /\ failed' = FALSE /\ astray' = FALSE
      /\ file_size' = file_size /\ file_size \in Nat /\ TypeOK
  BY DEF fat32_seek, file, Inv, TypeOK
<1>2. ret' \in {0, FAT32_ERROR_BAD_PARAMETER} /\ file_offset' \in 0 .. file_size
  <2>1. CASE offset < 0 \/ offset > file_size
    BY <2>1 DEF fat32_seek, Inv, TypeOK
  <2>2. CASE ~ (offset < 0 \/ offset > file_size)
    BY <2>2, <1>1 DEF fat32_seek
  <2> QED BY <2>1, <2>2
<1>3. TypeOK'
  <2>1. buf' \in Seq(Nat \X (0 .. BYTES_PER_SECTOR - 1))
    BY <1>1, EmptyIsPart
  <2>2. /\ fat' = fat /\ start_cluster' = start_cluster /\ remaining' = remaining
        /\ bytes_to_read' = bytes_to_read /\ i' = i /\ cluster' = cluster
        /\ current_sector' = current_sector /\ pc' # "sector"
    BY <1>1 DEF file, locals
  <2>3. ret' \in Result \union Nat
    BY <1>2 DEF Result, FAT32_ERROR_BAD_PARAMETER
  <2>4. request' \in Nat /\ from' \in 0 .. file_size'
    BY <1>1, <1>2
  <2> QED BY <1>1, <1>2, <2>1, <2>2, <2>3, <2>4 DEF TypeOK
<1>4. Progress' /\ Walking' /\ InSector' /\ OnPath'
  <2>1. PICK o \in Nat : file_offset' = o
    BY <1>1, <1>2
  <2>2. from' = o /\ Len(buf') = 0 /\ pc' = "idle"
    BY <1>1, <2>1, EmptyIsPart
  <2>3. Progress'
    BY <2>1, <2>2 DEF Progress
  <2> QED BY <2>2, <2>3 DEF Walking, InSector, OnPath
<1>5. Delivered'
  BY <1>1, EmptyIsPart, FileKept DEF Delivered, IsPartOfFile
<1>6. Reported' /\ CompleteUnlessFailed'
  BY <1>1, <1>2 DEF Reported, CompleteUnlessFailed, bytes_read, FAT32_ERROR_BAD_PARAMETER
<1> QED BY <1>3, <1>4, <1>5, <1>6 DEF Inv

\* fat32_read up to its loop.
LEMMA BeginStep ==
  ASSUME Inv, NEW size \in ReadSize, ReadBegin(size)
  PROVE  Inv'
<1> USE Numbers
<1>1. /\ UNCHANGED <<file, file_offset, bytes_to_read, walk, current_sector>>
      /\ buf' = << >> /\ request' = size /\ from' = file_offset
      /\ failed' = FALSE /\ astray' = FALSE /\ pc = "idle"
      /\ file_size' = file_size /\ file_size \in Nat /\ TypeOK /\ size \in Nat
      /\ file_offset \in 0 .. file_size /\ file_offset' = file_offset
  BY DEF ReadBegin, file, Inv, TypeOK
<1>2. Delivered' /\ Walking' /\ InSector' /\ OnPath'
  <2>1. pc' \in {"idle", "cluster"}
    BY <1>1 DEF ReadBegin
  <2>2. Delivered'
    BY <1>1, EmptyIsPart, FileKept DEF Delivered, IsPartOfFile
  <2> QED BY <1>1, <2>1, <2>2 DEF Walking, InSector, OnPath
<1> buf' \in Seq(Nat \X (0 .. BYTES_PER_SECTOR - 1)) /\ Len(buf') = 0
  BY <1>1, EmptyIsPart
<1>3. CASE file_offset >= file_size \/ size = 0
  <2>1. ret' = 0 /\ pc' = "idle" /\ remaining' = remaining
    BY <1>1, <1>3 DEF ReadBegin
  <2>2. TypeOK'
    BY <1>1, <2>1 DEF TypeOK, file, walk
  <2>3. Progress' /\ Reported'
    BY <1>1, <2>1 DEF Progress, Reported, bytes_read
  <2>4. CompleteUnlessFailed'
    BY <1>1, <1>3, <2>1 DEF CompleteUnlessFailed
  <2> QED BY <1>2, <2>2, <2>3, <2>4 DEF Inv
<1>4. CASE ~ (file_offset >= file_size \/ size = 0)
  <2>1. /\ ret' = ret /\ pc' = "cluster"
        /\ remaining' = IF size > file_size - file_offset
                        THEN file_size - file_offset ELSE size
    BY <1>1, <1>4 DEF ReadBegin
  <2>2. TypeOK'
    <3>1. remaining' \in 0 .. file_size
      BY <1>1, <1>4, <2>1
    <3> QED BY <1>1, <2>1, <3>1 DEF TypeOK, file, walk
  <2>3. Progress'
    BY <1>1, <1>4, <2>1 DEF Progress, Wanted
  <2> QED BY <1>2, <2>1, <2>2, <2>3 DEF Inv, Reported, CompleteUnlessFailed
<1> QED BY <1>3, <1>4

\* An early return keeps the invariant if it reports the bytes read, or the
\* error for an invalid cluster, and if nothing was promised to be complete.
LEMMA LeaveStep ==
  ASSUME Inv, NEW r \in Result \union Nat, Return(r),
         UNCHANGED <<file, file_offset, buf, request, from>>,
         failed' \in BOOLEAN, astray' \in BOOLEAN, astray => astray',
         r # FAT32_ERROR_INVALID_CLUSTER => bytes_read = IF r < 0 THEN 0 ELSE r,
         ~ (Sound /\ start_cluster # 2 /\ ~failed')
  PROVE  Inv'
<1> USE Numbers
<1>1. /\ pc' = "idle" /\ ret' = r /\ remaining' = 0 /\ bytes_to_read' = 0 /\ i' = 0
      /\ cluster' = 0 /\ current_sector' = 0
      /\ file_size' = file_size /\ file_size \in Nat /\ start_cluster' = start_cluster
  BY DEF Return, file, Inv, TypeOK
<1>2. TypeOK'
  BY <1>1 DEF Inv, TypeOK, file
<1>3. Progress' /\ Walking' /\ InSector' /\ OnPath'
  BY <1>1 DEF Inv, Progress, Walking, InSector, OnPath
<1>4. Delivered'
  BY <1>1, FileKept DEF Inv, Delivered, IsPartOfFile
<1>5. Reported'
  BY <1>1 DEF Reported, bytes_read
<1>6. CompleteUnlessFailed'
  BY <1>1, FileKept DEF CompleteUnlessFailed
<1> QED BY <1>2, <1>3, <1>4, <1>5, <1>6 DEF Inv

\* During a read a sound chain has a cluster for file_offset and all before it.
LEMMA SoundHere ==
  ASSUME Inv, pc # "idle", Sound, NEW k \in Nat, k <= cluster_index
  PROVE  ClusterAt[k] \in Cluster
<1> DEFINE last == (file_size - 1) \div CLUSTER_SIZE
<1>1. /\ file_size \in Nat /\ file_offset \in Nat /\ file_offset < file_size
      /\ CLUSTER_SIZE \in Nat \ {0}
  BY Numbers DEF Inv, TypeOK, Progress
<1>2. cluster_index <= last
  BY <1>1, PartFacts DEF cluster_index
<1>3. cluster_index \in Int /\ last \in Int
  BY <1>1 DEF cluster_index
<1>4. last = (file_size - 1) \div CLUSTER_SIZE
  OBVIOUS
<1> HIDE DEF last
<1>5. k \in 0 .. last
  BY <1>2, <1>3
<1> QED BY <1>4, <1>5 DEF Sound

\* So there the walk of a read without failures is in the volume.
LEMMA SoundWalk ==
  ASSUME Inv, pc = "walk", Sound, ~failed
  PROVE  ~astray /\ cluster \in Cluster /\ cluster = ClusterAt[i]
<1>1. ~astray
  BY DEF Inv, OnPath
<1>2. i \in Nat /\ i <= cluster_index
  BY DEF Inv, TypeOK, Walking
<1>3. ClusterAt[i] \in Cluster
  BY <1>2, SoundHere
<1> QED BY <1>1, <1>3 DEF Inv, Walking

\* The early return with the number of bytes, or an error if there are none.
LEMMA ShortStep ==
  ASSUME Inv, NEW e \in Result, e # FAT32_ERROR_INVALID_CLUSTER, ReturnShort(e),
         UNCHANGED <<file, file_offset, buf, request, from>>,
         failed' \in BOOLEAN, astray' \in BOOLEAN, astray => astray',
         ~ (Sound /\ start_cluster # 2 /\ ~failed')
  PROVE  Inv'
<1> DEFINE r == IF bytes_read > 0 THEN bytes_read ELSE e
<1>1. bytes_read \in Nat
  BY DEF Inv, TypeOK, bytes_read
<1>2. e \in Int /\ e < 0
  BY DEF Result
<1>3. r \in Result \union Nat
  BY <1>1
<1>4. bytes_read = IF r < 0 THEN 0 ELSE r
  BY <1>1, <1>2
<1>5. Return(r)
  BY DEF ReturnShort
<1> HIDE DEF r
<1> QED BY <1>3, <1>4, <1>5, LeaveStep

\* get_cluster_at_index up to its loop.
LEMMA WalkBeginStep == Inv /\ WalkBegin => Inv'
<1> SUFFICES ASSUME Inv, WalkBegin PROVE Inv'
  OBVIOUS
<1> USE Numbers
<1>1. /\ UNCHANGED <<file, file_offset, buf, request, from, failed, astray>>
      /\ pc = "cluster" /\ TypeOK /\ Progress
  BY DEF WalkBegin, history, Inv
<1>2. start_cluster \in Cluster /\ start_cluster \in Int /\ start_cluster >= 2
  BY <1>1, GeometryAssumption DEF TypeOK, Cluster
<1>3. CASE start_cluster <= 2
  <2>1. start_cluster = 2
    BY <1>2, <1>3
  <2>2. ReturnShort(FAT32_ERROR_BAD_PARAMETER)
    BY <1>3 DEF WalkBegin
  <2>3. FAT32_ERROR_BAD_PARAMETER \in Result
        /\ FAT32_ERROR_BAD_PARAMETER # FAT32_ERROR_INVALID_CLUSTER
    BY DEF FAT32_ERROR_BAD_PARAMETER, FAT32_ERROR_INVALID_CLUSTER, Result
  <2>4. failed' \in BOOLEAN /\ astray' \in BOOLEAN /\ (astray => astray')
    BY <1>1 DEF TypeOK
  <2> QED BY <1>1, <2>1, <2>2, <2>3, <2>4, ShortStep
<1>4. CASE ~ (start_cluster <= 2)
  <2>1. /\ pc' = "walk" /\ i' = 0 /\ cluster' = start_cluster
        /\ UNCHANGED <<ret, remaining, bytes_to_read, current_sector>>
    BY <1>4 DEF WalkBegin
  <2>2. ClusterAt' = ClusterAt /\ (Sound' <=> Sound) /\ \A p : ByteAt(p)' = ByteAt(p)
    BY <1>1, FileKept
  <2>3. TypeOK'
    BY <1>1, <2>1 DEF TypeOK, file, FatEntry
  <2>4. Progress'
    BY <1>1, <2>1 DEF Progress, Wanted, file
  <2>5. cluster_index' \in Nat
    <3>1. file_offset \in Nat
      BY <1>1 DEF TypeOK
    <3> QED BY <1>1, <3>1 DEF cluster_index
  <2>6. Walking'
    <3>1. PICK q \in Nat : cluster_index' = q
      BY <2>5
    <3> QED BY <2>1, <2>2, <3>1, ChainSteps DEF Walking
  <2>7. InSector' /\ OnPath' /\ Delivered'
    BY <1>1, <2>1, <2>2 DEF Inv, InSector, OnPath, Delivered, IsPartOfFile
  <2> QED BY <2>1, <2>3, <2>4, <2>6, <2>7 DEF Inv, Reported, CompleteUnlessFailed
<1> QED BY <1>3, <1>4

\* One round of the loop of get_cluster_at_index.
LEMMA WalkStepStep == Inv /\ WalkStep => Inv'
<1> SUFFICES ASSUME Inv, WalkStep PROVE Inv'
  OBVIOUS
<1> USE Numbers
<1>1. /\ UNCHANGED <<file, file_offset, buf, request, from, failed>>
      /\ pc = "walk" /\ TypeOK /\ Progress /\ Walking /\ i < cluster_index
      /\ astray' = (astray \/ cluster \notin Cluster)
  BY DEF WalkStep, Inv
<1>2. PICK next \in fat32_get_next_cluster(cluster) :
        IF next = FAT32_EOC_MARKER /\ i < cluster_index - 1
        THEN ReturnShort(FAT32_ERROR_CORRUPTED_FS)
        ELSE /\ cluster' = next /\ i' = i + 1
             /\ UNCHANGED <<pc, ret, remaining, bytes_to_read, current_sector>>
  BY DEF WalkStep
<1>3. /\ i \in Nat /\ i + 1 \in Nat /\ cluster_index \in Nat /\ i + 1 <= cluster_index
  <2>1. file_offset \in Nat /\ i \in Nat
    BY <1>1 DEF TypeOK
  <2>2. cluster_index \in Nat
    BY <2>1 DEF cluster_index
  <2> QED BY <1>1, <2>1, <2>2
<1>4. PICK value \in FatEntry :
        next = NextOf(value) /\ (cluster \in Cluster => value = fat[cluster])
  BY <1>1 DEF fat32_get_next_cluster, TypeOK
<1>5. /\ next \in FatEntry \union Result
      /\ next \in Cluster <=> value \in Cluster
      /\ value \in Cluster => next = value /\ value # FAT32_EOC_MARKER
  BY <1>4, NextFacts
<1>6. astray' \in BOOLEAN /\ failed' \in BOOLEAN /\ (astray => astray')
  BY <1>1 DEF TypeOK
<1>7. cluster \in Cluster /\ cluster = ClusterAt[i] => value = ClusterAt[i+1]
  BY <1>3, <1>4, ChainSteps
<1>8. Sound /\ ~failed => /\ ~astray /\ cluster \in Cluster /\ next \in Cluster
                          /\ next # FAT32_EOC_MARKER
  <2> SUFFICES ASSUME Sound, ~failed
               PROVE  ~astray /\ cluster \in Cluster /\ value \in Cluster
    BY <1>5
  <2>1. ClusterAt[i+1] \in Cluster
    BY <1>1, <1>3, SoundHere
  <2> QED BY <1>1, <1>7, <2>1, SoundWalk
<1>9. CASE next = FAT32_EOC_MARKER /\ i < cluster_index - 1
  <2>1. ReturnShort(FAT32_ERROR_CORRUPTED_FS)
    BY <1>2, <1>9
  <2>2. FAT32_ERROR_CORRUPTED_FS \in Result
        /\ FAT32_ERROR_CORRUPTED_FS # FAT32_ERROR_INVALID_CLUSTER
    BY DEF FAT32_ERROR_CORRUPTED_FS, FAT32_ERROR_INVALID_CLUSTER, Result
  <2>3. ~ (Sound /\ start_cluster # 2 /\ ~failed')
    BY <1>1, <1>8, <1>9
  <2> QED BY <1>1, <1>6, <2>1, <2>2, <2>3, ShortStep
<1>10. CASE ~ (next = FAT32_EOC_MARKER /\ i < cluster_index - 1)
  <2>1. /\ cluster' = next /\ i' = i + 1
        /\ UNCHANGED <<pc, ret, remaining, bytes_to_read, current_sector>>
    BY <1>2, <1>10
  <2>2. ClusterAt' = ClusterAt /\ (Sound' <=> Sound) /\ \A p : ByteAt(p)' = ByteAt(p)
    BY <1>1, FileKept
  <2>3. TypeOK'
    BY <1>1, <1>3, <1>5, <1>6, <2>1 DEF TypeOK, file
  <2>4. Progress'
    BY <1>1, <2>1 DEF Progress, Wanted, file
  <2>5. Walking'
    <3>1. cluster_index' = cluster_index
      BY <1>1 DEF cluster_index
    <3>2. i' <= cluster_index'
      BY <1>3, <2>1, <3>1
    <3>3. ASSUME ~astray', cluster' \in Cluster \/ (~failed' /\ ClusterAt'[i'] \in Cluster)
          PROVE  cluster' = ClusterAt'[i']
      <4>1. ~astray /\ cluster \in Cluster
        BY <1>1, <3>3
      <4>2. cluster = ClusterAt[i]
        BY <1>1, <4>1 DEF Walking
      <4>3. value = ClusterAt[i+1]
        BY <1>7, <4>1, <4>2
      <4>4. value \in Cluster
        BY <1>5, <2>1, <2>2, <3>3, <4>3
      <4> QED BY <1>5, <2>1, <2>2, <4>3, <4>4
    <3> QED BY <3>2, <3>3 DEF Walking
  <2>6. OnPath'
    BY <1>1, <1>8, <2>2 DEF OnPath
  <2>7. InSector' /\ Delivered'
    BY <1>1, <1>6, <2>1, <2>2 DEF Inv, InSector, Delivered, IsPartOfFile
  <2>8. Reported' /\ CompleteUnlessFailed'
    BY <1>1, <2>1 DEF Reported, CompleteUnlessFailed
  <2> QED BY <2>3, <2>4, <2>5, <2>6, <2>7, <2>8 DEF Inv
<1> QED BY <1>9, <1>10

\* The same when the FAT sector cannot be read.
LEMMA WalkFailsStep == Inv /\ WalkFails => Inv'
<1> SUFFICES ASSUME Inv, WalkFails PROVE Inv'
  OBVIOUS
<1> USE Numbers
<1>1. /\ UNCHANGED <<file, file_offset, pc, buf, remaining, bytes_to_read,
                     current_sector, ret, request, from>>
      /\ pc = "walk" /\ i < cluster_index /\ cluster' = FAT32_ERROR_IO /\ i' = i + 1
      /\ failed' = TRUE /\ astray' = (astray \/ cluster \notin Cluster)
      /\ TypeOK /\ Progress
  BY DEF WalkFails, Inv
<1>2. ClusterAt' = ClusterAt /\ \A p : ByteAt(p)' = ByteAt(p)
  BY <1>1, FileKept
<1>3. FAT32_ERROR_IO \in Result /\ FAT32_ERROR_IO \notin Cluster
  BY GeometryAssumption DEF FAT32_ERROR_IO, Result, Cluster
<1>4. TypeOK'
  <2>1. i' \in Nat
    BY <1>1 DEF TypeOK
  <2>2. failed' \in BOOLEAN /\ astray' \in BOOLEAN
    BY <1>1 DEF TypeOK
  <2> QED BY <1>1, <1>3, <2>1, <2>2 DEF TypeOK, file
<1>5. Progress'
  BY <1>1 DEF Progress, Wanted, file
<1>6. Walking'
  <2>1. file_offset \in Nat /\ i \in Nat
    BY <1>1 DEF TypeOK
  <2>2. cluster_index \in Nat /\ cluster_index' = cluster_index
    BY <1>1, <2>1 DEF cluster_index
  <2>3. i' <= cluster_index'
    BY <1>1, <2>1, <2>2
  <2> QED BY <1>1, <1>3, <2>3 DEF Walking
<1>7. InSector' /\ OnPath' /\ Delivered'
  BY <1>1, <1>2 DEF Inv, InSector, OnPath, Delivered, IsPartOfFile
<1>8. Reported' /\ CompleteUnlessFailed'
  BY <1>1 DEF Reported, CompleteUnlessFailed
<1> QED BY <1>4, <1>5, <1>6, <1>7, <1>8 DEF Inv

\* From the return of get_cluster_at_index to the sector loop.
LEMMA WalkEndStep == Inv /\ WalkEnd => Inv'
<1> SUFFICES ASSUME Inv, WalkEnd PROVE Inv'
  OBVIOUS
<1> USE Numbers
<1>1. /\ UNCHANGED <<file, file_offset, buf, request, from, failed, astray>>
      /\ pc = "walk" /\ TypeOK /\ Progress /\ Walking /\ i = cluster_index
  BY DEF WalkEnd, history, Inv
<1>2. failed' \in BOOLEAN /\ astray' \in BOOLEAN /\ (astray => astray')
  BY <1>1 DEF TypeOK
<1>3. CASE cluster \notin Cluster
  <2>1. cluster_to_sector(cluster) = FAT32_ERROR_INVALID_CLUSTER
    BY <1>3, SectorFacts
  <2>2. FAT32_ERROR_INVALID_CLUSTER \in Result /\ FAT32_ERROR_INVALID_CLUSTER < 0
    BY DEF FAT32_ERROR_INVALID_CLUSTER, Result
  <2>3. Return(FAT32_ERROR_INVALID_CLUSTER)
    BY <2>1, <2>2 DEF WalkEnd
  <2>4. ~ (Sound /\ start_cluster # 2 /\ ~failed')
    BY <1>1, <1>3, SoundWalk
  <2> QED BY <1>1, <1>2, <2>2, <2>3, <2>4, LeaveStep
<1>4. CASE cluster \in Cluster
  <2>1. cluster_to_sector(cluster) \in Nat
    BY <1>4, SectorFacts
  <2>2. /\ pc' = "sector" /\ UNCHANGED <<ret, remaining, i, cluster>>
        /\ bytes_to_read' = IF remaining < CLUSTER_SIZE - cluster_offset
                            THEN remaining ELSE CLUSTER_SIZE - cluster_offset
        /\ current_sector' = cluster_to_sector(cluster)
                               + cluster_offset \div BYTES_PER_SECTOR
    BY <2>1 DEF WalkEnd, walk
  <2>3. /\ file_size \in Nat /\ file_offset \in Nat /\ remaining \in Nat
        /\ remaining > 0
    BY <1>1 DEF TypeOK, Progress
  <2>4. PICK q, s, t : Place(file_offset, q, s, t)
    BY <2>3, HasPlace
  <2>5. /\ cluster_offset = BYTES_PER_SECTOR * s + t
        /\ cluster_offset \div BYTES_PER_SECTOR = s
        /\ s \in 0 .. SECTORS_PER_CLUSTER - 1 /\ t \in 0 .. BYTES_PER_SECTOR - 1
        /\ BYTES_PER_SECTOR * s \in Nat
        /\ BYTES_PER_SECTOR * s + BYTES_PER_SECTOR <= CLUSTER_SIZE
    <3>1. s \in 0 .. SECTORS_PER_CLUSTER - 1 /\ t \in 0 .. BYTES_PER_SECTOR - 1
      BY <2>4 DEF Place
    <3>2. /\ cluster_offset = BYTES_PER_SECTOR * s + t
          /\ cluster_offset \div BYTES_PER_SECTOR = s
      BY <2>4, PlaceParts DEF cluster_offset
    <3> QED BY <3>1, <3>2, Sizes
  <2>6. cluster_offset \in Nat /\ cluster_offset < CLUSTER_SIZE
    BY <2>5
  <2>7. /\ bytes_to_read' \in 1 .. remaining /\ bytes_to_read' <= CLUSTER_SIZE - cluster_offset
        /\ bytes_to_read' \in 0 .. CLUSTER_SIZE
    BY <2>2, <2>3, <2>6
  <2>8. cluster_offset' = cluster_offset /\ cluster_index' = cluster_index
    BY <1>1 DEF cluster_offset, cluster_index
  <2>9. cluster_to_sector(cluster)' = cluster_to_sector(cluster)
    BY <2>2 DEF cluster_to_sector
  <2>10. ClusterAt' = ClusterAt /\ (Sound' <=> Sound) /\ \A p : ByteAt(p)' = ByteAt(p)
    BY <1>1, FileKept
  <2>11. TypeOK'
    <3>1. current_sector' \in Nat
      BY <2>1, <2>2, <2>5
    <3>2. current_sector' - cluster_to_sector(cluster)' < SECTORS_PER_CLUSTER
      BY <2>1, <2>2, <2>5, <2>9
    <3>3. bytes_to_read' <= CLUSTER_SIZE - cluster_offset'
      BY <2>7, <2>8
    <3> QED BY <1>1, <1>2, <2>2, <2>7, <3>1, <3>2, <3>3 DEF TypeOK, file
  <2>12. Progress'
    BY <1>1, <2>2 DEF Progress, Wanted, file
  <2>13. InSector'
    <3>1. ~astray' => cluster' = ClusterAt'[cluster_index']
      BY <1>1, <1>4, <2>2, <2>8, <2>10 DEF Walking
    <3>2. current_sector' = cluster_to_sector(cluster)' + cluster_offset' \div BYTES_PER_SECTOR
      BY <2>2, <2>8, <2>9
    <3>3. bytes_to_read' \in 1 .. remaining' /\ bytes_to_read' <= CLUSTER_SIZE - cluster_offset'
      BY <2>2, <2>7, <2>8
    <3> QED BY <1>4, <2>2, <3>1, <3>2, <3>3 DEF InSector
  <2>14. Walking' /\ OnPath' /\ Delivered'
    BY <1>1, <2>2, <2>10 DEF Inv, Walking, OnPath, Delivered, IsPartOfFile
  <2>15. Reported' /\ CompleteUnlessFailed'
    BY <2>2 DEF Reported, CompleteUnlessFailed
  <2> QED BY <2>11, <2>12, <2>13, <2>14, <2>15 DEF Inv
<1> QED BY <1>3, <1>4

\* A sector that cannot be read.
LEMMA SectorFailsStep == Inv /\ SectorFails => Inv'
<1> SUFFICES ASSUME Inv, SectorFails PROVE Inv'
  OBVIOUS
<1>1. /\ UNCHANGED <<file, file_offset, buf, request, from, astray>> /\ failed' = TRUE
      /\ ReturnShort(FAT32_ERROR_IO)
  BY DEF SectorFails
<1>2. FAT32_ERROR_IO \in Result /\ FAT32_ERROR_IO # FAT32_ERROR_INVALID_CLUSTER
  BY DEF FAT32_ERROR_IO, FAT32_ERROR_INVALID_CLUSTER, Result
<1>3. failed' \in BOOLEAN /\ astray' \in BOOLEAN /\ (astray => astray')
  BY <1>1 DEF Inv, TypeOK
<1> QED BY <1>1, <1>2, <1>3, ShortStep

\* Appending the bytes of the file that follow keeps a part of the file.
LEMMA PartGrows ==
  ASSUME IsPartOfFile(buf), buf \in Seq(Nat \X (0 .. BYTES_PER_SECTOR - 1)),
         NEW n \in Nat, NEW s \in Seq(Nat \X (0 .. BYTES_PER_SECTOR - 1)),
         Len(s) = n, from \in Nat,
         \A k \in 1 .. n : s[k] = ByteAt(from + Len(buf) + k - 1)
  PROVE  IsPartOfFile(buf \o s)
<1> DEFINE B == Nat \X (0 .. BYTES_PER_SECTOR - 1)
           u == buf \o s
<1>1. buf \in Seq(B) /\ s \in Seq(B)
  OBVIOUS
<1> HIDE DEF B
<1>2. /\ u \in Seq(B) /\ Len(u) = Len(buf) + n
      /\ \A k \in 1 .. Len(u) : u[k] = IF k <= Len(buf) THEN buf[k] ELSE s[k - Len(buf)]
  BY <1>1, ConcatProperties
<1>3. Len(buf) \in Nat
  BY <1>1
<1> HIDE DEF u
<1>4. ASSUME NEW k \in 1 .. Len(u) PROVE u[k] = ByteAt(from + k - 1)
  <2>1. CASE k <= Len(buf)
    <3>1. k \in 1 .. Len(buf)
      BY <1>2, <1>3, <2>1
    <3> QED BY <1>2, <2>1, <3>1 DEF IsPartOfFile
  <2>2. CASE ~ (k <= Len(buf))
    <3> DEFINE j == k - Len(buf)
    <3>1. j \in 1 .. n /\ from + Len(buf) + j - 1 = from + k - 1
      BY <1>2, <1>3, <2>2
    <3>2. u[k] = s[j]
      BY <1>2, <2>2
    <3> HIDE DEF j
    <3> QED BY <3>1, <3>2
  <2> QED BY <2>1, <2>2
<1>5. u = [k \in 1 .. Len(u) |-> u[k]]
  BY <1>2
<1>6. u = [k \in 1 .. Len(u) |-> ByteAt(from + k - 1)]
  BY <1>4, <1>5
<1> QED BY <1>6 DEF IsPartOfFile, u

\* One round of the sector loop.
LEMMA ReadSectorStep == Inv /\ ReadSector => Inv'
<1> SUFFICES ASSUME Inv, ReadSector PROVE Inv'
  OBVIOUS
<1> USE Numbers
<1> DEFINE t == file_offset % BYTES_PER_SECTOR
           q == file_offset \div CLUSTER_SIZE
           s == (file_offset % CLUSTER_SIZE) \div BYTES_PER_SECTOR
           n == IF bytes_to_read < BYTES_PER_SECTOR - t
                THEN bytes_to_read ELSE BYTES_PER_SECTOR - t
           chunk == [k \in 1 .. n |-> <<current_sector, t + k - 1>>]
<1>1. /\ UNCHANGED file /\ UNCHANGED <<request, from, failed, astray>>
      /\ pc = "sector" /\ TypeOK /\ Progress /\ InSector /\ Delivered
      /\ buf' = buf \o chunk /\ file_offset' = file_offset + n
  BY DEF ReadSector, history, Inv
<1>2. IF n = remaining THEN Return(Len(buf'))
      ELSE /\ pc' = IF n = bytes_to_read THEN "cluster" ELSE "sector"
           /\ remaining' = remaining - n
           /\ bytes_to_read' = bytes_to_read - n
           /\ current_sector' = current_sector + 1
           /\ UNCHANGED <<i, cluster, ret>>
  BY DEF ReadSector, walk
<1>3. /\ file_size \in Nat /\ file_offset \in Nat /\ remaining \in Nat /\ bytes_to_read \in Nat
      /\ current_sector \in Nat /\ from \in Nat /\ file_offset + remaining <= file_size
      /\ cluster \in Cluster /\ bytes_to_read \in 1 .. remaining
      /\ bytes_to_read <= CLUSTER_SIZE - cluster_offset
      /\ file_offset = from + Len(buf) /\ Len(buf) \in Nat
      /\ remaining + Len(buf) = Wanted
      /\ file_size' = file_size
  BY <1>1 DEF TypeOK, Progress, InSector, file
<1>4. Place(file_offset, q, s, t)
  BY <1>3, HasPlace
<1>5. /\ cluster_index = q /\ cluster_offset \div BYTES_PER_SECTOR = s
  BY DEF cluster_index, cluster_offset
<1>6. cluster_offset = BYTES_PER_SECTOR * s + t
  BY <1>4, PlaceParts DEF cluster_offset
<1>7. t \in 0 .. BYTES_PER_SECTOR - 1 /\ q \in Nat /\ s \in 0 .. SECTORS_PER_CLUSTER - 1
  BY <1>4 DEF Place
<1>8. file_offset = CLUSTER_SIZE * q + (BYTES_PER_SECTOR * s + t)
  BY <1>4 DEF Place
<1> HIDE DEF t, q, s
<1>9. /\ n \in 1 .. bytes_to_read /\ n \in Nat /\ t + n <= BYTES_PER_SECTOR
      /\ n # bytes_to_read => n = BYTES_PER_SECTOR - t
  BY <1>3, <1>7
<1> HIDE DEF n
<1>10. /\ BYTES_PER_SECTOR * s \in Nat /\ CLUSTER_SIZE * q \in Nat
       /\ BYTES_PER_SECTOR * s + BYTES_PER_SECTOR <= CLUSTER_SIZE
       /\ s < SECTORS_PER_CLUSTER - 1 <=>
            BYTES_PER_SECTOR * s + BYTES_PER_SECTOR < CLUSTER_SIZE
  BY <1>7, Sizes
<1>11. /\ cluster_to_sector(cluster) = (cluster - 2) * SECTORS_PER_CLUSTER + FIRST_DATA_SECTOR
       /\ cluster_to_sector(cluster) \in Nat /\ (cluster - 2) * SECTORS_PER_CLUSTER \in Nat
  BY <1>3, SectorFacts
<1>12. current_sector = cluster_to_sector(cluster) + s
  BY <1>1, <1>5 DEF InSector
\* The bytes of the chunk are those of the file.
<1>13. chunk \in Seq(Nat \X (0 .. BYTES_PER_SECTOR - 1)) /\ Len(chunk) = n
  <2>1. \A k \in 1 .. n : <<current_sector, t + k - 1>> \in Nat \X (0 .. BYTES_PER_SECTOR - 1)
    BY <1>3, <1>7, <1>9
  <2> QED BY <1>9, <2>1
<1>14. ASSUME ~astray, NEW k \in 1 .. n
       PROVE  chunk[k] = ByteAt(from + Len(buf) + k - 1)
  <2> DEFINE p == file_offset + (k - 1)
             v == t + (k - 1)
  <2>1. from + Len(buf) + k - 1 = p
    BY <1>3, <1>9
  <2>2. v \in 0 .. BYTES_PER_SECTOR - 1
    BY <1>7, <1>9
  <2>3. p = CLUSTER_SIZE * q + (BYTES_PER_SECTOR * s + v)
    BY <1>7, <1>8, <1>9, <1>10
  <2>4. chunk[k] = <<current_sector, v>>
    BY <1>7, <1>9
  <2> HIDE DEF p, v, chunk
  <2>5. Place(p, q, s, v)
    BY <1>7, <2>2, <2>3 DEF Place
  <2>6. /\ p \div CLUSTER_SIZE = q /\ (p % CLUSTER_SIZE) \div BYTES_PER_SECTOR = s
        /\ p % BYTES_PER_SECTOR = v
    BY <2>5, PlaceParts
  <2>7. cluster = ClusterAt[q]
    BY <1>1, <1>5, <1>14 DEF InSector
  <2>8. ByteAt(p) = <<FIRST_DATA_SECTOR + (cluster - 2) * SECTORS_PER_CLUSTER + s, v>>
    BY <2>6, <2>7 DEF ByteAt
  <2>9. FIRST_DATA_SECTOR + (cluster - 2) * SECTORS_PER_CLUSTER + s = current_sector
    BY <1>7, <1>11, <1>12
  <2> QED BY <2>1, <2>4, <2>8, <2>9
<1> HIDE DEF chunk
<1>15. /\ buf' \in Seq(Nat \X (0 .. BYTES_PER_SECTOR - 1))
       /\ Len(buf') = Len(buf) + n
  <2> DEFINE B == Nat \X (0 .. BYTES_PER_SECTOR - 1)
  <2>1. buf \in Seq(B) /\ chunk \in Seq(B)
    BY <1>1, <1>13 DEF TypeOK
  <2> HIDE DEF B
  <2>2. buf \o chunk \in Seq(B) /\ Len(buf \o chunk) = Len(buf) + Len(chunk)
    BY <2>1, ConcatProperties
  <2> QED BY <1>1, <1>13, <2>2 DEF B
<1>16. ClusterAt' = ClusterAt /\ (Sound' <=> Sound) /\ \A p : ByteAt(p)' = ByteAt(p)
  BY <1>1, FileKept
<1>17. Delivered'
  <2> SUFFICES ASSUME ~astray PROVE IsPartOfFile(buf)'
    BY <1>1 DEF Delivered
  <2>1. IsPartOfFile(buf)
    BY <1>1 DEF Delivered
  <2>2. IsPartOfFile(buf \o chunk)
    BY <1>1, <1>3, <1>9, <1>13, <1>14, <2>1, PartGrows DEF TypeOK
  <2> QED BY <1>1, <1>16, <2>2 DEF IsPartOfFile
<1>18. file_offset' \in 0 .. file_size' /\ file_offset' = from' + Len(buf')
  <2>1. file_offset + n \in 0 .. file_size /\ file_offset + n = from + (Len(buf) + n)
    BY <1>3, <1>9
  <2>2. file_offset' = file_offset + n /\ from' = from /\ file_size' = file_size
    BY <1>1, <1>3
  <2> QED BY <1>15, <2>1, <2>2
\* The last sector: all that was wanted is there.
<1>19. CASE n = remaining
  <2>1. /\ pc' = "idle" /\ ret' = Len(buf') /\ remaining' = 0 /\ bytes_to_read' = 0
        /\ i' = 0 /\ cluster' = 0 /\ current_sector' = 0
    BY <1>2, <1>19 DEF Return
  <2>2. ret' = Wanted /\ ret' \in Nat
    BY <1>3, <1>9, <1>15, <1>19, <2>1
  <2>3. TypeOK'
    BY <1>1, <1>3, <1>15, <1>18, <2>1, <2>2 DEF TypeOK, file
  <2>4. Progress' /\ Walking' /\ InSector' /\ OnPath'
    BY <1>18, <2>1 DEF Progress, Walking, InSector, OnPath
  <2>5. Reported'
    <3>1. ret' = Len(buf) + n /\ Len(buf') = Len(buf) + n
      BY <1>15, <2>1
    <3> QED BY <1>3, <1>9, <3>1 DEF Reported, bytes_read
  <2>6. CompleteUnlessFailed'
    BY <1>1, <1>3, <2>2 DEF CompleteUnlessFailed, Wanted
  <2> QED BY <1>17, <2>3, <2>4, <2>5, <2>6 DEF Inv
<1>20. CASE n # remaining
  <2>1. /\ pc' = IF n = bytes_to_read THEN "cluster" ELSE "sector"
        /\ remaining' = remaining - n /\ bytes_to_read' = bytes_to_read - n
        /\ current_sector' = current_sector + 1
        /\ UNCHANGED <<i, cluster, ret>>
    BY <1>2, <1>20
  <2>2. Progress'
    <3>1. Wanted' = Wanted
      BY <1>1, <1>3 DEF Wanted
    <3>2. remaining' > 0 /\ file_offset' + remaining' <= file_size'
          /\ remaining' + Len(buf') = Wanted'
      <4>1. /\ remaining - n > 0 /\ (file_offset + n) + (remaining - n) <= file_size
            /\ (remaining - n) + (Len(buf) + n) = Wanted
        BY <1>3, <1>9, <1>20
      <4>2. file_offset' = file_offset + n /\ file_size' = file_size
        BY <1>1, <1>3
      <4> QED BY <1>15, <2>1, <3>1, <4>1, <4>2
    <3> QED BY <1>18, <3>2 DEF Progress
  <2>3. Walking' /\ OnPath' /\ Reported' /\ CompleteUnlessFailed'
    BY <1>1, <1>16, <2>1 DEF Inv, Walking, OnPath, Reported, CompleteUnlessFailed
  \* Within the cluster the next sector follows.
  <2>4. ASSUME n # bytes_to_read
        PROVE  /\ Place(file_offset', q, s + 1, 0)
               /\ cluster_index' = q /\ cluster_offset' = BYTES_PER_SECTOR * s + BYTES_PER_SECTOR
               /\ cluster_offset' \div BYTES_PER_SECTOR = s + 1
               /\ s + 1 \in 0 .. SECTORS_PER_CLUSTER - 1
    <3>1. n = BYTES_PER_SECTOR - t /\ n < bytes_to_read
      BY <1>3, <1>9, <2>4
    <3>2. BYTES_PER_SECTOR * s + BYTES_PER_SECTOR < CLUSTER_SIZE
      BY <1>3, <1>6, <1>7, <1>9, <1>10, <3>1
    <3>3. s + 1 \in 0 .. SECTORS_PER_CLUSTER - 1
      BY <1>7, <1>10, <3>2
    <3>4. BYTES_PER_SECTOR * (s + 1) = BYTES_PER_SECTOR * s + BYTES_PER_SECTOR
      BY <1>7
    <3>5. file_offset' = CLUSTER_SIZE * q + (BYTES_PER_SECTOR * (s + 1) + 0)
      BY <1>1, <1>7, <1>8, <1>10, <3>1, <3>4
    <3>6. Place(file_offset', q, s + 1, 0)
      BY <1>7, <3>3, <3>5 DEF Place
    <3>7. /\ file_offset' \div CLUSTER_SIZE = q
          /\ file_offset' % CLUSTER_SIZE = BYTES_PER_SECTOR * (s + 1) + 0
          /\ (file_offset' % CLUSTER_SIZE) \div BYTES_PER_SECTOR = s + 1
      BY <3>6, PlaceParts
    <3> QED BY <1>10, <3>3, <3>4, <3>6, <3>7 DEF cluster_index, cluster_offset
  <2>5. cluster_to_sector(cluster)' = cluster_to_sector(cluster)
    BY <2>1 DEF cluster_to_sector
  <2>6. ASSUME n # bytes_to_read
        PROVE  /\ current_sector' = cluster_to_sector(cluster) + (s + 1)
               /\ bytes_to_read' \in 1 .. remaining'
               /\ bytes_to_read' <= CLUSTER_SIZE - cluster_offset'
    <3>1. current_sector' = cluster_to_sector(cluster) + (s + 1)
      BY <1>7, <1>11, <1>12, <2>1
    <3>2. bytes_to_read' \in 1 .. remaining'
      BY <1>3, <1>9, <2>1, <2>6
    <3>3. cluster_offset' = cluster_offset + n
      BY <1>6, <1>7, <1>9, <1>10, <2>4, <2>6
    <3>4. bytes_to_read' <= CLUSTER_SIZE - cluster_offset'
      BY <1>3, <1>6, <1>7, <1>9, <1>10, <2>1, <3>3
    <3> QED BY <3>1, <3>2, <3>4
  <2>7. InSector'
    <3> SUFFICES ASSUME pc' = "sector"
                 PROVE  /\ cluster' \in Cluster
                        /\ ~astray' => cluster' = ClusterAt'[cluster_index']
                        /\ current_sector' = cluster_to_sector(cluster)'
                             + cluster_offset' \div BYTES_PER_SECTOR
                        /\ bytes_to_read' \in 1 .. remaining'
                        /\ bytes_to_read' <= CLUSTER_SIZE - cluster_offset'
      BY DEF InSector
    <3>1. n # bytes_to_read
      BY <2>1
    <3>2. ~astray' => cluster' = ClusterAt'[cluster_index']
      BY <1>1, <1>5, <1>16, <2>1, <2>4, <3>1 DEF InSector
    <3>3. cluster' \in Cluster
      BY <1>3, <2>1
    <3> QED BY <2>4, <2>5, <2>6, <3>1, <3>2, <3>3
  <2>8. TypeOK'
    <3>1. remaining' \in 0 .. file_size' /\ bytes_to_read' \in 0 .. CLUSTER_SIZE
          /\ current_sector' \in Nat
      <4>1. bytes_to_read <= CLUSTER_SIZE
        BY <1>1 DEF TypeOK
      <4> QED BY <1>3, <1>9, <1>20, <2>1, <4>1
    <3>2. pc' = "sector" =>
            /\ current_sector' - cluster_to_sector(cluster)' < SECTORS_PER_CLUSTER
            /\ bytes_to_read' <= CLUSTER_SIZE - cluster_offset'
      <4> SUFFICES ASSUME pc' = "sector"
                   PROVE  /\ current_sector' - cluster_to_sector(cluster)' < SECTORS_PER_CLUSTER
                          /\ bytes_to_read' <= CLUSTER_SIZE - cluster_offset'
        OBVIOUS
      <4>1. n # bytes_to_read
        BY <2>1
      <4> QED BY <1>11, <2>4, <2>5, <2>6, <4>1
    <3> QED BY <1>1, <1>3, <1>15, <1>18, <2>1, <3>1, <3>2 DEF TypeOK, file
  <2> QED BY <1>17, <2>2, <2>3, <2>7, <2>8 DEF Inv
<1> QED BY <1>19, <1>20

-----------------------------------------------------------------------------
\* Everything that can happen keeps the invariant.
THEOREM Invariance == Spec => []Inv
<1>1. Inv /\ [Next]_vars => Inv'
  <2> SUFFICES ASSUME Inv, [Next]_vars PROVE Inv'
    OBVIOUS
  <2>1. CASE Next
    <3>1. ASSUME NEW offset \in -1 .. file_size + 1, fat32_seek(offset) PROVE Inv'
      <4>1. offset \in Int
        BY Numbers DEF Inv, TypeOK
      <4> QED BY <3>1, <4>1, SeekStep
    <3>2. ASSUME NEW size \in ReadSize, ReadBegin(size) PROVE Inv'
      BY <3>2, BeginStep
    <3>3. CASE fat32_read
      BY <3>3, WalkBeginStep, WalkStepStep, WalkFailsStep, WalkEndStep, ReadSectorStep,
         SectorFailsStep DEF fat32_read
    <3> QED BY <2>1, <3>1, <3>2, <3>3 DEF Next
  <2>2. CASE UNCHANGED vars
    <3>1. /\ UNCHANGED file /\ file_size' = file_size /\ fat' = fat
          /\ start_cluster' = start_cluster /\ file_offset' = file_offset /\ pc' = pc
          /\ buf' = buf /\ remaining' = remaining /\ bytes_to_read' = bytes_to_read
          /\ i' = i /\ cluster' = cluster /\ current_sector' = current_sector
          /\ ret' = ret /\ request' = request /\ from' = from
          /\ failed' = failed /\ astray' = astray
      BY <2>2 DEF vars, file, locals, history
    <3>2. ClusterAt' = ClusterAt /\ (Sound' <=> Sound) /\ \A p : ByteAt(p)' = ByteAt(p)
      BY <3>1, FileKept
    <3>3. /\ cluster_offset' = cluster_offset /\ cluster_index' = cluster_index
          /\ cluster_to_sector(cluster)' = cluster_to_sector(cluster)
          /\ Wanted' = Wanted /\ bytes_read' = bytes_read
      BY <3>1 DEF cluster_offset, cluster_index, cluster_to_sector, Wanted, bytes_read
    <3>4. TypeOK' /\ Progress' /\ Walking' /\ InSector'
      BY <3>1, <3>2, <3>3 DEF Inv, TypeOK, Progress, Walking, InSector
    <3>5. OnPath' /\ Delivered' /\ Reported' /\ CompleteUnlessFailed'
      BY <3>1, <3>2, <3>3 DEF Inv, OnPath, Delivered, IsPartOfFile, Reported,
                              CompleteUnlessFailed
    <3> QED BY <3>4, <3>5 DEF Inv
  <2> QED BY <2>1, <2>2
<1> QED BY <1>1, InitInv, PTL DEF Spec

\* Every variable keeps its type, and a read never leaves its cluster: the
\* sector is one of the cluster's, and no more is copied than lies in it, so
\* that the sector loop always ends with bytes_to_read at 0.
THEOREM TypeCorrect == Spec => []TypeOK
<1>1. Inv => TypeOK
  BY DEF Inv
<1> QED BY <1>1, Invariance, PTL

\* Whatever the chain and whatever fails, fat32_read delivers the bytes of the
\* file from the offset of the call on, counts them in file_offset, and reports
\* their number, as long as the FAT is read for clusters of the volume only.
THEOREM DeliversFileBytes == Spec => []ReadsFileBytes
<1>1. Inv => ReadsFileBytes
  BY DEF Inv, ReadsFileBytes, Delivered, Progress, Reported, bytes_read
<1> QED BY <1>1, Invariance, PTL

\* On a sound chain that does not start in cluster 2 a read delivers all that
\* was asked for and is there, unless a sector could not be read.
THEOREM ReadIsComplete == Spec => []CompleteUnlessFailed
<1>1. Inv => CompleteUnlessFailed
  BY DEF Inv
<1> QED BY <1>1, Invariance, PTL
=============================================================================
