------------------------ MODULE FrameAllocatorProofs ------------------------
(***************************************************************************)
(* The frame allocator for every size of the memory, every page table and  *)
(* kernel, and every sequence of calls.                                    *)
(***************************************************************************)
EXTENDS FrameAllocator, FiniteSetTheorems, WellFoundedInduction, TLAPS

\* Frames of different index have different addresses.
LEMMA AddressInjective ==
  ASSUME NEW f \in Frame, NEW g \in Frame, AddressOf(f) = AddressOf(g)
  PROVE  f = g
<1>1. ASSUME NEW a \in Nat, NEW b \in Nat, a < b
      PROVE  a * MEM_SECTION_SIZE # b * MEM_SECTION_SIZE
  <2>1. PICK d \in Nat : b = a + 1 + d
    <3>1. b - a - 1 \in Nat /\ b = a + 1 + (b - a - 1)
      BY <1>1
    <3> QED BY <3>1
  <2>2. b * MEM_SECTION_SIZE = a * MEM_SECTION_SIZE + MEM_SECTION_SIZE + d * MEM_SECTION_SIZE
    BY <2>1, MemoryAssumption
  <2>3. a * MEM_SECTION_SIZE \in Nat /\ d * MEM_SECTION_SIZE \in Nat
    BY MemoryAssumption
  <2> QED BY <2>2, <2>3, MemoryAssumption
<1>2. f \in Nat /\ g \in Nat
  BY MemoryAssumption DEF Frame
<1>3. f * MEM_SECTION_SIZE \in Int /\ g * MEM_SECTION_SIZE \in Int
  BY <1>2, MemoryAssumption
<1>4. f * MEM_SECTION_SIZE = g * MEM_SECTION_SIZE
  BY <1>3, MemoryAssumption DEF AddressOf
<1> QED BY <1>1, <1>2, <1>4

\* The address of a frame is a natural number.
LEMMA AddressNat ==
  ASSUME NEW f \in Frame
  PROVE  AddressOf(f) \in Nat
<1>1. f \in Nat
  BY MemoryAssumption DEF Frame
<1>2. f * MEM_SECTION_SIZE \in Nat
  BY <1>1, MemoryAssumption
<1> QED BY <1>2, MemoryAssumption DEF AddressOf

\* An address that free_frame does not refuse is the address of the frame it
\* computes from it.
LEMMA AcceptedIsFrame ==
  ASSUME NEW a \in Nat, ~Rejects(a)
  PROVE  FrameOf(a) \in Frame /\ AddressOf(FrameOf(a)) = a
<1> DEFINE S == MEM_SECTION_SIZE
           B == MEM_PHYS_BASE
<1>1. S \in Nat \ {0} /\ B \in Nat /\ FRAMES \in Nat /\ B % S = 0
  BY MemoryAssumption
<1>2. a % S = 0 /\ a >= B /\ a < B + FRAMES * S
  <2>1. FRAMES * S \in Nat
    BY <1>1
  <2> QED BY <2>1, <1>1 DEF Rejects
<1> HIDE DEF S, B
<1>3. a = S * (a \div S) + (a % S) /\ B = S * (B \div S) + (B % S)
  BY <1>1
<1> DEFINE p == a \div S
           q == B \div S
<1>4. p \in Nat /\ q \in Nat
  BY <1>1
<1>5. a = S * p /\ B = S * q
  BY <1>1, <1>2, <1>3, <1>4
<1> HIDE DEF p, q
<1>6. a - B = S * (p - q)
  BY <1>1, <1>4, <1>5
<1>7. (a - B) \div S = p - q
  BY <1>1, <1>4, <1>6
<1>8. p - q >= 0
  <2>1. CASE p < q
    <3>1. PICK d \in Nat : q = p + 1 + d
      <4>1. q - p - 1 \in Nat /\ q = p + 1 + (q - p - 1)
        BY <2>1, <1>4
      <4> QED BY <4>1
    <3>2. S * q = S * p + S + S * d
      BY <3>1, <1>1, <1>4
    <3>3. S * d \in Nat /\ S * p \in Nat
      BY <1>1, <1>4
    <3> QED BY <3>2, <3>3, <1>1, <1>2, <1>5
  <2> QED BY <2>1, <1>4
<1>9. p - q < FRAMES
  <2>1. CASE p - q >= FRAMES
    <3>1. PICK d \in Nat : p - q = FRAMES + d
      <4>1. p - q - FRAMES \in Nat /\ p - q = FRAMES + (p - q - FRAMES)
        BY <2>1, <1>1, <1>4
      <4> QED BY <4>1
    <3>2. S * (p - q) = FRAMES * S + S * d
      BY <3>1, <1>1
    <3>3. S * d \in Nat /\ FRAMES * S \in Nat
      BY <1>1
    <3> QED BY <3>2, <3>3, <1>1, <1>2, <1>6
  <2> QED BY <2>1, <1>1, <1>4
<1>10. FrameOf(a) = p - q
  BY <1>7 DEF FrameOf, S, B
<1>11. AddressOf(p - q) = a
  <2>1. (p - q) * S = S * (p - q) /\ S * (p - q) \in Int
    BY <1>1, <1>4
  <2> QED BY <2>1, <1>1, <1>6 DEF AddressOf, S, B
<1> QED BY <1>1, <1>4, <1>8, <1>9, <1>10, <1>11 DEF Frame

-----------------------------------------------------------------------------
\* Putting a frame that is not on the list in front of it keeps the list ranked.
LEMMA PushRanked ==
  ASSUME TypeOK, Ranked, NEW f \in Frame \ free, Push(f, AddressOf(f))
  PROVE  /\ Ranked'
         /\ addr' \in [Frame -> Nat] /\ next' \in [Frame -> Frame \union {NULL}]
         /\ frame_list' \in Frame \union {NULL}
         /\ free' = free \union {f} /\ free' \subseteq Frame
         /\ rank' \in [Frame -> Nat]
<1> USE DEF TypeOK
<1>1. f \in Frame /\ f \notin free /\ f # NULL
  BY MemoryAssumption DEF Frame, NULL
<1>2. TopRank \in Nat /\ (TopRank = 0 <=> frame_list = NULL)
  BY DEF TopRank, Ranked
<1>3. /\ addr' = [addr EXCEPT ![f] = AddressOf(f)]
      /\ next' = [next EXCEPT ![f] = frame_list]
      /\ frame_list' = f /\ free' = free \union {f}
      /\ rank' = [rank EXCEPT ![f] = TopRank + 1]
  BY DEF Push
<1>4. TopRank' = TopRank + 1
  <2>1. rank'[f] = TopRank + 1
    BY <1>1, <1>3
  <2> QED BY <2>1, <1>1, <1>3 DEF TopRank
<1>5. \A g \in free : /\ g # f /\ g \in Frame
                      /\ addr'[g] = addr[g] /\ next'[g] = next[g] /\ rank'[g] = rank[g]
  BY <1>1, <1>3
<1>6. addr'[f] = AddressOf(f) /\ next'[f] = frame_list /\ rank'[f] = TopRank + 1
  BY <1>1, <1>3
<1>7. \A g \in free : /\ addr[g] = AddressOf(g)
                      /\ rank[g] \in 1 .. TopRank
                      /\ IF rank[g] = 1 THEN next[g] = NULL
                         ELSE next[g] \in free /\ rank[next[g]] = rank[g] - 1
  BY DEF Ranked
<1>8. Ranked'
  <2>1. frame_list' # NULL /\ frame_list' \in free'
    BY <1>1, <1>3
  <2>2. ASSUME NEW g \in free'
        PROVE  /\ addr'[g] = AddressOf(g)
               /\ rank'[g] \in 1 .. TopRank'
               /\ IF rank'[g] = 1 THEN next'[g] = NULL
                  ELSE next'[g] \in free' /\ rank'[next'[g]] = rank'[g] - 1
    <3>1. CASE g = f
      <4>1. CASE frame_list = NULL
        BY <3>1, <4>1, <1>2, <1>4, <1>6
      <4>2. CASE frame_list # NULL
        <5>1. frame_list \in free /\ rank[frame_list] = TopRank
          BY <4>2 DEF Ranked, TopRank
        <5>2. frame_list \in free' /\ rank'[frame_list] = TopRank
          BY <5>1, <1>3, <1>5
        <5> QED BY <5>2, <3>1, <4>2, <1>2, <1>4, <1>6
      <4> QED BY <4>1, <4>2
    <3>2. CASE g \in free
      <4>1. rank[g] # 1 => /\ next[g] \in free' /\ rank'[next[g]] = rank[g] - 1
        BY <3>2, <1>3, <1>5, <1>7
      <4>2. rank[g] \in 1 .. TopRank'
        BY <3>2, <1>2, <1>4, <1>7
      <4> QED BY <4>1, <4>2, <3>2, <1>5, <1>7
    <3> QED BY <3>1, <3>2, <1>3
  <2>3. ASSUME NEW g \in free', NEW h \in free', rank'[g] = rank'[h]
        PROVE  g = h
    <3>1. \A x \in free : rank'[x] # TopRank + 1
      BY <1>2, <1>5, <1>7
    <3>2. CASE g \in free /\ h \in free
      BY <3>2, <2>3, <1>5 DEF Ranked
    <3> QED BY <3>1, <3>2, <2>3, <1>3, <1>6
  <2> QED BY <2>1, <2>2, <2>3 DEF Ranked, AddressOf
<1>9. /\ addr' \in [Frame -> Nat] /\ next' \in [Frame -> Frame \union {NULL}]
      /\ rank' \in [Frame -> Nat]
  BY <1>1, <1>2, <1>3, AddressNat
<1> QED BY <1>1, <1>3, <1>8, <1>9

\* The initial state satisfies the invariant.
LEMMA InitIndInv == Init => IndInv
<1> SUFFICES ASSUME Init PROVE IndInv
  OBVIOUS
<1> USE DEF Init
<1>1. TypeOK
  BY MemoryAssumption, HeaderAssumption DEF TypeOK
<1>2. Ranked
  BY DEF Ranked
<1>3. Disjoint
  BY DEF Disjoint, ReservedKept
<1>4. Built
  <2>1. {f \in Frame : f < i} \ Reserved = {}
    BY DEF Reserved
  <2>2. i >= mapped_sections
    BY MemoryAssumption, HeaderAssumption
  <2> QED BY <2>1, <2>2 DEF Built, NoLeak
<1>5. Walked
  BY DEF Walked
<1> QED BY <1>1, <1>2, <1>3, <1>4, <1>5 DEF IndInv

\* A round of init_frame_allocator preserves it: the frame is not on the list.
LEMMA InitStep == IndInv /\ init_frame_allocator => IndInv'
<1> SUFFICES ASSUME IndInv, init_frame_allocator PROVE IndInv'
  OBVIOUS
<1> USE DEF IndInv
<1>1. /\ pc = "init" /\ pc' = "init" /\ i \in Frame /\ i' = i + 1
      /\ current' = current /\ arg' = arg /\ held' = held /\ misfreed' = misfreed
  BY MemoryAssumption DEF init_frame_allocator, TypeOK, Frame
<1>2. /\ i >= mapped_sections /\ held = {} /\ misfreed = {}
      /\ free = {f \in Frame : f < i} \ Reserved
  BY <1>1 DEF Built
<1>3. i \in Nat /\ mapped_sections \in Nat
  BY <1>1, MemoryAssumption, HeaderAssumption DEF Frame
<1>4. i \notin free
  BY <1>2, <1>3
<1>5. /\ Ranked' /\ free' = {f \in Frame : f < i + 1} \ Reserved
      /\ addr' \in [Frame -> Nat] /\ next' \in [Frame -> Frame \union {NULL}]
      /\ frame_list' \in Frame \union {NULL}
      /\ free' \subseteq Frame /\ rank' \in [Frame -> Nat]
  <2>0. {f \in Frame : f < i + 1} = {f \in Frame : f < i} \union {i}
    BY <1>1, <1>3, MemoryAssumption DEF Frame
  <2>1. CASE AddressOf(i) = MEM_BOOT_PAGE_TABLE_BASE
    <3>1. i \in Reserved
      BY <2>1, <1>1 DEF Reserved
    <3>2. UNCHANGED <<nodes, free, rank>>
      BY <2>1 DEF init_frame_allocator
    <3>3. Ranked'
      BY <3>2 DEF nodes, Ranked, TopRank
    <3> QED BY <2>0, <3>1, <3>2, <3>3, <1>2 DEF nodes, TypeOK
  <2>2. CASE AddressOf(i) # MEM_BOOT_PAGE_TABLE_BASE
    <3>1. i \notin Reserved
      BY <2>2, <1>2, <1>3 DEF Reserved
    <3>2. Push(i, AddressOf(i))
      BY <2>2 DEF init_frame_allocator
    <3>3. free' = free \union {i}
      BY <3>2 DEF Push
    <3> QED BY <2>0, <3>1, <3>2, <3>3, <1>1, <1>2, <1>4, PushRanked
  <2> QED BY <2>1, <2>2
<1>6. TypeOK'
  <2>1. i' \in 0 .. FRAMES
    BY <1>1, <1>3, MemoryAssumption DEF Frame
  <2>2. Reserved' = Reserved
    BY DEF Reserved, AddressOf
  <2> QED BY <2>1, <2>2, <1>1, <1>5 DEF TypeOK
<1>7. Disjoint'
  BY <1>1, <1>2, <1>5 DEF Disjoint, ReservedKept
<1>8. Built'
  BY <1>1, <1>2, <1>3, <1>5 DEF Built, NoLeak
<1>9. Walked'
  BY <1>1 DEF Walked
<1> QED BY <1>5, <1>6, <1>7, <1>8, <1>9

\* The end of the loop preserves it: all frames that are not reserved are free.
LEMMA InitDoneStep == IndInv /\ InitDone => IndInv'
<1> SUFFICES ASSUME IndInv, InitDone PROVE IndInv'
  OBVIOUS
<1> USE DEF IndInv, InitDone, nodes
<1>1. free = Frame \ Reserved
  <2>1. free = {f \in Frame : f < FRAMES} \ Reserved
    BY DEF Built
  <2>2. {f \in Frame : f < FRAMES} = Frame
    BY MemoryAssumption DEF Frame
  <2> QED BY <2>1, <2>2
<1>2. TypeOK' /\ Ranked' /\ Disjoint'
  BY DEF TypeOK, Ranked, TopRank, Disjoint, ReservedKept
<1>3. Built'
  BY <1>1 DEF Built, NoLeak
<1>4. Walked'
  BY DEF Walked
<1> QED BY <1>2, <1>3, <1>4

\* Taking a frame off the list preserves it: the rest is ranked one lower, and
\* the frame was in nobody's hands.
LEMMA AllocStep == IndInv /\ alloc_frame => IndInv'
<1> SUFFICES ASSUME IndInv, alloc_frame PROVE IndInv'
  OBVIOUS
<1> USE DEF IndInv
<1>1. /\ pc = "idle" /\ pc' = "idle"
      /\ addr' = addr /\ next' = next /\ rank' = rank /\ i' = i
      /\ current' = current /\ arg' = arg /\ misfreed' = misfreed
  BY DEF alloc_frame
<1>2. Walked'
  BY <1>1 DEF Walked
<1>3. CASE frame_list = NULL
  <2>1. frame_list' = frame_list /\ held' = held /\ free' = free
    BY <1>3 DEF alloc_frame
  <2> QED BY <2>1, <1>1, <1>2
          DEF TypeOK, Ranked, TopRank, Disjoint, ReservedKept, Built, NoLeak
<1>4. CASE frame_list # NULL
  <2> DEFINE t == frame_list
  <2>1. /\ frame_list' = next[t] /\ free' = free \ {t}
        /\ held' = held \union {addr[t]}
    BY <1>4 DEF alloc_frame
  <2>2. /\ t \in free /\ t \in Frame /\ addr[t] = AddressOf(t)
        /\ rank[t] = TopRank /\ TopRank \in Nat \ {0}
    BY <1>4 DEF Ranked, TypeOK, TopRank
  <2>3. next[t] \in Frame \union {NULL} /\ addr[t] \in Nat
    BY <2>2 DEF TypeOK
  <2>4. \A f \in free : /\ f \in Frame
                        /\ addr[f] = AddressOf(f)
                        /\ rank[f] \in 1 .. TopRank
                        /\ IF rank[f] = 1 THEN next[f] = NULL
                           ELSE next[f] \in free /\ rank[next[f]] = rank[f] - 1
    BY DEF Ranked, TypeOK
  <2>5. \A f, g \in free : rank[f] = rank[g] => f = g
    BY DEF Ranked
  <2>6. TopRank' = TopRank - 1
    <3>1. CASE rank[t] = 1
      BY <3>1, <2>1, <2>2, <2>4 DEF TopRank
    <3>2. CASE rank[t] # 1
      <4>1. next[t] \in free /\ rank[next[t]] = TopRank - 1
        BY <3>2, <2>2, <2>4
      <4>2. next[t] # NULL
        BY <4>1, <2>4, MemoryAssumption DEF Frame, NULL
      <4> QED BY <4>1, <4>2, <2>1, <1>1 DEF TopRank
    <3> QED BY <3>1, <3>2
  <2>7. Ranked'
    <3>1. frame_list' = NULL => free' = {}
      <4>1. ASSUME next[t] = NULL, NEW f \in free PROVE f = t
        <5>1. rank[t] = 1
          BY <4>1, <2>2, <2>4, MemoryAssumption DEF Frame, NULL
        <5>2. rank[f] = 1
          BY <5>1, <2>2, <2>4
        <5> QED BY <5>1, <5>2, <2>2, <2>5
      <4> QED BY <4>1, <2>1
    <3>2. frame_list' # NULL => frame_list' \in free'
      <4>1. next[t] # NULL => next[t] \in free /\ rank[next[t]] = rank[t] - 1
        BY <2>2, <2>4
      <4>2. next[t] # NULL => next[t] # t
        BY <4>1, <2>2
      <4> QED BY <4>1, <4>2, <2>1
    <3>3. ASSUME NEW f \in free'
          PROVE  /\ addr'[f] = AddressOf(f)
                 /\ rank'[f] \in 1 .. TopRank'
                 /\ IF rank'[f] = 1 THEN next'[f] = NULL
                    ELSE next'[f] \in free' /\ rank'[next'[f]] = rank'[f] - 1
      <4>1. f \in free /\ f # t
        BY <2>1
      <4>2. rank[f] # TopRank
        BY <4>1, <2>2, <2>5
      <4>3. rank[f] \in 1 .. TopRank - 1
        BY <4>1, <4>2, <2>2, <2>4
      <4>4. rank[f] # 1 => next[f] \in free /\ next[f] # t /\ rank[next[f]] = rank[f] - 1
        BY <4>1, <4>3, <2>2, <2>4
      <4> QED BY <4>1, <4>3, <4>4, <2>1, <2>4, <2>6, <1>1
    <3>4. \A f, g \in free' : rank'[f] = rank'[g] => f = g
      BY <2>1, <2>5, <1>1
    <3> QED BY <3>1, <3>2, <3>3, <3>4 DEF Ranked, AddressOf
  <2>8. TypeOK'
    BY <2>1, <2>3, <1>1 DEF TypeOK, Reserved, AddressOf
  <2>9. Disjoint'
    <3>1. \A f \in free' : AddressOf(f) \notin held'
      <4> SUFFICES ASSUME NEW f \in free' PROVE AddressOf(f) \notin held'
        OBVIOUS
      <4>1. f \in Frame /\ f \in free /\ f # t
        BY <2>1, <2>4
      <4>2. AddressOf(f) # AddressOf(t)
        BY <4>1, <2>2, AddressInjective
      <4> QED BY <4>1, <4>2, <2>1, <2>2 DEF Disjoint
    <3>2. free' \intersect Reserved \subseteq misfreed'
      BY <2>1, <1>1 DEF Disjoint
    <3>3. \A f \in Reserved \ misfreed' : AddressOf(f) \notin held'
      <4> SUFFICES ASSUME NEW f \in Reserved \ misfreed PROVE AddressOf(f) \notin held'
        BY <1>1
      <4>1. f \in Frame /\ f # t
        BY <2>2 DEF Reserved, Disjoint
      <4>2. AddressOf(f) # AddressOf(t)
        BY <4>1, <2>2, AddressInjective
      <4> QED BY <4>2, <2>1, <2>2 DEF Disjoint, ReservedKept
    <3> QED BY <3>1, <3>2, <3>3 DEF Disjoint, ReservedKept, AddressOf, Reserved
  <2>10. Built'
    <3>1. NoLeak
      BY DEF Built
    <3>2. NoLeak'
      BY <3>1, <2>1, <2>2, <1>1 DEF NoLeak
    <3> QED BY <3>2, <1>1 DEF Built
  <2> QED BY <2>7, <2>8, <2>9, <2>10, <1>2
<1> QED BY <1>3, <1>4

\* The entry of free_frame preserves it: nothing has been passed yet, since no
\* frame has a higher rank than the first one.
LEMMA FreeBeginStep == \A a \in Address : IndInv /\ FreeBegin(a) => IndInv'
<1> SUFFICES ASSUME NEW a \in Address, IndInv, FreeBegin(a) PROVE IndInv'
  OBVIOUS
<1> USE DEF IndInv
<1>1. /\ pc = "idle" /\ pc' # "init" /\ i' = i /\ UNCHANGED <<nodes, held, misfreed, free, rank>>
      /\ pc' \in {"idle", "walk"}
  BY DEF FreeBegin
<1>2. Ranked' /\ Disjoint' /\ Built'
  BY <1>1 DEF nodes, Ranked, TopRank, Disjoint, ReservedKept, Built, NoLeak
<1>3. CASE Rejects(a)
  <2>1. pc' = pc /\ current' = current /\ arg' = arg
    BY <1>3 DEF FreeBegin
  <2> QED BY <2>1, <1>1, <1>2 DEF nodes, TypeOK, Walked
<1>4. CASE ~Rejects(a)
  <2>1. current' = frame_list /\ arg' = a
    BY <1>4 DEF FreeBegin
  <2>2. TypeOK'
    BY <2>1, <1>1, AddressAssumption DEF nodes, TypeOK
  <2>3. Walked'
    <3>1. ~Rejects(arg)'
      BY <2>1, <1>4 DEF Rejects
    <3>2. \A f \in free : frame_list # NULL /\ ~(rank[f] > rank[frame_list])
      BY DEF Ranked, TypeOK, TopRank
    <3> QED BY <3>1, <3>2, <2>1, <1>1 DEF nodes, Walked, Ranked
  <2> QED BY <2>2, <2>3, <1>2
<1> QED BY <1>3, <1>4

\* A round of the walk preserves it: besides the frames of higher rank only the
\* current one has the rank it has.
LEMMA FreeWalkStep == IndInv /\ FreeWalk => IndInv'
<1> SUFFICES ASSUME IndInv, FreeWalk PROVE IndInv'
  OBVIOUS
<1> USE DEF IndInv
<1>1. /\ pc = "walk" /\ pc' # "init" /\ current # NULL
      /\ UNCHANGED <<nodes, i, arg, held, misfreed, free, rank>>
  BY DEF FreeWalk
<1>2. Ranked' /\ Disjoint' /\ Built'
  BY <1>1 DEF nodes, Ranked, TopRank, Disjoint, ReservedKept, Built, NoLeak
<1>3. current \in free /\ current \in Frame
  BY <1>1 DEF Walked, TypeOK
<1>4. CASE addr[current] = arg
  <2>1. pc' = "idle" /\ current' = current
    BY <1>4 DEF FreeWalk
  <2> QED BY <2>1, <1>1, <1>2 DEF nodes, TypeOK, Walked
<1>5. CASE addr[current] # arg
  <2>1. pc' = "walk" /\ current' = next[current]
    BY <1>1, <1>5 DEF FreeWalk
  <2>2. TypeOK'
    BY <2>1, <1>1, <1>3 DEF nodes, TypeOK
  <2>3. Walked'
    <3>1. AddressOf(current) # arg
      BY <1>3, <1>5 DEF Ranked
    <3>2. \A f \in free : rank[f] > rank[current] => AddressOf(f) # arg
      BY <1>1 DEF Walked
    <3>3. \A f \in free : rank[f] \in Nat \ {0} /\ (rank[f] = rank[current] => f = current)
      BY <1>3 DEF Ranked, TypeOK
    <3>4. \A f \in free : rank[f] >= rank[current] => AddressOf(f) # arg
      BY <3>1, <3>2, <3>3, <1>3
    <3>5. /\ next[current] = NULL => rank[current] = 1
          /\ next[current] # NULL =>
               next[current] \in free /\ rank[next[current]] = rank[current] - 1
      <4>1. \A f \in free : f # NULL
        BY MemoryAssumption DEF TypeOK, Frame, NULL
      <4> QED BY <4>1, <1>3 DEF Ranked
    <3>6. \A f \in free : (next[current] = NULL \/ rank[f] > rank[next[current]])
                            => AddressOf(f) # arg
      BY <3>3, <3>4, <3>5, <1>3
    <3>7. ~Rejects(arg)
      BY <1>1 DEF Walked
    <3> QED BY <3>5, <3>6, <3>7, <2>1, <1>1 DEF nodes, Walked, Rejects, AddressOf
  <2> QED BY <2>2, <2>3, <1>2
<1> QED BY <1>4, <1>5

\* The end of free_frame preserves it: the walk has shown that the frame is not
\* on the list.
LEMMA FreePushStep == IndInv /\ FreePush => IndInv'
<1> SUFFICES ASSUME IndInv, FreePush PROVE IndInv'
  OBVIOUS
<1> USE DEF IndInv
<1> DEFINE f == FrameOf(arg)
<1>1. /\ pc = "walk" /\ pc' = "idle" /\ current = NULL
      /\ Push(f, arg) /\ held' = held \ {arg}
      /\ misfreed' = misfreed \union ({f} \intersect Reserved)
      /\ i' = i /\ current' = current /\ arg' = arg
  BY DEF FreePush
<1>2. f \in Frame /\ AddressOf(f) = arg
  BY <1>1, AcceptedIsFrame DEF Walked, TypeOK
<1>3. f \notin free
  BY <1>1, <1>2 DEF Walked
<1> HIDE DEF f
<1>4. Push(f, AddressOf(f))
  BY <1>1, <1>2
<1>5. /\ Ranked' /\ free' = free \union {f}
      /\ addr' \in [Frame -> Nat] /\ next' \in [Frame -> Frame \union {NULL}]
      /\ frame_list' \in Frame \union {NULL}
      /\ free' \subseteq Frame /\ rank' \in [Frame -> Nat]
  BY <1>2, <1>3, <1>4, PushRanked
<1>6. TypeOK'
  BY <1>1, <1>5 DEF TypeOK, Reserved, AddressOf
<1>7. Disjoint'
  <2>1. \A g \in free' : AddressOf(g) \notin held'
    BY <1>1, <1>2, <1>5 DEF Disjoint
  <2>2. free' \intersect Reserved \subseteq misfreed'
    BY <1>1, <1>5 DEF Disjoint
  <2>3. \A g \in Reserved \ misfreed' : AddressOf(g) \notin held'
    BY <1>1 DEF Disjoint, ReservedKept
  <2> QED BY <2>1, <2>2, <2>3 DEF Disjoint, ReservedKept, Reserved, AddressOf
<1>8. Built'
  <2>1. ASSUME NEW g \in Frame \ Reserved PROVE g \in free' \/ AddressOf(g) \in held'
    <3>1. g \in free \/ AddressOf(g) \in held
      BY <2>1, <1>1 DEF Built, NoLeak
    <3>2. AddressOf(g) = arg => g = f
      BY <2>1, <1>2, AddressInjective
    <3> QED BY <3>1, <3>2, <1>1, <1>5
  <2> QED BY <2>1, <1>1 DEF Built, NoLeak, Reserved, AddressOf
<1>9. Walked'
  BY <1>1 DEF Walked
<1> QED BY <1>5, <1>6, <1>7, <1>8, <1>9

\* The allocator keeps its list ranked, and free and held frames apart, for
\* every size of memory and every sequence of calls.
THEOREM Invariance == Spec => []IndInv
<1>1. Init => IndInv
  BY InitIndInv
<1>2. IndInv /\ [Next]_vars => IndInv'
  <2> SUFFICES ASSUME IndInv, [Next]_vars PROVE IndInv'
    OBVIOUS
  <2>1. CASE init_frame_allocator
    BY <2>1, InitStep
  <2>2. CASE InitDone
    BY <2>2, InitDoneStep
  <2>3. CASE alloc_frame
    BY <2>3, AllocStep
  <2>4. ASSUME NEW a \in Address, FreeBegin(a) PROVE IndInv'
    BY <2>4, FreeBeginStep
  <2>5. CASE FreeWalk
    BY <2>5, FreeWalkStep
  <2>6. CASE FreePush
    BY <2>6, FreePushStep
  <2>7. CASE UNCHANGED vars
    BY <2>7 DEF vars, nodes, IndInv, TypeOK, Ranked, TopRank, Disjoint, ReservedKept,
               Built, NoLeak, Walked, Rejects, Reserved, AddressOf
  <2> QED BY <2>1, <2>2, <2>3, <2>4, <2>5, <2>6, <2>7 DEF Next, free_frame
<1> QED BY <1>1, <1>2, PTL DEF Spec

\* alloc_frame never gives out an address that is in a caller's hands.
THEOREM AllocatesOnce == Spec => []NeverTwice
<1>1. IndInv => NeverTwice
  BY DEF IndInv, Ranked, Disjoint, NeverTwice
<1> QED BY <1>1, Invariance, PTL

\* Kernel sections and the boot page table stay out of circulation, and no other
\* frame is lost.
THEOREM FramesAccounted == Spec => [](ReservedKept /\ NoLeak)
<1>1. IndInv => ReservedKept /\ NoLeak
  BY DEF IndInv, Disjoint, Built
<1> QED BY <1>1, Invariance, PTL

-----------------------------------------------------------------------------
(* The list, followed from frame_list.                                     *)

\* A set of numbers that is not empty has a least element.
LEMMA LeastElement ==
  ASSUME NEW T, T \subseteq Nat, T # {}
  PROVE  \E x \in T : \A y \in T : x <= y
<1> DEFINE R == OpToRel(<, Nat)
<1>1. IsWellFoundedOn(R, Nat)
  BY NatLessThanWellFounded
<1>2. \A x, y \in Nat : x < y => <<x, y>> \in R
  BY DEF OpToRel
<1> HIDE DEF R
<1>3. PICK x \in T : \A y \in T : ~ (<<y, x>> \in R)
  BY <1>1, WFMin
<1>4. \A y \in T : x <= y
  <2> TAKE y \in T
  <2>1. x \in Nat /\ y \in Nat
    OBVIOUS
  <2>2. ~ (<<y, x>> \in R)
    BY <1>3
  <2>3. ~ (y < x)
    BY <2>1, <2>2, <1>2, Zenon
  <2> QED BY <2>1, <2>3
<1> QED BY <1>4

\* Induction over the natural numbers, for sets.
LEMMA SetInduction ==
  ASSUME NEW T, T \subseteq Nat, 0 \in T, \A n \in T : n + 1 \in T
  PROVE  \A n \in Nat : n \in T
<1>1. SUFFICES ASSUME NEW m \in Nat, m \notin T PROVE FALSE
  OBVIOUS
<1> DEFINE U == Nat \ T
<1>2. U \subseteq Nat /\ U # {}
  BY <1>1
<1> HIDE DEF U
<1>3. PICK x \in U : \A y \in U : x <= y
  BY <1>2, LeastElement
<1>4. x \in Nat /\ x \notin T /\ x # 0
  BY <1>3 DEF U
<1>5. x - 1 \in Nat /\ x - 1 \notin U
  BY <1>2, <1>3, <1>4
<1>6. x - 1 \in T
  BY <1>5 DEF U
<1>7. x - 1 + 1 = x
  BY <1>4
<1> QED BY <1>4, <1>6, <1>7

\* The recursion in List has a solution.
LEMMA ListExists ==
  List = [k \in 0 .. FRAMES |->
            IF k = 0 THEN frame_list
            ELSE IF List[k-1] = NULL THEN NULL ELSE next[List[k-1]]]
<1> DEFINE Step(f, k) == IF k = 0 THEN frame_list
                         ELSE IF f[k-1] = NULL THEN NULL ELSE next[f[k-1]]
           T == {n \in Nat : \E f : f = [k \in 0 .. n |-> Step(f, k)]}
<1>1. 0 \in T
  <2> DEFINE f == [k \in 0 .. 0 |-> frame_list]
  <2>1. f = [k \in 0 .. 0 |-> Step(f, k)]
    OBVIOUS
  <2> QED BY <2>1
<1>2. ASSUME NEW n \in T PROVE n + 1 \in T
  <2>1. n \in Nat
    BY <1>2
  <2>2. PICK f : f = [k \in 0 .. n |-> Step(f, k)]
    BY <1>2
  <2> DEFINE g == [k \in 0 .. n + 1 |-> IF k = n + 1 THEN Step(f, n + 1) ELSE f[k]]
  <2>3. ASSUME NEW k \in 0 .. n + 1 PROVE g[k] = Step(g, k)
    <3>1. CASE k = 0
      BY <2>1, <2>2, <3>1
    <3>2. CASE k # 0
      <4>1. k - 1 \in 0 .. n /\ k - 1 \in 0 .. n + 1 /\ k - 1 # n + 1
        BY <2>1, <3>2
      <4>2. g[k-1] = f[k-1]
        BY <4>1
      <4>3. CASE k = n + 1
        BY <4>2, <4>3, <2>1
      <4>4. CASE k # n + 1
        <5>1. k \in 0 .. n
          BY <2>1, <4>4
        <5>2. g[k] = f[k] /\ f[k] = Step(f, k)
          BY <2>2, <4>4, <5>1
        <5> QED BY <4>2, <5>2
      <4> QED BY <4>3, <4>4
    <3> QED BY <3>1, <3>2
  <2>4. g = [k \in 0 .. n + 1 |-> Step(g, k)]
    BY <2>3
  <2>5. \E h : h = [k \in 0 .. n + 1 |-> Step(h, k)]
    BY <2>4
  <2> QED BY <2>1, <2>5
<1>3. T \subseteq Nat
  OBVIOUS
<1> HIDE DEF T
<1>4. FRAMES \in T
  BY <1>1, <1>2, <1>3, SetInduction, MemoryAssumption
<1>5. \E f : f = [k \in 0 .. FRAMES |-> Step(f, k)]
  BY <1>4 DEF T
<1> QED BY <1>5 DEF List

\* The k-th frame of the list is the one of rank TopRank - k, up to the end.
LEMMA ListShape ==
  ASSUME TypeOK, Ranked
  PROVE  \A k \in 0 .. FRAMES :
           IF k < TopRank THEN List[k] \in free /\ rank[List[k]] = TopRank - k
                          ELSE List[k] = NULL
<1> DEFINE P(k) == IF k < TopRank THEN List[k] \in free /\ rank[List[k]] = TopRank - k
                                  ELSE List[k] = NULL
           T == {n \in Nat : n <= FRAMES => P(n)}
<1>1. TopRank \in Nat /\ (TopRank = 0 <=> frame_list = NULL)
  BY DEF TopRank, Ranked, TypeOK
<1>2. List[0] = frame_list
  BY ListExists, MemoryAssumption
<1>3. \A k \in 1 .. FRAMES : List[k] = IF List[k-1] = NULL THEN NULL ELSE next[List[k-1]]
  BY ListExists, MemoryAssumption
<1>4. \A f \in free : f # NULL
  BY MemoryAssumption DEF TypeOK, Frame, NULL
<1>5. 0 \in T
  BY <1>1, <1>2 DEF Ranked, TopRank
<1>6. ASSUME NEW n \in T PROVE n + 1 \in T
  <2> SUFFICES ASSUME n + 1 <= FRAMES PROVE P(n + 1)
    BY <1>6
  <2>1. n \in Nat /\ P(n)
    BY <1>6, MemoryAssumption
  <2>2. n + 1 \in 1 .. FRAMES /\ n + 1 - 1 = n
    BY <2>1, MemoryAssumption
  <2>3. List[n + 1] = IF List[n] = NULL THEN NULL ELSE next[List[n]]
    BY <2>2, <1>3
  <2>4. CASE n >= TopRank
    BY <2>1, <2>3, <2>4, <1>1
  <2>5. CASE n < TopRank
    <3> DEFINE f == List[n]
    <3>1. f \in free /\ rank[f] = TopRank - n /\ f # NULL
      BY <2>1, <2>5, <1>4
    <3>2. IF rank[f] = 1 THEN next[f] = NULL
          ELSE next[f] \in free /\ rank[next[f]] = rank[f] - 1
      BY <3>1 DEF Ranked
    <3>3. List[n + 1] = next[f]
      BY <2>3, <3>1
    <3> HIDE DEF f
    <3> QED BY <3>1, <3>2, <3>3, <2>1, <2>5, <1>1
  <2> QED BY <2>1, <2>4, <2>5, <1>1
<1>7. T \subseteq Nat
  OBVIOUS
<1> HIDE DEF T
<1>8. \A n \in Nat : n \in T
  BY <1>5, <1>6, <1>7, SetInduction
<1> QED BY <1>8, MemoryAssumption DEF T

\* The list has at most as many entries as there are frames: with more, two of
\* the first FRAMES + 1 would be the same frame, at two ranks.
LEMMA ListShort ==
  ASSUME TypeOK, Ranked
  PROVE  TopRank <= FRAMES
<1> SUFFICES ASSUME TopRank > FRAMES PROVE FALSE
  BY MemoryAssumption DEF TopRank, TypeOK
<1>1. TopRank \in Nat
  BY DEF TopRank, TypeOK
<1>2. \A k \in 0 .. FRAMES : List[k] \in free /\ rank[List[k]] = TopRank - k
  BY <1>1, ListShape, MemoryAssumption
<1> DEFINE f == [k \in 0 .. FRAMES |-> List[k]]
<1>3. f \in [0 .. FRAMES -> Frame]
  BY <1>2 DEF TypeOK
<1>4. /\ IsFiniteSet(0 .. FRAMES) /\ Cardinality(0 .. FRAMES) = FRAMES + 1
      /\ IsFiniteSet(Frame) /\ Cardinality(Frame) = FRAMES
  <2>1. IsFiniteSet(0 .. FRAMES) /\ Cardinality(0 .. FRAMES) = FRAMES + 1
    BY FS_Interval, MemoryAssumption
  <2>2. IsFiniteSet(0 .. FRAMES - 1) /\ Cardinality(0 .. FRAMES - 1) = FRAMES
    <3> DEFINE m == FRAMES - 1
    <3>1. m \in Int /\ 0 \in Int /\ FRAMES = IF 0 > m THEN 0 ELSE m - 0 + 1
      BY MemoryAssumption
    <3> HIDE DEF m
    <3>2. IsFiniteSet(0 .. m) /\ Cardinality(0 .. m) = FRAMES
      BY <3>1, FS_Interval
    <3> QED BY <3>2 DEF m
  <2> QED BY <2>1, <2>2 DEF Frame
<1> HIDE DEF f
<1>5. PICK x \in 0 .. FRAMES, y \in 0 .. FRAMES : x # y /\ f[x] = f[y]
  <2>1. Cardinality(Frame) < Cardinality(0 .. FRAMES)
    BY <1>4, MemoryAssumption
  <2> QED BY <2>1, <1>3, <1>4, FS_PigeonHole
<1>6. List[x] = List[y]
  BY <1>5 DEF f
<1> QED BY <1>1, <1>2, <1>5, <1>6, MemoryAssumption

\* The pointers from frame_list lead through exactly the free frames and then
\* end, for every size of memory and every sequence of calls: free_frame's walk
\* terminates and misses no frame, and alloc_frame can reach every free one.
THEOREM FreeListExact == Spec => []ListIsFree
<1>1. ASSUME IndInv PROVE ListIsFree
  <2> USE DEF IndInv
  <2>1. TopRank \in Nat /\ TopRank <= FRAMES
    BY <1>1, ListShort DEF TopRank, TypeOK
  <2>2. \A k \in 0 .. FRAMES :
           IF k < TopRank THEN List[k] \in free /\ rank[List[k]] = TopRank - k
                          ELSE List[k] = NULL
    BY <1>1, ListShape
  <2>3. List[FRAMES] = NULL
    BY <2>1, <2>2, MemoryAssumption
  <2>4. \A f \in free : f # NULL
    BY <1>1, MemoryAssumption DEF TypeOK, Frame, NULL
  <2>5. ASSUME NEW f \in free PROVE \E k \in 0 .. FRAMES : List[k] = f
    <3> DEFINE k == TopRank - rank[f]
    <3>1. rank[f] \in 1 .. TopRank
      BY <1>1 DEF Ranked
    <3>2. k \in 0 .. FRAMES /\ k < TopRank /\ TopRank - k = rank[f]
      BY <2>1, <3>1, MemoryAssumption
    <3> HIDE DEF k
    <3>3. List[k] \in free /\ rank[List[k]] = rank[f]
      BY <2>2, <3>2
    <3>4. List[k] = f
      BY <1>1, <3>3 DEF Ranked
    <3> QED BY <3>2, <3>4
  <2>6. {List[k] : k \in 0 .. FRAMES} \ {NULL} = free
    BY <2>1, <2>2, <2>4, <2>5
  <2>7. \A f \in free : addr[f] = AddressOf(f)
    BY <1>1 DEF Ranked
  <2> QED BY <2>3, <2>6, <2>7 DEF ListIsFree
<1> QED BY <1>1, Invariance, PTL
=============================================================================
