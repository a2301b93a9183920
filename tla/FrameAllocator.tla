--------------------------- MODULE FrameAllocator ---------------------------
(***************************************************************************)
(* The allocator of section-sized frames (mmu.c): an array of nodes linked *)
(* into a list of free frames.  A frame is its index in the array.  The    *)
(* callers may pass free_frame any address: not aligned, outside the       *)
(* memory, free already, or never allocated.                               *)
(***************************************************************************)
EXTENDS Integers

CONSTANTS MEM_PHYS_BASE, MEM_SECTION_SIZE,
          FRAMES,                    \* MEM_PHYS_SIZE / MEM_SECTION_SIZE
          MEM_BOOT_PAGE_TABLE_BASE,
          mapped_sections,           \* of the boot loader's header
          Address                    \* addresses passed to free_frame

ASSUME MemoryAssumption ==
  /\ MEM_SECTION_SIZE \in Nat \ {0} /\ MEM_PHYS_BASE \in Nat \ {0}
  /\ MEM_PHYS_BASE % MEM_SECTION_SIZE = 0
  /\ FRAMES \in Nat
ASSUME HeaderAssumption == mapped_sections \in 0 .. FRAMES
ASSUME AddressAssumption == MEM_BOOT_PAGE_TABLE_BASE \in Nat /\ Address \subseteq Nat

Frame == 0 .. FRAMES - 1
NULL == -1
AddressOf(f) == MEM_PHYS_BASE + f * MEM_SECTION_SIZE
FrameOf(a) == (a - MEM_PHYS_BASE) \div MEM_SECTION_SIZE

VARIABLES
  addr, next, frame_list,  \* frames[].addr, frames[].next and the list head
  pc,                      \* "init", "idle" or "walk" (in free_frame)
  i,                       \* of init_frame_allocator
  current, arg,            \* of free_frame
  held,                    \* history: addresses given out and not freed since
  misfreed,                \* history: reserved frames a caller has freed
  free, rank               \* history: frames on the list; distance from its end

nodes == <<addr, next, frame_list>>
vars == <<nodes, pc, i, current, arg, held, misfreed, free, rank>>

\* frames and frame_list are .bss.
Init ==
  /\ addr = [f \in Frame |-> 0] /\ next = [f \in Frame |-> NULL]
  /\ frame_list = NULL
  /\ pc = "init" /\ i = mapped_sections
  /\ current = NULL /\ arg = 0
  /\ held = {} /\ misfreed = {} /\ free = {} /\ rank = [f \in Frame |-> 0]

-----------------------------------------------------------------------------
TopRank == IF frame_list = NULL THEN 0 ELSE rank[frame_list]

\* Mutant: the new node is the end of the list.
PushLosesRest(f, a) ==
  /\ addr' = [addr EXCEPT ![f] = a]
  /\ next' = [next EXCEPT ![f] = NULL]
  /\ frame_list' = f
  /\ free' = free \union {f}
  /\ rank' = [rank EXCEPT ![f] = TopRank + 1]

\* The three assignments that put a frame in front of the list.
Push(f, a) ==
  /\ addr' = [addr EXCEPT ![f] = a]
  /\ next' = [next EXCEPT ![f] = frame_list]
  /\ frame_list' = f
  /\ free' = free \union {f}
  /\ rank' = [rank EXCEPT ![f] = TopRank + 1]

\* Mutant: break for continue at the page table.
InitBreaks ==
  /\ pc = "init" /\ i < FRAMES
  /\ IF AddressOf(i) = MEM_BOOT_PAGE_TABLE_BASE
     THEN i' = FRAMES /\ UNCHANGED <<nodes, free, rank>>
     ELSE i' = i + 1 /\ Push(i, AddressOf(i))
  /\ UNCHANGED <<pc, current, arg, held, misfreed>>

\* One round of the loop of init_frame_allocator.
init_frame_allocator ==
  /\ pc = "init" /\ i < FRAMES
  /\ IF AddressOf(i) = MEM_BOOT_PAGE_TABLE_BASE
     THEN UNCHANGED <<nodes, free, rank>>
     ELSE Push(i, AddressOf(i))
  /\ i' = i + 1
  /\ UNCHANGED <<pc, current, arg, held, misfreed>>

\* The loop ends.
InitDone ==
  /\ pc = "init" /\ i = FRAMES
  /\ pc' = "idle"
  /\ UNCHANGED <<nodes, i, current, arg, held, misfreed, free, rank>>

\* alloc_frame: the address of the first frame of the list, or 0.
alloc_frame ==
  /\ pc = "idle"
  /\ IF frame_list = NULL THEN UNCHANGED <<frame_list, held, free>>
     ELSE /\ frame_list' = next[frame_list]
          /\ held' = held \union {addr[frame_list]}
          /\ free' = free \ {frame_list}
  /\ UNCHANGED <<addr, next, pc, i, current, arg, misfreed, rank>>

\* The two checks at the start of free_frame.
Rejects(a) ==
  \/ a % MEM_SECTION_SIZE # 0
  \/ a < MEM_PHYS_BASE
  \/ a >= MEM_PHYS_BASE + FRAMES * MEM_SECTION_SIZE

FreeBegin(a) ==
  /\ pc = "idle"
  /\ IF Rejects(a) THEN UNCHANGED <<pc, current, arg>>
     ELSE pc' = "walk" /\ current' = frame_list /\ arg' = a
  /\ UNCHANGED <<nodes, i, held, misfreed, free, rank>>

\* Mutant of the loop: the last frame of the list is not compared.
WalkStopsEarly ==
  /\ pc = "walk" /\ current # NULL
  /\ IF next[current] # NULL /\ addr[current] = arg
     THEN pc' = "idle" /\ UNCHANGED current
     ELSE current' = next[current] /\ UNCHANGED pc
  /\ UNCHANGED <<nodes, i, arg, held, misfreed, free, rank>>

\* One round of the loop that looks for the address on the list.
FreeWalk ==
  /\ pc = "walk" /\ current # NULL
  /\ IF addr[current] = arg
     THEN pc' = "idle" /\ UNCHANGED current
     ELSE current' = next[current] /\ UNCHANGED pc
  /\ UNCHANGED <<nodes, i, arg, held, misfreed, free, rank>>

\* Frames init_frame_allocator does not put on the list.
Reserved == {f \in Frame : f < mapped_sections \/ AddressOf(f) = MEM_BOOT_PAGE_TABLE_BASE}

\* The rest of free_frame.
FreePush ==
  /\ pc = "walk" /\ current = NULL
  /\ Push(FrameOf(arg), arg)
  /\ held' = held \ {arg}
  /\ misfreed' = misfreed \union ({FrameOf(arg)} \intersect Reserved)
  /\ pc' = "idle"
  /\ UNCHANGED <<i, current, arg>>

free_frame == (\E a \in Address : FreeBegin(a)) \/ FreeWalk \/ FreePush

Next == init_frame_allocator \/ InitDone \/ alloc_frame \/ free_frame

Spec == Init /\ [][Next]_vars

-----------------------------------------------------------------------------
TypeOK ==
  /\ addr \in [Frame -> Nat] /\ next \in [Frame -> Frame \union {NULL}]
  /\ frame_list \in Frame \union {NULL}
  /\ pc \in {"init", "idle", "walk"} /\ i \in 0 .. FRAMES
  /\ current \in Frame \union {NULL} /\ arg \in Nat
  /\ held \subseteq Nat /\ misfreed \subseteq Reserved
  /\ free \subseteq Frame /\ rank \in [Frame -> Nat]

\* The frame alloc_frame gives out next has not been given out already: an
\* address is never given to a second caller before somebody freed it, whatever
\* the callers pass to free_frame.
NeverTwice == frame_list # NULL => addr[frame_list] \notin held

\* The sections of the kernel and the page table of the boot loader are never
\* given out unless a caller has freed them.
ReservedKept == \A f \in Reserved \ misfreed : AddressOf(f) \notin held

\* Nothing leaks: once initialised, a frame that is not reserved is on the list
\* or held by a caller.
NoLeak == pc # "init" => \A f \in Frame \ Reserved : f \in free \/ AddressOf(f) \in held

\* The list, found by following the pointers from frame_list.
List[k \in 0 .. FRAMES] ==
  IF k = 0 THEN frame_list
  ELSE IF List[k-1] = NULL THEN NULL ELSE next[List[k-1]]

\* The list consists of the free frames, each with its own address, and it ends,
\* so that the walk of free_frame does too, whatever was freed in which order.
ListIsFree ==
  /\ {List[k] : k \in 0 .. FRAMES} \ {NULL} = free
  /\ List[FRAMES] = NULL
  /\ \A f \in free : addr[f] = AddressOf(f)

-----------------------------------------------------------------------------
(* The inductive invariant.                                                *)

\* Ranks count down along the list to 1 at its end, so it has no cycle.
Ranked ==
  /\ frame_list = NULL => free = {}
  /\ frame_list # NULL => frame_list \in free
  /\ \A f \in free :
       /\ addr[f] = AddressOf(f)
       /\ rank[f] \in 1 .. TopRank
       /\ IF rank[f] = 1 THEN next[f] = NULL
          ELSE next[f] \in free /\ rank[next[f]] = rank[f] - 1
  /\ \A f, g \in free : rank[f] = rank[g] => f = g

\* What is free is not held, and reserved only if a caller freed it.
Disjoint ==
  /\ \A f \in free : AddressOf(f) \notin held
  /\ free \intersect Reserved \subseteq misfreed
  /\ ReservedKept

\* init_frame_allocator has done the frames below i.
Built ==
  /\ pc = "init" => /\ i >= mapped_sections
                    /\ held = {} /\ misfreed = {}
                    /\ free = {f \in Frame : f < i} \ Reserved
  /\ NoLeak

\* The walk has passed the frames of higher rank and found none to be arg.
Walked ==
  pc = "walk" =>
    /\ ~Rejects(arg)
    /\ current # NULL => current \in free
    /\ \A f \in free : (current = NULL \/ rank[f] > rank[current]) => AddressOf(f) # arg

IndInv == TypeOK /\ Ranked /\ Disjoint /\ Built /\ Walked
=============================================================================
