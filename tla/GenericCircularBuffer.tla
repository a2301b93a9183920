----------------------- MODULE GenericCircularBuffer -----------------------
(***************************************************************************)
(* The pointer ring of common/circular_buffer.c: generic_circular_buffer_t *)
(* and its init, push and pop.  The scheduler keeps its three process      *)
(* lists (processes, free_processes, ready_queue) in such rings.           *)
(*                                                                         *)
(* A ring is a record with the fields of the C struct.  head, tail and     *)
(* size are uint16_t in C; they never exceed GENERIC_BUFFER_SIZE (512), so *)
(* no wrap of the 16-bit type is reachable and naturals are exact.         *)
(***************************************************************************)
EXTENDS Integers, Sequences

CONSTANT GENERIC_BUFFER_SIZE

ASSUME BufferSizeAssumption == GENERIC_BUFFER_SIZE \in Nat \ {0}

\* The indices of buffer[GENERIC_BUFFER_SIZE].
Index == 0 .. GENERIC_BUFFER_SIZE - 1

\* All values a ring over the elements in Data can have.
Ring(Data) == [buffer : [Index -> Data],
               head   : Index,
               tail   : Index,
               size   : 0 .. GENERIC_BUFFER_SIZE]

\* A ring in .bss, before generic_circular_buffer_init: all fields are zero.
BssRing(null) == [buffer |-> [k \in Index |-> null],
                  head |-> 0, tail |-> 0, size |-> 0]

\* init resets the indices and leaves the slots as they are.
generic_circular_buffer_init(b) ==
  [b EXCEPT !.head = 0, !.tail = 0, !.size = 0]

\* The bool that push returns.
PushSucceeds(b) == b.size # GENERIC_BUFFER_SIZE

\* Mutant of push: the full check is gone, so a full ring is overwritten.
PushUnchecked(b, data) ==
  [b EXCEPT !.buffer[b.tail] = data,
            !.tail = (b.tail + 1) % GENERIC_BUFFER_SIZE,
            !.size = b.size + 1]

\* The ring after push: unchanged when it is full.
generic_circular_buffer_push(b, data) ==
  IF PushSucceeds(b)
  THEN [b EXCEPT !.buffer[b.tail] = data,
                 !.tail = (b.tail + 1) % GENERIC_BUFFER_SIZE,
                 !.size = b.size + 1]
  ELSE b

\* The bool that pop returns, and the *data it stores when that is true.
PopSucceeds(b) == b.size # 0
Popped(b) == b.buffer[b.head]

\* Mutant of pop: the head index stays where it is.
PopKeepsHead(b) == IF PopSucceeds(b) THEN [b EXCEPT !.size = b.size - 1] ELSE b

\* The ring after pop: unchanged when it is empty.
generic_circular_buffer_pop(b) ==
  IF PopSucceeds(b)
  THEN [b EXCEPT !.head = (b.head + 1) % GENERIC_BUFFER_SIZE,
                 !.size = b.size - 1]
  ELSE b

-----------------------------------------------------------------------------
\* The elements in the ring, oldest first: what the ring represents.
Contents(b) ==
  [k \in 1 .. b.size |-> b.buffer[(b.head + k - 1) % GENERIC_BUFFER_SIZE]]

\* The relation between the three indices that push and pop rely on.
RingConsistent(b) == b.tail = (b.head + b.size) % GENERIC_BUFFER_SIZE
=============================================================================
