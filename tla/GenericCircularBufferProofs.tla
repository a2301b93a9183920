-------------------- MODULE GenericCircularBufferProofs --------------------
(***************************************************************************)
(* What push and pop do to the sequence a ring represents, for every       *)
(* buffer size and every element type.                                     *)
(***************************************************************************)
EXTENDS GenericCircularBuffer, Functions, SequenceTheorems, TLAPS

\* Index arithmetic: % on the values that occur is at most one subtraction.
LEMMA ModOnce ==
  ASSUME NEW N \in Nat \ {0}, NEW a \in Nat, a < N + N
  PROVE  /\ a % N = IF a < N THEN a ELSE a - N
         /\ a % N \in 0 .. N - 1
<1>1. CASE a < N
  BY <1>1
<1>2. CASE a >= N
  <2>1. a - N \in 0 .. N - 1
    BY <1>2
  <2>2. a % N = (a - N) % N
    BY <1>2
  <2> QED BY <1>2, <2>1, <2>2
<1> QED BY <1>1, <1>2

LEMMA ContentsSeq ==
  ASSUME NEW D, NEW b \in Ring(D)
  PROVE  /\ Contents(b) \in Seq(D)
         /\ Len(Contents(b)) = b.size
         /\ \A k \in 1 .. b.size :
               Contents(b)[k] = b.buffer[(b.head + k - 1) % GENERIC_BUFFER_SIZE]
<1>1. \A k \in 1 .. b.size : (b.head + k - 1) % GENERIC_BUFFER_SIZE \in Index
  <2> SUFFICES ASSUME NEW k \in 1 .. b.size
               PROVE  (b.head + k - 1) % GENERIC_BUFFER_SIZE \in Index
    OBVIOUS
  <2>1. b.head + k - 1 \in Nat /\ b.head + k - 1 < GENERIC_BUFFER_SIZE + GENERIC_BUFFER_SIZE
    BY BufferSizeAssumption DEF Ring, Index
  <2> QED BY <2>1, ModOnce, BufferSizeAssumption DEF Index
<1>2. b.size \in Nat /\ b.buffer \in [Index -> D]
  BY BufferSizeAssumption DEF Ring
<1>3. Contents(b) \in [1 .. b.size -> D]
  BY <1>1, <1>2 DEF Contents
<1>4. /\ Contents(b) \in Seq(D)
      /\ Len(Contents(b)) = b.size
  BY <1>2, <1>3
<1>5. ASSUME NEW k \in 1 .. b.size
      PROVE  Contents(b)[k] = b.buffer[(b.head + k - 1) % GENERIC_BUFFER_SIZE]
  BY DEF Contents
<1> QED BY <1>4, <1>5

\* A push on a ring with room appends to the sequence the ring represents.
THEOREM PushAppends ==
  ASSUME NEW D, NEW b \in Ring(D), NEW d \in D,
         RingConsistent(b), PushSucceeds(b)
  PROVE  /\ generic_circular_buffer_push(b, d) \in Ring(D)
         /\ RingConsistent(generic_circular_buffer_push(b, d))
         /\ Contents(generic_circular_buffer_push(b, d)) = Append(Contents(b), d)
<1> DEFINE N == GENERIC_BUFFER_SIZE
           c == generic_circular_buffer_push(b, d)
<1>0. N \in Nat \ {0}
  BY BufferSizeAssumption
<1>1. /\ b.head \in 0 .. N - 1 /\ b.tail \in 0 .. N - 1
      /\ b.size \in 0 .. N - 1 /\ b.buffer \in [Index -> D]
  BY <1>0 DEF Ring, Index, PushSucceeds
<1>2. /\ c.buffer = [b.buffer EXCEPT ![b.tail] = d]
      /\ c.head = b.head
      /\ c.tail = (b.tail + 1) % N
      /\ c.size = b.size + 1
      /\ c = [buffer |-> c.buffer, head |-> c.head, tail |-> c.tail, size |-> c.size]
  BY DEF generic_circular_buffer_push, Ring
<1>3. /\ (b.tail + 1) % N \in 0 .. N - 1
      /\ (b.tail + 1) % N = IF b.tail + 1 < N THEN b.tail + 1 ELSE b.tail + 1 - N
  BY <1>0, <1>1, ModOnce
<1>t. b.tail = IF b.head + b.size < N THEN b.head + b.size ELSE b.head + b.size - N
  <2> DEFINE e == b.head + b.size
  <2>1. b.tail = e % N
    BY DEF RingConsistent
  <2>2. e \in Nat /\ e < N + N
    BY <1>0, <1>1
  <2>3. e % N = IF e < N THEN e ELSE e - N
    <3> HIDE DEF N, e
    <3> QED BY <1>0, <2>2, ModOnce
  <2> QED BY <1>0, <1>1, <2>1, <2>2, <2>3
<1>4. c \in Ring(D)
  <2>1. c.buffer \in [Index -> D]
    BY <1>1, <1>2
  <2>2. c.head \in Index /\ c.tail \in Index /\ c.size \in 0 .. N
    BY <1>0, <1>1, <1>2, <1>3 DEF Index
  <2> HIDE DEF c
  <2> QED BY <1>2, <2>1, <2>2 DEF Ring
<1>5. RingConsistent(c)
  <2> DEFINE e == b.head + b.size + 1
  <2>1. e \in Nat /\ e < N + N /\ e = c.head + c.size
    BY <1>0, <1>1, <1>2
  <2>2. e % N = IF e < N THEN e ELSE e - N
    <3> HIDE DEF N, e
    <3> QED BY <1>0, <2>1, ModOnce
  <2>3. c.tail = e % N
    <3> HIDE DEF N, c
    <3> QED BY <1>0, <1>1, <1>2, <1>3, <1>t, <2>2
  <2> QED BY <2>1, <2>3 DEF RingConsistent
<1>6. Contents(c) = Append(Contents(b), d)
  <2>1. /\ Contents(b) \in Seq(D) /\ Len(Contents(b)) = b.size
        /\ \A k \in 1 .. b.size : Contents(b)[k] = b.buffer[(b.head + k - 1) % N]
    BY ContentsSeq
  <2>2. /\ Contents(c) \in Seq(D) /\ Len(Contents(c)) = b.size + 1
        /\ \A k \in 1 .. b.size + 1 : Contents(c)[k] = c.buffer[(b.head + k - 1) % N]
    <3>1. /\ Contents(c) \in Seq(D) /\ Len(Contents(c)) = c.size
          /\ \A k \in 1 .. c.size : Contents(c)[k] = c.buffer[(c.head + k - 1) % N]
      <4> HIDE DEF c
      <4> QED BY <1>4, ContentsSeq
    <3> HIDE DEF c, N
    <3> QED BY <1>2, <3>1
  <2>3. \A k \in 1 .. b.size : (b.head + k - 1) % N \in Index /\ (b.head + k - 1) % N # b.tail
    <3> SUFFICES ASSUME NEW k \in 1 .. b.size
                 PROVE  (b.head + k - 1) % N \in Index /\ (b.head + k - 1) % N # b.tail
      OBVIOUS
    <3> DEFINE e == b.head + k - 1
    <3>1. e \in Nat /\ e < N + N
      BY <1>0, <1>1
    <3>2. e % N \in 0 .. N - 1 /\ e % N = IF e < N THEN e ELSE e - N
      <4> HIDE DEF N, e
      <4> QED BY <1>0, <3>1, ModOnce
    <3>3. e % N # b.tail
      <4> DEFINE m == e % N
      <4>1. m = IF e < N THEN e ELSE e - N
        BY <3>2
      <4> HIDE DEF N, m
      <4> QED BY <1>0, <1>1, <1>t, <4>1 DEF m
    <3> QED BY <3>2, <3>3 DEF Index
  <2>4. \A k \in 1 .. b.size : Contents(c)[k] = Contents(b)[k]
    <3> SUFFICES ASSUME NEW k \in 1 .. b.size
                 PROVE  Contents(c)[k] = Contents(b)[k]
      OBVIOUS
    <3>1. k \in 1 .. b.size + 1
      BY <1>1
    <3>2. Contents(c)[k] = c.buffer[(b.head + k - 1) % N]
      BY <2>2, <3>1
    <3>3. c.buffer[(b.head + k - 1) % N] = b.buffer[(b.head + k - 1) % N]
      BY <1>1, <1>2, <2>3
    <3> QED BY <2>1, <3>2, <3>3
  <2>5. Contents(c)[b.size + 1] = d
    <3>1. (b.head + (b.size + 1) - 1) % N = b.tail
      BY <1>0, <1>1 DEF RingConsistent
    <3>2. b.tail \in Index
      BY <1>1 DEF Index
    <3> QED BY <1>1, <1>2, <2>2, <3>1, <3>2
  <2> HIDE DEF c, N
  <2> QED BY <1>1, <2>1, <2>2, <2>4, <2>5
<1> QED BY <1>4, <1>5, <1>6

\* A pop from a ring that is not empty returns the oldest element and removes
\* exactly that one.
THEOREM PopTakesOldest ==
  ASSUME NEW D, NEW b \in Ring(D), RingConsistent(b), PopSucceeds(b)
  PROVE  /\ generic_circular_buffer_pop(b) \in Ring(D)
         /\ RingConsistent(generic_circular_buffer_pop(b))
         /\ Contents(b) # << >>
         /\ Popped(b) = Head(Contents(b))
         /\ Popped(b) \in D
         /\ Contents(generic_circular_buffer_pop(b)) = Tail(Contents(b))
<1> DEFINE N == GENERIC_BUFFER_SIZE
           c == generic_circular_buffer_pop(b)
<1>0. N \in Nat \ {0}
  BY BufferSizeAssumption
<1>1. /\ b.head \in 0 .. N - 1 /\ b.tail \in 0 .. N - 1
      /\ b.size \in 1 .. N /\ b.buffer \in [Index -> D]
  BY <1>0 DEF Ring, Index, PopSucceeds
<1>2. /\ c.buffer = b.buffer
      /\ c.head = (b.head + 1) % N
      /\ c.tail = b.tail
      /\ c.size = b.size - 1
      /\ c = [buffer |-> c.buffer, head |-> c.head, tail |-> c.tail, size |-> c.size]
  BY DEF generic_circular_buffer_pop, Ring
<1>3. /\ (b.head + 1) % N \in 0 .. N - 1
      /\ (b.head + 1) % N = IF b.head + 1 < N THEN b.head + 1 ELSE b.head + 1 - N
  BY <1>0, <1>1, ModOnce
<1>4. c \in Ring(D)
  BY <1>0, <1>1, <1>2, <1>3 DEF Ring, Index
<1>t. b.tail = IF b.head + b.size < N THEN b.head + b.size ELSE b.head + b.size - N
  <2> DEFINE e == b.head + b.size
  <2>1. b.tail = e % N
    BY DEF RingConsistent
  <2>2. e \in Nat /\ e < N + N
    BY <1>0, <1>1
  <2>3. e % N = IF e < N THEN e ELSE e - N
    <3> HIDE DEF N, e
    <3> QED BY <1>0, <2>2, ModOnce
  <2> QED BY <1>0, <1>1, <2>1, <2>2, <2>3
<1>5. RingConsistent(c)
  <2> DEFINE e == c.head + c.size
  <2>1. e \in Nat /\ e < N + N
    <3> HIDE DEF c, N
    <3> QED BY <1>0, <1>1, <1>2, <1>3
  <2>2. e % N = IF e < N THEN e ELSE e - N
    <3> HIDE DEF N, e
    <3> QED BY <1>0, <2>1, ModOnce
  <2>3. b.tail = e % N
    <3> DEFINE m == e % N
               h == (b.head + 1) % N
    <3>1. h = IF b.head + 1 < N THEN b.head + 1 ELSE b.head + 1 - N
      BY <1>3
    <3>2. e = h + (b.size - 1)
      BY <1>2
    <3>3. m = IF e < N THEN e ELSE e - N
      BY <2>2
    <3> HIDE DEF N, e, m, h
    <3>4. b.tail = m
      BY <1>0, <1>1, <1>t, <3>1, <3>2, <3>3
    <3> QED BY <3>4 DEF m
  <2> QED BY <1>2, <2>3 DEF RingConsistent
<1>6. /\ Contents(b) \in Seq(D) /\ Len(Contents(b)) = b.size
      /\ \A k \in 1 .. b.size : Contents(b)[k] = b.buffer[(b.head + k - 1) % N]
  BY ContentsSeq
<1>7. Contents(b) # << >> /\ Popped(b) = Head(Contents(b)) /\ Popped(b) \in D
  <2>1. (b.head + 1 - 1) % N = b.head
    <3>1. b.head + 1 - 1 = b.head /\ b.head \in Nat /\ b.head < N
      BY <1>0, <1>1
    <3> HIDE DEF N
    <3> QED BY <1>0, <3>1
  <2>2. Contents(b)[1] = b.buffer[b.head]
    BY <1>1, <1>6, <2>1
  <2>3. b.buffer[b.head] \in D
    BY <1>1 DEF Index
  <2> QED BY <1>1, <1>6, <2>2, <2>3 DEF Popped
<1>8. Contents(c) = Tail(Contents(b))
  <2>1. /\ Contents(c) \in Seq(D) /\ Len(Contents(c)) = b.size - 1
        /\ \A k \in 1 .. b.size - 1 : Contents(c)[k] = b.buffer[(c.head + k - 1) % N]
    <3>1. /\ Contents(c) \in Seq(D) /\ Len(Contents(c)) = c.size
          /\ \A k \in 1 .. c.size : Contents(c)[k] = c.buffer[(c.head + k - 1) % N]
      <4> HIDE DEF c
      <4> QED BY <1>4, ContentsSeq
    <3> HIDE DEF c, N
    <3> QED BY <1>2, <3>1
  <2>2. \A k \in 1 .. b.size - 1 : (c.head + k - 1) % N = (b.head + (k + 1) - 1) % N
    <3> SUFFICES ASSUME NEW k \in 1 .. b.size - 1
                 PROVE  (c.head + k - 1) % N = (b.head + (k + 1) - 1) % N
      OBVIOUS
    <3> DEFINE e == c.head + k - 1
               f == b.head + (k + 1) - 1
               h == (b.head + 1) % N
    <3>0. h = IF b.head + 1 < N THEN b.head + 1 ELSE b.head + 1 - N
      BY <1>3
    <3>1. /\ e = h + k - 1 /\ f = b.head + k
          /\ h \in 0 .. N - 1
      BY <1>0, <1>1, <1>2, <1>3
    <3> HIDE DEF N, e, f, h
    <3>2. /\ e \in Nat /\ e < N + N
          /\ f \in Nat /\ f < N + N
      BY <1>0, <1>1, <3>1
    <3>3. /\ e % N = IF e < N THEN e ELSE e - N
          /\ f % N = IF f < N THEN f ELSE f - N
      BY <1>0, <3>2, ModOnce
    <3>4. (IF e < N THEN e ELSE e - N) = IF f < N THEN f ELSE f - N
      BY <1>0, <1>1, <3>0, <3>1
    <3>5. e % N = f % N
      BY <3>3, <3>4
    <3> QED BY <3>5 DEF e, f
  <2>3. \A k \in 1 .. b.size - 1 : Contents(c)[k] = Contents(b)[k + 1]
    <3> SUFFICES ASSUME NEW k \in 1 .. b.size - 1
                 PROVE  Contents(c)[k] = Contents(b)[k + 1]
      OBVIOUS
    <3>1. k + 1 \in 1 .. b.size
      BY <1>1
    <3> QED BY <1>6, <2>1, <2>2, <3>1
  <2> HIDE DEF c, N
  <2> QED BY <1>1, <1>6, <2>1, <2>3
<1> QED BY <1>4, <1>5, <1>7, <1>8

-----------------------------------------------------------------------------
(* The same, for rings without repetition seen as sets.                    *)

\* Append of a new element, seen as a set and as an order.
LEMMA AppendRange ==
  ASSUME NEW S, NEW s \in Seq(S), NEW x \in S, IsInjective(s), x \notin Range(s)
  PROVE  /\ IsInjective(Append(s, x))
         /\ Range(Append(s, x)) = Range(s) \cup {x}
<1> DEFINE t == Append(s, x)
<1>1. /\ Len(s) \in Nat /\ DOMAIN s = 1 .. Len(s)
      /\ t \in Seq(S) /\ DOMAIN t = 1 .. Len(s) + 1
      /\ \A k \in 1 .. Len(s) : t[k] = s[k]
      /\ t[Len(s) + 1] = x
  BY LenProperties, AppendProperties
<1> HIDE DEF t
<1>2. \A k \in 1 .. Len(s) : s[k] # x
  BY <1>1 DEF Range
<1>3. IsInjective(t)
  BY <1>1, <1>2 DEF IsInjective
<1>4. Range(t) = Range(s) \cup {x}
  BY <1>1 DEF Range
<1> QED BY <1>3, <1>4 DEF t

\* Tail removes exactly the head from a sequence without repetition.
LEMMA TailRange ==
  ASSUME NEW S, NEW s \in Seq(S), s # << >>, IsInjective(s)
  PROVE  /\ IsInjective(Tail(s))
         /\ Range(Tail(s)) = Range(s) \ {Head(s)}
         /\ Head(s) \in Range(s)
<1> DEFINE t == Tail(s)
<1>1. /\ Len(s) \in Nat /\ Len(s) > 0 /\ DOMAIN s = 1 .. Len(s)
      /\ t \in Seq(S) /\ DOMAIN t = 1 .. Len(s) - 1
      /\ \A k \in 1 .. Len(s) - 1 : t[k] = s[k + 1]
      /\ Head(s) = s[1]
  BY LenProperties, HeadTailProperties
<1> HIDE DEF t
<1>2. IsInjective(t)
  <2> SUFFICES ASSUME NEW a \in 1 .. Len(s) - 1, NEW b \in 1 .. Len(s) - 1, t[a] = t[b]
               PROVE  a = b
    BY <1>1 DEF IsInjective
  <2>1. a + 1 \in DOMAIN s /\ b + 1 \in DOMAIN s /\ s[a + 1] = s[b + 1]
    BY <1>1
  <2>2. a + 1 = b + 1
    BY <2>1 DEF IsInjective
  <2> QED BY <2>2
<1>3. \A k \in 1 .. Len(s) - 1 : s[k + 1] # s[1]
  BY <1>1 DEF IsInjective
<1>4. Range(t) = Range(s) \ {Head(s)}
  <2>1. ASSUME NEW y \in Range(t) PROVE y \in Range(s) \ {Head(s)}
    <3>1. PICK k \in 1 .. Len(s) - 1 : y = s[k + 1]
      BY <1>1 DEF Range
    <3>2. k + 1 \in 1 .. Len(s)
      BY <1>1
    <3> QED BY <1>1, <1>3, <3>1, <3>2 DEF Range
  <2>2. ASSUME NEW y \in Range(s) \ {Head(s)} PROVE y \in Range(t)
    <3>1. PICK k \in 1 .. Len(s) : y = s[k]
      BY <1>1 DEF Range
    <3>2. k # 1
      BY <1>1, <3>1
    <3>3. k - 1 \in 1 .. Len(s) - 1 /\ t[k - 1] = y
      BY <1>1, <3>1, <3>2
    <3> QED BY <1>1, <3>3 DEF Range
  <2> QED BY <2>1, <2>2
<1>5. Head(s) \in Range(s)
  BY <1>1 DEF Range
<1> QED BY <1>2, <1>4, <1>5 DEF t

\* A push adds the element to what the ring holds.
LEMMA PushAdds ==
  ASSUME NEW D, NEW b \in Ring(D), NEW d \in D, RingConsistent(b), PushSucceeds(b),
         IsInjective(Contents(b)), d \notin Range(Contents(b))
  PROVE  LET c == generic_circular_buffer_push(b, d) IN
         /\ c \in Ring(D) /\ RingConsistent(c)
         /\ IsInjective(Contents(c)) /\ Range(Contents(c)) = Range(Contents(b)) \cup {d}
         /\ c.size = b.size + 1
<1>1. Contents(b) \in Seq(D)
  BY ContentsSeq
<1>2. generic_circular_buffer_push(b, d).size = b.size + 1
  BY DEF generic_circular_buffer_push, Ring
<1>3. /\ generic_circular_buffer_push(b, d) \in Ring(D)
      /\ RingConsistent(generic_circular_buffer_push(b, d))
      /\ Contents(generic_circular_buffer_push(b, d)) = Append(Contents(b), d)
  BY PushAppends
<1>4. /\ IsInjective(Append(Contents(b), d))
      /\ Range(Append(Contents(b), d)) = Range(Contents(b)) \cup {d}
  BY <1>1, AppendRange
<1> QED BY <1>2, <1>3, <1>4

\* A pop takes one element out of what the ring holds.
LEMMA PopRemoves ==
  ASSUME NEW D, NEW b \in Ring(D), RingConsistent(b), PopSucceeds(b),
         IsInjective(Contents(b))
  PROVE  LET c == generic_circular_buffer_pop(b) IN
         /\ c \in Ring(D) /\ RingConsistent(c)
         /\ IsInjective(Contents(c))
         /\ Range(Contents(c)) = Range(Contents(b)) \ {Popped(b)}
         /\ Popped(b) \in Range(Contents(b))
         /\ c.size = b.size - 1
<1>1. Contents(b) \in Seq(D)
  BY ContentsSeq
<1>2. generic_circular_buffer_pop(b).size = b.size - 1
  BY DEF generic_circular_buffer_pop, Ring
<1>3. /\ generic_circular_buffer_pop(b) \in Ring(D)
      /\ RingConsistent(generic_circular_buffer_pop(b))
      /\ Contents(b) # << >> /\ Popped(b) = Head(Contents(b))
      /\ Contents(generic_circular_buffer_pop(b)) = Tail(Contents(b))
  BY PopTakesOldest
<1>4. /\ IsInjective(Tail(Contents(b)))
      /\ Range(Tail(Contents(b))) = Range(Contents(b)) \ {Head(Contents(b))}
      /\ Head(Contents(b)) \in Range(Contents(b))
  BY <1>1, <1>3, TailRange
<1> QED BY <1>2, <1>3, <1>4
=============================================================================
