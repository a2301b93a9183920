---------------------------- MODULE SerialProofs ----------------------------
(***************************************************************************)
(* The serial line: UartRx, the receive path, for every size of the ring   *)
(* and of the reader's buffer and any number of characters; and Motor, the *)
(* process that reads commands from it, for the same sizes and any number  *)
(* of commands with any positions.                                         *)
(***************************************************************************)
EXTENDS UartRx, Motor, FiniteSetTheorems, SequenceTheorems, WellFoundedInduction, TLAPS

CBP == INSTANCE GenericCircularBufferProofs
         WITH GENERIC_BUFFER_SIZE <- CHAR_BUFFER_SIZE

-----------------------------------------------------------------------------
(* The inductive invariant.                                                *)

RxRing == [buffer : [0 .. CHAR_BUFFER_SIZE - 1 -> Char \cup {NUL}],
           head : 0 .. CHAR_BUFFER_SIZE - 1, tail : 0 .. CHAR_BUFFER_SIZE - 1,
           size : 0 .. CHAR_BUFFER_SIZE, lines : 0 .. CHAR_BUFFER_SIZE + 1]

\* A ring that holds s, with a right line count.
Rings(b, s) ==
  /\ b \in RxRing /\ CB!RingConsistent(b) /\ CB!Contents(b) = s
  /\ s \in Seq(Char) /\ b.lines = Newlines(s)

\* The ring and the characters read when the pop under way has finished.
Settled ==
  LET less == IF c = "lf" THEN rx.lines - 1 ELSE rx.lines IN
  CASE pc = "pop_head" -> [rx EXCEPT !.head = (@ + 1) % CHAR_BUFFER_SIZE,
                                     !.size = @ - 1, !.lines = less]
    [] pc = "pop_size" -> [rx EXCEPT !.size = @ - 1, !.lines = less]
    [] pc = "pop_lines" -> [rx EXCEPT !.lines = less]
    [] OTHER -> rx

Popping == {"pop_head", "pop_size", "pop_lines"}
Taken == IF pc \in Popping THEN Append(delivered, c) ELSE delivered

\* Until an interrupt tears a pop apart, nothing is lost between push and pop.
\* After that the count is at most one line too high.
Intact ==
  /\ pc # "lost" => /\ Rings(Settled, CB!Contents(Settled))
                    /\ accepted = Taken \o CB!Contents(Settled)
  /\ pc = "lost" => rx.lines <= rx.size + 1
  /\ pc \in Popping => c \in Char

\* uart_readline has a line ahead of it until it has taken the newline, and
\* room for the terminator.
Reading ==
  ~hit =>
    /\ pc \in {"call", "stored", "pop_slot"} => rx.lines # 0
    /\ pc \in Popping \cup {"got"} => c = "lf" \/ Settled.lines # 0
    /\ pc \in {"got", "stored", "end"} => r0
    /\ pc # "lost"
    /\ pc = "call" => dst = << >>
    /\ pc \in InPop \cup {"got"} => Len(dst) < READ_SIZE - 1
    /\ pc \in {"stored", "end"} => Len(dst) <= READ_SIZE - 1
    /\ pc = "end" => Last(dst) = "lf" \/ Len(dst) = READ_SIZE - 1

Inv == TypeOK /\ Intact /\ Reading

-----------------------------------------------------------------------------
(* Counting the newlines of a sequence.                                    *)

Lf(s) == {k \in DOMAIN s : s[k] = "lf"}

\* There are at most as many newlines as characters.
LEMMA NewlinesFew ==
  ASSUME NEW s \in Seq(Char)
  PROVE  IsFiniteSet(Lf(s)) /\ Newlines(s) \in Nat /\ Newlines(s) <= Len(s)
<1>1. DOMAIN s = 1 .. Len(s) /\ Len(s) \in Nat
  BY LenProperties
<1>2. IsFiniteSet(1 .. Len(s)) /\ Cardinality(1 .. Len(s)) = Len(s)
  BY <1>1, FS_Interval
<1>3. Lf(s) \in SUBSET (1 .. Len(s))
  BY <1>1 DEF Lf
<1>4. IsFiniteSet(Lf(s)) /\ Cardinality(Lf(s)) <= Len(s)
  BY <1>2, <1>3, FS_Subset
<1>5. Cardinality(Lf(s)) \in Nat
  BY <1>4, FS_CardinalityType
<1> QED BY <1>4, <1>5 DEF Newlines, Lf

\* The count after a character at the end.
LEMMA NewlinesAppend ==
  ASSUME NEW s \in Seq(Char), NEW x \in Char
  PROVE  Newlines(Append(s, x)) = Newlines(s) + IF x = "lf" THEN 1 ELSE 0
<1> DEFINE t == Append(s, x)
<1>1. /\ Len(s) \in Nat /\ DOMAIN s = 1 .. Len(s) /\ DOMAIN t = 1 .. Len(s) + 1
      /\ \A k \in 1 .. Len(s) : t[k] = s[k]
      /\ t[Len(s) + 1] = x
  BY LenProperties, AppendProperties
<1> HIDE DEF t
<1>2. IsFiniteSet(Lf(s)) /\ Cardinality(Lf(s)) \in Nat
  BY NewlinesFew DEF Newlines, Lf
<1>3. Len(s) + 1 \notin Lf(s)
  BY <1>1 DEF Lf
<1>4. CASE x = "lf"
  <2>1. Lf(t) = Lf(s) \cup {Len(s) + 1}
    BY <1>1, <1>4 DEF Lf
  <2>2. Cardinality(Lf(t)) = Cardinality(Lf(s)) + 1
    BY <1>2, <1>3, <2>1, FS_AddElement
  <2> QED BY <1>4, <2>2 DEF Newlines, Lf, t
<1>5. CASE x # "lf"
  <2>1. Lf(t) = Lf(s)
    BY <1>1, <1>5 DEF Lf
  <2>2. Newlines(t) = Newlines(s) /\ Newlines(s) \in Nat
    BY <1>2, <2>1 DEF Newlines, Lf
  <2> QED BY <1>5, <2>2 DEF t
<1> QED BY <1>4, <1>5

\* The count without the character at the front.
LEMMA NewlinesTail ==
  ASSUME NEW s \in Seq(Char), s # << >>
  PROVE  Newlines(Tail(s)) = Newlines(s) - IF Head(s) = "lf" THEN 1 ELSE 0
<1> DEFINE t == Tail(s)
           A == Lf(s) \ {1}
           f == [k \in Lf(t) |-> k + 1]
<1>1. /\ Len(s) \in Nat \ {0} /\ DOMAIN s = 1 .. Len(s) /\ DOMAIN t = 1 .. Len(s) - 1
      /\ \A k \in 1 .. Len(s) - 1 : t[k] = s[k + 1]
      /\ Head(s) = s[1] /\ t \in Seq(Char)
  BY LenProperties, HeadTailProperties, EmptySeq
<1>2. IsFiniteSet(Lf(s)) /\ Cardinality(Lf(s)) \in Nat
  BY NewlinesFew DEF Newlines, Lf
<1>3. IsFiniteSet(Lf(t))
  BY <1>1, NewlinesFew
<1> HIDE DEF t
<1>4. f \in Bijection(Lf(t), A)
  <2>1. f \in [Lf(t) -> A]
    BY <1>1 DEF Lf
  <2>2. \A a, b \in Lf(t) : f[a] = f[b] => a = b
    BY <1>1 DEF Lf
  <2>3. ASSUME NEW y \in A PROVE \E k \in Lf(t) : f[k] = y
    <3>1. y \in 2 .. Len(s) /\ s[y] = "lf"
      BY <1>1, <2>3 DEF Lf
    <3>2. y - 1 \in 1 .. Len(s) - 1 /\ y - 1 + 1 = y
      BY <1>1, <3>1
    <3>3. y - 1 \in Lf(t)
      BY <1>1, <3>1, <3>2 DEF Lf
    <3> QED BY <3>2, <3>3
  <2> QED BY <2>1, <2>2, <2>3 DEF Bijection, Injection, Surjection, IsInjective
<1>5. Cardinality(A) = Cardinality(Lf(t))
  <2>1. ExistsBijection(Lf(t), A)
    BY <1>4 DEF ExistsBijection
  <2> QED BY <1>3, <2>1, FS_Bijection
<1>6. Cardinality(A) = IF 1 \in Lf(s) THEN Cardinality(Lf(s)) - 1 ELSE Cardinality(Lf(s))
  BY <1>2, FS_RemoveElement
<1>7. 1 \in Lf(s) <=> Head(s) = "lf"
  BY <1>1 DEF Lf
<1>8. Newlines(t) = Cardinality(Lf(t)) /\ Newlines(s) = Cardinality(Lf(s))
  BY DEF Newlines, Lf
<1> QED BY <1>2, <1>5, <1>6, <1>7, <1>8 DEF t

\* Appending to a concatenation appends to its second part.
AppendsLast(s, t, x) == Append(s \o t, x) = s \o Append(t, x)

LEMMA ConcatAppend ==
  ASSUME NEW S, NEW s \in Seq(S), NEW t \in Seq(S), NEW x \in S
  PROVE  AppendsLast(s, t, x)
<1>1. s \o t \in Seq(S) /\ <<x>> \in Seq(S)
  BY ConcatProperties
<1>2. Append(s \o t, x) = (s \o t) \o <<x>> /\ Append(t, x) = t \o <<x>>
  BY <1>1, AppendIsConcat
<1>3. (s \o t) \o <<x>> = s \o (t \o <<x>>)
  BY <1>1, ConcatAssociative
<1> QED BY <1>2, <1>3 DEF AppendsLast

\* Moving the border of a concatenation by one.
Shifts(s, t) == s \o t = Append(s, Head(t)) \o Tail(t)

LEMMA ConcatShift ==
  ASSUME NEW S, NEW s \in Seq(S), NEW t \in Seq(S), t # << >>
  PROVE  Shifts(s, t)
<1>1. /\ Head(t) \in S /\ Tail(t) \in Seq(S) /\ Len(Tail(t)) = Len(t) - 1
      /\ \A k \in 1 .. Len(Tail(t)) : Tail(t)[k] = t[k + 1]
  BY HeadTailProperties
<1>2. t = <<Head(t)>> \o Tail(t)
  <2> DEFINE u == <<Head(t)>>
  <2>1. u \in Seq(S) /\ Len(u) = 1 /\ u[1] = Head(t)
    BY <1>1
  <2>2. Len(t) \in Nat \ {0} /\ Head(t) = t[1]
    BY EmptySeq
  <2> HIDE DEF u
  <2>3. /\ u \o Tail(t) \in Seq(S) /\ Len(u \o Tail(t)) = Len(t)
        /\ \A k \in 1 .. Len(t) : (u \o Tail(t))[k] = IF k <= 1 THEN u[k] ELSE Tail(t)[k - 1]
    <3> DEFINE v == Tail(t)
    <3>1. v \in Seq(S) /\ Len(v) = Len(t) - 1
      BY <1>1
    <3> HIDE DEF v
    <3>2. /\ u \o v \in Seq(S) /\ Len(u \o v) = Len(u) + Len(v)
          /\ \A k \in 1 .. Len(u) + Len(v) :
               (u \o v)[k] = IF k <= Len(u) THEN u[k] ELSE v[k - Len(u)]
      BY <2>1, <3>1, ConcatProperties
    <3>3. Len(u) + Len(v) = Len(t)
      BY <2>1, <2>2, <3>1
    <3> QED BY <2>1, <3>2, <3>3 DEF v
  <2>4. \A k \in 1 .. Len(t) : (u \o Tail(t))[k] = t[k]
    BY <1>1, <2>1, <2>2, <2>3
  <2>5. u \o Tail(t) = t
    BY <2>3, <2>4, SeqEqual
  <2> QED BY <2>5 DEF u
<1>3. <<Head(t)>> \in Seq(S)
  BY <1>1
<1>4. s \o (<<Head(t)>> \o Tail(t)) = (s \o <<Head(t)>>) \o Tail(t)
  BY <1>1, <1>3, ConcatAssociative
<1>5. s \o <<Head(t)>> = Append(s, Head(t))
  BY <1>1, AppendIsConcat
<1> QED BY <1>2, <1>4, <1>5 DEF Shifts

-----------------------------------------------------------------------------
(* The character ring is the generic ring with a line counter.             *)

Base(b) == [buffer |-> b.buffer, head |-> b.head, tail |-> b.tail, size |-> b.size]

LEMMA BaseRing ==
  ASSUME NEW b \in RxRing
  PROVE  /\ Base(b) \in CBP!Ring(Char \cup {NUL})
         /\ CBP!RingConsistent(Base(b)) <=> CB!RingConsistent(b)
         /\ CBP!Contents(Base(b)) = CB!Contents(b)
         /\ CBP!PushSucceeds(Base(b)) <=> b.size # CHAR_BUFFER_SIZE
         /\ CBP!PopSucceeds(Base(b)) <=> b.size # 0
         /\ CBP!BufferSizeAssumption
<1>1. Base(b) \in CBP!Ring(Char \cup {NUL})
  BY DEF RxRing, Base, CBP!Ring, CBP!Index
<1>2. CBP!RingConsistent(Base(b)) <=> CB!RingConsistent(b)
  BY DEF Base, CBP!RingConsistent, CB!RingConsistent
<1>3. CBP!Contents(Base(b)) = CB!Contents(b)
  BY DEF Base, CBP!Contents, CB!Contents
<1>4. /\ CBP!PushSucceeds(Base(b)) <=> b.size # CHAR_BUFFER_SIZE
      /\ CBP!PopSucceeds(Base(b)) <=> b.size # 0
  BY DEF Base, CBP!PushSucceeds, CBP!PopSucceeds
<1>5. CBP!BufferSizeAssumption
  BY CharBufferAssumption
<1> QED BY <1>1, <1>2, <1>3, <1>4, <1>5

\* The fields after a push with room.
LEMMA RxPushFields ==
  ASSUME NEW b \in RxRing, b.size # CHAR_BUFFER_SIZE, NEW ch
  PROVE  circular_char_buffer_push(b, ch) =
           [buffer |-> [b.buffer EXCEPT ![b.tail] = ch], head |-> b.head,
            tail |-> (b.tail + 1) % CHAR_BUFFER_SIZE, size |-> b.size + 1,
            lines |-> IF ch = "lf" THEN b.lines + 1 ELSE b.lines]
<1>1. CB!generic_circular_buffer_push(b, ch) =
        [b EXCEPT !.buffer[b.tail] = ch, !.tail = (b.tail + 1) % CHAR_BUFFER_SIZE,
                  !.size = b.size + 1]
  BY DEF CB!generic_circular_buffer_push, CB!PushSucceeds
<1>2. b = [buffer |-> b.buffer, head |-> b.head, tail |-> b.tail, size |-> b.size,
           lines |-> b.lines]
  BY DEF RxRing
<1> QED BY <1>1, <1>2 DEF circular_char_buffer_push

\* A push with room appends the character and counts it.
LEMMA RxPush ==
  ASSUME NEW b, NEW s, Rings(b, s), b.size # CHAR_BUFFER_SIZE, NEW ch \in Char
  PROVE  Rings(circular_char_buffer_push(b, ch), Append(s, ch))
<1> DEFINE N == CHAR_BUFFER_SIZE
           d == circular_char_buffer_push(b, ch)
           e == CBP!generic_circular_buffer_push(Base(b), ch)
           l == IF ch = "lf" THEN b.lines + 1 ELSE b.lines
<1>1. b \in RxRing /\ CB!RingConsistent(b) /\ CB!Contents(b) = s /\ s \in Seq(Char)
      /\ b.lines = Newlines(s)
  BY DEF Rings
<1>2. /\ e \in CBP!Ring(Char \cup {NUL}) /\ CBP!RingConsistent(e)
      /\ CBP!Contents(e) = Append(s, ch)
  <2>1. /\ Base(b) \in CBP!Ring(Char \cup {NUL}) /\ CBP!RingConsistent(Base(b))
        /\ CBP!Contents(Base(b)) = s /\ CBP!PushSucceeds(Base(b)) /\ CBP!BufferSizeAssumption
        /\ ch \in Char \cup {NUL}
    BY <1>1, BaseRing
  <2> QED BY <2>1, CBP!PushAppends
<1>3. d = [buffer |-> [b.buffer EXCEPT ![b.tail] = ch], head |-> b.head,
           tail |-> (b.tail + 1) % N, size |-> b.size + 1, lines |-> l]
  BY <1>1, RxPushFields
<1>4. /\ e.buffer = [b.buffer EXCEPT ![b.tail] = ch] /\ e.head = b.head
      /\ e.tail = (b.tail + 1) % N /\ e.size = b.size + 1
  BY DEF CBP!generic_circular_buffer_push, CBP!PushSucceeds, Base
<1>5. /\ d.buffer = e.buffer /\ d.head = e.head /\ d.tail = e.tail /\ d.size = e.size
      /\ d.lines = l
      /\ d = [buffer |-> d.buffer, head |-> d.head, tail |-> d.tail, size |-> d.size,
              lines |-> d.lines]
  BY <1>3, <1>4
<1>6. l = Newlines(Append(s, ch)) /\ Append(s, ch) \in Seq(Char)
  <2>1. Newlines(s) \in Nat
    BY <1>1, NewlinesFew
  <2> QED BY <1>1, <2>1, NewlinesAppend, AppendProperties
<1> HIDE DEF d, e, l
<1>7. /\ e.buffer \in [0 .. N - 1 -> Char \cup {NUL}] /\ e.head \in 0 .. N - 1
      /\ e.tail \in 0 .. N - 1 /\ e.size \in 0 .. N
  BY <1>2 DEF CBP!Ring, CBP!Index
<1>8. CB!RingConsistent(d) /\ CB!Contents(d) = Append(s, ch)
  BY <1>2, <1>5 DEF CB!RingConsistent, CBP!RingConsistent, CB!Contents, CBP!Contents
<1>9. l \in 0 .. N + 1
  <2>1. Len(Append(s, ch)) = e.size
    <3>1. Len(CBP!Contents(e)) = e.size
      BY <1>2, BaseRing, <1>1, CBP!ContentsSeq
    <3> QED BY <1>2, <3>1
  <2>2. l \in Nat /\ l <= Len(Append(s, ch))
    BY <1>6, NewlinesFew
  <2> QED BY <1>7, <2>1, <2>2, CharBufferAssumption
<1>10. d \in RxRing
  BY <1>5, <1>7, <1>9 DEF RxRing
<1>11. Rings(d, Append(s, ch))
  BY <1>5, <1>6, <1>8, <1>10 DEF Rings
<1> QED BY <1>11 DEF d

\* A pop that has made its last store has removed the oldest character and
\* discounted it.
LEMMA RxPop ==
  ASSUME NEW b, NEW s, Rings(b, s), b.size # 0
  PROVE  /\ s # << >> /\ b.buffer[b.head] = Head(s) /\ Head(s) \in Char
         /\ Rings([b EXCEPT !.head = (b.head + 1) % CHAR_BUFFER_SIZE, !.size = b.size - 1,
                            !.lines = IF Head(s) = "lf" THEN b.lines - 1 ELSE b.lines],
                  Tail(s))
<1> DEFINE N == CHAR_BUFFER_SIZE
           l == IF Head(s) = "lf" THEN b.lines - 1 ELSE b.lines
           d == [b EXCEPT !.head = (b.head + 1) % N, !.size = b.size - 1, !.lines = l]
           e == CBP!generic_circular_buffer_pop(Base(b))
<1>1. b \in RxRing /\ CB!RingConsistent(b) /\ CB!Contents(b) = s /\ s \in Seq(Char)
      /\ b.lines = Newlines(s)
  BY DEF Rings
<1>2. /\ e \in CBP!Ring(Char \cup {NUL}) /\ CBP!RingConsistent(e)
      /\ s # << >> /\ CBP!Popped(Base(b)) = Head(s)
      /\ CBP!Contents(e) = Tail(s)
  <2>1. /\ Base(b) \in CBP!Ring(Char \cup {NUL}) /\ CBP!RingConsistent(Base(b))
        /\ CBP!Contents(Base(b)) = s /\ CBP!PopSucceeds(Base(b)) /\ CBP!BufferSizeAssumption
    BY <1>1, BaseRing
  <2> QED BY <2>1, CBP!PopTakesOldest
<1>3. b.buffer[b.head] = Head(s) /\ Head(s) \in Char /\ Tail(s) \in Seq(Char)
  <2>1. b.buffer[b.head] = Head(s)
    BY <1>2 DEF CBP!Popped, Base
  <2> QED BY <1>1, <1>2, <2>1, HeadTailProperties
<1>4. /\ e.buffer = b.buffer /\ e.head = (b.head + 1) % N
      /\ e.tail = b.tail /\ e.size = b.size - 1
  BY DEF CBP!generic_circular_buffer_pop, CBP!PopSucceeds, Base
<1>5. /\ d.buffer = e.buffer /\ d.head = e.head /\ d.tail = e.tail /\ d.size = e.size
      /\ d.lines = l
      /\ d = [buffer |-> d.buffer, head |-> d.head, tail |-> d.tail, size |-> d.size,
              lines |-> d.lines]
  <2>1. b = [buffer |-> b.buffer, head |-> b.head, tail |-> b.tail, size |-> b.size,
             lines |-> b.lines]
    BY <1>1 DEF RxRing
  <2>2. d = [buffer |-> b.buffer, head |-> (b.head + 1) % N, tail |-> b.tail,
             size |-> b.size - 1, lines |-> l]
    <3> DEFINE h == (b.head + 1) % N
               z == b.size - 1
    <3> HIDE DEF h, z, l
    <3>1. PICK B, H, T, Z, L :
            b = [buffer |-> B, head |-> H, tail |-> T, size |-> Z, lines |-> L]
      BY <2>1
    <3>2. [b EXCEPT !.head = h, !.size = z, !.lines = l]
            = [buffer |-> B, head |-> h, tail |-> T, size |-> z, lines |-> l]
      <4> DEFINE x == [b EXCEPT !.head = h]
                 y == [x EXCEPT !.size = z]
      <4>1. [b EXCEPT !.head = h, !.size = z, !.lines = l] = [y EXCEPT !.lines = l]
        OBVIOUS
      <4>2. x = [buffer |-> B, head |-> h, tail |-> T, size |-> Z, lines |-> L]
        BY <3>1
      <4> HIDE DEF x
      <4>3. y = [buffer |-> B, head |-> h, tail |-> T, size |-> z, lines |-> L]
        BY <4>2
      <4> HIDE DEF y
      <4>4. [y EXCEPT !.lines = l]
              = [buffer |-> B, head |-> h, tail |-> T, size |-> z, lines |-> l]
        BY <4>3
      <4> QED BY <4>1, <4>4
    <3>3. b.buffer = B /\ b.tail = T
      BY <3>1
    <3> QED BY <3>2, <3>3 DEF h, z
  <2> HIDE DEF d, e, l
  <2> QED BY <1>4, <2>2
<1>6. l = Newlines(Tail(s)) /\ l \in Nat /\ l <= Len(Tail(s))
  <2>1. Newlines(s) \in Nat
    BY <1>1, NewlinesFew
  <2>2. l = Newlines(Tail(s))
    BY <1>1, <1>2, <2>1, NewlinesTail
  <2> QED BY <1>3, <2>2, NewlinesFew
<1> HIDE DEF d, e, l
<1>7. /\ e.buffer \in [0 .. N - 1 -> Char \cup {NUL}] /\ e.head \in 0 .. N - 1
      /\ e.tail \in 0 .. N - 1 /\ e.size \in 0 .. N
  BY <1>2 DEF CBP!Ring, CBP!Index
<1>8. CB!RingConsistent(d) /\ CB!Contents(d) = Tail(s)
  BY <1>2, <1>5 DEF CB!RingConsistent, CBP!RingConsistent, CB!Contents, CBP!Contents
<1>9. l \in 0 .. N + 1
  <2>1. Len(CBP!Contents(e)) = e.size
    BY <1>2, BaseRing, <1>1, CBP!ContentsSeq
  <2> QED BY <1>2, <1>6, <1>7, <2>1, CharBufferAssumption
<1>10. d \in RxRing
  BY <1>5, <1>7, <1>9 DEF RxRing
<1>11. Rings(d, Tail(s))
  BY <1>3, <1>5, <1>6, <1>8, <1>10 DEF Rings
<1> QED BY <1>2, <1>3, <1>11 DEF d, l

\* The line count never exceeds the number of characters.
LEMMA RxLines ==
  ASSUME NEW b, NEW s, Rings(b, s)
  PROVE  b.lines <= b.size /\ b.lines \in Nat /\ b.size \in Nat
<1>1. b \in RxRing /\ CB!Contents(b) = s /\ s \in Seq(Char) /\ b.lines = Newlines(s)
  BY DEF Rings
<1>2. Len(CBP!Contents(Base(b))) = Base(b).size
  <2>1. Base(b) \in CBP!Ring(Char \cup {NUL}) /\ CBP!BufferSizeAssumption
    BY <1>1, BaseRing
  <2> QED BY <2>1, CBP!ContentsSeq
<1>3. CBP!Contents(Base(b)) = s
  BY <1>1, BaseRing
<1>4. Len(s) = b.size
  BY <1>2, <1>3 DEF Base
<1>5. b.size \in Nat
  BY <1>1, CharBufferAssumption DEF RxRing
<1> QED BY <1>1, <1>4, <1>5, NewlinesFew

-----------------------------------------------------------------------------
(* The interrupt handler.                                                  *)

\* Between two pops the handler keeps the ring whole.
LEMMA IrqIntact ==
  ASSUME TypeOK, Rings(rx, CB!Contents(rx)), accepted = delivered \o CB!Contents(rx),
         NEW raw \in Wire, handle_uart_irq(raw)
  PROVE  Rings(rx', CB!Contents(rx')) /\ accepted' = delivered \o CB!Contents(rx')
<1> DEFINE ch == IF raw = "cr" THEN "lf" ELSE raw
           s == CB!Contents(rx)
<1>1. /\ rx' = circular_char_buffer_push(rx, ch)
      /\ accepted' = IF rx.size # CHAR_BUFFER_SIZE THEN Append(accepted, ch) ELSE accepted
      /\ ch \in Char
  BY DEF handle_uart_irq, Wire, Char
<1> HIDE DEF ch
<1>2. CASE rx.size = CHAR_BUFFER_SIZE
  <2>1. rx' = rx /\ accepted' = accepted
    BY <1>1, <1>2 DEF circular_char_buffer_push
  <2> QED BY <2>1
<1>3. CASE rx.size # CHAR_BUFFER_SIZE
  <2>1. Rings(rx', Append(s, ch))
    BY <1>1, <1>3, RxPush
  <2>2. CB!Contents(rx') = Append(s, ch)
    BY <2>1 DEF Rings
  <2>3. s \in Seq(Char) /\ delivered \in Seq(Char)
    BY DEF Rings, TypeOK
  <2>4. Append(delivered \o s, ch) = delivered \o Append(s, ch)
    <3> HIDE DEF s
    <3>1. ch \in Char
      BY <1>1
    <3>2. AppendsLast(delivered, s, ch)
      BY <2>3, <3>1, ConcatAppend
    <3> QED BY <3>2 DEF AppendsLast
  <2> QED BY <1>1, <1>3, <2>1, <2>2, <2>4
<1> QED BY <1>2, <1>3

\* Even in a torn ring it keeps the indices in range and the count at most one
\* too high.
LEMMA IrqTypes ==
  ASSUME TypeOK, rx.lines <= rx.size + 1, NEW raw \in Wire, handle_uart_irq(raw)
  PROVE  /\ rx' \in RxRing /\ rx'.lines <= rx'.size + 1
         /\ accepted' \in Seq(Char) /\ received' \in 0 .. MAX_RECEIVED
<1> DEFINE ch == IF raw = "cr" THEN "lf" ELSE raw
           N == CHAR_BUFFER_SIZE
<1>1. /\ rx' = circular_char_buffer_push(rx, ch)
      /\ accepted' = IF rx.size # N THEN Append(accepted, ch) ELSE accepted
      /\ ch \in Char /\ received < MAX_RECEIVED /\ received' = received + 1
  BY DEF handle_uart_irq, Wire, Char
<1> HIDE DEF ch
<1>2. rx \in RxRing /\ N \in Nat \ {0}
  BY CharBufferAssumption DEF TypeOK, RxRing
<1>3. accepted' \in Seq(Char) /\ received' \in 0 .. MAX_RECEIVED
  BY <1>1, ReceivedAssumption DEF TypeOK
<1>4. CASE rx.size = N
  BY <1>1, <1>2, <1>3, <1>4 DEF circular_char_buffer_push
<1>5. CASE rx.size # N
  <2> DEFINE l == IF ch = "lf" THEN rx.lines + 1 ELSE rx.lines
             B == [rx.buffer EXCEPT ![rx.tail] = ch]
             t == (rx.tail + 1) % N
  <2>1. rx' = [buffer |-> B, head |-> rx.head, tail |-> t, size |-> rx.size + 1, lines |-> l]
    BY <1>1, <1>2, <1>5, RxPushFields
  <2>2. B \in [0 .. N - 1 -> Char \cup {NUL}]
    BY <1>1, <1>2 DEF RxRing
  <2>3. t \in 0 .. N - 1
    BY <1>2 DEF RxRing
  <2>4. /\ rx.size + 1 \in 0 .. N /\ l \in 0 .. N + 1 /\ l <= rx.size + 1 + 1
        /\ rx.head \in 0 .. N - 1
    BY <1>2, <1>5 DEF RxRing
  <2> HIDE DEF B, t, l
  <2>5. rx' \in RxRing
    BY <2>1, <2>2, <2>3, <2>4 DEF RxRing
  <2> QED BY <1>3, <2>1, <2>4, <2>5
<1> QED BY <1>4, <1>5

\* What the handler finds, wherever the reader is.
LEMMA LinesBound == Inv => rx.lines <= rx.size + 1
<1> SUFFICES ASSUME Inv PROVE rx.lines <= rx.size + 1
  OBVIOUS
<1>1. rx \in RxRing
  BY DEF Inv, TypeOK, RxRing
<1>2. rx.lines \in Nat /\ rx.size \in Nat
  BY <1>1, CharBufferAssumption DEF RxRing
<1>3. CASE pc = "lost"
  BY <1>3 DEF Inv, Intact
<1>4. CASE pc # "lost"
  <2>1. Settled.lines <= Settled.size /\ Settled.lines \in Nat /\ Settled.size \in Nat
    BY <1>4, RxLines DEF Inv, Intact
  <2>2. /\ Settled.lines = rx.lines \/ Settled.lines = rx.lines - 1
        /\ Settled.size = rx.size \/ Settled.size = rx.size - 1
    BY <1>1 DEF Settled, RxRing
  <2> QED BY <1>2, <2>1, <2>2
<1> QED BY <1>3, <1>4

-----------------------------------------------------------------------------
(* The steps.                                                              *)

LEMMA InitInv == Init => Inv
<1> SUFFICES ASSUME Init PROVE Inv
  OBVIOUS
<1> DEFINE N == CHAR_BUFFER_SIZE
<1>1. /\ rx = [buffer |-> [k \in 0 .. N - 1 |-> NUL],
               head |-> 0, tail |-> 0, size |-> 0, lines |-> 0]
      /\ pc = "out" /\ c = NUL /\ r0 = FALSE /\ dst = << >> /\ received = 0
      /\ accepted = << >> /\ delivered = << >> /\ hit = FALSE
  BY DEF Init
<1>2. N \in Nat \ {0} /\ READ_SIZE \in Nat /\ MAX_RECEIVED \in Nat
  BY CharBufferAssumption, ReadSizeAssumption, ReceivedAssumption
<1>3. TypeOK
  <2>1. Len(<< >>) = 0 /\ << >> \in Seq(Char) /\ << >> \in Seq(Char \cup {NUL})
    BY EmptySeq
  <2>2. NUL \in Char \cup {NUL} /\ 0 \in 0 .. MAX_RECEIVED /\ "out" \in Labels
    BY <1>2 DEF Labels
  <2>3. rx \in RxRing
    BY <1>1, <1>2 DEF RxRing
  <2>4. /\ rx \in RxRing /\ pc \in Labels /\ c \in Char \cup {NUL} /\ r0 \in BOOLEAN
        /\ received \in 0 .. MAX_RECEIVED /\ hit \in BOOLEAN
    BY <1>1, <2>2, <2>3
  <2>5. /\ dst \in Seq(Char \cup {NUL}) /\ accepted \in Seq(Char) /\ delivered \in Seq(Char)
        /\ Len(dst) <= READ_SIZE
    BY <1>1, <1>2, <2>1
  <2> QED BY <2>4, <2>5 DEF TypeOK, RxRing
<1>4. CB!Contents(rx) = << >>
  BY <1>1 DEF CB!Contents
<1>5. Newlines(<< >>) = 0
  <2>1. {k \in DOMAIN << >> : << >>[k] = "lf"} = {}
    OBVIOUS
  <2> QED BY <2>1, FS_EmptySet DEF Newlines
<1>6. Rings(rx, << >>)
  <2>1. rx \in RxRing
    BY <1>1, <1>2 DEF RxRing
  <2>2. CB!RingConsistent(rx)
    BY <1>1, <1>2 DEF CB!RingConsistent
  <2> QED BY <1>1, <1>4, <1>5, <2>1, <2>2 DEF Rings
<1>7. Settled = rx /\ Taken = << >>
  BY <1>1 DEF Settled, Taken, Popping
<1>8. Intact
  <2>1. << >> \o << >> = << >>
    OBVIOUS
  <2> QED BY <1>1, <1>4, <1>6, <1>7, <2>1 DEF Intact, Popping
<1>9. Reading
  BY <1>1 DEF Reading, Popping, InPop
<1> QED BY <1>3, <1>8, <1>9 DEF Inv

\* While no pop is under way the ring is settled.
LEMMA SettledOutside ==
  ASSUME pc \notin Popping
  PROVE  Settled = rx /\ Taken = delivered
BY DEF Settled, Taken, Popping

\* The handler, at each place it may find the reader in: outside uart_readline
\* and in its loop the ring is whole, in a pop it is given up.
LEMMA IrqStep == Inv /\ (IrqOutside \/ IrqInLoop \/ IrqInCall) => Inv'
<1> SUFFICES ASSUME Inv, IrqOutside \/ IrqInLoop \/ IrqInCall PROVE Inv'
  OBVIOUS
<1>0. TypeOK /\ Intact /\ Reading /\ rx.lines <= rx.size + 1
  BY LinesBound DEF Inv
<1>1. PICK raw \in Wire : handle_uart_irq(raw)
  BY DEF IrqOutside, IrqInLoop, IrqInCall
<1>2. /\ rx' \in RxRing /\ rx'.lines <= rx'.size + 1
      /\ accepted' \in Seq(Char) /\ received' \in 0 .. MAX_RECEIVED
  BY <1>0, <1>1, IrqTypes
<1>3. /\ c' = c /\ dst' = dst /\ delivered' = delivered
      /\ r0' \in BOOLEAN /\ pc' \in Labels /\ hit' \in BOOLEAN /\ (hit => hit')
  BY <1>0 DEF TypeOK, IrqOutside, IrqInLoop, IrqInCall, Labels, InLoop
<1>4. TypeOK'
  BY <1>0, <1>2, <1>3 DEF TypeOK, RxRing
<1>5. CASE pc' = "lost"
  <2>1. Intact'
    BY <1>2, <1>5 DEF Intact, Popping
  <2>2. Reading'
    BY <1>0, <1>3, <1>5 DEF Reading, IrqOutside, IrqInLoop, IrqInCall
  <2> QED BY <1>4, <2>1, <2>2 DEF Inv
<1>6. CASE pc' # "lost"
  <2>1. pc # "lost" /\ pc \notin Popping /\ pc' \notin Popping /\ pc' \in {"out", "got"}
        /\ (pc' = "got" => hit')
    BY <1>6 DEF IrqOutside, IrqInLoop, IrqInCall, InLoop, Popping
  <2>2. Settled = rx /\ Taken = delivered /\ Settled' = rx' /\ Taken' = delivered'
    BY <2>1 DEF Settled, Taken, Popping
  <2>3. Rings(rx, CB!Contents(rx)) /\ accepted = delivered \o CB!Contents(rx)
    BY <1>0, <2>1, <2>2 DEF Intact
  <2>4. Rings(rx', CB!Contents(rx')) /\ accepted' = delivered \o CB!Contents(rx')
    BY <1>0, <1>1, <2>3, IrqIntact
  <2>5. Intact'
    BY <1>3, <1>6, <2>1, <2>2, <2>4 DEF Intact, Rings
  <2>6. Reading'
    BY <2>1 DEF Reading, Popping, InPop
  <2> QED BY <1>4, <2>5, <2>6 DEF Inv
<1> QED BY <1>5, <1>6

\* A step of the reader that stays outside the pops: the ring is the same.
LEMMA ReaderIntact ==
  ASSUME Inv, pc \notin Popping, pc' \notin Popping, pc # "lost", pc' # "lost",
         UNCHANGED <<rx, accepted, delivered>>
  PROVE  Intact'
<1>1. Settled = rx /\ Taken = delivered /\ Settled' = rx /\ Taken' = delivered
  BY DEF Settled, Taken, Popping
<1>2. Rings(rx, CB!Contents(rx)) /\ accepted = delivered \o CB!Contents(rx)
  BY <1>1 DEF Inv, Intact
<1> QED BY <1>1, <1>2 DEF Intact, Rings

\* The calls of uart_readline, its loop and its end.
LEMMA ReaderStep ==
  Inv /\ (ReadlineEnter \/ ReadlineLoop \/ ReadlineStore \/ ReadlineReturn) => Inv'
<1> SUFFICES ASSUME Inv, ReadlineEnter \/ ReadlineLoop \/ ReadlineStore \/ ReadlineReturn
             PROVE  Inv'
  OBVIOUS
<1>0. TypeOK /\ Reading /\ READ_SIZE \in Nat /\ READ_SIZE >= 2
  BY ReadSizeAssumption DEF Inv
<1>1. UNCHANGED <<rx, c, r0, received, accepted, delivered, hit>>
  BY DEF ReadlineEnter, ReadlineLoop, ReadlineStore, ReadlineReturn
<1>2. /\ dst \in Seq(Char \cup {NUL}) /\ Len(dst) \in Nat /\ c \in Char \cup {NUL}
  BY <1>0 DEF TypeOK
<1>3. CASE ReadlineEnter
  <2>1. pc = "out" /\ pc' = "call" /\ dst' = << >> /\ rx.lines # 0
    BY <1>3 DEF ReadlineEnter
  <2>2. Len(<< >>) = 0 /\ << >> \in Seq(Char \cup {NUL})
    BY EmptySeq
  <2>3. TypeOK'
    BY <1>0, <1>1, <2>1, <2>2 DEF TypeOK, Labels
  <2>4. Intact'
    BY <1>1, <2>1, ReaderIntact DEF Popping
  <2>5. Reading'
    BY <1>1, <2>1 DEF Reading, Popping, InPop
  <2> QED BY <2>3, <2>4, <2>5 DEF Inv
<1>4. CASE ReadlineLoop
  <2>1. /\ pc \in {"call", "stored"} /\ dst' = dst
        /\ pc' = IF Len(dst) < READ_SIZE - 1 THEN "pop_slot" ELSE "end"
    BY <1>4 DEF ReadlineLoop
  <2>2. TypeOK'
    BY <1>0, <1>1, <2>1 DEF TypeOK, Labels, InPop, InLoop
  <2>3. Intact'
    BY <1>1, <2>1, ReaderIntact DEF Popping
  <2>4. Reading'
    <3>1. CASE pc = "call" /\ ~hit
      <4>1. Len(dst) = 0 /\ rx.lines # 0
        BY <1>0, <3>1, EmptySeq DEF Reading
      <4>2. pc' = "pop_slot"
        BY <1>0, <2>1, <4>1
      <4> QED BY <1>0, <1>1, <2>1, <4>1, <4>2 DEF Reading, Popping, InPop
    <3>2. CASE pc = "stored" /\ ~hit
      <4>1. Len(dst) <= READ_SIZE - 1 /\ rx.lines # 0 /\ r0
        BY <1>0, <3>2 DEF Reading
      <4>2. CASE Len(dst) < READ_SIZE - 1
        <5>1. pc' = "pop_slot"
          BY <2>1, <4>2
        <5> QED BY <1>1, <2>1, <4>1, <4>2, <5>1 DEF Reading, Popping, InPop
      <4>3. CASE Len(dst) = READ_SIZE - 1
        <5>1. pc' = "end"
          BY <1>0, <2>1, <4>3
        <5> QED BY <1>0, <1>1, <2>1, <4>1, <4>3, <5>1 DEF Reading, Popping, InPop
      <4> QED BY <1>0, <1>2, <4>1, <4>2, <4>3
    <3>3. CASE hit
      BY <1>1, <3>3 DEF Reading
    <3> QED BY <2>1, <3>1, <3>2, <3>3
  <2> QED BY <2>2, <2>3, <2>4 DEF Inv
<1>5. CASE ReadlineStore
  <2>1. /\ pc = "got" /\ dst' = IF r0 THEN Append(dst, c) ELSE dst
        /\ pc' = IF r0 /\ c # "lf" THEN "stored" ELSE "end"
    BY <1>5 DEF ReadlineStore
  <2> DEFINE d == Append(dst, c)
  <2>2. d \in Seq(Char \cup {NUL}) /\ Len(d) = Len(dst) + 1 /\ d[Len(d)] = c
    BY <1>2, AppendProperties
  <2> HIDE DEF d
  <2>3. dst' = IF r0 THEN d ELSE dst
    BY <2>1 DEF d
  <2>4. ~hit => r0 /\ Len(dst) < READ_SIZE - 1 /\ (c = "lf" \/ rx.lines # 0)
    BY <1>0, <2>1, SettledOutside DEF Reading, InPop, Popping
  <2>5. dst' \in Seq(Char \cup {NUL}) /\ (~hit => dst' = d /\ Len(dst') <= READ_SIZE - 1)
    BY <1>0, <1>2, <2>2, <2>3, <2>4
  <2>6. TypeOK'
    <3>1. pc' \in Labels
      BY <2>1 DEF Labels, InLoop
    <3>2. ~hit' => Len(dst') <= READ_SIZE
      <4>1. Len(dst') \in Nat
        BY <2>5
      <4> QED BY <1>0, <1>1, <2>5, <4>1
    <3> QED BY <1>0, <1>1, <2>5, <3>1, <3>2 DEF TypeOK
  <2>7. Intact'
    BY <1>1, <2>1, ReaderIntact DEF Popping
  <2>8. Reading'
    <3>1. CASE hit
      BY <1>1, <3>1 DEF Reading
    <3>2. CASE ~hit
      <4>1. Last(dst') = c
        BY <2>2, <2>5, <3>2 DEF Last
      <4>2. pc' = IF c # "lf" THEN "stored" ELSE "end"
        BY <2>1, <2>4, <3>2
      <4> QED BY <1>1, <2>4, <2>5, <3>2, <4>1, <4>2 DEF Reading, Popping, InPop
    <3> QED BY <3>1, <3>2
  <2> QED BY <2>6, <2>7, <2>8 DEF Inv
<1>6. CASE ReadlineReturn
  <2>1. pc = "end" /\ pc' = "out" /\ dst' = Append(dst, NUL)
    BY <1>6 DEF ReadlineReturn
  <2>2. dst' \in Seq(Char \cup {NUL}) /\ Len(dst') = Len(dst) + 1
    BY <1>2, <2>1, AppendProperties
  <2>3. TypeOK'
    <3>1. ~hit' => Len(dst') <= READ_SIZE
      BY <1>0, <1>1, <1>2, <2>1, <2>2 DEF Reading
    <3> QED BY <1>0, <1>1, <2>1, <2>2, <3>1 DEF TypeOK, Labels
  <2>4. Intact'
    BY <1>1, <2>1, ReaderIntact DEF Popping
  <2>5. Reading'
    BY <2>1 DEF Reading, Popping, InPop
  <2> QED BY <2>3, <2>4, <2>5 DEF Inv
<1> QED BY <1>3, <1>4, <1>5, <1>6

\* The four stores of a pop: the ring is settled from the first read on.
LEMMA PopStep == Inv /\ uart_getchar => Inv'
<1> SUFFICES ASSUME Inv, uart_getchar PROVE Inv'
  OBVIOUS
<1> DEFINE N == CHAR_BUFFER_SIZE
           s == CB!Contents(Settled)
           less == IF c = "lf" THEN rx.lines - 1 ELSE rx.lines
<1>0. TypeOK /\ Intact /\ Reading /\ rx \in RxRing /\ N \in Nat \ {0}
  BY CharBufferAssumption DEF Inv, TypeOK, RxRing
<1>1. /\ UNCHANGED <<dst, received, accepted, hit>> /\ pc # "lost" /\ pc' # "lost"
      /\ pc \in InPop
  BY DEF uart_getchar, PopSlot, PopHead, PopSize, PopLines, InPop
<1>2. Rings(Settled, s) /\ accepted = Taken \o s
  BY <1>0, <1>1 DEF Intact
<1>3. CASE PopSlot
  <2>1. pc = "pop_slot" /\ Settled = rx /\ Taken = delivered
    BY <1>3 DEF PopSlot, Settled, Taken, Popping
  <2>2. rx.lines <= rx.size /\ rx.lines \in Nat /\ rx.size \in Nat
    BY <1>2, <2>1, RxLines
  <2>3. CASE rx.size = 0
    <3>1. r0' = FALSE /\ pc' = "got" /\ UNCHANGED <<rx, c, delivered>>
      BY <1>3, <2>3 DEF PopSlot
    <3>2. hit
      BY <1>0, <2>1, <2>2, <2>3 DEF Reading
    <3>3. TypeOK'
      BY <1>0, <1>1, <3>1 DEF TypeOK, Labels, InLoop
    <3>4. Intact'
      BY <1>1, <2>1, <3>1, ReaderIntact DEF Popping
    <3>5. Reading'
      BY <1>1, <3>2 DEF Reading, TypeOK
    <3> QED BY <3>3, <3>4, <3>5 DEF Inv
  <2>4. CASE rx.size # 0
    <3>1. c' = rx.buffer[rx.head] /\ pc' = "pop_head" /\ UNCHANGED <<rx, r0, delivered>>
      BY <1>3, <2>4 DEF PopSlot
    <3> DEFINE n == [rx EXCEPT !.head = (rx.head + 1) % N, !.size = rx.size - 1,
                               !.lines = IF Head(s) = "lf" THEN rx.lines - 1 ELSE rx.lines]
    <3>2. /\ s # << >> /\ rx.buffer[rx.head] = Head(s) /\ Head(s) \in Char
          /\ Rings(n, Tail(s))
      <4>1. Rings(rx, s) /\ rx.size # 0
        BY <1>2, <2>1, <2>4
      <4> HIDE DEF s
      <4> QED BY <4>1, RxPop
    <3>3. Settled' = n
      <4>1. Settled' = [rx' EXCEPT !.head = (rx'.head + 1) % N, !.size = rx'.size - 1,
                                   !.lines = IF c' = "lf" THEN rx'.lines - 1 ELSE rx'.lines]
        BY <3>1 DEF Settled
      <4> QED BY <3>1, <3>2, <4>1
    <3>4. Taken' = Append(delivered, Head(s))
      BY <3>1, <3>2 DEF Taken, Popping
    <3>5. CB!Contents(n) = Tail(s) /\ n \in RxRing
      BY <3>2 DEF Rings
    <3>6. delivered \o s = Append(delivered, Head(s)) \o Tail(s)
      <4>1. delivered \in Seq(Char) /\ s \in Seq(Char)
        BY <1>0, <1>2 DEF TypeOK, Rings
      <4>2. Shifts(delivered, s)
        <5> HIDE DEF s
        <5> QED BY <3>2, <4>1, ConcatShift
      <4> QED BY <4>2 DEF Shifts
    <3>7. Intact'
      <4>1. Rings(Settled', Tail(s)) /\ CB!Contents(Settled') = Tail(s)
        BY <3>2, <3>3, <3>5
      <4>2. accepted' = Taken' \o Tail(s)
        BY <1>1, <1>2, <2>1, <3>4, <3>6
      <4>3. c' \in Char
        BY <3>1, <3>2
      <4> HIDE DEF s
      <4> QED BY <1>1, <3>1, <4>1, <4>2, <4>3 DEF Intact, Rings
    <3>8. TypeOK'
      BY <1>0, <1>1, <3>1, <3>2 DEF TypeOK, Labels, InPop
    <3>9. Reading'
      <4>1. n.lines = IF Head(s) = "lf" THEN rx.lines - 1 ELSE rx.lines
        BY <1>0 DEF RxRing
      <4>2. ~hit => rx.lines # 0 /\ Len(dst) < READ_SIZE - 1
        BY <1>0, <2>1 DEF Reading, InPop
      <4>3. ~hit => c' = "lf" \/ Settled'.lines # 0
        BY <3>1, <3>2, <3>3, <4>1, <4>2
      <4> QED BY <1>1, <3>1, <4>2, <4>3 DEF Reading, InPop
    <3> QED BY <3>7, <3>8, <3>9 DEF Inv
  <2> QED BY <2>3, <2>4
<1>k. ASSUME Settled' = Settled, Taken' = Taken, c' = c, delivered' = delivered, r0' = r0,
             rx' \in RxRing, pc \in Popping, pc' \in Popping
      PROVE  Inv'
  <2>1. Intact'
    BY <1>0, <1>1, <1>2, <1>k DEF Intact, Rings
  <2>2. TypeOK'
    BY <1>0, <1>1, <1>k DEF TypeOK, RxRing, Popping, Labels, InPop
  <2>3. Reading'
    <3>1. pc' \notin {"call", "stored", "pop_slot", "got", "end"}
      BY <1>k DEF Popping
    <3>2. ~hit => (c = "lf" \/ Settled.lines # 0) /\ Len(dst) < READ_SIZE - 1
      BY <1>0, <1>1, <1>k DEF Reading
    <3> QED BY <1>1, <1>k, <3>1, <3>2 DEF Reading
  <2> QED BY <2>1, <2>2, <2>3 DEF Inv
<1>4. CASE PopHead
  <2>1. /\ pc = "pop_head" /\ pc' = "pop_size" /\ rx' = [rx EXCEPT !.head = (rx.head + 1) % N]
        /\ UNCHANGED <<c, r0, delivered>>
    BY <1>4 DEF PopHead
  <2>2. rx' \in RxRing
    <3>1. (rx.head + 1) % N \in 0 .. N - 1
      BY <1>0 DEF RxRing
    <3> QED BY <1>0, <2>1, <3>1 DEF RxRing
  <2>3. Settled' = Settled
    <3>1. Settled = [rx EXCEPT !.head = (rx.head + 1) % N, !.size = rx.size - 1, !.lines = less]
      BY <2>1 DEF Settled
    <3>2. rx'.size = rx.size /\ rx'.lines = rx.lines
      BY <1>0, <2>1 DEF RxRing
    <3>3. Settled' = [rx' EXCEPT !.size = rx.size - 1, !.lines = less]
      BY <2>1, <3>2 DEF Settled
    <3> HIDE DEF less, N
    <3> QED BY <2>1, <3>1, <3>3
  <2>4. Taken' = Taken /\ pc \in Popping /\ pc' \in Popping
    BY <2>1 DEF Taken, Popping
  <2> QED BY <1>k, <2>1, <2>2, <2>3, <2>4
<1>5. CASE PopSize
  <2>1. /\ pc = "pop_size" /\ pc' = "pop_lines" /\ rx' = [rx EXCEPT !.size = rx.size - 1]
        /\ UNCHANGED <<c, r0, delivered>>
    BY <1>5 DEF PopSize
  <2>2. Settled = [rx EXCEPT !.size = rx.size - 1, !.lines = less]
    BY <2>1 DEF Settled
  <2>3. rx'.lines = rx.lines
    BY <1>0, <2>1 DEF RxRing
  <2>4. Settled' = [rx' EXCEPT !.lines = less]
    BY <2>1, <2>3 DEF Settled
  <2>5. Settled' = Settled
    <3> HIDE DEF less, N
    <3> QED BY <2>1, <2>2, <2>4
  <2>6. rx' \in RxRing
    <3>1. Settled.size = rx.size - 1
      BY <1>0, <2>2 DEF RxRing
    <3>2. Settled \in RxRing
      BY <1>2 DEF Rings
    <3>3. rx.size - 1 \in 0 .. N
      BY <3>1, <3>2 DEF RxRing
    <3> QED BY <1>0, <2>1, <3>3 DEF RxRing
  <2>7. Taken' = Taken /\ pc \in Popping /\ pc' \in Popping
    BY <2>1 DEF Taken, Popping
  <2> QED BY <1>k, <2>1, <2>5, <2>6, <2>7
<1>6. CASE PopLines
  <2>1. /\ pc = "pop_lines" /\ pc' = "got" /\ rx' = [rx EXCEPT !.lines = less]
        /\ r0' = TRUE /\ delivered' = Append(delivered, c) /\ c' = c
    BY <1>6 DEF PopLines
  <2>2. Settled' = Settled /\ rx' = Settled
    BY <2>1 DEF Settled
  <2>3. Taken' = Taken
    BY <2>1 DEF Taken, Popping
  <2>4. Intact'
    BY <1>1, <1>2, <2>1, <2>2, <2>3 DEF Intact, Rings, Popping
  <2>5. TypeOK'
    <3>1. rx' \in RxRing
      BY <1>2, <2>2 DEF Rings
    <3>2. c \in Char /\ delivered' \in Seq(Char)
      BY <1>0, <2>1 DEF Intact, Popping, TypeOK
    <3> QED BY <1>0, <1>1, <2>1, <3>1, <3>2 DEF TypeOK, RxRing, Labels, InLoop
  <2>6. Reading'
    <3>1. ~hit => (c = "lf" \/ Settled.lines # 0) /\ Len(dst) < READ_SIZE - 1
      BY <1>0, <1>1, <2>1 DEF Reading, Popping
    <3> QED BY <1>1, <2>1, <2>2, <3>1 DEF Reading, Popping, InPop
  <2> QED BY <2>4, <2>5, <2>6 DEF Inv
<1> QED BY <1>3, <1>4, <1>5, <1>6 DEF uart_getchar

\* The invariant holds for every size and every arrival of characters.
THEOREM Invariance == Spec => []Inv
<1>1. Inv /\ [Next]_vars => Inv'
  <2> SUFFICES ASSUME Inv, [Next]_vars PROVE Inv'
    OBVIOUS
  <2>1. CASE IrqOutside \/ IrqInLoop \/ IrqInCall
    BY <2>1, IrqStep
  <2>2. CASE ReadlineEnter \/ ReadlineLoop \/ ReadlineStore \/ ReadlineReturn
    BY <2>2, ReaderStep
  <2>3. CASE uart_getchar
    BY <2>3, PopStep
  <2>4. CASE UNCHANGED vars
    <3>1. TypeOK'
      BY <2>4 DEF vars, Inv, TypeOK
    <3>2. Intact'
      BY <2>4 DEF vars, Inv, Intact, Rings, Settled, Taken
    <3>3. Reading'
      BY <2>4 DEF vars, Inv, Reading, Settled
    <3> QED BY <3>1, <3>2, <3>3 DEF Inv
  <2> QED BY <2>1, <2>2, <2>3, <2>4 DEF Next, uart_readline, ReadlineNoLine, Lost
<1> QED BY <1>1, InitInv, PTL DEF Spec

\* For every ring size the indices and counts of the ring stay in range, whenever
\* interrupts arrive; and until one arrives inside uart_readline the reader's
\* buffer is not overrun, terminator included.
THEOREM TypeCorrect == Spec => []TypeOK
<1>1. Inv => TypeOK
  BY DEF Inv
<1> QED BY <1>1, Invariance, PTL

\* The driver is a queue: characters are read in the order they were accepted,
\* each once, and the line count is right.
THEOREM ReceiveIsFifo == Spec => []Fifo
<1>1. ASSUME Inv, ~hit, pc \notin InPop
      PROVE  /\ CB!RingConsistent(rx) /\ accepted = delivered \o CB!Contents(rx)
             /\ rx.lines = Newlines(CB!Contents(rx))
  <2>1. pc \notin Popping
    BY <1>1 DEF InPop, Popping
  <2>2. pc # "lost"
    BY <1>1 DEF Inv, Reading
  <2> QED BY <1>1, <2>1, <2>2, SettledOutside DEF Inv, Intact, Rings
<1>2. Inv => Fifo
  BY <1>1 DEF Fifo
<1> QED BY <1>2, Invariance, PTL

\* uart_readline returns whole lines.
THEOREM LinesAreWhole == Spec => []ReturnsWholeLine
<1>1. Inv => ReturnsWholeLine
  BY DEF Inv, Reading, ReturnsWholeLine
<1> QED BY <1>1, Invariance, PTL
-----------------------------------------------------------------------------
(* Motor.                                                                  *)

Byte == 0 .. 255
Command == Byte \X Byte

LinkTypes ==
  /\ wire \in Seq(Byte) /\ ring \in Seq(Byte) /\ Len(ring) <= CHAR_BUFFER_SIZE
  /\ frames \in 0 .. MAX_FRAMES /\ sent \in Seq(Position \X Position)
  /\ dropped \in BOOLEAN

TaskTypes ==
  /\ at \in {"poll", "stop", "set", "pin1", "pin2", "en", "lost"}
  /\ side \in Side
  /\ dirs \subseteq {"FORWARD", "BACKWARD", "LEFT", "RIGHT", "STOP"}
  /\ cmd = none \/ cmd \in Command
  /\ state \in [Side -> {"STOP", "FORWARD", "BACKWARD"}]

PinTypes ==
  /\ pin1 \in [Side -> 0 .. 1] /\ pin2 \in [Side -> 0 .. 1]
  /\ en \in [Side -> 0 .. 1]

\* The pins of motor s are as the last command wants them.
Pin1Right(s) == pin1[s] = IF Wanted(s, cmd) = "FORWARD" THEN 1 ELSE 0
Pin2Right(s) == pin2[s] = IF Wanted(s, cmd) = "BACKWARD" THEN 1 ELSE 0
EnRight(s) == en[s] = IF Wanted(s, cmd) = "STOP" THEN 0 ELSE 1
Right(s) == Pin1Right(s) /\ Pin2Right(s) /\ EnRight(s)

\* How far motor_ioctl has got with the last command.  A motor is enabled only
\* behind its direction pins, and both are off before the first pin changes.
Driving ==
  /\ at \in {"stop", "set"} => cmd \in Command /\ dirs = Decode(cmd[1], cmd[2])
  /\ at = "stop" => \A s \in Side : s < side => en[s] = 0
  /\ at = "set" => \A s \in Side : en[s] = 0
  /\ at \in {"pin1", "pin2", "en"} =>
       /\ cmd \in Command
       /\ \A s \in Side : /\ state[s] = Wanted(s, cmd)
                          /\ s < side => Right(s)
                          /\ s >= side => en[s] = 0
  /\ at \in {"pin2", "en"} => Pin1Right(side)
  /\ at = "en" => Pin2Right(side)
  /\ at = "poll" /\ cmd # none => \A s \in Side : Right(s)

\* Byte r of a command on the wire, and in the ring.
Raw(c0, r) == <<120, c0[1], 121, c0[2], 10>>[r]
Stored(c0, r) == IF Raw(c0, r) = 13 THEN 10 ELSE Raw(c0, r)

\* The bytes that have left the ring, as long as none was refused.
Read == 5 * frames - Len(wire) - Len(ring)

\* Byte n of what was sent is byte r of command j.
Is(n, j, r) == j \in 1 .. frames /\ r \in 1 .. 5 /\ n = 5 * (j - 1) + r

\* The rest of the last command is on the wire.
Sending ==
  /\ Len(sent) = frames /\ Len(wire) <= 5
  /\ wire # << >> => frames # 0
  /\ \A k \in 1 .. Len(wire) : wire[k] = Raw(sent[frames], 5 - Len(wire) + k)

\* As long as nothing is refused the ring holds what follows the bytes read.  A
\* reader with room for less than a command never sees a whole one.
InStep ==
  /\ Read >= 0
  /\ \A k \in 1 .. Len(ring), j \in 1 .. frames, r \in 1 .. 5 :
       Is(Read + k, j, r) => ring[k] = Stored(sent[j], r)
  /\ READ_SIZE < 6 => cmd = none
  /\ cmd # none => \E j \in 1 .. frames : cmd = sent[j]

StruckType == struck \in BOOLEAN

MotorTypes == LinkTypes /\ TaskTypes /\ PinTypes
\* Of the pins nothing is known once motor_task has been interrupted.
MotorInv == /\ MotorTypes /\ StruckType
            /\ (~struck => Driving) /\ Sending /\ (~dropped => InStep)

-----------------------------------------------------------------------------
\* A set of numbers that is not empty has a least element.
LEMMA LeastElement ==
  ASSUME NEW T, T \subseteq Nat, T # {}
  PROVE  \E x \in T : \A y \in T : x <= y
<1> DEFINE R == OpToRel(<, Nat)
<1>1. IsWellFoundedOn(R, Nat)
  BY NatLessThanWellFounded
<1>2. \A x, y \in Nat : x < y => <<x, y>> \in R
  BY DEF OpToRel
<1> HIDE DEF R
<1>3. PICK x \in T : \A y \in T : ~ (<<y, x>> \in R)
  BY <1>1, WFMin
<1>4. \A y \in T : x <= y
  <2> TAKE y \in T
  <2>1. x \in Nat /\ y \in Nat
    OBVIOUS
  <2>2. ~ (<<y, x>> \in R)
    BY <1>3
  <2>3. ~ (y < x)
    BY <2>1, <2>2, <1>2, Zenon
  <2> QED BY <2>1, <2>3
<1> QED BY <1>4

\* What uart_readline returns is a beginning of the ring, up to the first
\* newline or as long as the caller's buffer allows.
LEMMA LineShape ==
  ASSUME ring \in Seq(Byte)
  PROVE  /\ uart_readline_result \in Seq(Byte)
         /\ Len(uart_readline_result) <= Len(ring) /\ Len(uart_readline_result) < READ_SIZE
         /\ \A k \in 1 .. Len(uart_readline_result) : uart_readline_result[k] = ring[k]
         /\ uart_readline_result # << >> =>
              \E nl \in 1 .. Len(ring) :
                /\ ring[nl] = 10 /\ \A j \in 1 .. nl - 1 : ring[j] # 10
                /\ Len(uart_readline_result) = IF nl < READ_SIZE - 1 THEN nl ELSE READ_SIZE - 1
<1> USE ReadSizeAssumption DEF LF
<1>0. << >> \in Seq(Byte) /\ Len(<< >>) = 0 /\ Len(ring) \in Nat /\ DOMAIN ring = 1 .. Len(ring)
  BY LenProperties
<1>1. CASE \A k \in DOMAIN ring : ring[k] # 10
  <2>1. uart_readline_result = << >>
    BY <1>1 DEF uart_readline_result
  <2> QED BY <2>1, <1>0
<1>2. CASE \E k \in DOMAIN ring : ring[k] = 10
  <2> DEFINE First(k) == ring[k] = 10 /\ \A j \in 1 .. k - 1 : ring[j] # 10
             nl == CHOOSE k \in DOMAIN ring : First(k)
             n == IF nl < READ_SIZE - 1 THEN nl ELSE READ_SIZE - 1
             T == {k \in 1 .. Len(ring) : ring[k] = 10}
  <2>1. \E k \in DOMAIN ring : First(k)
    <3>1. T # {} /\ T \subseteq Nat
      BY <1>0, <1>2
    <3> HIDE DEF T
    <3>2. PICK x \in T : \A y \in T : x <= y
      BY <3>1, LeastElement
    <3>3. x \in 1 .. Len(ring) /\ ring[x] = 10
      BY <3>2 DEF T
    <3>4. \A j \in 1 .. x - 1 : ring[j] # 10
      <4> TAKE j \in 1 .. x - 1
      <4>1. j \in 1 .. Len(ring) /\ ~(x <= j)
        BY <1>0, <3>3
      <4> QED BY <4>1, <3>2 DEF T
    <3> QED BY <3>3, <3>4, <1>0
  <2>2. nl \in DOMAIN ring /\ First(nl)
    BY <2>1
  <2>3. uart_readline_result = SubSeq(ring, 1, n)
    BY <1>2 DEF uart_readline_result
  <2> HIDE DEF nl
  <2>4. n \in 1 .. Len(ring) /\ n < READ_SIZE
    BY <1>0, <2>2
  <2> HIDE DEF n
  <2>5. /\ SubSeq(ring, 1, n) \in Seq(Byte) /\ Len(SubSeq(ring, 1, n)) = n
        /\ \A k \in 1 .. n : SubSeq(ring, 1, n)[k] = ring[k]
    BY <1>0, <2>4
  <2>6. Len(uart_readline_result) = n
    BY <2>3, <2>5
  <2>7. /\ nl \in 1 .. Len(ring) /\ ring[nl] = 10 /\ \A j \in 1 .. nl - 1 : ring[j] # 10
        /\ n = IF nl < READ_SIZE - 1 THEN nl ELSE READ_SIZE - 1
    BY <2>2, <1>0 DEF n
  <2> QED BY <2>3, <2>4, <2>5, <2>6, <2>7, <1>0
<1> QED BY <1>1, <1>2

\* motors_set_dir, given what motor_task decoded, makes of each motor what the
\* command wants of it, whatever the motor did before.
LEMMA DecodeWanted ==
  ASSUME NEW a \in Byte, NEW b \in Byte, NEW s \in Side, NEW old
  PROVE  LET d == Decode(a, b) IN
         (IF "STOP" \in d THEN "STOP"
          ELSE IF (s = 0 /\ "LEFT" \in d) \/ (s = 1 /\ "RIGHT" \in d) THEN "STOP"
          ELSE IF "BACKWARD" \in d THEN "BACKWARD"
          ELSE IF "FORWARD" \in d THEN "FORWARD" ELSE old) = Wanted(s, <<a, b>>)
<1> DEFINE x == a - 128
           y == b - 128
           ahead == x > -5 /\ x < 5
<1> USE DEF Side, LEFT, RIGHT, Byte
<1>0. /\ Wanted(s, <<a, b>>) =
           IF y \in -5 .. 5 \/ x \in {-5, 5} \/ (x \notin -5 .. 5 /\ s = (IF x > 0 THEN 1 ELSE 0))
           THEN "STOP" ELSE IF y > 0 THEN "FORWARD" ELSE "BACKWARD"
      /\ x \in Int /\ y \in Int
  BY DEF Wanted
<1>d. Decode(a, b) =
        CASE ahead /\ y > 5    -> {"FORWARD"}
          [] ahead /\ y < -5   -> {"BACKWARD"}
          [] x > 5 /\ y > 5    -> {"FORWARD", "RIGHT"}
          [] x > 5 /\ y < -5   -> {"BACKWARD", "RIGHT"}
          [] x < -5 /\ y > 5   -> {"FORWARD", "LEFT"}
          [] x < -5 /\ y < -5  -> {"BACKWARD", "LEFT"}
          [] OTHER             -> {"STOP"}
  BY DEF Decode
<1> HIDE DEF x, y
<1>1. CASE ahead /\ y > 5
  <2>1. Decode(a, b) = {"FORWARD"}
    BY <1>0, <1>d, <1>1
  <2> QED BY <2>1, <1>0, <1>1
<1>2. CASE ahead /\ y < -5
  <2>1. Decode(a, b) = {"BACKWARD"}
    BY <1>0, <1>d, <1>2
  <2> QED BY <2>1, <1>0, <1>2
<1>3. CASE x > 5 /\ y > 5
  <2>1. Decode(a, b) = {"FORWARD", "RIGHT"}
    BY <1>0, <1>d, <1>3
  <2> QED BY <2>1, <1>0, <1>3
<1>4. CASE x > 5 /\ y < -5
  <2>1. Decode(a, b) = {"BACKWARD", "RIGHT"}
    BY <1>0, <1>d, <1>4
  <2> QED BY <2>1, <1>0, <1>4
<1>5. CASE x < -5 /\ y > 5
  <2>1. Decode(a, b) = {"FORWARD", "LEFT"}
    BY <1>0, <1>d, <1>5
  <2>2. Wanted(s, <<a, b>>) = IF s = 0 THEN "STOP" ELSE "FORWARD"
    BY <1>0, <1>5
  <2> QED BY <2>1, <2>2
<1>6. CASE x < -5 /\ y < -5
  <2>1. Decode(a, b) = {"BACKWARD", "LEFT"}
    BY <1>0, <1>d, <1>6
  <2>2. Wanted(s, <<a, b>>) = IF s = 0 THEN "STOP" ELSE "BACKWARD"
    BY <1>0, <1>6
  <2> QED BY <2>1, <2>2
<1>7. CASE /\ ~(ahead /\ y > 5) /\ ~(ahead /\ y < -5) /\ ~(x > 5 /\ y > 5)
           /\ ~(x > 5 /\ y < -5) /\ ~(x < -5 /\ y > 5) /\ ~(x < -5 /\ y < -5)
  <2>1. Decode(a, b) = {"STOP"}
    BY <1>0, <1>d, <1>7
  <2>2. y \in -5 .. 5 \/ x \in {-5, 5}
    BY <1>0, <1>7
  <2> QED BY <2>1, <2>2, <1>0
<1> QED BY <1>1, <1>2, <1>3, <1>4, <1>5, <1>6, <1>7

\* What motor_task decodes is a set of directions.
LEMMA DecodeType ==
  ASSUME NEW a \in Byte, NEW b \in Byte
  PROVE  Decode(a, b) \subseteq {"FORWARD", "BACKWARD", "LEFT", "RIGHT", "STOP"}
BY DEF Decode

\* What a command can want of a motor.
LEMMA WantedType ==
  ASSUME NEW s, NEW c0
  PROVE  Wanted(s, c0) \in {"STOP", "FORWARD", "BACKWARD"}
BY DEF Wanted

-----------------------------------------------------------------------------
\* A round of motor_task that finds a line: what is left of the ring, and the
\* command if the line has five characters.
LEMMA PollShape ==
  ASSUME ring \in Seq(Byte), Poll
  PROVE  /\ Len(uart_readline_result) \in 1 .. Len(ring)
         /\ ring' \in Seq(Byte) /\ Len(ring') = Len(ring) - Len(uart_readline_result)
         /\ \A k \in 1 .. Len(ring') : ring'[k] = ring[Len(uart_readline_result) + k]
         /\ at = "poll" /\ UNCHANGED <<wire, frames, sent, dropped, state, pin1, pin2, en>>
         /\ \/ /\ Len(uart_readline_result) = 5
               /\ ring[2] \in Byte /\ ring[4] \in Byte /\ cmd' = <<ring[2], ring[4]>>
               /\ dirs' = Decode(ring[2], ring[4]) /\ at' = "stop" /\ side' = 0
            \/ Len(uart_readline_result) # 5 /\ UNCHANGED <<cmd, dirs, at, side>>
<1> DEFINE line == uart_readline_result
<1>1. /\ line \in Seq(Byte) /\ Len(line) <= Len(ring) /\ Len(line) < READ_SIZE
      /\ \A k \in 1 .. Len(line) : line[k] = ring[k]
  BY LineShape
<1>2. /\ at = "poll" /\ line # << >> /\ ring' = SubSeq(ring, Len(line) + 1, Len(ring))
      /\ UNCHANGED <<wire, frames, sent, dropped, state, pin1, pin2, en>>
      /\ IF Len(line) = 5
         THEN /\ cmd' = <<line[2], line[4]>> /\ dirs' = Decode(line[2], line[4])
              /\ at' = "stop" /\ side' = 0
         ELSE UNCHANGED <<cmd, dirs, at, side>>
  BY DEF Poll, pins
<1> HIDE DEF line
<1>3. Len(line) \in Nat /\ Len(line) # 0 /\ Len(ring) \in Nat
  BY <1>1, <1>2, LenProperties, EmptySeq
<1>4. /\ ring' \in Seq(Byte) /\ Len(ring') = Len(ring) - Len(line)
      /\ \A k \in 1 .. Len(ring') : ring'[k] = ring[Len(line) + k]
  BY <1>1, <1>2, <1>3
<1>5. Len(line) = 5 => /\ line[2] = ring[2] /\ line[4] = ring[4]
                       /\ ring[2] \in Byte /\ ring[4] \in Byte
  BY <1>1, <1>3
<1> QED BY <1>1, <1>2, <1>3, <1>4, <1>5 DEF line

\* The types of the receive path.
LEMMA LinkTypesStep ==
  ASSUME MotorTypes, [MotorNext]_motorVars
  PROVE  LinkTypes'
<1> USE PositionAssumption, ArrayAssumption, FramesAssumption DEF MotorTypes, LinkTypes
<1>1. CASE SendCommand
  <2>1. PICK a \in Position, b \in Position :
          wire' = <<120, a, 121, b, 10>> /\ sent' = Append(sent, <<a, b>>)
    BY <1>1 DEF SendCommand, LF
  <2>2. a \in Byte /\ b \in Byte
    BY DEF Byte
  <2>3. wire' \in Seq(Byte)
    BY <2>1, <2>2 DEF Byte
  <2>4. sent' \in Seq(Position \X Position)
    BY <2>1
  <2>5. frames < MAX_FRAMES /\ frames' = frames + 1 /\ UNCHANGED <<ring, dropped>>
    BY <1>1 DEF SendCommand
  <2> QED BY <2>3, <2>4, <2>5
<1>2. CASE handle_uart1_irq
  <2> DEFINE ch == IF Head(wire) = 13 THEN 10 ELSE Head(wire)
             full == Len(ring) = CHAR_BUFFER_SIZE
  <2>1. /\ wire # << >> /\ wire' = Tail(wire) /\ UNCHANGED <<frames, sent>>
        /\ ring' = IF full THEN ring ELSE Append(ring, ch)
        /\ dropped' = (dropped \/ full)
    BY <1>2 DEF handle_uart1_irq, IrqElsewhere, IrqInTask, Receive, LF, CR
  <2>2. ch \in Byte /\ wire' \in Seq(Byte)
    <3>1. Head(wire) \in Byte /\ Tail(wire) \in Seq(Byte)
      BY <2>1, HeadTailProperties
    <3> QED BY <2>1, <3>1 DEF Byte
  <2>3. ring' \in Seq(Byte) /\ Len(ring') <= CHAR_BUFFER_SIZE
    <3> HIDE DEF ch
    <3>1. Len(ring) \in Nat
      BY LenProperties
    <3> QED BY <2>1, <2>2, <3>1, CharBufferAssumption
  <2>4. dropped' \in BOOLEAN
    BY <2>1, Zenon
  <2> QED BY <2>1, <2>2, <2>3, <2>4
<1>3. CASE Poll
  BY <1>3, PollShape, CharBufferAssumption
<1>4. CASE UNCHANGED link
  BY <1>4 DEF link
<1>5. motor_ioctl \/ PollNothing \/ MotorLost \/ UNCHANGED motorVars => UNCHANGED link
  BY DEF motor_ioctl, motors_stop, motors_set_dir, motors_start, StartPin1,
         StartPin2, StartEn, PollNothing, MotorLost, motorVars
<1> QED BY <1>1, <1>2, <1>3, <1>4, <1>5 DEF MotorNext, motor_task

\* The types of motor_task and of the driver.
LEMMA TaskTypesStep ==
  ASSUME MotorTypes, [MotorNext]_motorVars
  PROVE  TaskTypes' /\ PinTypes'
<1> USE DEF MotorTypes, TaskTypes, PinTypes, Side, LEFT, RIGHT
<1>1. CASE SendCommand
  BY <1>1 DEF SendCommand, pins
<1>2. CASE handle_uart1_irq
  <2>1. UNCHANGED <<dirs, cmd, state, pin1, pin2, en>>
    BY <1>2 DEF handle_uart1_irq, IrqElsewhere, IrqInTask, Receive, pins
  <2>2. /\ at' \in {"poll", "stop", "set", "pin1", "pin2", "en", "lost"}
        /\ side' \in Side
    BY <1>2 DEF handle_uart1_irq, IrqElsewhere, IrqInTask
  <2> QED BY <2>1, <2>2
<1>3. CASE Poll
  <2>1. CASE Len(uart_readline_result) = 5
    <3>1. /\ ring[2] \in Byte /\ ring[4] \in Byte /\ cmd' = <<ring[2], ring[4]>>
          /\ dirs' = Decode(ring[2], ring[4]) /\ at' = "stop" /\ side' = 0
          /\ UNCHANGED <<state, pin1, pin2, en>>
      BY <1>3, <2>1, PollShape DEF LinkTypes
    <3>2. dirs' \subseteq {"FORWARD", "BACKWARD", "LEFT", "RIGHT", "STOP"}
      BY <3>1, DecodeType
    <3>3. cmd' \in Command
      BY <3>1 DEF Command
    <3> QED BY <3>1, <3>2, <3>3
  <2>2. CASE Len(uart_readline_result) # 5
    <3>1. UNCHANGED <<cmd, dirs, at, side, state, pin1, pin2, en>>
      BY <1>3, <2>2, PollShape DEF LinkTypes
    <3> QED BY <3>1
  <2> QED BY <2>1, <2>2
<1>4. CASE motors_stop
  BY <1>4 DEF motors_stop
<1>5. CASE motors_set_dir
  <2>1. state' \in [Side -> {"STOP", "FORWARD", "BACKWARD"}]
    BY <1>5 DEF motors_set_dir
  <2>2. at' = "pin1" /\ side' = 0 /\ UNCHANGED <<dirs, cmd, pin1, pin2, en>>
    BY <1>5 DEF motors_set_dir, pins
  <2> QED BY <2>1, <2>2
<1>6. CASE StartPin1
  BY <1>6 DEF StartPin1
<1>7. CASE StartPin2
  BY <1>7 DEF StartPin2
<1>8. CASE StartEn
  BY <1>8 DEF StartEn
<1>9. CASE PollNothing \/ MotorLost \/ UNCHANGED motorVars
  BY <1>9 DEF PollNothing, MotorLost, motorVars, pins
<1> QED BY <1>1, <1>2, <1>3, <1>4, <1>5, <1>6, <1>7, <1>8, <1>9
        DEF MotorNext, motor_task, motor_ioctl, motors_start

-----------------------------------------------------------------------------
\* The pins between two commands, and on the way.
LEMMA DrivingStep ==
  ASSUME MotorTypes, Driving, [MotorNext]_motorVars, ~struck'
  PROVE  Driving'
<1> USE DEF Side, LEFT, RIGHT
<1> DEFINE Same == UNCHANGED <<cmd, dirs, side, state, pin1, pin2, en>>
<1>1. ASSUME Same, UNCHANGED at  PROVE Driving'
  BY <1>1 DEF Driving, Right, Pin1Right, Pin2Right, EnRight
<1>3. CASE SendCommand \/ PollNothing \/ MotorLost \/ UNCHANGED motorVars
  <2>1. Same /\ UNCHANGED at
    BY <1>3 DEF SendCommand, PollNothing, MotorLost, motorVars, pins
  <2> QED BY <2>1, <1>1
<1>4. CASE handle_uart1_irq
  <2>1. Same /\ UNCHANGED at
    BY <1>4 DEF handle_uart1_irq, IrqElsewhere, IrqInTask, Receive, pins
  <2> QED BY <2>1, <1>1
<1>5. CASE Poll
  <2>1. CASE Len(uart_readline_result) = 5
    <3>1. /\ ring[2] \in Byte /\ ring[4] \in Byte /\ cmd' = <<ring[2], ring[4]>>
          /\ dirs' = Decode(ring[2], ring[4]) /\ at' = "stop" /\ side' = 0
      BY <1>5, <2>1, PollShape DEF MotorTypes, LinkTypes
    <3>2. cmd' \in Command /\ dirs' = Decode(cmd'[1], cmd'[2])
      BY <3>1 DEF Command
    <3> QED BY <3>1, <3>2 DEF Driving, Decode
  <2>2. CASE Len(uart_readline_result) # 5
    <3>1. Same /\ UNCHANGED at
      BY <1>5, <2>2, PollShape DEF MotorTypes, LinkTypes
    <3> QED BY <3>1, <1>1
  <2> QED BY <2>1, <2>2
<1>6. CASE motors_stop
  BY <1>6 DEF motors_stop, MotorTypes, TaskTypes, PinTypes, Driving, Decode
<1>7. CASE motors_set_dir
  <2>1. cmd \in Command /\ dirs = Decode(cmd[1], cmd[2]) /\ \A s \in Side : en[s] = 0
    BY <1>7 DEF motors_set_dir, Driving
  <2>2. cmd[1] \in Byte /\ cmd[2] \in Byte /\ cmd = <<cmd[1], cmd[2]>>
    BY <2>1 DEF Command
  <2>3. \A s \in Side : state'[s] = Wanted(s, cmd)
    <3> TAKE s \in Side
    <3>1. state'[s] =
            IF "STOP" \in dirs THEN "STOP"
            ELSE IF (s = 0 /\ "LEFT" \in dirs) \/ (s = 1 /\ "RIGHT" \in dirs) THEN "STOP"
            ELSE IF "BACKWARD" \in dirs THEN "BACKWARD"
            ELSE IF "FORWARD" \in dirs THEN "FORWARD" ELSE state[s]
      BY <1>7 DEF motors_set_dir
    <3> QED BY <2>1, <2>2, <3>1, DecodeWanted
  <2>4. at' = "pin1" /\ side' = 0 /\ UNCHANGED <<cmd, en>>
    BY <1>7 DEF motors_set_dir, pins
  <2> QED BY <2>1, <2>3, <2>4 DEF Driving, Wanted
<1>8. CASE StartPin1
  BY <1>8 DEF StartPin1, MotorTypes, TaskTypes, PinTypes, Driving, Right, Pin1Right,
              Pin2Right, EnRight
<1>9. CASE StartPin2
  BY <1>9 DEF StartPin2, MotorTypes, TaskTypes, PinTypes, Driving, Right, Pin1Right,
              Pin2Right, EnRight
<1>10. CASE StartEn
  BY <1>10 DEF StartEn, MotorTypes, TaskTypes, PinTypes, Driving, Right, Pin1Right,
               Pin2Right, EnRight
<1> QED BY <1>3, <1>4, <1>5, <1>6, <1>7, <1>8, <1>9, <1>10
        DEF MotorNext, motor_task, motor_ioctl, motors_start

-----------------------------------------------------------------------------
\* Every number but 0 is the number of some byte of some command.
LEMMA Position5 ==
  ASSUME NEW n \in Nat
  PROVE  \E q \in Nat, r \in 1 .. 5 : n + 1 = 5 * q + r
<1>1. n \div 5 \in Nat /\ n % 5 \in 0 .. 4 /\ n = 5 * (n \div 5) + (n % 5)
  OBVIOUS
<1>2. (n % 5) + 1 \in 1 .. 5 /\ n + 1 = 5 * (n \div 5) + ((n % 5) + 1)
  BY <1>1
<1> QED BY <1>1, <1>2

\* The bytes of a command, and what becomes of them in the ring.
LEMMA RawBytes ==
  ASSUME NEW c0
  PROVE  /\ Raw(c0, 1) = 120 /\ Raw(c0, 2) = c0[1] /\ Raw(c0, 3) = 121
         /\ Raw(c0, 4) = c0[2] /\ Raw(c0, 5) = 10
         /\ Stored(c0, 5) = 10
         /\ Stored(c0, 2) # 10 => Stored(c0, 2) = c0[1]
         /\ Stored(c0, 4) # 10 => Stored(c0, 4) = c0[2]
BY DEF Raw, Stored

\* As long as the ring is in step, a line ends with the command it began in.  It
\* is five bytes long only if it is that whole command.
LEMMA LineInStep ==
  ASSUME LinkTypes, Sending, InStep, READ_SIZE >= 6,
         uart_readline_result # << >>
  PROVE  /\ Len(uart_readline_result) <= 5 /\ ring[Len(uart_readline_result)] = 10
         /\ Len(uart_readline_result) = 5 =>
              \E j \in 1 .. frames : ring[2] = sent[j][1] /\ ring[4] = sent[j][2]
<1> DEFINE line == uart_readline_result
<1> USE ReadSizeAssumption
<1>1. PICK nl \in 1 .. Len(ring) :
        /\ ring[nl] = 10 /\ \A j \in 1 .. nl - 1 : ring[j] # 10
        /\ Len(line) = IF nl < READ_SIZE - 1 THEN nl ELSE READ_SIZE - 1
  BY LineShape DEF LinkTypes
<1> HIDE DEF line
<1>2. /\ Len(ring) \in Nat /\ Len(wire) \in Nat /\ frames \in Nat /\ Read \in Nat
      /\ Read + Len(ring) <= 5 * frames
  BY LenProperties, FramesAssumption DEF LinkTypes, InStep, Read
<1>3. PICK q \in Nat, r \in 1 .. 5 : Read + 1 = 5 * q + r
  BY <1>2, Position5
<1>4. q + 1 \in 1 .. frames
  BY <1>1, <1>2, <1>3
<1>5. \A k \in 1 .. Len(ring) : r + k - 1 <= 5 => ring[k] = Stored(sent[q + 1], r + k - 1)
  <2> TAKE k \in 1 .. Len(ring)
  <2> HAVE r + k - 1 <= 5
  <2>1. Is(Read + k, q + 1, r + k - 1) /\ r + k - 1 \in 1 .. 5
    BY <1>2, <1>3, <1>4 DEF Is
  <2> QED BY <2>1, <1>4 DEF InStep
<1>6. nl <= 6 - r
  <2>1. CASE 6 - r > Len(ring)
    BY <2>1, <1>1, <1>2
  <2>2. CASE 6 - r <= Len(ring)
    <3>1. 6 - r \in 1 .. Len(ring) /\ r + (6 - r) - 1 = 5
      BY <2>2, <1>2
    <3>2. ring[6 - r] = Stored(sent[q + 1], 5)
      BY <3>1, <1>5
    <3>3. ring[6 - r] = 10
      BY <3>2, RawBytes
    <3> QED BY <3>1, <3>3, <1>1, <1>2
  <2> QED BY <2>1, <2>2, <1>2
<1>7. Len(line) = nl /\ nl <= 5
  BY <1>1, <1>6
<1>8. ASSUME Len(line) = 5
      PROVE  \E j \in 1 .. frames : ring[2] = sent[j][1] /\ ring[4] = sent[j][2]
  <2>1. nl = 5 /\ r = 1 /\ Len(ring) >= 5
    BY <1>6, <1>7, <1>8, <1>2
  <2>2. ring[2] = Stored(sent[q + 1], 2) /\ ring[4] = Stored(sent[q + 1], 4)
    BY <2>1, <1>2, <1>5
  <2>3. ring[2] # 10 /\ ring[4] # 10
    BY <2>1, <1>1
  <2>4. ring[2] = sent[q + 1][1] /\ ring[4] = sent[q + 1][2]
    BY <2>2, <2>3, RawBytes
  <2> QED BY <2>4, <1>4
<1> QED BY <1>1, <1>7, <1>8 DEF line

\* The remote control puts a command on the empty wire.
LEMMA SendInStep ==
  ASSUME MotorTypes, Sending, ~dropped => InStep, SendCommand
  PROVE  Sending' /\ (~dropped' => InStep')
<1>1. PICK a \in Position, b \in Position :
        wire' = <<120, a, 121, b, 10>> /\ sent' = Append(sent, <<a, b>>)
  BY DEF SendCommand, LF
<1>2. /\ wire = << >> /\ frames' = frames + 1 /\ UNCHANGED <<ring, dropped, cmd>>
      /\ frames \in Nat /\ Len(sent) = frames /\ Len(ring) \in Nat
      /\ sent \in Seq(Position \X Position)
  BY LenProperties DEF SendCommand, Sending, MotorTypes, LinkTypes
<1>3. /\ Len(sent') = frames' /\ \A j \in 1 .. frames : sent'[j] = sent[j]
      /\ sent'[frames'] = <<a, b>>
  BY <1>1, <1>2
<1>4. Len(wire') = 5 /\ Len(wire) = 0 /\ wire' # << >>
  BY <1>1, <1>2
<1>5. Sending'
  <2>1. \A k \in 1 .. 5 : wire'[k] = Raw(<<a, b>>, k)
    BY <1>1 DEF Raw
  <2>2. \A k \in 1 .. Len(wire') : wire'[k] = Raw(sent'[frames'], 5 - Len(wire') + k)
    BY <2>1, <1>3, <1>4
  <2> QED BY <1>2, <1>3, <1>4, <2>2 DEF Sending, Raw
<1>6. ASSUME ~dropped  PROVE InStep'
  <2>1. Read = 5 * frames - Len(ring) /\ Read' = Read
    BY <1>2, <1>4 DEF Read
  <2>2. InStep
    BY <1>6
  <2>3. ASSUME NEW k \in 1 .. Len(ring), NEW j \in 1 .. frames', NEW r \in 1 .. 5,
               Read + k = 5 * (j - 1) + r
        PROVE  ring[k] = Stored(sent'[j], r)
    <3>1. j \in 1 .. frames
      BY <1>2, <2>1, <2>3
    <3>2. ring[k] = Stored(sent[j], r)
      BY <2>2, <2>3, <3>1 DEF InStep, Is
    <3> QED BY <3>1, <3>2, <1>3
  <2>4. cmd # none => \E j \in 1 .. frames' : cmd = sent'[j]
    BY <2>2, <1>2, <1>3 DEF InStep
  <2>5. \A k \in 1 .. Len(ring'), j \in 1 .. frames', r \in 1 .. 5 :
          Read' + k = 5 * (j - 1) + r => ring'[k] = Stored(sent'[j], r)
    <3> TAKE k \in 1 .. Len(ring'), j \in 1 .. frames', r \in 1 .. 5
    <3> HAVE Read' + k = 5 * (j - 1) + r
    <3>1. k \in 1 .. Len(ring) /\ Read + k = 5 * (j - 1) + r /\ ring'[k] = ring[k]
      BY <1>2, <2>1
    <3> QED BY <3>1, <2>3
  <2>6. Read' >= 0 /\ (READ_SIZE < 6 => cmd' = none)
    BY <1>2, <2>1, <2>2 DEF InStep
  <2>7. cmd' # none => \E j \in 1 .. frames' : cmd' = sent'[j]
    BY <1>2, <2>4
  <2> QED BY <2>5, <2>6, <2>7 DEF InStep, Is, Stored, Raw
<1> QED BY <1>2, <1>5, <1>6

\* A byte goes from the wire into the ring, or is refused.
LEMMA ReceiveInStep ==
  ASSUME MotorTypes, Sending, ~dropped => InStep, handle_uart1_irq
  PROVE  Sending' /\ (~dropped' => InStep')
<1> DEFINE ch == IF Head(wire) = 13 THEN 10 ELSE Head(wire)
           full == Len(ring) = CHAR_BUFFER_SIZE
           w == Len(wire)
<1>1. /\ wire # << >> /\ wire' = Tail(wire) /\ UNCHANGED <<frames, sent, cmd>>
      /\ ring' = IF full THEN ring ELSE Append(ring, ch)
      /\ dropped' = (dropped \/ full)
  BY DEF handle_uart1_irq, IrqElsewhere, IrqInTask, Receive, LF, CR
<1>2. /\ wire \in Seq(Byte) /\ ring \in Seq(Byte) /\ frames \in Nat
      /\ Len(ring) \in Nat /\ w \in 1 .. 5 /\ frames # 0
  <2>1. wire \in Seq(Byte) /\ ring \in Seq(Byte) /\ frames \in Nat
    BY FramesAssumption DEF MotorTypes, LinkTypes
  <2>2. Len(ring) \in Nat /\ w \in Nat /\ w # 0
    BY <1>1, <2>1, LenProperties, EmptySeq
  <2>3. Len(wire) <= 5 /\ (wire # << >> => frames # 0)
    BY Zenon DEF Sending
  <2>4. frames # 0
    BY <1>1, <2>3, Zenon
  <2>5. w \in 1 .. 5
    <3>1. w <= 5 /\ w \in Nat /\ w # 0
      BY <2>2, <2>3
    <3> HIDE DEF w
    <3> QED BY <3>1
  <2> QED BY <2>1, <2>2, <2>4, <2>5
<1>3. /\ Len(wire') = w - 1 /\ \A k \in 1 .. w - 1 : wire'[k] = wire[k + 1]
      /\ Head(wire) = wire[1]
  BY <1>1, <1>2
<1> HIDE DEF w
<1>4. Head(wire) = Raw(sent[frames], 6 - w)
  <2>1. 1 \in 1 .. w /\ 5 - w + 1 = 6 - w
    BY <1>2
  <2>2. wire[1] = Raw(sent[frames], 5 - w + 1)
    BY <2>1 DEF Sending, w
  <2> QED BY <2>1, <2>2, <1>3
<1>5. Sending'
  <2>1. \A k \in 1 .. w - 1 : wire'[k] = Raw(sent[frames], 5 - (w - 1) + k)
    <3> TAKE k \in 1 .. w - 1
    <3>1. k + 1 \in 1 .. w /\ 5 - w + (k + 1) = 5 - (w - 1) + k
      BY <1>2
    <3>2. wire[k + 1] = Raw(sent[frames], 5 - w + (k + 1))
      BY <3>1 DEF Sending, w
    <3> QED BY <3>1, <3>2, <1>3
  <2>2. /\ \A k \in 1 .. Len(wire') : wire'[k] = Raw(sent'[frames'], 5 - Len(wire') + k)
        /\ Len(sent') = frames' /\ frames' # 0
    BY <1>1, <1>2, <1>3, <2>1 DEF Sending
  <2>3. Len(wire') <= 5
    BY <1>2, <1>3
  <2> QED BY <2>2, <2>3 DEF Sending, Raw
<1>6. ASSUME ~dropped'  PROVE InStep'
  <2>1. ~dropped /\ ~full
    BY <1>1, <1>6, Zenon DEF MotorTypes, LinkTypes
  <2>2. InStep /\ ring' = Append(ring, ch)
    BY <1>1, <2>1
  <2>3. ch = Stored(sent[frames], 6 - w)
    BY <1>4 DEF Stored
  <2> HIDE DEF ch
  <2>4. /\ Len(ring') = Len(ring) + 1 /\ ring'[Len(ring) + 1] = ch
        /\ \A k \in 1 .. Len(ring) : ring'[k] = ring[k]
    BY <2>2, <1>2
  <2>5. Read = 5 * frames - w - Len(ring) /\ Read' = Read /\ Read \in Int
    <3>1. /\ Len(wire) = w /\ Len(wire') = w - 1 /\ frames' = frames
          /\ Len(ring') = Len(ring) + 1
      BY <1>1, <1>3, <2>4 DEF w
    <3> QED BY <3>1, <1>2 DEF Read
  <2>6. ASSUME NEW k \in 1 .. Len(ring'), NEW j \in 1 .. frames, NEW r \in 1 .. 5,
               Read + k = 5 * (j - 1) + r
        PROVE  ring'[k] = Stored(sent[j], r)
    <3>1. CASE k \in 1 .. Len(ring)
      BY <3>1, <2>2, <2>4, <2>6 DEF InStep, Is
    <3>2. CASE k = Len(ring) + 1
      <4>1. 5 * frames - w + 1 = 5 * (j - 1) + r
        BY <1>2, <2>5, <2>6, <3>2
      <4>2. j = frames /\ r = 6 - w
        BY <1>2, <4>1
      <4> QED BY <3>2, <4>2, <2>3, <2>4
    <3> QED BY <1>2, <2>4, <3>1, <3>2
  <2>7. \A k \in 1 .. Len(ring'), j \in 1 .. frames', r \in 1 .. 5 :
          Read' + k = 5 * (j - 1) + r => ring'[k] = Stored(sent'[j], r)
    BY <1>1, <2>5, <2>6
  <2>8. Read' >= 0 /\ (READ_SIZE < 6 => cmd' = none)
    BY <1>1, <2>2, <2>5 DEF InStep
  <2>9. cmd' # none => \E j \in 1 .. frames' : cmd' = sent'[j]
    BY <1>1, <2>2, Zenon DEF InStep
  <2> QED BY <2>7, <2>8, <2>9 DEF InStep, Is, Stored, Raw
<1> QED BY <1>5, <1>6

\* motor_task takes a line out of the ring.
LEMMA PollInStep ==
  ASSUME MotorTypes, Sending, ~dropped => InStep, Poll
  PROVE  Sending' /\ (~dropped' => InStep')
<1> DEFINE n == Len(uart_readline_result)
<1>1. /\ n \in 1 .. Len(ring) /\ Len(ring') = Len(ring) - n
      /\ \A k \in 1 .. Len(ring') : ring'[k] = ring[n + k]
      /\ UNCHANGED <<wire, frames, sent, dropped>>
      /\ n # 5 => cmd' = cmd
      /\ n = 5 => cmd' = <<ring[2], ring[4]>>
  BY PollShape DEF MotorTypes, LinkTypes
<1>2. n < READ_SIZE /\ uart_readline_result # << >>
  BY LineShape DEF Poll, MotorTypes, LinkTypes
<1>3. /\ Len(ring) \in Nat /\ Len(wire) \in Nat /\ frames \in Nat
      /\ Len(sent) = frames /\ sent \in Seq(Position \X Position)
  BY LenProperties DEF MotorTypes, LinkTypes, Sending
<1>4. Sending'
  BY <1>1 DEF Sending, Raw
<1>5. ASSUME ~dropped  PROVE InStep'
  <2>1. InStep
    BY <1>5
  <2>2. READ_SIZE >= 6 /\ n = 5 => \E j \in 1 .. frames : cmd' = sent[j]
    <3> SUFFICES ASSUME READ_SIZE >= 6, n = 5  PROVE \E j \in 1 .. frames : cmd' = sent[j]
      OBVIOUS
    <3>1. PICK j \in 1 .. frames : ring[2] = sent[j][1] /\ ring[4] = sent[j][2]
      BY <1>2, <2>1, LineInStep DEF MotorTypes
    <3>2. sent[j] \in Position \X Position
      BY <1>3
    <3> QED BY <1>1, <3>1, <3>2
  <2> HIDE DEF n
  <2>3. READ_SIZE < 6 => n # 5
    BY <1>1, <1>2, ReadSizeAssumption
  <2>4. Read' = Read + n /\ Read \in Int
    BY <1>1, <1>3 DEF Read
  <2>5. ASSUME NEW k \in 1 .. Len(ring'), NEW j \in 1 .. frames, NEW r \in 1 .. 5,
               Read + n + k = 5 * (j - 1) + r
        PROVE  ring'[k] = Stored(sent[j], r)
    <3>1. n + k \in 1 .. Len(ring) /\ Read + (n + k) = 5 * (j - 1) + r
      BY <1>1, <1>3, <2>4, <2>5
    <3>2. ring[n + k] = Stored(sent[j], r)
      BY <3>1, <2>1 DEF InStep, Is
    <3> QED BY <3>2, <1>1
  <2>6. Read' >= 0
    BY <1>1, <2>1, <2>4 DEF InStep
  <2>7. READ_SIZE < 6 => cmd' = none
    BY <2>1, <2>3, <1>1 DEF InStep
  <2>8. cmd' # none => \E j \in 1 .. frames : cmd' = sent[j]
    <3>1. CASE n = 5
      BY <3>1, <2>2, <2>3, ReadSizeAssumption
    <3>2. CASE n # 5
      BY <3>2, <1>1, <2>1 DEF InStep
    <3> QED BY <3>1, <3>2
  <2>9. /\ \A k \in 1 .. Len(ring'), j \in 1 .. frames', r \in 1 .. 5 :
             Read' + k = 5 * (j - 1) + r => ring'[k] = Stored(sent'[j], r)
        /\ cmd' # none => \E j \in 1 .. frames' : cmd' = sent'[j]
    BY <1>1, <2>4, <2>5, <2>8
  <2> QED BY <2>6, <2>7, <2>9 DEF InStep, Is, Stored, Raw
<1> QED BY <1>1, <1>4, <1>5

-----------------------------------------------------------------------------
\* The invariant holds after motor_init.
LEMMA Motor_Init == MotorInit => MotorInv
<1> SUFFICES ASSUME MotorInit  PROVE MotorInv
  OBVIOUS
<1> USE PositionAssumption, FramesAssumption DEF MotorInit, Side, LEFT, RIGHT, none
<1>0. Len(<< >>) = 0 /\ << >> \in Seq(Byte) /\ << >> \in Seq(Position \X Position)
  BY EmptySeq
<1>1. LinkTypes
  <2>1. dropped \in BOOLEAN
    BY Zenon
  <2> QED BY <1>0, <2>1, CharBufferAssumption DEF LinkTypes
<1>2. TaskTypes
  BY DEF TaskTypes
<1>3. PinTypes
  BY DEF PinTypes
<1>4. Driving
  BY DEF Driving
<1>5. Sending /\ InStep
  BY <1>0 DEF Sending, InStep, Read
<1>6. StruckType
  BY Zenon DEF StruckType
<1> QED BY <1>1, <1>2, <1>3, <1>4, <1>5, <1>6 DEF MotorInv, MotorTypes

\* Every step of the remote control, the interrupt handler and motor_task keeps it.
LEMMA MotorStep ==
  ASSUME MotorInv, [MotorNext]_motorVars
  PROVE  MotorInv'
<1>1. MotorTypes'
  BY LinkTypesStep, TaskTypesStep DEF MotorInv, MotorTypes
<1>h. struck' = struck \/ struck' = TRUE
  BY Zenon DEF MotorNext, SendCommand, handle_uart1_irq, IrqElsewhere, IrqInTask, motor_task,
     Poll, PollNothing, motor_ioctl, motors_stop, motors_set_dir, motors_start, StartPin1,
     StartPin2, StartEn, MotorLost, motorVars
<1>t. StruckType'
  BY <1>h, Zenon DEF MotorInv, StruckType
<1>2. ~struck' => Driving'
  <2>1. ~struck' => ~struck
    BY <1>h, Zenon
  <2> QED BY <2>1, DrivingStep DEF MotorInv
<1>3. Sending' /\ (~dropped' => InStep')
  <2>1. CASE SendCommand
    BY <2>1, SendInStep DEF MotorInv
  <2>2. CASE handle_uart1_irq
    BY <2>2, ReceiveInStep DEF MotorInv
  <2>3. CASE Poll
    BY <2>3, PollInStep DEF MotorInv
  <2>4. motor_ioctl \/ PollNothing \/ MotorLost \/ UNCHANGED motorVars => UNCHANGED <<link, cmd>>
    BY DEF motor_ioctl, motors_stop, motors_set_dir, motors_start, StartPin1,
           StartPin2, StartEn, PollNothing, MotorLost, motorVars
  <2>5. CASE UNCHANGED <<link, cmd>>
    <3>1. UNCHANGED <<wire, frames, sent, ring, dropped, cmd>>
      BY <2>5 DEF link
    <3>2. Sending /\ (~dropped => InStep)
      BY DEF MotorInv
    <3>3. Sending'
      BY <3>1, <3>2 DEF Sending, Raw
    <3>4. InStep => InStep'
      BY <3>1 DEF InStep, Read, Is, Stored, Raw
    <3> QED BY <3>1, <3>2, <3>3, <3>4
  <2> QED BY <2>1, <2>2, <2>3, <2>4, <2>5 DEF MotorNext, motor_task
<1> QED BY <1>1, <1>2, <1>3, <1>t DEF MotorInv

\* For every size of the ring, of the reader's buffer and of the array behind it
\* that holds a command and its terminator, and any number of commands of five
\* bytes with any positions: indices, pins and states have their types, and as
\* long as the ring has refused nothing and motor_task was not interrupted every
\* line fits the array with its terminator, though uart_readline is passed ten
\* times its size.  It is the sender that keeps the lines short, not the code.
THEOREM MotorTypeCorrect == MotorSpec => []MotorTypeOK
<1>1. MotorInv => MotorTypeOK
  <2> SUFFICES ASSUME MotorInv  PROVE MotorTypeOK
    OBVIOUS
  <2>1. ~dropped /\ ~struck => Len(uart_readline_result) < UART_BUFFER_SIZE
    <3> SUFFICES ASSUME ~dropped  PROVE Len(uart_readline_result) < UART_BUFFER_SIZE
      OBVIOUS
    <3>1. /\ Len(uart_readline_result) \in Nat /\ Len(uart_readline_result) < READ_SIZE
          /\ uart_readline_result = << >> => Len(uart_readline_result) = 0
      BY LineShape, LenProperties DEF MotorInv, MotorTypes, LinkTypes
    <3>2. READ_SIZE >= 6 /\ uart_readline_result # << >> => Len(uart_readline_result) <= 5
      BY LineInStep DEF MotorInv, MotorTypes
    <3> QED BY <3>1, <3>2, ReadSizeAssumption, ArrayAssumption
  <2>2. dropped \in BOOLEAN /\ struck \in BOOLEAN
    BY Zenon DEF MotorInv, MotorTypes, LinkTypes, StruckType
  <2> QED BY <2>1, <2>2
          DEF MotorInv, MotorTypes, LinkTypes, TaskTypes, PinTypes, MotorTypeOK, Byte, Command
<1> QED BY <1>1, Motor_Init, MotorStep, PTL DEF MotorSpec

\* For the same sizes and commands, and until an interrupt finds motor_task on the
\* CPU, the pins of both motors say between two commands what the last decoded
\* command wants, with one pair of levels for forward throughout.
THEOREM PinsAreRight == MotorSpec => PinsFollowCommand
<1>1. MotorInv => PinsShow(<<1, 0>>)
  <2> SUFFICES ASSUME MotorInv, at = "poll", cmd # none, ~struck, NEW s \in Side
               PROVE  /\ en[s] = IF Wanted(s, cmd) = "STOP" THEN 0 ELSE 1
                      /\ <<pin1[s], pin2[s]>> =
                           CASE Wanted(s, cmd) = "STOP" -> <<0, 0>>
                             [] Wanted(s, cmd) = "FORWARD" -> <<1, 0>>
                             [] Wanted(s, cmd) = "BACKWARD" -> <<0, 1>>
    BY DEF PinsShow
  <2>1. Pin1Right(s) /\ Pin2Right(s) /\ EnRight(s)
    BY DEF MotorInv, Driving, Right
  <2>2. Wanted(s, cmd) \in {"STOP", "FORWARD", "BACKWARD"}
    BY WantedType
  <2> QED BY <2>1, <2>2 DEF Pin1Right, Pin2Right, EnRight
<1> QED BY <1>1, Motor_Init, MotorStep, PTL DEF MotorSpec, PinsFollowCommand

\* For the same sizes and commands only commands that were sent are executed, as long
\* as the ring has refused nothing and motor_task was not interrupted, whatever
\* bytes the positions are.
THEOREM NoInventedCommand == MotorSpec => []OnlySentCommands
<1>1. MotorInv => OnlySentCommands
  <2> SUFFICES ASSUME MotorInv, ~dropped, ~struck, cmd # none  PROVE cmd \in Range(sent)
    BY DEF OnlySentCommands
  <2>1. PICK j \in 1 .. frames : cmd = sent[j]
    BY DEF MotorInv, InStep
  <2>2. DOMAIN sent = 1 .. frames
    BY LenProperties DEF MotorInv, MotorTypes, LinkTypes, Sending
  <2> QED BY <2>1, <2>2 DEF Range
<1> QED BY <1>1, Motor_Init, MotorStep, PTL DEF MotorSpec

\* For the same sizes and commands, and until an interrupt finds motor_task on the
\* CPU, no step changes a direction pin of a motor that is enabled, before or
\* after it.
THEOREM NeverReversed == MotorSpec => NoReversalUnderPower
<1> DEFINE Safe == ~struck => \A s \in Side : <<pin1[s], pin2[s]>>' # <<pin1[s], pin2[s]>> =>
                             en[s] = 0 /\ en'[s] = 0
<1>1. MotorInv /\ [MotorNext]_motorVars => [Safe]_motorVars
  <2> SUFFICES ASSUME MotorInv, [MotorNext]_motorVars  PROVE Safe \/ UNCHANGED motorVars
    OBVIOUS
  <2>1. CASE UNCHANGED <<pin1, pin2>>
    BY <2>1
  <2>2. CASE StartPin1
    BY <2>2 DEF StartPin1, MotorInv, Driving, MotorTypes, TaskTypes, PinTypes, Side,
                LEFT, RIGHT
  <2>3. CASE StartPin2
    BY <2>3 DEF StartPin2, MotorInv, Driving, MotorTypes, TaskTypes, PinTypes, Side,
                LEFT, RIGHT
  <2> QED BY <2>1, <2>2, <2>3
          DEF MotorNext, motor_task, motor_ioctl, motors_start, SendCommand,
              handle_uart1_irq, IrqElsewhere, IrqInTask, Receive, Poll, PollNothing, motors_stop, motors_set_dir,
              StartEn, MotorLost, motorVars, pins
<1> QED BY <1>1, Motor_Init, MotorStep, PTL DEF MotorSpec, NoReversalUnderPower
=============================================================================
