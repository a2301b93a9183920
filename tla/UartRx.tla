------------------------------- MODULE UartRx -------------------------------
(***************************************************************************)
(* The receive path of one UART (os/drivers/uart.c): the interrupt handler *)
(* pushes a character into a circular_char_buffer_t, and motor_task takes  *)
(* lines out of it with uart_readline.                                     *)
(*                                                                         *)
(* uart_readline and the pop it calls are modelled store by store, because *)
(* the handler may run between any two of them.  When it does, the process *)
(* does not continue where it was: irq_handler_asm keeps the link register *)
(* as the address to continue at (see ContextSwitch).  From the loop of    *)
(* uart_readline that is the instruction after the call of uart_getchar;   *)
(* from circular_char_buffer_pop or from before the first call the process *)
(* continues in a caller with the wrong frame and is lost to the model.    *)
(***************************************************************************)
EXTENDS SerialSizes, Integers, Sequences, SequencesExt

CONSTANT MAX_RECEIVED       \* bound: characters that arrive in a behaviour

ASSUME ReceivedAssumption == MAX_RECEIVED \in Nat

\* Characters: payload, newline, and the terminator uart_readline writes.
Wire == {"data", "cr", "lf"}
Char == {"data", "lf"}
NUL  == "nul"

CB == INSTANCE GenericCircularBuffer
        WITH GENERIC_BUFFER_SIZE <- CHAR_BUFFER_SIZE

VARIABLES
  rx,         \* uartN_rx_buffer
  pc,         \* where the process that reads is
  c, r0,      \* its variable c, and the result of uart_getchar
  dst,        \* what uart_readline has stored in the caller's buffer
  received,   \* characters that have arrived
  accepted,   \* history: characters pushed, in order
  delivered,  \* history: characters taken by uart_readline, in order
  hit         \* history: has an interrupt arrived inside uart_readline?

vars == <<rx, pc, c, r0, dst, received, accepted, delivered, hit>>

InPop  == {"pop_slot", "pop_head", "pop_size", "pop_lines"}
InLoop == {"got", "stored", "end"}

\* .bss after circular_char_buffer_init; motor_task is about to read.
Init ==
  /\ rx = [buffer |-> [k \in 0 .. CHAR_BUFFER_SIZE - 1 |-> NUL],
           head |-> 0, tail |-> 0, size |-> 0, lines |-> 0]
  /\ pc = "out"
  /\ c = NUL /\ r0 = FALSE
  /\ dst = << >>
  /\ received = 0
  /\ accepted = << >> /\ delivered = << >>
  /\ hit = FALSE

-----------------------------------------------------------------------------
\* Mutant of circular_char_buffer_push: the ring is overwritten when full.
PushOverwrites(b, ch) ==
  [CB!PushUnchecked(b, ch) EXCEPT !.lines = IF ch = "lf" THEN @ + 1 ELSE @]

\* The same code as the generic push, and the line counter.
circular_char_buffer_push(b, ch) ==
  IF b.size # CHAR_BUFFER_SIZE
  THEN [CB!generic_circular_buffer_push(b, ch)
          EXCEPT !.lines = IF ch = "lf" THEN @ + 1 ELSE @]
  ELSE b

\* handle_uart0_irq and handle_uart1_irq: the character is read from RHR, a
\* carriage return becomes a newline, and the result of push is ignored.
handle_uart_irq(raw) ==
  LET ch == IF raw = "cr" THEN "lf" ELSE raw IN
  /\ received < MAX_RECEIVED
  /\ received' = received + 1
  /\ rx' = circular_char_buffer_push(rx, ch)
  /\ accepted' = IF rx.size # CHAR_BUFFER_SIZE THEN Append(accepted, ch)
                                               ELSE accepted

\* The interrupt arrives while another process executes.
IrqOutside ==
  /\ pc \in {"out", "lost"}
  /\ \E raw \in Wire : handle_uart_irq(raw)
  /\ UNCHANGED <<pc, c, r0, dst, delivered, hit>>

\* The interrupt arrives in the loop of uart_readline, between two calls.
\* The process continues behind the call it made last, with the old value of
\* r1 in r0.
IrqInLoop ==
  /\ pc \in InLoop
  /\ \E raw \in Wire : handle_uart_irq(raw)
  /\ pc' = "got"
  /\ r0' \in BOOLEAN
  /\ hit' = TRUE
  /\ UNCHANGED <<c, dst, delivered>>

\* The interrupt arrives in the pop or before the first call of it.
IrqInCall ==
  /\ pc \in InPop \cup {"call"}
  /\ \E raw \in Wire : handle_uart_irq(raw)
  /\ pc' = "lost"
  /\ hit' = TRUE
  /\ UNCHANGED <<c, r0, dst, delivered>>

-----------------------------------------------------------------------------
\* Mutant of the entry of uart_readline: any character will do.
EnterOnAnyChar ==
  /\ pc = "out"
  /\ rx.size # 0
  /\ dst' = << >>
  /\ pc' = "call"
  /\ UNCHANGED <<rx, c, r0, received, accepted, delivered, hit>>

\* Mutant of the entry of uart_readline: two lines are wanted.
EnterOnTwoLines ==
  /\ pc = "out"
  /\ rx.lines # 0
  /\ IF rx.lines = 1 THEN UNCHANGED <<pc, dst>> ELSE pc' = "call" /\ dst' = << >>
  /\ UNCHANGED <<rx, c, r0, received, accepted, delivered, hit>>

\* uart_readline is called and finds a line.
ReadlineEnter ==
  /\ pc = "out"
  /\ rx.lines # 0
  /\ dst' = << >>
  /\ pc' = "call"
  /\ UNCHANGED <<rx, c, r0, received, accepted, delivered, hit>>

\* uart_readline is called and returns 0: it stores nothing.
ReadlineNoLine ==
  /\ pc = "out"
  /\ rx.lines = 0
  /\ UNCHANGED vars

\* Mutant of the loop condition: the place for the terminator is used up.
LoopTooFar ==
  /\ pc \in {"call", "stored"}
  /\ pc' = IF Len(dst) < READ_SIZE THEN "pop_slot" ELSE "end"
  /\ UNCHANGED <<rx, c, r0, dst, received, accepted, delivered, hit>>

\* while (i < buffer_size - 1), and the call of uart_getchar.
ReadlineLoop ==
  /\ pc \in {"call", "stored"}
  /\ pc' = IF Len(dst) < READ_SIZE - 1 THEN "pop_slot" ELSE "end"
  /\ UNCHANGED <<rx, c, r0, dst, received, accepted, delivered, hit>>

\* circular_char_buffer_pop: the slot, the head, the size, the lines.
PopSlot ==
  /\ pc = "pop_slot"
  /\ IF rx.size = 0
     THEN r0' = FALSE /\ pc' = "got" /\ UNCHANGED c
     ELSE c' = rx.buffer[rx.head] /\ pc' = "pop_head" /\ UNCHANGED r0
  /\ UNCHANGED <<rx, dst, received, accepted, delivered, hit>>

PopHead ==
  /\ pc = "pop_head"
  /\ rx' = [rx EXCEPT !.head = (@ + 1) % CHAR_BUFFER_SIZE]
  /\ pc' = "pop_size"
  /\ UNCHANGED <<c, r0, dst, received, accepted, delivered, hit>>

PopSize ==
  /\ pc = "pop_size"
  /\ rx' = [rx EXCEPT !.size = @ - 1]
  /\ pc' = "pop_lines"
  /\ UNCHANGED <<c, r0, dst, received, accepted, delivered, hit>>

PopLines ==
  /\ pc = "pop_lines"
  /\ rx' = [rx EXCEPT !.lines = IF c = "lf" THEN @ - 1 ELSE @]
  /\ r0' = TRUE
  /\ pc' = "got"
  /\ delivered' = Append(delivered, c)
  /\ UNCHANGED <<c, dst, received, accepted, hit>>

\* buffer[i++] = c; the loop ends at a newline or when nothing was popped.
ReadlineStore ==
  /\ pc = "got"
  /\ dst' = IF r0 THEN Append(dst, c) ELSE dst
  /\ pc' = IF r0 /\ c # "lf" THEN "stored" ELSE "end"
  /\ UNCHANGED <<rx, c, r0, received, accepted, delivered, hit>>

\* buffer[i] = '\0'; return i.
ReadlineReturn ==
  /\ pc = "end"
  /\ dst' = Append(dst, NUL)
  /\ pc' = "out"
  /\ UNCHANGED <<rx, c, r0, received, accepted, delivered, hit>>

uart_getchar == PopSlot \/ PopHead \/ PopSize \/ PopLines
uart_readline == \/ ReadlineEnter \/ ReadlineNoLine \/ ReadlineLoop
                 \/ uart_getchar \/ ReadlineStore \/ ReadlineReturn

\* The process is lost; other processes and interrupts go on.
Lost == pc = "lost" /\ UNCHANGED vars

Next == IrqOutside \/ IrqInLoop \/ IrqInCall \/ uart_readline \/ Lost

\* motor_task calls uart_readline in every round of its loop and gets the CPU
\* again and again, for as long as processes are dispatched (DispatchedInTurn in
\* Scheduler).
Spec == Init /\ [][Next]_vars /\ WF_vars(uart_readline)

-----------------------------------------------------------------------------
Labels == {"out", "call", "lost"} \cup InPop \cup InLoop

TypeOK ==
  /\ rx \in [buffer : [0 .. CHAR_BUFFER_SIZE - 1 -> Char \cup {NUL}],
             head : 0 .. CHAR_BUFFER_SIZE - 1, tail : 0 .. CHAR_BUFFER_SIZE - 1,
             size : 0 .. CHAR_BUFFER_SIZE, lines : 0 .. CHAR_BUFFER_SIZE + 1]
  /\ pc \in Labels
  /\ c \in Char \cup {NUL} /\ r0 \in BOOLEAN
  /\ dst \in Seq(Char \cup {NUL})
  /\ received \in 0 .. MAX_RECEIVED
  /\ accepted \in Seq(Char) /\ delivered \in Seq(Char)
  /\ hit \in BOOLEAN
  /\ ~hit => Len(dst) <= READ_SIZE

Newlines(s) == Cardinality({k \in DOMAIN s : s[k] = "lf"})

\* Nothing is reordered, repeated or lost inside the driver: what was pushed is
\* what was read followed by what is in the ring, and lines counts the newlines
\* in it, whatever was pushed or refused, unless a pop is under way or an
\* interrupt has arrived inside uart_readline.
Fifo ==
  ~hit /\ pc \notin InPop =>
    /\ CB!RingConsistent(rx)
    /\ accepted = delivered \o CB!Contents(rx)
    /\ rx.lines = Newlines(CB!Contents(rx))

\* A call of uart_readline that finds a line never runs out of characters
\* before the newline (the count is not stale when it is used), and what it
\* returns is a whole line or fills the buffer, terminator included.
ReturnsWholeLine ==
  ~hit /\ pc = "end" =>
    /\ r0
    /\ Last(dst) = "lf" \/ Len(dst) = READ_SIZE - 1

\* Every newline that was accepted is read in the end: the reader never sleeps
\* on a line, unless an interrupt has hit it.
EveryLineRead ==
  \A n \in 1 .. MAX_RECEIVED :
    Newlines(accepted) >= n ~> (hit \/ Newlines(delivered) >= n)
=============================================================================
