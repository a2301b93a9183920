------------------------------- MODULE Timer -------------------------------
(***************************************************************************)
(* A timer and its driver (timer.c), called by one process in any order    *)
(* the header allows, with clock edges and interrupts in between.  The six *)
(* timers share no register, so one is modelled; the calls with an index   *)
(* outside 2 .. 7 do nothing.  The handler's callback and the write that   *)
(* ends the interrupt are two steps: the clock runs on between them.  An   *)
(* interrupt does not return to where it came: the process goes on at its  *)
(* link register, so the call it was in may lose a write or be given up,   *)
(* or the machine stands still (ContextSwitch has the details).            *)
(***************************************************************************)
EXTENDS Integers, Interrupts

CONSTANTS TIMER_MAX_COUNT,   \* 0xFFFFFFFF
          CLOCKS_PER_MS,     \* 32
          TickMs,            \* values of timer_tick_ms
          timer_index,       \* the timer, 2 .. 7
          MaxOverflows       \* bound: overflows that are counted

ASSUME TimerAssumption ==
  /\ TIMER_MAX_COUNT \in Nat /\ CLOCKS_PER_MS \in Nat \ {0}
  /\ TickMs \subseteq Nat /\ timer_index \in 2 .. 7 /\ MaxOverflows \in Nat

\* timer_irq_num; the two timers that are not supported get a number that
\* INTC_register_irq refuses.
timer_irq_num == [i \in 0 .. 7 |-> IF i < 2 THEN 130
                                   ELSE IF i < 4 THEN 66 + i ELSE 88 + i]
line == timer_irq_num[timer_index]

ASSUME IrqAssumption == line < NUM_INTERRUPTS

VARIABLES
  st,          \* the timer counts (TCLR)
  tcrr, tldr,  \* counter and reload value
  irqstatus,   \* bits of IRQSTATUS that are set
  irqenable,
  tick_func,   \* timer_tick_funcs[timer_index] is set
  pc,          \* "idle", or the driver function that is under way
  isr,         \* "none", "callback", "clear": where the handler is; or "hung"
  ms,          \* interval of the last timer_init; 0 before it
  since, overflows, ticks,  \* history: clocks since the last reload, and counts
  struck       \* history: another device interrupted the process

timer == <<st, tcrr, tldr, irqstatus, irqenable, tick_func>>
history == <<ms, since, overflows, ticks, struck>>
vars == <<intc, timer, pc, isr, history>>

Init ==
  /\ intc_vector_table = [image \in Image |-> [n \in Line |-> "default_handler"]]
  /\ vectors = "kernel" /\ mir = Line /\ I = FALSE
  /\ st = FALSE /\ tcrr = 0 /\ tldr = 0 /\ irqstatus = {} /\ irqenable = {}
  /\ tick_func = FALSE /\ pc = "idle" /\ isr = "none"
  /\ ms = 0 /\ since = 0 /\ overflows = 0 /\ ticks = 0 /\ struck = FALSE

-----------------------------------------------------------------------------
Called == pc = "idle" /\ isr = "none"

Supported(i) == i \in 2 .. 7

\* What is stored in TLDR and TCRR, in unsigned arithmetic.
Reload(tick_ms) == (TIMER_MAX_COUNT - tick_ms * CLOCKS_PER_MS) % (TIMER_MAX_COUNT + 1)

\* Mutant: only the counter is loaded, not the reload register.
InitNoReload(i, tick_ms) ==
  /\ Called /\ Supported(i) /\ line \in mir
  /\ st' = FALSE /\ irqstatus' = {} /\ irqenable' = {"overflow"}
  /\ tcrr' = Reload(tick_ms) /\ UNCHANGED tldr
  /\ tick_func' = TRUE /\ ms' = tick_ms /\ since' = 0
  /\ INTC_register_irq("kernel", line, "handle_timer_irq")
  /\ UNCHANGED <<pc, isr, overflows, ticks, struck>>

\* The reset stops the timer and drops a pending interrupt, so that none comes
\* before the handler is registered.  It is called while the line is masked, as
\* scheduler_init does; an interrupt of another device within it is left out.
timer_init(i, tick_ms) ==
  /\ Called /\ Supported(i) /\ line \in mir
  /\ st' = FALSE /\ irqstatus' = {} /\ irqenable' = {"overflow"}
  /\ tldr' = Reload(tick_ms) /\ tcrr' = Reload(tick_ms)
  /\ tick_func' = TRUE /\ ms' = tick_ms /\ since' = 0
  /\ INTC_register_irq("kernel", line, "handle_timer_irq")
  /\ UNCHANGED <<pc, isr, overflows, ticks, struck>>

\* A call with an index that is not supported returns false.
Refused(i) == Called /\ ~Supported(i) /\ UNCHANGED vars

\* timer_start: the timer runs, and only then is the line unmasked.  "The timer
\* must be initialized with timer_init() before it can be started."
StartCount(i) ==
  /\ Called /\ Supported(i) /\ ms # 0
  /\ st' = TRUE /\ pc' = "start"
  /\ UNCHANGED <<intc, tcrr, tldr, irqstatus, irqenable, tick_func, isr, history>>

StartUnmask ==
  /\ pc = "start" /\ isr = "none"
  /\ INTC_enable_irq(line) /\ pc' = "idle"
  /\ UNCHANGED <<timer, isr, history>>

\* timer_stop: the timer stops, and only then is the line masked.
StopCount(i) ==
  /\ Called /\ Supported(i) /\ ms # 0
  /\ st' = FALSE /\ pc' = "stop"
  /\ UNCHANGED <<intc, tcrr, tldr, irqstatus, irqenable, tick_func, isr, history>>

\* Mutant: the line stays unmasked.
StopKeepsLine ==
  /\ pc = "stop" /\ isr = "none" /\ pc' = "idle"
  /\ UNCHANGED <<intc, timer, isr, history>>

StopMask ==
  /\ pc = "stop" /\ isr = "none"
  /\ INTC_disable_irq(line) /\ pc' = "idle"
  /\ UNCHANGED <<timer, isr, history>>

-----------------------------------------------------------------------------
\* Clock edge.
Clock ==
  /\ st /\ overflows < MaxOverflows
  /\ IF tcrr = TIMER_MAX_COUNT
     THEN /\ tcrr' = tldr /\ since' = 0 /\ overflows' = overflows + 1
          /\ irqstatus' = irqstatus \union (irqenable \intersect {"overflow"})
     ELSE tcrr' = tcrr + 1 /\ since' = since + 1 /\ UNCHANGED <<irqstatus, overflows>>
  /\ UNCHANGED <<intc, st, tldr, irqenable, tick_func, pc, isr, ms, ticks, struck>>

\* The interrupt is taken; no other one is until the handler has ended.
Take ==
  /\ ~I /\ isr = "none" /\ irqstatus # {} /\ line \notin mir
  /\ intc_vector_table["kernel"][line] = "handle_timer_irq"
  /\ I' = TRUE /\ isr' = "callback"
  /\ UNCHANGED <<intc_vector_table, vectors, mir, timer, pc, history>>

\* handle_timer_irq, up to the return of the callback.
Callback ==
  /\ isr = "callback"
  /\ ticks' = IF tick_func THEN ticks + 1 ELSE ticks
  /\ isr' = "clear"
  /\ UNCHANGED <<intc, timer, pc, ms, since, overflows, struck>>

\* Mutant: the value is written as it stands.
WritePlain(register, mask, value) == register \ value

\* What a masked write of the bits "value" does to a register whose bits are
\* cleared by writing ones: REG32_write_masked writes back the ones it has read.
WriteMasked(register, mask, value) == register \ ((register \ mask) \union value)

\* Mutant: the process goes on with interrupts still disabled.
ResumeMasked ==
  \/ /\ UNCHANGED I /\ isr' = "none"
     /\ pc' \in IF pc = "idle" /\ ms # 0 THEN {"idle", "start", "stop"} ELSE {pc, "idle"}
  \/ I' = TRUE /\ isr' = "hung" /\ UNCHANGED pc

\* Where the process goes on, at its link register: where it was, behind the
\* write it was about to make, or behind the call; or nowhere, if the register
\* holds no address of its code (prefetch_abort_handler loops).
Resume ==
  \/ /\ I' = FALSE /\ isr' = "none"
     /\ pc' \in IF pc = "idle" /\ ms # 0 THEN {"idle", "start", "stop"} ELSE {pc, "idle"}
  \/ I' = TRUE /\ isr' = "hung" /\ UNCHANGED pc

\* The write names the match bit; the overflow bit goes because it was read.
ClearIrq ==
  /\ isr = "clear"
  /\ irqstatus' = WriteMasked(irqstatus, {"match"}, {"match"})
  /\ Resume
  /\ UNCHANGED <<intc_vector_table, vectors, mir, st, tcrr, tldr, irqenable,
                 tick_func, history>>

\* An interrupt of another device, from the entry to the dispatch of the process.
OtherIrq ==
  /\ ~I /\ isr = "none" /\ Resume /\ struck' = TRUE
  /\ UNCHANGED <<intc_vector_table, vectors, mir, timer, ms, since, overflows, ticks>>

handle_timer_irq == Take \/ Callback \/ ClearIrq

Next ==
  \/ \E i \in {1, timer_index, 8} : \/ \E t \in TickMs : timer_init(i, t)
                                    \/ Refused(i) \/ StartCount(i) \/ StopCount(i)
  \/ StartUnmask \/ StopMask \/ Clock \/ handle_timer_irq \/ OtherIrq

\* An interrupt that stays raised is taken, and the handler executes.
Spec == Init /\ [][Next]_vars /\ WF_vars(handle_timer_irq)

-----------------------------------------------------------------------------
\* Clock edges from one overflow to the next, which is this one.
Edges == since + 1

\* The interval of timer_init, "intervals specified by timer_tick_ms": an overflow
\* comes ms * CLOCKS_PER_MS clock edges after the one before, or one edge later,
\* also across stops, starts and interrupted calls, if the product fits in the
\* counter.  With the reload value of timer.c:119 it is always one edge later.
\* (A product that does not fit wraps to a short interval, and is not refused.)
Period ==
  [][overflows' = overflows + 1 /\ ms * CLOCKS_PER_MS <= TIMER_MAX_COUNT =>
       Edges - ms * CLOCKS_PER_MS \in {0, 1}]_vars

\* No interrupt is answered twice: the callback is never called more often than
\* the timer has overflowed, although the write that ends an interrupt does not
\* name the overflow bit.  Overflows during a callback are merged.
TickPerOverflow == ticks <= overflows

\* "The timer will stop counting and will no longer trigger the callback
\* function": while the timer stands still and no driver call is under way the
\* callback does not begin, even if the timer's own interrupt made timer_stop lose
\* the write that masks the line.  If another device's interrupt did, it may.
QuietWhenStopped ==
  [][pc = "idle" /\ ~st /\ ~struck => ~(isr = "none" /\ isr' = "callback")]_vars

\* A pending overflow of a timer that counts, with its line unmasked, is handled,
\* unless the timer is stopped, the line masked or the machine hung before that.
Handled ==
  irqstatus # {} /\ st /\ line \notin mir ~>
    irqstatus = {} \/ ~st \/ line \in mir \/ isr = "hung"
=============================================================================
