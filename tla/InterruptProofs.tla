-------------------------- MODULE InterruptProofs --------------------------
(***************************************************************************)
(* The users of the interrupt controller: Timer for every width of the     *)
(* counter, clock rate, interval and bound on the overflows, and Startup   *)
(* for every set of lines and number of characters.                        *)
(***************************************************************************)
EXTENDS Timer, Startup, TLAPS

Types ==
  /\ st \in BOOLEAN /\ irqstatus \subseteq {"overflow", "match"}
  /\ irqenable \subseteq {"overflow"}
  /\ pc \in {"idle", "start", "stop"} /\ isr \in {"none", "callback", "clear", "hung"}
  /\ struck \in BOOLEAN
  /\ ms \in TickMs \union {0} /\ since \in Nat /\ overflows \in Nat /\ ticks \in Nat

\* Every tick, past, under way or still to come, has an overflow of its own.
Paid ==
  /\ isr = "none" => ticks + (IF irqstatus = {} THEN 0 ELSE 1) <= overflows
  /\ isr = "callback" => ticks + 1 <= overflows
  /\ ticks <= overflows

\* The interval, and the counter as far as the clock has taken it.
interval == ms * CLOCKS_PER_MS

Counting ==
  /\ st => ms # 0
  /\ ms # 0 /\ interval <= TIMER_MAX_COUNT =>
       tldr = TIMER_MAX_COUNT - interval /\ tcrr = TIMER_MAX_COUNT - interval + since

\* A timer that stands still has its line masked or nothing to say, and one whose
\* line is about to be unmasked counts or has nothing to say.
Masked ==
  /\ pc = "idle" /\ ~st /\ ~struck => line \in mir \/ irqstatus = {}
  /\ pc = "start" /\ ~struck => st \/ irqstatus = {}

IndInv == Types /\ Paid /\ Counting /\ Masked

-----------------------------------------------------------------------------
\* A masked write clears all bits of IRQSTATUS, the overflow bit included.
LEMMA ClearsAll ==
  ASSUME NEW register, NEW mask
  PROVE  WriteMasked(register, mask, mask) = {}
BY DEF WriteMasked

\* A reload value that fits in the counter is not wrapped.
LEMMA ReloadFits ==
  ASSUME NEW t \in Nat, t * CLOCKS_PER_MS <= TIMER_MAX_COUNT
  PROVE  Reload(t) = TIMER_MAX_COUNT - t * CLOCKS_PER_MS
<1> DEFINE d == t * CLOCKS_PER_MS
<1>1. d \in Nat /\ d <= TIMER_MAX_COUNT /\ TIMER_MAX_COUNT \in Nat
  BY TimerAssumption
<1>2. ASSUME NEW x \in Nat, NEW n \in Nat, x <= n
      PROVE  (n - x) % (n + 1) = n - x
  BY <1>2
<1> HIDE DEF d
<1>3. (TIMER_MAX_COUNT - d) % (TIMER_MAX_COUNT + 1) = TIMER_MAX_COUNT - d
  BY <1>1, <1>2
<1> QED BY <1>3 DEF Reload, d

\* timer_init stops the timer and sets the interval.
LEMMA Init_Inv ==
  ASSUME IndInv, NEW i, NEW t \in TickMs, timer_init(i, t)
  PROVE  IndInv'
<1> USE DEF IndInv, timer_init, Called
<1>1. t \in Nat
  BY TimerAssumption
<1>2. Types'
  <2>1. st' \in BOOLEAN /\ struck' \in BOOLEAN
    BY Zenon DEF Types
  <2> QED BY <2>1 DEF Types
<1>3. Paid'
  BY DEF Types, Paid
<1>4. Counting'
  <2>1. st' = FALSE /\ ms' = t /\ since' = 0 /\ tldr' = Reload(t) /\ tcrr' = Reload(t)
    OBVIOUS
  <2>2. interval' = t * CLOCKS_PER_MS
    BY <2>1 DEF interval
  <2>3. ASSUME interval' <= TIMER_MAX_COUNT
        PROVE  Reload(t) = TIMER_MAX_COUNT - interval'
    BY <1>1, <2>2, <2>3, ReloadFits
  <2>4. TIMER_MAX_COUNT - interval' \in Int
    BY <1>1, <2>2, TimerAssumption
  <2> QED BY <2>1, <2>3, <2>4 DEF Counting
<1>5. Masked'
  BY DEF Masked
<1> QED BY <1>2, <1>3, <1>4, <1>5

\* The steps of timer_start and timer_stop.
LEMMA StartStop_Inv ==
  ASSUME IndInv, NEW i, StartCount(i) \/ StopCount(i) \/ StartUnmask \/ StopMask
  PROVE  IndInv'
<1> USE DEF IndInv, Types, Paid, Counting, Masked, interval, Called, timer,
            history, intc
<1>1. CASE StartCount(i)
  BY <1>1 DEF StartCount
<1>2. CASE StopCount(i)
  BY <1>2 DEF StopCount
<1>3. CASE StartUnmask
  BY <1>3 DEF StartUnmask, INTC_enable_irq
<1>4. CASE StopMask
  <2>1. line \in Nat
    BY TimerAssumption DEF line, timer_irq_num
  <2>2. line \in mir'
    BY <1>4, <2>1, IrqAssumption, LineAssumption DEF StopMask, INTC_disable_irq
  <2> QED BY <1>4, <2>2 DEF StopMask, INTC_disable_irq
<1> QED BY <1>1, <1>2, <1>3, <1>4

\* A clock edge, an overflow or not.
LEMMA Clock_Inv ==
  ASSUME IndInv, Clock
  PROVE  IndInv'
<1> USE DEF IndInv, Clock
<1>1. Types'
  <2>1. irqstatus' \subseteq {"overflow", "match"}
    <3>1. CASE tcrr = TIMER_MAX_COUNT
      BY <3>1 DEF Types
    <3>2. CASE tcrr # TIMER_MAX_COUNT
      BY <3>2 DEF Types
    <3> QED BY <3>1, <3>2
  <2>2. since' \in Nat /\ overflows' \in Nat
    <3>1. CASE tcrr = TIMER_MAX_COUNT
      BY <3>1 DEF Types
    <3>2. CASE tcrr # TIMER_MAX_COUNT
      BY <3>2 DEF Types
    <3> QED BY <3>1, <3>2
  <2>3. st' \in BOOLEAN /\ struck' \in BOOLEAN
    BY DEF Types
  <2> QED BY <2>1, <2>2, <2>3 DEF Types, intc
<1>2. Paid'
  <2>1. CASE tcrr = TIMER_MAX_COUNT
    BY <2>1 DEF Types, Paid
  <2>2. CASE tcrr # TIMER_MAX_COUNT
    BY <2>2 DEF Types, Paid
  <2> QED BY <2>1, <2>2
<1>3. Counting'
  <2>1. ms * CLOCKS_PER_MS \in Nat
    BY TimerAssumption DEF Types
  <2>2. interval \in Nat /\ interval' = interval
    BY <2>1 DEF interval
  <2> QED BY <2>2, TimerAssumption DEF Types, Counting
<1>4. Masked'
  BY DEF Types, Masked
<1> QED BY <1>1, <1>2, <1>3, <1>4

\* The handler.
LEMMA Handler_Inv ==
  ASSUME IndInv, handle_timer_irq
  PROVE  IndInv'
<1> USE DEF IndInv, Types, Paid, Counting, Masked, interval, timer, history, intc
<1>1. CASE Take
  BY <1>1 DEF Take
<1>2. CASE Callback
  BY <1>2 DEF Callback
<1>3. CASE ClearIrq
  <2>1. irqstatus' = {}
    BY <1>3, ClearsAll DEF ClearIrq
  <2> QED BY <1>3, <2>1 DEF ClearIrq, Resume
<1> QED BY <1>1, <1>2, <1>3 DEF handle_timer_irq

\* An interrupt of another device touches only the process.
LEMMA Other_Inv ==
  ASSUME IndInv, OtherIrq
  PROVE  IndInv'
BY DEF IndInv, Types, Paid, Counting, Masked, interval, timer, OtherIrq, Resume

\* The invariant is inductive.
THEOREM Invariance == Spec => []IndInv
<1>1. Init => IndInv
  <2>1. Init => Types
    <3>1. Init => st \in BOOLEAN /\ struck \in BOOLEAN
      BY Zenon DEF Init
    <3> QED BY <3>1 DEF Init, Types
  <2>2. Init => Paid /\ Counting /\ Masked
    BY DEF Init, Paid, Counting, Masked
  <2> QED BY <2>1, <2>2 DEF IndInv
<1>2. ASSUME IndInv, [Next]_vars
      PROVE  IndInv'
  <2>1. CASE UNCHANGED vars
    BY <1>2, <2>1 DEF IndInv, Types, Paid, Counting, Masked, interval, vars,
         timer, history, intc
  <2>2. CASE Next
    <3>1. CASE \E i \in {1, timer_index, 8} : Refused(i)
      BY <2>1, <3>1 DEF Refused
    <3> QED
      BY <1>2, <2>2, <3>1, Init_Inv, StartStop_Inv, Clock_Inv, Handler_Inv,
         Other_Inv DEF Next
  <2> QED BY <1>2, <2>1, <2>2
<1> QED BY <1>1, <1>2, PTL DEF Spec

\* TickPerOverflow: handle_timer_irq never calls the callback twice for one
\* overflow.
THEOREM NoExtraTick == Spec => []TickPerOverflow
<1>1. IndInv => TickPerOverflow
  BY DEF IndInv, Paid, TickPerOverflow
<1> QED BY <1>1, Invariance, PTL

\* Period: from one overflow to the next the counter takes as many clocks as
\* timer_init was asked for, or one more.
THEOREM PeriodOfInterval == Spec => Period
<1>1. ASSUME IndInv, [Next]_vars
      PROVE  [overflows' = overflows + 1 /\ ms * CLOCKS_PER_MS <= TIMER_MAX_COUNT =>
                Edges - ms * CLOCKS_PER_MS \in {0, 1}]_vars
  <2>1. SUFFICES ASSUME overflows' = overflows + 1, interval <= TIMER_MAX_COUNT
                 PROVE  Edges - interval \in {0, 1}
    BY DEF interval
  <2>2. overflows \in Nat /\ since \in Nat
    BY <1>1 DEF IndInv, Types
  <2>3. Clock /\ tcrr = TIMER_MAX_COUNT
    BY <1>1, <2>1, <2>2 DEF Next, timer_init, Refused, StartCount, StopCount, StartUnmask,
         StopMask, handle_timer_irq, Take, Callback, ClearIrq, OtherIrq, Clock, vars, history
  <2>4. interval \in Nat
    BY <1>1, TimerAssumption DEF IndInv, Types, interval
  <2>5. tcrr = TIMER_MAX_COUNT - interval + since
    BY <1>1, <2>1, <2>3 DEF IndInv, Counting, Clock
  <2> QED BY <2>2, <2>3, <2>4, <2>5, TimerAssumption DEF Edges
<1> QED BY <1>1, Invariance, PTL DEF Spec, Period

\* QuietWhenStopped: while the timer stands still between two driver calls no
\* callback begins, wherever the timer's own interrupts made the calls go on.
THEOREM Quiet == Spec => QuietWhenStopped
<1>1. ASSUME IndInv, [Next]_vars
      PROVE  [pc = "idle" /\ ~st /\ ~struck => ~(isr = "none" /\ isr' = "callback")]_vars
  <2>1. SUFFICES ASSUME pc = "idle", ~st, ~struck, isr = "none", isr' = "callback"
                 PROVE  FALSE
    OBVIOUS
  <2>2. Take
    BY <1>1, <2>1 DEF Next, timer_init, Refused, StartCount, StopCount, StartUnmask,
         StopMask, handle_timer_irq, Callback, ClearIrq, OtherIrq, Resume, Clock, vars
  <2> QED BY <1>1, <2>1, <2>2 DEF IndInv, Masked, Take
<1> QED BY <1>1, Invariance, PTL DEF Spec, QuietWhenStopped
-----------------------------------------------------------------------------
(* Startup.                                                                *)

\* Where the processor is determines what has been set up for the kernel, if
\* nothing of it was cut short.
SetUp ==
  /\ os_sp <=> step = 24
  /\ step > 10 => vectors = "kernel"
  /\ step > 15 => intc_vector_table["kernel"][72] = "handle_uart0_irq"
  /\ step > 17 => 0 \in buffers["kernel"]
  /\ step > 19 => intc_vector_table["kernel"][73] = "handle_uart1_irq"
  /\ step > 21 => 1 \in buffers["kernel"]

\* Only a character that arrived too early can be raised before the dispatch.
Early ==
  /\ cpu \in {"abort", "halted"} => early
  /\ cut => early
  /\ \A u \in Uart : rx[u] > 0 /\ ~os_sp => early

StartupTypes ==
  /\ step \in 1 .. 24 /\ rx \in [Uart -> Nat] /\ os_sp \in BOOLEAN /\ early \in BOOLEAN
  /\ cut \in BOOLEAN
  /\ buffers \in [Image -> SUBSET Uart]
  /\ DOMAIN intc_vector_table = Image
  /\ \A image \in Image : DOMAIN intc_vector_table[image] = Line

StartupInv == StartupTypes /\ (~cut => SetUp) /\ Early

-----------------------------------------------------------------------------
\* The program of bootloader and kmain, step by step.
LEMMA ProgramSteps ==
  /\ Len(Program) = 23
  /\ Program[1] = <<"boot", "setup_vector_table", 0>>
  /\ Program[2] = <<"boot", "CPU_irq_enable", 0>>
  /\ Program[3] = <<"boot", "INTC_reset", 0>>
  /\ Program[4] = <<"boot", "INTC_default_handlers", 0>>
  /\ Program[5] = <<"boot", "uart_port_init", 0>>
  /\ Program[6] = <<"boot", "INTC_register_irq", 0>>
  /\ Program[7] = <<"boot", "INTC_enable_irq", 0>>
  /\ Program[8] = <<"boot", "circular_char_buffer_init", 0>>
  /\ Program[9] = <<"boot", "jump", 0>>
  /\ Program[10] = <<"kernel", "setup_vector_table", 0>>
  /\ Program[11] = <<"kernel", "CPU_irq_enable", 0>>
  /\ Program[12] = <<"kernel", "INTC_reset", 0>>
  /\ Program[13] = <<"kernel", "INTC_default_handlers", 0>>
  /\ Program[14] = <<"kernel", "uart_port_init", 0>>
  /\ Program[15] = <<"kernel", "INTC_register_irq", 0>>
  /\ Program[16] = <<"kernel", "INTC_enable_irq", 0>>
  /\ Program[17] = <<"kernel", "circular_char_buffer_init", 0>>
  /\ Program[18] = <<"kernel", "uart_port_init", 1>>
  /\ Program[19] = <<"kernel", "INTC_register_irq", 1>>
  /\ Program[20] = <<"kernel", "INTC_enable_irq", 1>>
  /\ Program[21] = <<"kernel", "circular_char_buffer_init", 1>>
  /\ Program[22] = <<"kernel", "timer_init", 0>>
  /\ Program[23] = <<"kernel", "scheduler_run", 0>>
BY DEF Program, system_interrupt_init, uart_init

\* An operation is executed at its places in the program and nowhere else.
LEMMA Places ==
  ASSUME NEW op, NEW image, NEW u, step \in 1 .. 24, At(op, image, u)
  PROVE  /\ step < 24 /\ step' = step + 1
         /\ op = "setup_vector_table" => step \in {1, 10}
         /\ op = "INTC_default_handlers" => step \in {4, 13}
         /\ op = "CPU_irq_enable" => step \in {2, 11}
         /\ op = "INTC_reset" => step \in {3, 12}
         /\ op = "uart_port_init" => step \in {5, 14, 18}
         /\ op = "INTC_register_irq" => step \in {6, 15, 19}
         /\ op = "INTC_enable_irq" => step \in {7, 16, 20}
         /\ op = "circular_char_buffer_init" => step \in {8, 17, 21}
         /\ op = "jump" => step = 9
         /\ op = "timer_init" => step = 22
         /\ op = "scheduler_run" => step = 23
         /\ step \in {1, 4, 6, 8} => image = "boot"
         /\ step \in {10, 13, 15, 17, 19, 21} => image = "kernel"
         /\ step \in {6, 8, 15, 17} => u = 0
         /\ step \in {19, 21} => u = 1
<1>1. step < 24 /\ step \in 1 .. 23 /\ step' = step + 1 /\ Program[step] = <<image, op, u>>
  BY ProgramSteps DEF At
<1>2. /\ image = Program[step][1] /\ op = Program[step][2] /\ u = Program[step][3]
      /\ \/ step = 1 \/ step = 2 \/ step = 3 \/ step = 4 \/ step = 5 \/ step = 6
         \/ step = 7 \/ step = 8 \/ step = 9 \/ step = 10 \/ step = 11 \/ step = 12
         \/ step = 13 \/ step = 14 \/ step = 15 \/ step = 16 \/ step = 17 \/ step = 18
         \/ step = 19 \/ step = 20 \/ step = 21 \/ step = 22 \/ step = 23
  BY <1>1
<1>3. /\ op = "setup_vector_table" => step \in {1, 10}
      /\ op = "INTC_default_handlers" => step \in {4, 13}
  BY <1>2, ProgramSteps
<1>4. /\ op = "CPU_irq_enable" => step \in {2, 11}
      /\ op = "INTC_reset" => step \in {3, 12}
  BY <1>2, ProgramSteps
<1>5. /\ op = "uart_port_init" => step \in {5, 14, 18}
      /\ op = "INTC_register_irq" => step \in {6, 15, 19}
  BY <1>2, ProgramSteps
<1>6. /\ op = "INTC_enable_irq" => step \in {7, 16, 20}
      /\ op = "circular_char_buffer_init" => step \in {8, 17, 21}
  BY <1>2, ProgramSteps
<1>7. /\ op = "jump" => step = 9
      /\ op = "timer_init" => step = 22
      /\ op = "scheduler_run" => step = 23
  BY <1>2, ProgramSteps
<1>8. /\ step \in {1, 4, 6, 8} => image = "boot"
      /\ step \in {10, 13, 15, 17, 19, 21} => image = "kernel"
  BY <1>2, ProgramSteps
<1>9. /\ step \in {6, 8, 15, 17} => u = 0
      /\ step \in {19, 21} => u = 1
  BY <1>2, ProgramSteps
<1> QED BY <1>1, <1>3, <1>4, <1>5, <1>6, <1>7, <1>8, <1>9, Zenon

-----------------------------------------------------------------------------
\* A step that sets up nothing that counts.
LEMMA OtherStep ==
  ASSUME StartupInv, step' = step + 1, step \in {2, 3, 7, 9, 11, 12, 16, 20},
         UNCHANGED <<intc_vector_table, vectors, cpu, rx, buffers, os_sp, early, cut>>
  PROVE  StartupInv'
<1>1. StartupTypes'
  BY DEF StartupInv, StartupTypes
<1>2. ~cut' => SetUp'
  BY DEF StartupInv, StartupTypes, SetUp
<1>3. Early'
  BY DEF StartupInv, Early
<1> QED BY <1>1, <1>2, <1>3 DEF StartupInv

\* A step of the program, and an interrupt, which leaves the program where it is.
LEMMA StartupStep ==
  ASSUME StartupInv, [StartupNext]_startupVars
  PROVE  StartupInv'
<1> USE DEF StartupInv, StartupTypes, SetUp, Early, Uart, Image
<1>w. 72 \in Line /\ 73 \in Line /\ 72 < NUM_INTERRUPTS /\ 73 < NUM_INTERRUPTS
  BY WiringAssumption DEF UartLine
<1>1. ASSUME NEW image \in Image, SetVectors(image)  PROVE StartupInv'
  <2>1. step \in 1 .. 24 /\ At("setup_vector_table", image, 0)
    BY <1>1 DEF SetVectors
  <2> QED BY <1>1, <2>1, Places DEF SetVectors, At, setup_vector_table
<1>2. ASSUME NEW image \in Image, EnableCpu(image)  PROVE StartupInv'
  <2>1. step \in 1 .. 24 /\ At("CPU_irq_enable", image, 0)
    BY <1>2 DEF EnableCpu
  <2>2. UNCHANGED <<intc_vector_table, vectors, cpu, rx, buffers, os_sp, early, cut>>
    BY <1>2 DEF EnableCpu, At, CPU_irq_enable
  <2>3. step' = step + 1 /\ step \in {2, 3, 7, 9, 11, 12, 16, 20}
    BY <2>1, Places
  <2> QED BY <2>2, <2>3, OtherStep
<1>3. ASSUME NEW image \in Image, ResetIntc(image)  PROVE StartupInv'
  <2>1. step \in 1 .. 24 /\ At("INTC_reset", image, 0)
    BY <1>3 DEF ResetIntc
  <2>2. UNCHANGED <<intc_vector_table, vectors, cpu, rx, buffers, os_sp, early, cut>>
    BY <1>3 DEF ResetIntc, At, INTC_reset
  <2>3. step' = step + 1 /\ step \in {2, 3, 7, 9, 11, 12, 16, 20}
    BY <2>1, Places
  <2> QED BY <2>2, <2>3, OtherStep
<1>4. ASSUME NEW image \in Image, FillTable(image)  PROVE StartupInv'
  <2>1. step \in 1 .. 24 /\ At("INTC_default_handlers", image, 0)
    BY <1>4 DEF FillTable
  <2> QED BY <1>4, <2>1, Places DEF FillTable, At, INTC_default_handlers
<1>5. ASSUME NEW image \in Image, NEW u \in Uart, uart_port_init(image, u)
      PROVE  StartupInv'
  <2>1. step \in 1 .. 24 /\ At("uart_port_init", image, u)
    BY <1>5 DEF uart_port_init
  <2>2. /\ rx' = [rx EXCEPT ![u] = 0]
        /\ UNCHANGED <<intc_vector_table, vectors, cpu, buffers, os_sp, early, cut>>
    BY <1>5 DEF uart_port_init, At, intc
  <2>3. step' = step + 1 /\ step \in {5, 14, 18}
    BY <2>1, Places
  <2>4. StartupTypes' /\ Early'
    BY <2>2, <2>3
  <2>5. ~cut' => SetUp'
    BY <2>2, <2>3
  <2> QED BY <2>4, <2>5
<1>6. ASSUME NEW image \in Image, NEW u \in Uart, RegisterUart(image, u)
      PROVE  StartupInv'
  <2>1. step \in 1 .. 24 /\ At("INTC_register_irq", image, u)
    BY <1>6 DEF RegisterUart
  <2>2. /\ intc_vector_table' = [intc_vector_table EXCEPT ![image][72 + u] = UartHandler(u)]
        /\ UNCHANGED <<cpu, early, cut, rx, buffers, os_sp, vectors>>
    <3>1. UartLine(u) = 72 + u /\ ~(72 + u >= NUM_INTERRUPTS)
      BY <1>w, LineAssumption DEF UartLine
    <3> QED BY <1>6, <3>1 DEF RegisterUart, At, INTC_register_irq
  <2>3. StartupTypes' /\ Early'
    BY <2>1, <2>2, Places
  <2>4. CASE step = 6 /\ image = "boot"
    BY <2>1, <2>2, <2>3, <2>4, Places
  <2>5. CASE step = 15 /\ image = "kernel" /\ u = 0
    BY <2>1, <2>2, <2>3, <2>5, <1>w, Places DEF UartHandler
  <2>6. CASE step = 19 /\ image = "kernel" /\ u = 1
    BY <2>1, <2>2, <2>3, <2>6, <1>w, Places DEF UartHandler
  <2> QED BY <2>1, <2>4, <2>5, <2>6, Places
<1>7. ASSUME NEW image \in Image, NEW u \in Uart, EnableUart(image, u)
      PROVE  StartupInv'
  <2>1. step \in 1 .. 24 /\ At("INTC_enable_irq", image, u)
    BY <1>7 DEF EnableUart
  <2>2. UNCHANGED <<intc_vector_table, vectors, cpu, rx, buffers, os_sp, early, cut>>
    BY <1>7 DEF EnableUart, At, INTC_enable_irq
  <2>3. step' = step + 1 /\ step \in {2, 3, 7, 9, 11, 12, 16, 20}
    BY <2>1, Places
  <2> QED BY <2>2, <2>3, OtherStep
<1>8. ASSUME NEW image \in Image, NEW u \in Uart, InitBuffer(image, u)
      PROVE  StartupInv'
  <2>1. step \in 1 .. 24 /\ At("circular_char_buffer_init", image, u)
    BY <1>8 DEF InitBuffer
  <2>2. /\ buffers' = [buffers EXCEPT ![image] = @ \union {u}]
        /\ UNCHANGED <<intc_vector_table, vectors, cpu, rx, os_sp, early, cut>>
    BY <1>8 DEF InitBuffer, At, intc
  <2>3. /\ step' = step + 1 /\ step \in {8, 17, 21}
        /\ step = 17 => image = "kernel" /\ u = 0
        /\ step = 21 => image = "kernel" /\ u = 1
    BY <2>1, Places
  <2>4. StartupTypes' /\ Early'
    BY <2>2, <2>3
  <2>5. ~cut' => SetUp'
    BY <2>2, <2>3
  <2> QED BY <2>4, <2>5
<1>9. CASE JumpToKernel
  <2>1. step \in 1 .. 24 /\ At("jump", "boot", 0)
    BY <1>9 DEF JumpToKernel
  <2>2. UNCHANGED <<intc_vector_table, vectors, cpu, rx, buffers, os_sp, early, cut>>
    BY <1>9 DEF JumpToKernel, At, intc
  <2>3. step' = step + 1 /\ step \in {2, 3, 7, 9, 11, 12, 16, 20}
    BY <2>1, Places
  <2> QED BY <2>2, <2>3, OtherStep
<1>10. CASE InitTimer
  <2>1. step \in 1 .. 24 /\ At("timer_init", "kernel", 0)
    BY <1>10 DEF InitTimer
  <2>2. /\ \/ intc_vector_table' =
                [intc_vector_table EXCEPT !["kernel"][68] = "handle_timer2_irq"]
           \/ UNCHANGED intc_vector_table
        /\ UNCHANGED <<vectors, cpu, rx, buffers, os_sp, early, cut>>
    BY <1>10 DEF InitTimer, At, INTC_register_irq, TINT2_INT_NUM
  <2>3. step' = step + 1 /\ step = 22
    BY <2>1, Places
  <2>4. StartupTypes' /\ Early'
    BY <2>2, <2>3
  <2>5. ~cut' => SetUp'
    BY <2>2, <2>3, <1>w
  <2> QED BY <2>4, <2>5
<1>11. CASE Dispatch
  <2>1. step \in 1 .. 24 /\ At("scheduler_run", "kernel", 0)
    BY <1>11 DEF Dispatch
  <2> QED BY <1>11, <2>1, Places DEF Dispatch, At
<1>12. CASE DataAbort
  BY <1>12 DEF DataAbort, intc
<1>13. ASSUME NEW u \in Uart, IrqInBootloader(u)  PROVE StartupInv'
  <2>1. early
    BY <1>13 DEF IrqInBootloader, Raised
  <2>2. step' \in 1 .. 24
    BY <1>13, ProgramSteps DEF IrqInBootloader
  <2>3. /\ cut' = TRUE /\ rx' = [rx EXCEPT ![u] = @ - 1] /\ rx[u] > 0
        /\ UNCHANGED <<intc_vector_table, vectors, buffers, os_sp, early>>
    BY <1>13 DEF IrqInBootloader, Raised
  <2>4. StartupTypes'
    BY <2>2, <2>3
  <2>5. Early'
    BY <2>1, <2>3
  <2> QED BY <2>3, <2>4, <2>5
<1>p. CASE ProcessAborts
  BY <1>p DEF ProcessAborts
<1>14. ASSUME NEW u \in Uart, IrqBeforeDispatch(u)  PROVE StartupInv'
  BY <1>14 DEF IrqBeforeDispatch, Raised
<1>15. ASSUME NEW u \in Uart, IrqHandled(u)  PROVE StartupInv'
  BY <1>15 DEF IrqHandled, Raised, intc, UartLine, UartHandler
<1>16. ASSUME NEW u \in Uart, Arrive(u)  PROVE StartupInv'
  <2>1. /\ rx' = [rx EXCEPT ![u] = @ + 1] /\ early' = (early \/ ~os_sp)
        /\ UNCHANGED <<intc_vector_table, vectors, step, cpu, buffers, os_sp, cut>>
    BY <1>16 DEF Arrive, intc
  <2>2. early' \in BOOLEAN /\ (early => early') /\ (~os_sp => early')
    BY <2>1, Zenon
  <2> QED BY <2>1, <2>2
<1>17. CASE UNCHANGED startupVars
  BY <1>17 DEF startupVars, intc
<1> QED BY <1>1, <1>2, <1>3, <1>4, <1>5, <1>6, <1>7, <1>8, <1>9, <1>10, <1>11, <1>12,
           <1>13, <1>p, <1>14, <1>15, <1>16, <1>17 DEF StartupNext, Steps, Handle

\* Reset, with the tables of both images empty.
LEMMA Startup_Init == StartupInit => StartupInv
<1> SUFFICES ASSUME StartupInit  PROVE StartupInv
  OBVIOUS
<1> USE DEF StartupInit, IntcInit, Uart, Image
<1>1. step \in 1 .. 24 /\ rx \in [Uart -> Nat]
  OBVIOUS
<1>a. os_sp \in BOOLEAN /\ early \in BOOLEAN /\ cut \in BOOLEAN
  BY Zenon
<1>b. buffers \in [Image -> SUBSET Uart]
  <2>1. {} \in SUBSET Uart /\ buffers = [image \in Image |-> {}]
    OBVIOUS
  <2> QED BY <2>1, Zenon
<1>2. /\ DOMAIN intc_vector_table = Image
      /\ \A image \in Image : DOMAIN intc_vector_table[image] = Line
  OBVIOUS
<1>3. SetUp /\ Early
  BY DEF SetUp, Early
<1> QED BY <1>1, <1>a, <1>b, <1>2, <1>3 DEF StartupInv, StartupTypes

\* For every set of lines that has those of the ports, and any number of
\* characters at any moment: once a process has been dispatched, an interrupt
\* finds the handler of its port in the kernel's table and the buffer behind it
\* initialised, unless an interrupt of the bootloader cut the set-up short.
THEOREM KernelReady == StartupSpec => []HandlersReady
<1>1. StartupInv => HandlersReady
  BY DEF StartupInv, StartupTypes, SetUp, HandlersReady, Uart, UartLine, UartHandler
<1> QED BY <1>1, Startup_Init, StartupStep, PTL DEF StartupSpec

\* However the lines are wired an interrupt finds an empty table, no stack or no
\* way back only after a character has arrived before the first dispatch.  What a
\* process does to the machine afterwards is another matter (ProcessAborts).
THEOREM OnlyEarlyInputIsFatal == StartupSpec => []OnlyEarlyInputStops
<1>1. StartupInv => OnlyEarlyInputStops
  BY DEF StartupInv, Early, OnlyEarlyInputStops
<1> QED BY <1>1, Startup_Init, StartupStep, PTL DEF StartupSpec
=============================================================================
