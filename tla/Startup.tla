------------------------------ MODULE Startup ------------------------------
(***************************************************************************)
(* From the start of the bootloader to the first process and beyond, as    *)
(* far as interrupts go: the order in which the bootloader                 *)
(* (__BootloaderEntry) and the kernel (kmain) set up vectors, controller,  *)
(* ports, handlers and buffers, with characters arriving at any moment.    *)
(* What the bootloader does between its uart_init and its jump is module   *)
(* Bootloader; it touches nothing here.                                    *)
(***************************************************************************)
EXTENDS Interrupts, Sequences

CONSTANTS MaxArrivals   \* bound: characters that arrive

Uart == {0, 1}
UartLine(u) == 72 + u           \* UART0_INT_NUM, UART1_INT_NUM
TINT2_INT_NUM == 68
UartHandler(u) == IF u = 0 THEN "handle_uart0_irq" ELSE "handle_uart1_irq"

\* The lines of the ports are lines of the controller.
ASSUME WiringAssumption ==
  \A u \in Uart : UartLine(u) \in Line /\ UartLine(u) < NUM_INTERRUPTS

VARIABLES
  step,      \* step of Program the processor is at
  cpu,       \* "run"; "abort" or "halted" after an interrupt that found no stack
             \* or no way back; "lost" after a process that failed
  ier,       \* ports that raise their interrupt
  rx,        \* [Uart -> characters in the receive register and its queue]
  buffers,   \* [Image -> ports whose receive buffer is initialised]
  os_sp,     \* os_sp_cache holds a stack: a process has been dispatched
  arrivals,  \* history: characters that arrived
  early,     \* history: one arrived before the first dispatch
  cut        \* history: an interrupt of the bootloader cut a function short

startupVars == <<intc, step, cpu, ier, rx, buffers, os_sp, arrivals, early, cut>>

system_interrupt_init(image) ==
  << <<image, "setup_vector_table", 0>>, <<image, "CPU_irq_enable", 0>>,
     <<image, "INTC_reset", 0>>, <<image, "INTC_default_handlers", 0>> >>

uart_init(image, u) ==
  << <<image, "uart_port_init", u>>, <<image, "INTC_register_irq", u>>,
     <<image, "INTC_enable_irq", u>>, <<image, "circular_char_buffer_init", u>> >>

\* Mutant: the kernel enables an interrupt it has no handler for.
ProgramUnregistered ==
  system_interrupt_init("boot") \o uart_init("boot", 0) \o << <<"boot", "jump", 0>> >>
    \o system_interrupt_init("kernel") \o uart_init("kernel", 0)
    \o << <<"kernel", "uart_port_init", 1>>, <<"kernel", "INTC_enable_irq", 1>> >>
    \o << <<"kernel", "timer_init", 0>>, <<"kernel", "scheduler_run", 0>> >>

\* Mutant: the kernel's tables are set up behind the ports.
ProgramLateTables ==
  system_interrupt_init("boot") \o uart_init("boot", 0) \o << <<"boot", "jump", 0>> >>
    \o uart_init("kernel", 0) \o uart_init("kernel", 1)
    \o << <<"kernel", "timer_init", 0>>, <<"kernel", "scheduler_run", 0>> >>
    \o system_interrupt_init("kernel")

\* The bootloader up to the kernel's entry, and kmain.
Program ==
  system_interrupt_init("boot") \o uart_init("boot", 0) \o << <<"boot", "jump", 0>> >>
    \o system_interrupt_init("kernel") \o uart_init("kernel", 0)
    \o uart_init("kernel", 1)
    \o << <<"kernel", "timer_init", 0>>, <<"kernel", "scheduler_run", 0>> >>

StartupInit ==
  /\ IntcInit
  /\ step = 1 /\ cpu = "run" /\ ier = {} /\ rx = [u \in Uart |-> 0]
  /\ buffers = [image \in Image |-> {}] /\ os_sp = FALSE
  /\ arrivals = 0 /\ early = FALSE /\ cut = FALSE

-----------------------------------------------------------------------------
Irq == ~I /\ \E u \in ier : rx[u] > 0 /\ UartLine(u) \notin mir

\* The processor is at an operation of the program.  An interrupt that is
\* raised is taken before it.
At(op, image, u) ==
  /\ cpu = "run" /\ ~Irq /\ step <= Len(Program)
  /\ Program[step] = <<image, op, u>>
  /\ step' = step + 1
  /\ UNCHANGED <<cpu, arrivals, early, cut>>

SetVectors(image) ==
  /\ At("setup_vector_table", image, 0) /\ setup_vector_table(image)
  /\ UNCHANGED <<ier, rx, buffers, os_sp>>

EnableCpu(image) ==
  /\ At("CPU_irq_enable", image, 0) /\ CPU_irq_enable
  /\ UNCHANGED <<ier, rx, buffers, os_sp>>

ResetIntc(image) ==
  /\ At("INTC_reset", image, 0) /\ INTC_reset
  /\ UNCHANGED <<ier, rx, buffers, os_sp>>

FillTable(image) ==
  /\ At("INTC_default_handlers", image, 0) /\ INTC_default_handlers(image)
  /\ UNCHANGED <<ier, rx, buffers, os_sp>>

\* The port is reset, which drops what it has received, and is disabled until
\* the last write; the interrupt is allowed on the way.
uart_port_init(image, u) ==
  /\ At("uart_port_init", image, u)
  /\ ier' = ier \union {u} /\ rx' = [rx EXCEPT ![u] = 0]
  /\ UNCHANGED <<intc, buffers, os_sp>>

RegisterUart(image, u) ==
  /\ At("INTC_register_irq", image, u)
  /\ INTC_register_irq(image, UartLine(u), UartHandler(u))
  /\ UNCHANGED <<ier, rx, buffers, os_sp>>

EnableUart(image, u) ==
  /\ At("INTC_enable_irq", image, u) /\ INTC_enable_irq(UartLine(u))
  /\ UNCHANGED <<ier, rx, buffers, os_sp>>

InitBuffer(image, u) ==
  /\ At("circular_char_buffer_init", image, u)
  /\ buffers' = [buffers EXCEPT ![image] = @ \union {u}]
  /\ UNCHANGED <<intc, ier, rx, os_sp>>

\* The jump leaves controller, vectors and I as they are.
JumpToKernel == At("jump", "boot", 0) /\ UNCHANGED <<intc, ier, rx, buffers, os_sp>>

\* timer_init(TIMER2); the call that would start the timer is commented out.
InitTimer ==
  /\ At("timer_init", "kernel", 0)
  /\ INTC_register_irq("kernel", TINT2_INT_NUM, "handle_timer2_irq")
  /\ UNCHANGED <<ier, rx, buffers, os_sp>>

\* restore_context_asm enables interrupts, whatever the saved state says.
Dispatch ==
  /\ At("scheduler_run", "kernel", 0)
  /\ os_sp' = TRUE /\ I' = FALSE
  /\ UNCHANGED <<intc_vector_table, vectors, mir, ier, rx, buffers>>

Steps ==
  \/ \E image \in Image : \/ SetVectors(image) \/ EnableCpu(image)
                          \/ ResetIntc(image) \/ FillTable(image)
                          \/ \E u \in Uart : \/ uart_port_init(image, u)
                                             \/ RegisterUart(image, u)
                                             \/ EnableUart(image, u)
                                             \/ InitBuffer(image, u)
  \/ JumpToKernel \/ InitTimer \/ Dispatch

-----------------------------------------------------------------------------
Raised(u) == cpu = "run" /\ ~I /\ u \in ier /\ rx[u] > 0 /\ UartLine(u) \notin mir

\* An interrupt while the vectors lead to the bootloader.  Its handler takes the
\* character; the stub of scheduler_run in init.S then returns to what lr holds,
\* the return address of the last call made inside the handler, whose frame is
\* gone.  What is popped there is the frame of the interrupted function or
\* nothing of use: the program goes on in the caller with that function cut
\* short, or not at all.  The I bit stays set either way.
IrqInBootloader(u) ==
  /\ Raised(u) /\ vectors = "boot"
  /\ cpu' \in {"run", "halted"} /\ I' = TRUE /\ cut' = TRUE
  /\ step' \in {step, step + 1} /\ step' <= Len(Program) + 1
  /\ rx' = [rx EXCEPT ![u] = @ - 1]
  /\ UNCHANGED <<intc_vector_table, vectors, mir, ier, buffers, os_sp, arrivals, early>>

\* An interrupt in the kernel before a process runs.  load_os_sp loads 0, and the
\* first push of save_context_asm lands on an address that is not mapped.
IrqBeforeDispatch(u) ==
  /\ Raised(u) /\ vectors = "kernel" /\ ~os_sp
  /\ cpu' = "abort" /\ I' = TRUE
  /\ UNCHANGED <<intc_vector_table, vectors, mir, step, ier, rx, buffers, os_sp, arrivals,
                 early, cut>>

\* A process fails: it was interrupted at its entry and resumes at its link
\* register, which is 0, and prefetch_abort_handler loops for ever; or the OS
\* stack is used up (both in ContextSwitch).
ProcessAborts ==
  /\ cpu = "run" /\ os_sp
  /\ cpu' = "lost" /\ I' = TRUE
  /\ UNCHANGED <<intc_vector_table, vectors, mir, step, ier, rx, buffers, os_sp, arrivals,
                 early, cut>>

\* data_abort_handler prints and panics.
DataAbort ==
  /\ cpu = "abort" /\ cpu' = "halted"
  /\ UNCHANGED <<intc, step, ier, rx, buffers, os_sp, arrivals, early, cut>>

\* Mutant: the controller goes on before the device is read.
IrqLeavesChar(u) ==
  /\ Raised(u) /\ vectors = "kernel" /\ os_sp
  /\ UNCHANGED startupVars

\* An interrupt while processes run: the handler the table names takes one
\* character, the controller is acknowledged and a process is dispatched, which
\* may end in ProcessAborts.  A null entry is a jump to address 0; the default
\* handler leaves the character.
IrqHandled(u) ==
  LET handler == intc_vector_table["kernel"][UartLine(u)] IN
  /\ Raised(u) /\ vectors = "kernel" /\ os_sp
  /\ cpu' = IF handler = "null" THEN "abort" ELSE cpu
  /\ rx' = IF handler = UartHandler(u) THEN [rx EXCEPT ![u] = @ - 1] ELSE rx
  /\ UNCHANGED <<intc, step, ier, buffers, os_sp, arrivals, early, cut>>

\* A character arrives at a port that is running.
Arrive(u) ==
  /\ u \in ier /\ arrivals < MaxArrivals
  /\ rx' = [rx EXCEPT ![u] = @ + 1] /\ arrivals' = arrivals + 1
  /\ early' = (early \/ ~os_sp)
  /\ UNCHANGED <<intc, step, cpu, ier, buffers, os_sp, cut>>

Handle(u) == IrqInBootloader(u) \/ IrqBeforeDispatch(u) \/ IrqHandled(u)

StartupNext == Steps \/ ProcessAborts \/ DataAbort \/ \E u \in Uart : Handle(u) \/ Arrive(u)

\* The processor executes; it takes every interrupt that stays raised.
StartupSpec ==
  /\ StartupInit /\ [][StartupNext]_startupVars
  /\ WF_startupVars(Steps) /\ WF_startupVars(DataAbort)
  /\ \A u \in Uart : WF_startupVars(Handle(u))

-----------------------------------------------------------------------------
\* Once a process has been dispatched every line that can raise an interrupt has
\* the handler of its device in the kernel's table and that handler's buffer is
\* initialised, unless an interrupt of the bootloader cut a step of the set-up
\* short.
HandlersReady ==
  os_sp /\ ~cut => /\ vectors = "kernel"
                   /\ \A u \in Uart : UartLine(u) \notin mir =>
                        /\ intc_vector_table["kernel"][UartLine(u)] = UartHandler(u)
                        /\ u \in buffers["kernel"]

\* Until then an interrupt is fatal: in the bootloader it does not return to where
\* it came from, in the kernel it finds neither a stack nor, before INTC_init, a
\* handler.  Only a character that arrives before the first dispatch leads to
\* this, and uart_port_init may still drop it in time; a later one always finds
\* stack and handler.
OnlyEarlyInputStops == cpu \in {"abort", "halted"} => early

\* Every character that is there while processes run is taken from its port,
\* unless the machine stops or its set-up was cut short.
Served == \A u \in Uart : os_sp /\ rx[u] > 0 ~> rx[u] = 0 \/ cpu # "run" \/ cut
=============================================================================
