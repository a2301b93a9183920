--------------------------- MODULE ContextSwitch ---------------------------
(***************************************************************************)
(* The context switch at the granularity of the instructions between which *)
(* an interrupt can arrive: svc_handler_asm and irq_handler_asm            *)
(* (interrupt_handlers.S), save_context_asm and restore_context_asm        *)
(* (scheduler_asm.S) and scheduler_run with the ring operations it calls.  *)
(*                                                                         *)
(* The CPU is the System-mode register file.  A process is a loop with a   *)
(* few points that differ in what the link register holds there.  The svc  *)
(* path runs with interrupts enabled from "msr cpsr, #MODE_System" on, the *)
(* irq path runs masked until restore_context_asm clears the I bit.        *)
(*                                                                         *)
(* The CPSR a process is entered with (process_create leaves 15 in it, and *)
(* save_context_asm reads the SPSR in a mode that has none) is left out:   *)
(* the CPU stays in System mode, as on the board.                          *)
(*                                                                         *)
(* A process that is dispatched at a kernel address continues a kernel     *)
(* activation whose stack frame is gone.  The model stops there ("wild").  *)
(***************************************************************************)
EXTENDS GenericCircularBuffer, Functions

CONSTANTS NUM_TASKS,     \* tasks in the ready queue when kmain starts them
          OS_STACK,      \* dispatches after which the OS stack is used up
          IrqPossible    \* can the UARTs raise interrupts at all?

ASSUME TaskCountAssumption == NUM_TASKS \in 1 .. GENERIC_BUFFER_SIZE
ASSUME StackAssumption == OS_STACK \in Nat
ASSUME IrqAssumption == IrqPossible \in BOOLEAN

Idle == 0
Task == 1 .. NUM_TASKS
Proc == {Idle} \cup Task
NULL == -1
OS   == -2               \* owner of the stack and the registers of the kernel

VARIABLES
  pc, lr, sp, regs,      \* the System-mode registers
  masked,                \* the I bit
  ctx,                   \* the saved registers in each PCB
  current_process, ready_queue,
  next_proc,             \* local variable of scheduler_run
  usr_sp_cache, irq_lr_cache, os_sp_cache, pc_cache,
  leak,                  \* how far os_sp_cache has sunk below its first value
  left,                  \* history: the CPU when the process lost it
  hit                    \* history: has an interrupt arrived in kernel code?

cpu    == <<pc, lr, sp, regs, masked>>
caches == <<usr_sp_cache, irq_lr_cache, os_sp_cache, pc_cache>>
sched  == <<current_process, ready_queue, next_proc>>
vars   == <<cpu, ctx, sched, caches, leak, left, hit>>

-----------------------------------------------------------------------------
(* A task: it enters, calls printf, works, runs a leaf function, calls     *)
(* yield, and starts over when yield returns.                              *)

UserLabel == {"entry", "body", "work", "leaf", "late", "swi", "ret"}

UserNext == [l \in UserLabel \ {"swi"} |->
  CASE l \in {"entry", "ret"} -> "body" [] l = "body" -> "work"
    [] l = "work" -> "leaf" [] l = "leaf" -> "late" [] l = "late" -> "swi"]

\* What the link register holds at each point: the return address of the last
\* call made in the function that executes, or of the leaf function itself.
LinkAt == [l \in UserLabel |->
  CASE l = "entry" -> "zero" [] l \in {"body", "work"} -> "body"
    [] l \in {"leaf", "late"} -> "late" [] l \in {"swi", "ret"} -> "ret"]

\* Frames on the process stack above the frame of the task function.
Frames == [l \in UserLabel |-> IF l \in {"leaf", "swi", "ret"} THEN 1 ELSE 0]

Reg == {"r0", "r1", "rx"}                 \* rx stands for r2 to r12
\* The values process p has in its registers at point l, and what kernel code
\* leaves behind in them.
Own(p, l) == [r \in Reg |-> <<p, r, l>>]
Junk      == [r \in Reg |-> <<OS, r, "run">>]

NoSp   == <<NULL, 0>>                     \* the initial 0 of os_sp_cache
OsSp   == <<OS, 0>>

KernelLabel == {"svc_load", "svc_save", "irq_load", "irq_save", "irq_isr",
  "run", "push_slot", "push_tail", "push_size", "run_pop", "pop_head",
  "pop_size", "run_set", "restore", "rest_regs", "rest_sp", "rest_pc"}

InKernel == pc \in KernelLabel

-----------------------------------------------------------------------------
\* kmain calls scheduler_run; all tasks are queued, as process_create left
\* them; no process has been dispatched, so os_sp_cache is still 0.
Init ==
  /\ pc = "run" /\ lr = "zero" /\ sp = OsSp /\ regs = Junk
  /\ masked = FALSE
  /\ ctx = [p \in Proc |-> [pc |-> "entry", lr |-> "zero",
                            sp |-> <<p, 0>>, regs |-> Own(p, "entry")]]
  /\ current_process = NULL
  /\ ready_queue = [buffer |-> [k \in Index |->
                                  IF k < NUM_TASKS THEN k + 1 ELSE NULL],
                    head |-> 0, tail |-> NUM_TASKS % GENERIC_BUFFER_SIZE,
                    size |-> NUM_TASKS]
  /\ next_proc = NULL
  /\ usr_sp_cache = NoSp /\ irq_lr_cache = "zero"
  /\ os_sp_cache = NoSp /\ pc_cache = "zero"
  /\ leak = 0
  /\ left = [p \in Proc |-> [by |-> "create", pc |-> "entry", lr |-> "zero",
                             sp |-> <<p, 0>>, regs |-> Own(p, "entry")]]
  /\ hit = FALSE

\* The process executes up to the next point.  There its registers hold its
\* own values again: what wrong ones do to a computation is not followed.
UserStep ==
  /\ pc \in UserLabel \ {"swi"}
  /\ pc' = UserNext[pc]
  /\ lr' = LinkAt[pc']
  /\ sp' = <<sp[1], sp[2] + Frames[pc'] - Frames[pc]>>
  /\ regs' = Own(current_process, pc')
  /\ UNCHANGED <<masked, ctx, sched, caches, leak, left, hit>>

\* swi: svc_handler_asm caches sp and lr, restores r0 and r1, and returns to
\* System mode with the I bit clear.
SvcEntry ==
  /\ pc = "swi"
  /\ usr_sp_cache' = sp
  /\ irq_lr_cache' = lr
  /\ lr' = "svc_mode"               \* set by bl save_sp_and_lr_usr
  /\ masked' = FALSE
  /\ pc' = "svc_load"
  /\ left' = [left EXCEPT ![current_process] =
                [by |-> "swi", pc |-> "ret", lr |-> lr, sp |-> sp, regs |-> regs]]
  /\ UNCHANGED <<sp, regs, ctx, sched, os_sp_cache, pc_cache, leak, hit>>

\* An interrupt, between any two instructions that run with the I bit clear.
\* The handler caches the System-mode sp and lr; the lr of IRQ mode, which
\* points at the interrupted instruction, is not kept.
IrqEntry ==
  /\ IrqPossible
  /\ ~masked
  /\ pc \in UserLabel \cup KernelLabel \cup {"ummm"}
  /\ masked' = TRUE
  /\ usr_sp_cache' = sp
  /\ irq_lr_cache' = lr
  /\ lr' = "irq_mode"
  /\ pc' = "irq_load"
  /\ hit' = (hit \/ InKernel)
  /\ left' = IF pc \in UserLabel
             THEN [left EXCEPT ![current_process] =
                     [by |-> "irq", pc |-> pc, lr |-> lr, sp |-> sp, regs |-> regs]]
             ELSE left
  /\ UNCHANGED <<sp, regs, ctx, sched, os_sp_cache, pc_cache, leak>>

\* bl load_os_sp.  Before the first dispatch the cache holds 0, and the first
\* push of save_context_asm goes to an unmapped page.
LoadOsSp ==
  /\ pc \in {"svc_load", "irq_load"}
  /\ sp' = os_sp_cache
  /\ lr' = IF pc = "svc_load" THEN "svc_save" ELSE "irq_save"
  /\ pc' = IF os_sp_cache = NoSp THEN "wild" ELSE lr'
  /\ UNCHANGED <<regs, masked, ctx, sched, caches, leak, left, hit>>

\* Mutant of save_context_asm: rx is not written to the PCB.
SaveDropsRx ==
  /\ pc \in {"svc_save", "irq_save"}
  /\ ctx' = [ctx EXCEPT ![current_process] =
       [pc |-> irq_lr_cache, lr |-> irq_lr_cache, sp |-> usr_sp_cache,
        regs |-> [r0 |-> regs["r1"], r1 |-> regs["r0"], rx |-> @.regs["rx"]]]]
  /\ regs' = Junk
  /\ lr' = IF pc = "svc_save" THEN "svc_run" ELSE "irq_isr"
  /\ pc' = IF pc = "svc_save" THEN "run" ELSE "irq_isr"
  /\ UNCHANGED <<sp, masked, sched, caches, leak, left, hit>>

\* Mutant of save_context_asm: the stack pointer in use is saved instead of
\* the cached one of the process.
SaveLiveSp ==
  /\ pc \in {"svc_save", "irq_save"}
  /\ ctx' = [ctx EXCEPT ![current_process] =
       [pc |-> irq_lr_cache, lr |-> irq_lr_cache, sp |-> sp,
        regs |-> [r0 |-> regs["r1"], r1 |-> regs["r0"], rx |-> regs["rx"]]]]
  /\ regs' = Junk
  /\ lr' = IF pc = "svc_save" THEN "svc_run" ELSE "irq_isr"
  /\ pc' = IF pc = "svc_save" THEN "run" ELSE "irq_isr"
  /\ UNCHANGED <<sp, masked, sched, caches, leak, left, hit>>

\* save_context_asm.  lr and pc both get the cached lr.  r1 was pushed last,
\* is popped first and goes to the place of r0; r0 goes to the place of r1,
\* although the comments on the offsets and on the two pops name them the
\* other way round.
SaveContext ==
  /\ pc \in {"svc_save", "irq_save"}
  /\ ctx' = [ctx EXCEPT ![current_process] =
       [pc |-> irq_lr_cache, lr |-> irq_lr_cache, sp |-> usr_sp_cache,
        regs |-> [r0 |-> regs["r1"], r1 |-> regs["r0"], rx |-> regs["rx"]]]]
  /\ regs' = Junk
  /\ lr' = IF pc = "svc_save" THEN "svc_run" ELSE "irq_isr"
  /\ pc' = IF pc = "svc_save" THEN "run" ELSE "irq_isr"
  /\ UNCHANGED <<sp, masked, sched, caches, leak, left, hit>>

\* The handler from intc_vector_table, the acknowledgement to the INTC and the
\* branch to scheduler_run.
IrqIsr ==
  /\ pc = "irq_isr"
  /\ pc' = "run"
  /\ UNCHANGED <<lr, sp, regs, masked, ctx, sched, caches, leak, left, hit>>

-----------------------------------------------------------------------------
(* scheduler_run.  While it calls a function, lr is the return address.    *)

\* Mutant of the head of scheduler_run: the process is not put back.
RunNoRequeue ==
  /\ pc = "run"
  /\ lr' = "run_pop"
  /\ pc' = "run_pop"
  /\ UNCHANGED <<sp, regs, masked, ctx, sched, caches, leak, left, hit>>

RunRequeue ==
  /\ pc = "run"
  /\ IF current_process # NULL /\ current_process # Idle
     THEN lr' = "run_pop" /\ pc' = "push_slot"
     ELSE lr' = lr /\ pc' = "run_pop"
  /\ UNCHANGED <<sp, regs, masked, ctx, sched, caches, leak, left, hit>>

\* generic_circular_buffer_push in three stores.
PushSlot ==
  /\ pc = "push_slot"
  /\ IF PushSucceeds(ready_queue)
     THEN /\ ready_queue' = [ready_queue EXCEPT !.buffer[ready_queue.tail] = current_process]
          /\ pc' = "push_tail"
     ELSE pc' = "run_pop" /\ UNCHANGED ready_queue
  /\ UNCHANGED <<lr, sp, regs, masked, ctx, current_process, next_proc, caches,
                 leak, left, hit>>

PushTail ==
  /\ pc = "push_tail"
  /\ ready_queue' = [ready_queue EXCEPT !.tail = (@ + 1) % GENERIC_BUFFER_SIZE]
  /\ pc' = "push_size"
  /\ UNCHANGED <<lr, sp, regs, masked, ctx, current_process, next_proc, caches,
                 leak, left, hit>>

PushSize ==
  /\ pc = "push_size"
  /\ ready_queue' = [ready_queue EXCEPT !.size = @ + 1]
  /\ pc' = "run_pop"
  /\ UNCHANGED <<lr, sp, regs, masked, ctx, current_process, next_proc, caches,
                 leak, left, hit>>

\* generic_circular_buffer_pop: the slot is read, then head, then size.
RunPop ==
  /\ pc = "run_pop"
  /\ lr' = "run_set"
  /\ IF PopSucceeds(ready_queue)
     THEN next_proc' = Popped(ready_queue) /\ pc' = "pop_head"
     ELSE next_proc' = Idle /\ pc' = "run_set"
  /\ UNCHANGED <<sp, regs, masked, ctx, current_process, ready_queue, caches,
                 leak, left, hit>>

PopHead ==
  /\ pc = "pop_head"
  /\ ready_queue' = [ready_queue EXCEPT !.head = (@ + 1) % GENERIC_BUFFER_SIZE]
  /\ pc' = "pop_size"
  /\ UNCHANGED <<lr, sp, regs, masked, ctx, current_process, next_proc, caches,
                 leak, left, hit>>

PopSize ==
  /\ pc = "pop_size"
  /\ ready_queue' = [ready_queue EXCEPT !.size = @ - 1]
  /\ pc' = "run_set"
  /\ UNCHANGED <<lr, sp, regs, masked, ctx, current_process, next_proc, caches,
                 leak, left, hit>>

\* current_process = next_proc; bl restore_context_asm, whose return address
\* is the message "we should not be here".
RunSet ==
  /\ pc = "run_set"
  /\ current_process' = next_proc
  /\ lr' = "ummm"
  /\ pc' = "restore"
  /\ UNCHANGED <<sp, regs, masked, ctx, ready_queue, next_proc, caches, leak,
                 left, hit>>

-----------------------------------------------------------------------------
(* restore_context_asm                                                     *)

\* Mutant of restore_context_asm: the I bit is restored as saved.
RestoreStaysMasked ==
  /\ pc = "restore"
  /\ pc_cache' = ctx[current_process].pc
  /\ pc' = "rest_regs"
  /\ UNCHANGED <<lr, sp, regs, masked, ctx, sched, usr_sp_cache, irq_lr_cache,
                 os_sp_cache, leak, left, hit>>

\* The PCB is copied to the OS stack, the pc to pc_cache, and the I bit is
\* cleared, before any register is restored.
RestoreUnmask ==
  /\ pc = "restore"
  /\ pc_cache' = ctx[current_process].pc
  /\ masked' = FALSE
  /\ pc' = "rest_regs"
  /\ UNCHANGED <<lr, sp, regs, ctx, sched, usr_sp_cache, irq_lr_cache,
                 os_sp_cache, leak, left, hit>>

\* r0 to r12 and lr are popped.
RestoreRegs ==
  /\ pc = "rest_regs"
  /\ regs' = ctx[current_process].regs
  /\ lr' = ctx[current_process].lr
  /\ pc' = "rest_sp"
  /\ UNCHANGED <<sp, masked, ctx, sched, caches, leak, left, hit>>

\* os_sp_cache is stored while the saved sp is still on the OS stack, and the
\* frame of scheduler_run is never popped: the OS stack has sunk by both.
RestoreSp ==
  /\ pc = "rest_sp"
  /\ os_sp_cache' = OsSp
  /\ leak' = leak + 1
  /\ IF leak < OS_STACK
     THEN sp' = ctx[current_process].sp /\ pc' = "rest_pc"
     ELSE sp' = sp /\ pc' = "overflow"
  /\ UNCHANGED <<lr, regs, masked, ctx, sched, usr_sp_cache, irq_lr_cache,
                 pc_cache, left, hit>>

\* ldr pc, pc_cache.
RestorePc ==
  /\ pc = "rest_pc"
  /\ pc' = IF pc_cache \in UserLabel \cup {"ummm"} THEN pc_cache ELSE "wild"
  /\ UNCHANGED <<lr, sp, regs, masked, ctx, sched, caches, leak, left, hit>>

\* The message and while (1) after restore_context_asm; the end of the model.
Spin == pc \in {"ummm", "wild", "overflow"} /\ UNCHANGED vars

SchedulerRun == \/ RunRequeue \/ PushSlot \/ PushTail \/ PushSize
                \/ RunPop \/ PopHead \/ PopSize \/ RunSet
Restore == RestoreUnmask \/ RestoreRegs \/ RestoreSp \/ RestorePc

Next == \/ UserStep \/ SvcEntry \/ IrqEntry \/ LoadOsSp \/ SaveContext \/ IrqIsr
        \/ SchedulerRun \/ Restore \/ Spin

Spec == Init /\ [][Next]_vars

-----------------------------------------------------------------------------
\* Interrupts are never left masked: outside the irq path (and its passage
\* through scheduler_run) the I bit is clear, so no process runs deaf.
NeverDeaf == pc \in UserLabel \cup {"rest_regs", "rest_sp", "rest_pc", "svc_load",
                                    "svc_save"} => ~masked

\* As long as no interrupt has arrived in kernel code, the process that is
\* entered gets back the stack pointer, the link register and the r2 to r12 it
\* lost the CPU with, and a process that yielded continues right after its swi.
\* It says nothing of r0 and r1, which SaveContext stores in each other's
\* place, nor of where an interrupted process continues (below).
SwitchPreserves ==
  [][pc = "rest_pc" /\ pc' \in UserLabel /\ ~hit =>
       LET was == left[current_process] IN
       /\ sp = was.sp /\ lr = was.lr
       /\ regs["rx"] = was.regs["rx"]
       /\ was.by \in {"create", "swi"} => pc' = was.pc]_vars

\* As long as no interrupt has arrived in kernel code the ready queue and the
\* CPU hold every task exactly once whenever a process executes.
TasksConserved ==
  pc \in UserLabel /\ ~hit =>
    /\ RingConsistent(ready_queue)
    /\ IsInjective(Contents(ready_queue))
    /\ Range(Contents(ready_queue)) = Task \ {current_process}
    /\ current_process \in Task

\* As long as no interrupt has arrived in kernel code, no saved context points
\* into the kernel and no two processes share a stack.
ContextsPrivate ==
  ~hit => \A p \in Proc : /\ ctx[p].sp[1] = p
                          /\ ctx[p].pc \in UserLabel \cup {"zero"}

-----------------------------------------------------------------------------
(* What comments of the code say and the code does not do.                 *)

\* scheduler_asm.S:188, "because we are here because and irq or swi occured,
\* lr is pc": a process continues at the instruction where it lost the CPU.
ResumesWhereItStopped ==
  [][pc = "rest_pc" /\ pc' \in UserLabel /\ ~hit =>
       pc' = left[current_process].pc]_vars
=============================================================================
