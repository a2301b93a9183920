----------------------------- MODULE Scheduler -----------------------------
(***************************************************************************)
(* os/scheduler/scheduler.c: scheduler_init, process_create, scheduler_run *)
(* and yield, with the state they share: the PCB array, the three rings,   *)
(* current_process and scheduler.idle_process.                             *)
(*                                                                         *)
(* scheduler_run is entered from kmain (once), from svc_handler_asm (a     *)
(* process called yield) and from irq_handler_asm (an interrupt arrived).  *)
(* Here each entry is one atomic step; what an interrupt in the middle of  *)
(* it does is the subject of ContextSwitch.                                *)
(***************************************************************************)
EXTENDS GenericCircularBuffer, Functions

CONSTANTS MAX_PROCESSES,  \* PCBs in scheduler.processes (32)
          MAX_TASKS,      \* scheduler_init creates at most this many tasks
          NULL            \* the null process_t pointer

ASSUME ProcessesAssumption == MAX_PROCESSES \in Nat \ {0}
ASSUME TasksAssumption     == MAX_TASKS \in Nat
\* All PCBs fit in a ring: 32 against 512 in the code.
ASSUME CapacityAssumption  == MAX_PROCESSES <= GENERIC_BUFFER_SIZE

\* A process_t* is the index of the PCB in scheduler.processes.
Slot == 0 .. MAX_PROCESSES - 1
ASSUME NullAssumption == NULL \notin Slot
Pointer == Slot \cup {NULL}

\* process_state_t without BLOCKED and TERMINATED, which nothing assigns.
State == {"UNDEFINED", "NEW", "READY", "RUNNING"}

\* Entry points: 0 is idle_task, k > 0 the k-th task (P1, P2, motor_task).
Entry == 0 .. MAX_TASKS

VARIABLES
  pcb,              \* scheduler.processes: state and program_counter
  processes,        \* ring of all created processes
  free_processes,   \* ring of PCBs not in use
  ready_queue,      \* ring of processes that wait for the CPU
  current_process,
  idle_process,     \* scheduler.idle_process
  num_processes,    \* scheduler.num_processes
  phase,            \* where kmain / scheduler_init stands
  i,                \* loop index of the populate loop
  created,          \* calls of process_create made so far
  ntasks            \* tasks that scheduler_init creates (3 in the code)

vars == <<pcb, processes, free_processes, ready_queue, current_process,
          idle_process, num_processes, phase, i, created, ntasks>>

lists == <<processes, free_processes, ready_queue>>

Phase == {"populate", "create", "boot", "run", "halt", "abort"}

\* kmain has not yet dispatched a process.
Booting == phase \in {"populate", "create", "boot"}

-----------------------------------------------------------------------------
\* The kernel's .bss and the assignments at the head of scheduler_init.
Init ==
  /\ pcb = [s \in Slot |-> [state |-> "UNDEFINED", program_counter |-> NULL]]
  /\ processes      = generic_circular_buffer_init(BssRing(NULL))
  /\ free_processes = generic_circular_buffer_init(BssRing(NULL))
  /\ ready_queue    = generic_circular_buffer_init(BssRing(NULL))
  /\ current_process = NULL
  /\ idle_process = NULL
  /\ num_processes = 0
  /\ phase = "populate"
  /\ i = 0
  /\ created = 0
  /\ ntasks \in 0 .. MAX_TASKS

\* One iteration of the loop that puts every PCB on the free ring.
PopulateFree ==
  /\ phase = "populate"
  /\ i < MAX_PROCESSES
  /\ pcb' = [pcb EXCEPT ![i] = [state |-> "UNDEFINED", program_counter |-> NULL]]
  /\ free_processes' = generic_circular_buffer_push(free_processes, i)
  /\ i' = i + 1
  /\ phase' = IF i' = MAX_PROCESSES THEN "create" ELSE "populate"
  /\ UNCHANGED <<processes, ready_queue, current_process, idle_process,
                 num_processes, created, ntasks>>

\* Mutant of process_create: the slot is used but stays on the free ring.
CreateKeepsSlot(entry) ==
  LET proc == Popped(free_processes) IN
  /\ PopSucceeds(free_processes)
  /\ pcb' = [pcb EXCEPT ![proc] = [state |-> "NEW", program_counter |-> entry]]
  /\ UNCHANGED free_processes

\* process_create when a slot is free; the PCB it returns is
\* Popped(free_processes).  The caller counts num_processes.
process_create(entry) ==
  LET proc == Popped(free_processes) IN
  /\ PopSucceeds(free_processes)
  /\ pcb' = [pcb EXCEPT ![proc] = [state |-> "NEW", program_counter |-> entry]]
  /\ free_processes' = generic_circular_buffer_pop(free_processes)

\* Idle is created first.  It goes on the processes ring only.
CreateIdle ==
  /\ phase = "create"
  /\ created = 0
  /\ process_create(0)
  /\ num_processes' = num_processes + 1
  /\ processes' = generic_circular_buffer_push(processes, Popped(free_processes))
  /\ idle_process' = Popped(free_processes)
  /\ created' = 1
  /\ phase' = IF ntasks = 0 THEN "boot" ELSE "create"
  /\ UNCHANGED <<ready_queue, current_process, i, ntasks>>

\* Each task also goes on the ready queue.  num_processes is incremented
\* both by process_create and by scheduler_init.
CreateTask ==
  LET proc == Popped(free_processes) IN
  /\ phase = "create"
  /\ created \in 1 .. ntasks
  /\ process_create(created)
  /\ num_processes' = num_processes + 2
  /\ processes' = generic_circular_buffer_push(processes, proc)
  /\ ready_queue' = generic_circular_buffer_push(ready_queue, proc)
  /\ created' = created + 1
  /\ phase' = IF created = ntasks THEN "boot" ELSE "create"
  /\ UNCHANGED <<current_process, idle_process, i, ntasks>>

\* process_create returned NULL: scheduler_init spins forever.
CreateFails ==
  /\ phase = "create"
  /\ ~PopSucceeds(free_processes)
  /\ phase' = "halt"
  /\ UNCHANGED <<pcb, lists, current_process, idle_process, num_processes,
                 i, created, ntasks>>

-----------------------------------------------------------------------------
\* scheduler_run puts the process that had the CPU back on the ready queue,
\* unless there was none or it is the idle process.
Requeue == current_process # NULL /\ current_process # idle_process

\* Mutant of scheduler_run: the preempted process takes the place of the one
\* that is dispatched instead of the last one.
RunRequeuesFirst ==
  LET swap == Requeue /\ PopSucceeds(ready_queue)
      next == IF PopSucceeds(ready_queue) THEN Popped(ready_queue)
              ELSE IF Requeue THEN current_process ELSE idle_process
      pcb1 == IF swap THEN [pcb EXCEPT ![current_process].state = "READY"]
                      ELSE pcb
  IN /\ ready_queue' =
          IF swap THEN [ready_queue EXCEPT !.buffer[ready_queue.head] = current_process]
                  ELSE generic_circular_buffer_pop(ready_queue)
     /\ current_process' = next
     /\ pcb' = [pcb1 EXCEPT ![next].state = "RUNNING"]

\* scheduler_run up to restore_context_asm, which enters the new process.
scheduler_run ==
  LET pcb1 == IF Requeue THEN [pcb EXCEPT ![current_process].state = "READY"]
                         ELSE pcb
      rq1  == IF Requeue
              THEN generic_circular_buffer_push(ready_queue, current_process)
              ELSE ready_queue
      next == IF PopSucceeds(rq1) THEN Popped(rq1) ELSE idle_process
  IN /\ ready_queue' = generic_circular_buffer_pop(rq1)
     /\ current_process' = next
     /\ pcb' = [pcb1 EXCEPT ![next].state = "RUNNING"]

\* The last call of kmain.
FirstRun ==
  /\ phase = "boot"
  /\ scheduler_run
  /\ phase' = "run"
  /\ UNCHANGED <<processes, free_processes, idle_process, num_processes,
                 i, created, ntasks>>

\* The process on the CPU calls yield: swi, svc_handler_asm, scheduler_run.
yield ==
  /\ phase = "run"
  /\ scheduler_run
  /\ UNCHANGED <<processes, free_processes, idle_process, num_processes, phase,
                 i, created, ntasks>>

\* A UART interrupt while a process executes: irq_handler_asm calls the
\* handler in intc_vector_table and then always branches to scheduler_run.
Irq ==
  /\ phase = "run"
  /\ scheduler_run
  /\ UNCHANGED <<processes, free_processes, idle_process, num_processes, phase,
                 i, created, ntasks>>

\* An interrupt before the first dispatch.  IRQs are enabled since
\* system_interrupt_init; irq_handler_asm loads a stack pointer of 0 from
\* os_sp_cache and its first push aborts.
EarlyIrq ==
  /\ Booting
  /\ phase' = "abort"
  /\ UNCHANGED <<pcb, lists, current_process, idle_process, num_processes,
                 i, created, ntasks>>

\* while (1), or the loop of the abort handler.
Stuck == phase \in {"halt", "abort"} /\ UNCHANGED vars

Next == \/ PopulateFree \/ CreateIdle \/ CreateTask \/ CreateFails
        \/ FirstRun \/ yield \/ Irq \/ EarlyIrq \/ Stuck

\* No fairness: nothing in the code makes a process call yield or a character
\* arrive, and a process that resumes at a wrong address (ContextSwitch) does
\* neither.
Spec == Init /\ [][Next]_vars

-----------------------------------------------------------------------------
TypeOK ==
  /\ pcb \in [Slot -> [state : State, program_counter : Entry \cup {NULL}]]
  /\ processes \in Ring(Pointer)
  /\ free_processes \in Ring(Pointer)
  /\ ready_queue \in Ring(Pointer)
  /\ current_process \in Pointer
  /\ idle_process \in Pointer
  /\ num_processes \in Nat
  /\ phase \in Phase
  /\ i \in 0 .. MAX_PROCESSES
  /\ created \in 0 .. MAX_PROCESSES
  /\ ntasks \in 0 .. MAX_TASKS

\* The PCBs scheduler_init has handed to tasks: slot 0 is the idle process.
Task == 1 .. created - 1

ReadySet == Range(Contents(ready_queue))

\* Scheduling conserves the tasks: whatever sequence of yields and interrupts
\* has happened, each task is either on the CPU or in the ready queue, never
\* both, never twice in the queue, and the idle process is never queued.
ReadyConservation ==
  /\ IsInjective(Contents(ready_queue))
  /\ current_process \notin ReadySet
  /\ Task = ReadySet \cup ({current_process} \ {NULL, idle_process})

\* Every PCB is on exactly one of the rings free_processes and processes, and
\* neither ring dropped one: no slot is leaked and none is handed out twice.
SlotAccounting ==
  phase \notin {"populate", "abort"} =>
    /\ Contents(processes) = [k \in 1 .. created |-> k - 1]
    /\ Contents(free_processes) =
          [k \in 1 .. MAX_PROCESSES - created |-> created + k - 1]

\* Once scheduling has started exactly the process on the CPU is RUNNING and
\* a task that waits is READY (or still NEW, if it has never run).
RunningIsCurrent ==
  /\ phase = "run" =>
       \A s \in Slot : pcb[s].state = "RUNNING" <=> s = current_process
  /\ \A s \in ReadySet : pcb[s].state \in {"NEW", "READY"}

\* The idle process gets the CPU only when there is no task at all: a task
\* that yields is always in the queue when the next process is chosen, so
\* with the three tasks of scheduler_init the idle task never runs.
IdleOnlyWithoutTasks ==
  phase = "run" => (current_process = idle_process <=> ntasks = 0)

\* The inductive strengthening: the rings are consistent, the boot counters say
\* what each ring holds, and the length of the ready queue is known exactly,
\* so that no push of scheduler_run finds the ring full.
BootInv ==
  /\ created <= i /\ created <= ntasks + 1
  /\ created > 0 => i = MAX_PROCESSES
  /\ phase = "populate" => i < MAX_PROCESSES /\ created = 0
  /\ phase \notin {"populate", "abort"} => i = MAX_PROCESSES
  /\ phase = "create" => created <= ntasks
  /\ phase \in {"boot", "run"} => created = ntasks + 1
  /\ idle_process = IF created = 0 THEN NULL ELSE 0
  /\ (current_process = NULL) <=> (phase # "run")
  /\ phase # "run" => \A s \in Slot : pcb[s].state # "RUNNING"

RingInv ==
  /\ RingConsistent(processes)
  /\ RingConsistent(free_processes)
  /\ RingConsistent(ready_queue)
  /\ Contents(processes) = [k \in 1 .. created |-> k - 1]
  /\ Contents(free_processes) = [k \in 1 .. i - created |-> created + k - 1]
  /\ ready_queue.size = IF created = 0 THEN 0
                        ELSE IF Requeue THEN created - 2 ELSE created - 1

IndInv == /\ TypeOK /\ BootInv /\ RingInv /\ ReadyConservation
          /\ RunningIsCurrent /\ IdleOnlyWithoutTasks

\* The line of RoundRobin: the running task, then the queue.
Line == IF Requeue THEN <<current_process>> \o Contents(ready_queue)
                   ELSE Contents(ready_queue)

RR == INSTANCE RoundRobin WITH Task <- Slot, started <- (phase = "run"),
                               line <- Line

\* scheduler_run implements round robin: the order of the tasks never changes
\* and every entry to scheduler_run, by yield or by interrupt, moves exactly
\* the running task to the end of the line.
ImplementsRoundRobin == RR!Spec

\* The scheduler starves nobody: as long as processes go on being dispatched,
\* whether by yields, by interrupts or by any mix of both, every task is
\* dispatched again and again.  That dispatching goes on is a premise, not a
\* claim: a process that never yields, or that is lost at a wrong address,
\* ends it unless an interrupt comes.
DispatchedInTurn ==
  []<><<yield \/ Irq>>_vars =>
    \A t \in 1 .. MAX_TASKS : []<>(t \in Task => current_process = t)
=============================================================================
