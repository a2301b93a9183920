------------------------ MODULE ContextSwitchProofs ------------------------
(***************************************************************************)
(* The context switch for every number of tasks, every ring size and every *)
(* size of the OS stack.  As long as no interrupt has arrived in kernel    *)
(* code the switch gives each process its own context back and keeps every *)
(* task; that interrupts do not stay masked holds always.                  *)
(***************************************************************************)
EXTENDS ContextSwitch, GenericCircularBufferProofs

-----------------------------------------------------------------------------
(* The inductive invariant.                                                *)

\* Only the irq path, up to the point where restore_context_asm clears the I
\* bit, runs masked.
MaskedLabel == {"irq_load", "irq_save", "irq_isr", "run", "push_slot", "push_tail",
  "push_size", "run_pop", "pop_head", "pop_size", "run_set", "restore", "wild"}

Masking ==
  /\ pc \in UserLabel \cup KernelLabel \cup {"ummm", "wild", "overflow"}
  /\ masked \in BOOLEAN /\ (masked => pc \in MaskedLabel)

\* The ring as it is when the push or pop under way has made its last store.
Settled ==
  CASE pc = "push_tail" ->
         [ready_queue EXCEPT !.tail = (@ + 1) % GENERIC_BUFFER_SIZE, !.size = @ + 1]
    [] pc = "push_size" -> [ready_queue EXCEPT !.size = @ + 1]
    [] pc = "pop_head" ->
         [ready_queue EXCEPT !.head = (@ + 1) % GENERIC_BUFFER_SIZE, !.size = @ - 1]
    [] pc = "pop_size" -> [ready_queue EXCEPT !.size = @ - 1]
    [] OTHER -> ready_queue

\* The tasks that the settled ring does not hold: at most one.
Out ==
  IF \/ pc \in {"push_tail", "push_size", "run_pop"}
     \/ pc = "run" /\ current_process = NULL
  THEN {}
  ELSE IF pc \in {"pop_head", "pop_size", "run_set"} THEN {next_proc}
  ELSE {current_process}

\* The ring holds every other task once.
Holds(q, out) ==
  /\ q \in Ring(Task \cup {NULL}) /\ RingConsistent(q)
  /\ IsInjective(Contents(q)) /\ Range(Contents(q)) = Task \ out
  /\ q.size = IF out = {} THEN NUM_TASKS ELSE NUM_TASKS - 1

Queued ==
  /\ ready_queue \in Ring(Task \cup {NULL})
  /\ Out \subseteq Task
  /\ Holds(Settled, Out)
  /\ current_process \in Task \cup {NULL}

\* Where a link register points, or the lr a process starts with.
Link == {"zero", "body", "late", "ret"}
Value == (Proc \cup {OS}) \X Reg \X (UserLabel \cup {"run"})
Context == [pc : Link \cup {"entry"}, lr : Link, sp : Proc \X Int, regs : [Reg -> Value]]

\* The saved context of p is what p had when it lost the CPU, r0 and r1 left
\* aside, with lr in the place of the pc; after a swi the two are the same.
Saved(p) ==
  /\ ctx[p].sp = left[p].sp /\ ctx[p].lr = left[p].lr
  /\ ctx[p].regs["rx"] = left[p].regs["rx"]
  /\ left[p].by = "create" => ctx[p].pc = left[p].pc
  /\ left[p].by # "create" => ctx[p].pc = left[p].lr
  /\ left[p].by = "swi" => left[p].pc = left[p].lr

Saving == {"svc_load", "svc_save", "irq_load", "irq_save"}

Contexts ==
  /\ ctx \in [Proc -> Context]
  /\ left \in [Proc -> [by : {"create", "swi", "irq"}, pc : UserLabel, lr : Link,
                        sp : Proc \X Int, regs : [Reg -> Value]]]
  /\ regs \in [Reg -> Value]
  /\ \A p \in Proc : ctx[p].sp[1] = p /\ left[p].sp[1] = p
  /\ \A p \in Proc : Saved(p) \/ (p = current_process /\ pc \in UserLabel \cup Saving)

\* What the registers and the caches hold along the two paths.
OnCpu ==
  LET c == current_process IN
  /\ pc \in UserLabel => sp \in Proc \X Int /\ sp[1] = c /\ lr \in Link
  /\ pc = "swi" => lr = "ret"
  /\ pc \in Saving => /\ left[c].by # "create" /\ usr_sp_cache = left[c].sp
                      /\ irq_lr_cache = left[c].lr /\ regs = left[c].regs
                      /\ left[c].by = "swi" => left[c].pc = left[c].lr
  /\ pc \in {"rest_regs", "rest_sp", "rest_pc"} => pc_cache = ctx[c].pc
  /\ pc \in {"rest_sp", "rest_pc"} => regs = ctx[c].regs /\ lr = ctx[c].lr
  /\ pc = "rest_pc" => sp = ctx[c].sp
  /\ pc \in UserLabel \cup Saving \cup {"rest_pc"} => os_sp_cache = OsSp
  /\ pc # "ummm"

Inv == Masking /\ (~hit => Queued /\ Contexts /\ OnCpu)

-----------------------------------------------------------------------------
\* A task stays in its loop, and its link register points into it.
LEMMA LoopTypes ==
  /\ \A l \in UserLabel \ {"swi"} : UserNext[l] \in UserLabel
  /\ \A l \in UserLabel : LinkAt[l] \in Link /\ Frames[l] \in Int
  /\ LinkAt["swi"] = "ret"
<1>1. ASSUME NEW l \in UserLabel \ {"swi"} PROVE UserNext[l] \in UserLabel
  BY <1>1 DEF UserLabel, UserNext
<1>2. ASSUME NEW l \in UserLabel PROVE LinkAt[l] \in Link /\ Frames[l] \in Int
  BY <1>2 DEF UserLabel, LinkAt, Frames, Link
<1>3. LinkAt["swi"] = "ret"
  BY DEF UserLabel, LinkAt
<1> QED BY <1>1, <1>2, <1>3

\* The initial state satisfies the first part of the invariant.
LEMMA InitMasking == Init => Masking
BY DEF Init, Masking, KernelLabel

\* The labels of the code that runs masked are left only through the clearing of
\* the I bit: the handlers and scheduler_run follow one another in that order.
LEMMA MaskingStep == Masking /\ [Next]_vars => Masking'
<1> SUFFICES ASSUME Masking, [Next]_vars PROVE Masking'
  OBVIOUS
<1> USE DEF Masking, MaskedLabel, KernelLabel
<1>1. CASE UserStep
  <2>1. pc \in UserLabel \ {"swi"} /\ pc' = UserNext[pc] /\ masked' = masked
    BY <1>1 DEF UserStep
  <2>2. pc' \in UserLabel
    BY <2>1, LoopTypes
  <2>3. masked = FALSE
    BY <2>1 DEF UserLabel
  <2> QED BY <2>1, <2>2, <2>3
<1>2. CASE SvcEntry
  BY <1>2 DEF SvcEntry
<1>3. CASE IrqEntry
  BY <1>3 DEF IrqEntry
<1>4. CASE LoadOsSp
  BY <1>4 DEF LoadOsSp
<1>5. CASE SaveContext
  BY <1>5 DEF SaveContext
<1>6. CASE IrqIsr
  BY <1>6 DEF IrqIsr
<1>7. CASE RunRequeue
  BY <1>7 DEF RunRequeue
<1>8. CASE PushSlot \/ PushTail \/ PushSize
  BY <1>8 DEF PushSlot, PushTail, PushSize
<1>9. CASE RunPop \/ PopHead \/ PopSize \/ RunSet
  BY <1>9 DEF RunPop, PopHead, PopSize, RunSet
<1>10. CASE RestoreUnmask
  BY <1>10 DEF RestoreUnmask
<1>11. CASE RestoreRegs \/ RestoreSp
  BY <1>11 DEF RestoreRegs, RestoreSp
<1>12. CASE RestorePc
  BY <1>12 DEF RestorePc
<1>13. CASE UNCHANGED vars
  BY <1>13 DEF vars, cpu
<1> QED BY <1>1, <1>2, <1>3, <1>4, <1>5, <1>6, <1>7, <1>8, <1>9, <1>10, <1>11, <1>12,
           <1>13 DEF Next, SchedulerRun, Restore, Spin

\* No process ever runs with interrupts masked, even after interrupts have
\* arrived in kernel code.
THEOREM NeverLeftMasked == Spec => []NeverDeaf
<1>1. Masking => NeverDeaf
  BY DEF Masking, MaskedLabel, NeverDeaf, UserLabel
<1> QED BY <1>1, InitMasking, MaskingStep, PTL DEF Spec

-----------------------------------------------------------------------------
(* The ready queue.                                                        *)

\* kmain's tasks are the queue.
LEMMA InitQueued == Init => Queued
<1> SUFFICES ASSUME Init PROVE Queued
  OBVIOUS
<1> DEFINE N == GENERIC_BUFFER_SIZE
           q == ready_queue
<1>1. N \in Nat \ {0} /\ NUM_TASKS \in 1 .. N /\ NUM_TASKS \in Nat
  BY BufferSizeAssumption, TaskCountAssumption
<1>2. /\ q = [buffer |-> [k \in Index |-> IF k < NUM_TASKS THEN k + 1 ELSE NULL],
              head |-> 0, tail |-> NUM_TASKS % N, size |-> NUM_TASKS]
      /\ current_process = NULL /\ pc = "run"
  BY DEF Init
<1>3. NUM_TASKS % N \in Index
  BY <1>1 DEF Index
<1>4. [k \in Index |-> IF k < NUM_TASKS THEN k + 1 ELSE NULL] \in [Index -> Task \cup {NULL}]
  BY <1>1 DEF Index, Task
<1>5. q \in Ring(Task \cup {NULL})
  BY <1>1, <1>2, <1>3, <1>4 DEF Ring, Index
<1>6. RingConsistent(q)
  BY <1>1, <1>2 DEF RingConsistent
<1>7. Contents(q) = [k \in 1 .. NUM_TASKS |-> k]
  <2>1. \A k \in 1 .. NUM_TASKS : q.buffer[(q.head + k - 1) % N] = k
    <3> TAKE k \in 1 .. NUM_TASKS
    <3>1. q.head + k - 1 = k - 1 /\ k - 1 \in Nat /\ k - 1 < N
      BY <1>1, <1>2
    <3>2. (q.head + k - 1) % N = k - 1
      BY <1>1, <3>1
    <3>3. k - 1 \in Index /\ k - 1 < NUM_TASKS /\ k - 1 + 1 = k
      BY <1>1, <3>1 DEF Index
    <3> QED BY <1>2, <3>2, <3>3
  <2> QED BY <2>1, <1>2 DEF Contents
<1>8. IsInjective(Contents(q)) /\ Range(Contents(q)) = Task
  BY <1>7 DEF IsInjective, Range, Task
<1>9. Settled = q /\ Out = {}
  BY <1>2 DEF Settled, Out
<1>10. Holds(q, {})
  BY <1>2, <1>5, <1>6, <1>8 DEF Holds
<1> QED BY <1>2, <1>5, <1>9, <1>10 DEF Queued

\* A step that leaves the settled ring and the tasks outside it alone.
LEMMA QueueKept ==
  ASSUME Queued, Settled' = Settled, Out' = Out,
         ready_queue' \in Ring(Task \cup {NULL}), current_process' \in Task \cup {NULL}
  PROVE  Queued'
BY DEF Queued, Holds

\* The three stores of a push make up generic_circular_buffer_push, the three of
\* a pop generic_circular_buffer_pop, so the queue and the CPU together keep
\* every task.
LEMMA QueuedStep == Masking /\ Queued /\ [Next]_vars /\ ~hit' => Queued'
<1> SUFFICES ASSUME Masking, Queued, [Next]_vars, ~hit' PROVE Queued'
  OBVIOUS
<1> DEFINE q == ready_queue
           D == Task \cup {NULL}
<1>0. /\ q \in Ring(D) /\ Out \subseteq Task /\ Holds(Settled, Out)
      /\ current_process \in D
  BY DEF Queued
<1>n. NULL \notin Task /\ Idle \notin Task /\ GENERIC_BUFFER_SIZE \in Nat \ {0}
      /\ NUM_TASKS \in 1 .. GENERIC_BUFFER_SIZE
  BY BufferSizeAssumption, TaskCountAssumption DEF Task, NULL, Idle
<1>1. ASSUME UNCHANGED <<ready_queue, current_process>>,
             pc \notin {"run", "push_tail", "push_size", "run_pop", "pop_head", "pop_size",
                        "run_set"},
             pc' \notin {"push_tail", "push_size", "run_pop", "pop_head", "pop_size",
                         "run_set"}
      PROVE  Queued'
  <2>1. Settled = q /\ Settled' = q
    BY <1>1 DEF Settled
  <2>2. Out = {current_process} /\ current_process # NULL
    BY <1>0, <1>1, <1>n DEF Out
  <2>3. Out' = {current_process}
    BY <1>1, <2>2 DEF Out
  <2> QED BY <1>0, <1>1, <2>1, <2>2, <2>3, QueueKept
<1>2. CASE UserStep
  <2>1. pc \in UserLabel \ {"swi"} /\ pc' \in UserLabel
    BY <1>2, LoopTypes DEF UserStep
  <2> QED BY <1>1, <1>2, <2>1 DEF UserStep, sched, UserLabel
<1>3. CASE SvcEntry
  BY <1>1, <1>3 DEF SvcEntry, sched
<1>4. CASE IrqEntry
  <2>1. pc \in UserLabel \cup {"ummm"} /\ pc' = "irq_load"
    BY <1>4 DEF IrqEntry, InKernel
  <2> QED BY <1>1, <1>4, <2>1 DEF IrqEntry, sched, UserLabel
<1>5. CASE LoadOsSp
  BY <1>1, <1>5 DEF LoadOsSp, sched
<1>6. CASE SaveContext
  BY <1>1, <1>6 DEF SaveContext, sched
<1>7. CASE IrqIsr
  BY <1>1, <1>7 DEF IrqIsr, sched
<1>8. CASE RunRequeue
  <2>1. /\ pc = "run" /\ UNCHANGED <<ready_queue, current_process>>
        /\ pc' = IF current_process # NULL THEN "push_slot" ELSE "run_pop"
    BY <1>0, <1>8, <1>n DEF RunRequeue, sched
  <2>2. Settled' = Settled /\ Out' = Out
    BY <2>1 DEF Settled, Out
  <2> QED BY <1>0, <2>1, <2>2, QueueKept
<1>9. CASE PushSlot
  <2>1. pc = "push_slot" /\ current_process' = current_process
    BY <1>9 DEF PushSlot
  <2>2. Settled = q /\ Out = {current_process} /\ current_process \in Task
    BY <1>0, <2>1 DEF Settled, Out
  <2>3. /\ RingConsistent(q) /\ IsInjective(Contents(q)) /\ q.size = NUM_TASKS - 1
        /\ Range(Contents(q)) = Task \ {current_process}
    BY <1>0, <2>2 DEF Holds
  <2>4. PushSucceeds(q)
    BY <1>n, <2>3 DEF PushSucceeds
  <2>5. /\ pc' = "push_tail"
        /\ ready_queue' = [q EXCEPT !.buffer[q.tail] = current_process]
    BY <1>9, <2>4 DEF PushSlot
  <2>6. Settled' = generic_circular_buffer_push(q, current_process)
    <3>1. Settled' = [ready_queue' EXCEPT !.tail = (ready_queue'.tail + 1) % GENERIC_BUFFER_SIZE,
                                          !.size = ready_queue'.size + 1]
      BY <2>5 DEF Settled
    <3>2. ready_queue'.tail = q.tail /\ ready_queue'.size = q.size
      BY <1>0, <2>5 DEF Ring
    <3>3. generic_circular_buffer_push(q, current_process) =
            [q EXCEPT !.buffer[q.tail] = current_process,
                      !.tail = (q.tail + 1) % GENERIC_BUFFER_SIZE, !.size = q.size + 1]
      BY <2>4 DEF generic_circular_buffer_push
    <3> QED BY <1>0, <2>5, <3>1, <3>2, <3>3 DEF Ring
  <2>7. Out' = {}
    BY <2>5 DEF Out
  <2>8. LET c == generic_circular_buffer_push(q, current_process) IN
        /\ c \in Ring(D) /\ RingConsistent(c)
        /\ IsInjective(Contents(c)) /\ Range(Contents(c)) = Task
        /\ c.size = NUM_TASKS
    <3>1. q \in Ring(D) /\ current_process \in D /\ current_process \notin Range(Contents(q))
      BY <1>0, <2>3
    <3>2. LET c == generic_circular_buffer_push(q, current_process) IN
          /\ c \in Ring(D) /\ RingConsistent(c)
          /\ IsInjective(Contents(c))
          /\ Range(Contents(c)) = Range(Contents(q)) \cup {current_process}
          /\ c.size = q.size + 1
      <4> HIDE DEF D, q
      <4> QED BY <2>3, <2>4, <3>1, PushAdds
    <3> QED BY <1>n, <2>2, <2>3, <3>2
  <2>9. Holds(Settled', {})
    BY <2>6, <2>8 DEF Holds
  <2>10. ready_queue' \in Ring(D)
    BY <1>0, <2>2, <2>5 DEF Ring
  <2> QED BY <1>0, <2>1, <2>7, <2>9, <2>10 DEF Queued, Holds
<1>10. CASE PushTail
  <2>1. /\ pc = "push_tail" /\ pc' = "push_size" /\ current_process' = current_process
        /\ ready_queue' = [q EXCEPT !.tail = (q.tail + 1) % GENERIC_BUFFER_SIZE]
    BY <1>10 DEF PushTail
  <2>2. Settled' = Settled
    BY <1>0, <2>1 DEF Settled, Ring
  <2>3. Out' = Out
    BY <2>1 DEF Out
  <2>4. ready_queue' \in Ring(D)
    <3>1. (q.tail + 1) % GENERIC_BUFFER_SIZE \in Index
      BY <1>0, <1>n DEF Ring, Index
    <3> QED BY <1>0, <2>1, <3>1 DEF Ring
  <2> QED BY <1>0, <2>1, <2>2, <2>3, <2>4, QueueKept
<1>11. CASE PushSize
  <2>1. /\ pc = "push_size" /\ pc' = "run_pop" /\ current_process' = current_process
        /\ ready_queue' = [q EXCEPT !.size = q.size + 1]
    BY <1>11 DEF PushSize
  <2>2. Settled' = Settled /\ ready_queue' = Settled
    BY <2>1 DEF Settled
  <2>3. Out' = Out
    BY <2>1 DEF Out
  <2>4. Settled \in Ring(D)
    BY <1>0 DEF Holds
  <2> QED BY <1>0, <2>1, <2>2, <2>3, <2>4, QueueKept
<1>12. CASE RunPop
  <2>1. pc = "run_pop" /\ current_process' = current_process /\ ready_queue' = q
    BY <1>12 DEF RunPop
  <2>2. Settled = q /\ Out = {}
    BY <2>1 DEF Settled, Out
  <2>3. /\ RingConsistent(q) /\ IsInjective(Contents(q)) /\ q.size = NUM_TASKS
        /\ Range(Contents(q)) = Task
    BY <1>0, <2>2 DEF Holds
  <2>4. PopSucceeds(q)
    BY <1>n, <2>3 DEF PopSucceeds
  <2>5. pc' = "pop_head" /\ next_proc' = Popped(q)
    BY <1>12, <2>4 DEF RunPop
  <2>6. LET c == generic_circular_buffer_pop(q) IN
        /\ c \in Ring(D) /\ RingConsistent(c)
        /\ IsInjective(Contents(c)) /\ Range(Contents(c)) = Task \ {Popped(q)}
        /\ Popped(q) \in Task
        /\ c.size = NUM_TASKS - 1
    <3>1. q \in Ring(D)
      BY <1>0
    <3>2. LET c == generic_circular_buffer_pop(q) IN
          /\ c \in Ring(D) /\ RingConsistent(c)
          /\ IsInjective(Contents(c))
          /\ Range(Contents(c)) = Range(Contents(q)) \ {Popped(q)}
          /\ Popped(q) \in Range(Contents(q))
          /\ c.size = q.size - 1
      <4> HIDE DEF D, q
      <4> QED BY <2>3, <2>4, <3>1, PopRemoves
    <3> QED BY <2>3, <3>2
  <2>7. Settled' = generic_circular_buffer_pop(q)
    BY <2>1, <2>4, <2>5 DEF Settled, generic_circular_buffer_pop
  <2>8. Out' = {Popped(q)}
    BY <2>5 DEF Out
  <2>9. Holds(Settled', Out')
    BY <2>6, <2>7, <2>8 DEF Holds
  <2> QED BY <1>0, <2>1, <2>6, <2>8, <2>9 DEF Queued, Holds
<1>13. CASE PopHead
  <2>1. /\ pc = "pop_head" /\ pc' = "pop_size"
        /\ current_process' = current_process /\ next_proc' = next_proc
        /\ ready_queue' = [q EXCEPT !.head = (q.head + 1) % GENERIC_BUFFER_SIZE]
    BY <1>13 DEF PopHead
  <2>2. Settled' = Settled
    BY <1>0, <2>1 DEF Settled, Ring
  <2>3. Out' = Out
    BY <2>1 DEF Out
  <2>4. ready_queue' \in Ring(D)
    <3>1. (q.head + 1) % GENERIC_BUFFER_SIZE \in Index
      BY <1>0, <1>n DEF Ring, Index
    <3> QED BY <1>0, <2>1, <3>1 DEF Ring
  <2> QED BY <1>0, <2>1, <2>2, <2>3, <2>4, QueueKept
<1>14. CASE PopSize
  <2>1. /\ pc = "pop_size" /\ pc' = "run_set"
        /\ current_process' = current_process /\ next_proc' = next_proc
        /\ ready_queue' = [q EXCEPT !.size = q.size - 1]
    BY <1>14 DEF PopSize
  <2>2. Settled' = Settled /\ ready_queue' = Settled
    BY <2>1 DEF Settled
  <2>3. Out' = Out
    BY <2>1 DEF Out
  <2>4. Settled \in Ring(D)
    BY <1>0 DEF Holds
  <2> QED BY <1>0, <2>1, <2>2, <2>3, <2>4, QueueKept
<1>15. CASE RunSet
  <2>1. /\ pc = "run_set" /\ pc' = "restore" /\ ready_queue' = q
        /\ current_process' = next_proc
    BY <1>15 DEF RunSet
  <2>2. Settled' = Settled /\ Out = {next_proc} /\ Out' = Out
    BY <2>1 DEF Settled, Out
  <2> QED BY <1>0, <2>1, <2>2, QueueKept
<1>16. CASE RestoreUnmask \/ RestoreRegs \/ RestoreSp
  BY <1>1, <1>16 DEF RestoreUnmask, RestoreRegs, RestoreSp, sched
<1>17. CASE RestorePc
  BY <1>1, <1>17 DEF RestorePc, sched, UserLabel
<1>18. CASE UNCHANGED vars
  <2>1. Settled' = Settled /\ Out' = Out /\ ready_queue' = q
        /\ current_process' = current_process
    BY <1>18 DEF vars, cpu, sched, Settled, Out
  <2> QED BY <1>0, <2>1, QueueKept
<1> QED BY <1>2, <1>3, <1>4, <1>5, <1>6, <1>7, <1>8, <1>9, <1>10, <1>11, <1>12, <1>13,
           <1>14, <1>15, <1>16, <1>17, <1>18 DEF Next, SchedulerRun, Restore, Spin

-----------------------------------------------------------------------------
(* The contexts.                                                           *)

\* The values of a process are register values.
LEMMA OwnType == \A p \in Proc : \A l \in UserLabel : Own(p, l) \in [Reg -> Value]
BY DEF Own, Value

\* process_create's contexts count as saved.
LEMMA InitContexts == Init => Contexts /\ OnCpu
<1> SUFFICES ASSUME Init PROVE Contexts /\ OnCpu
  OBVIOUS
<1>1. /\ ctx = [p \in Proc |-> [pc |-> "entry", lr |-> "zero",
                                sp |-> <<p, 0>>, regs |-> Own(p, "entry")]]
      /\ left = [p \in Proc |-> [by |-> "create", pc |-> "entry", lr |-> "zero",
                                 sp |-> <<p, 0>>, regs |-> Own(p, "entry")]]
      /\ regs = Junk /\ pc = "run"
  BY DEF Init
<1>2. "entry" \in UserLabel /\ "zero" \in Link
  BY DEF UserLabel, Link
<1>3. Junk \in [Reg -> Value]
  BY DEF Junk, Value
<1>4. ctx \in [Proc -> Context]
  BY <1>1, <1>2, OwnType DEF Context
<1>5. left \in [Proc -> [by : {"create", "swi", "irq"}, pc : UserLabel, lr : Link,
                         sp : Proc \X Int, regs : [Reg -> Value]]]
  BY <1>1, <1>2, OwnType
<1>6. \A p \in Proc : ctx[p].sp[1] = p /\ left[p].sp[1] = p /\ Saved(p)
  BY <1>1 DEF Saved
<1>7. Contexts
  BY <1>1, <1>3, <1>4, <1>5, <1>6 DEF Contexts
<1>8. OnCpu
  BY <1>1 DEF OnCpu, UserLabel, Saving
<1> QED BY <1>7, <1>8

\* A step that changes neither a saved context nor what was left.
LEMMA ContextsKept ==
  ASSUME Contexts, ctx' = ctx, left' = left, regs' \in [Reg -> Value],
         (pc' \in UserLabel \cup Saving /\ current_process' = current_process)
           \/ (pc \notin UserLabel \cup Saving)
  PROVE  Contexts'
BY DEF Contexts, Saved

\* The handlers note in left what save_context_asm writes to the PCB, and
\* restore_context_asm loads exactly that.
LEMMA ContextStep ==
  Masking /\ Queued /\ Contexts /\ OnCpu /\ [Next]_vars /\ ~hit' => Contexts' /\ OnCpu'
<1> SUFFICES ASSUME Masking, Queued, Contexts, OnCpu, [Next]_vars, ~hit'
             PROVE  Contexts' /\ OnCpu'
  OBVIOUS
<1> DEFINE c == current_process
           L == [by : {"create", "swi", "irq"}, pc : UserLabel, lr : Link,
                 sp : Proc \X Int, regs : [Reg -> Value]]
<1>0. /\ ctx \in [Proc -> Context] /\ left \in [Proc -> L] /\ regs \in [Reg -> Value]
      /\ \A p \in Proc : ctx[p].sp[1] = p /\ left[p].sp[1] = p
      /\ \A p \in Proc : Saved(p) \/ (p = c /\ pc \in UserLabel \cup Saving)
  BY DEF Contexts
<1>c. pc \in UserLabel \cup Saving \cup {"restore", "rest_regs", "rest_sp", "rest_pc"}
        => c \in Proc
  BY DEF Queued, Out, Proc, UserLabel, Saving
<1>1. CASE UserStep
  <2>1. /\ pc \in UserLabel \ {"swi"} /\ pc' = UserNext[pc] /\ lr' = LinkAt[pc']
        /\ sp' = <<sp[1], sp[2] + Frames[pc'] - Frames[pc]>>
        /\ regs' = Own(c, pc') /\ ctx' = ctx /\ left' = left /\ current_process' = c
        /\ os_sp_cache' = os_sp_cache
    BY <1>1 DEF UserStep, sched, caches
  <2>2. pc' \in UserLabel /\ lr' \in Link /\ c \in Proc /\ (pc' = "swi" => lr' = "ret")
    BY <2>1, <1>c, LoopTypes
  <2>3. regs' \in [Reg -> Value]
    BY <2>1, <2>2, OwnType
  <2>4. sp' \in Proc \X Int /\ sp'[1] = c
    <3>1. sp \in Proc \X Int /\ sp[1] = c
      BY <2>1 DEF OnCpu
    <3>2. Frames[pc'] \in Int /\ Frames[pc] \in Int
      BY <2>1, <2>2, LoopTypes
    <3> QED BY <2>1, <2>2, <3>1, <3>2
  <2>5. Contexts'
    BY <2>1, <2>2, <2>3, ContextsKept
  <2>6. OnCpu'
    BY <2>1, <2>2, <2>4 DEF OnCpu, UserLabel, Saving
  <2> QED BY <2>5, <2>6
<1>e. ASSUME NEW w \in L, pc \in UserLabel, pc' \in {"svc_load", "irq_load"},
             w.by # "create", w.lr = lr, w.sp = sp, w.regs = regs,
             w.by = "swi" => w.pc = w.lr,
             left' = [left EXCEPT ![c] = w],
             usr_sp_cache' = sp, irq_lr_cache' = lr,
             UNCHANGED <<regs, ctx, current_process, os_sp_cache>>
      PROVE  Contexts' /\ OnCpu'
  <2>1. c \in Proc /\ left'[c] = w /\ \A p \in Proc \ {c} : left'[p] = left[p]
    BY <1>0, <1>c, <1>e
  <2>2. left' \in [Proc -> L]
    BY <1>0, <1>e
  <2>3. \A p \in Proc : left'[p].sp[1] = p
    BY <1>0, <1>e, <2>1 DEF OnCpu
  <2>4. \A p \in Proc : Saved(p)' \/ p = c
    BY <1>0, <1>e, <2>1 DEF Saved
  <2>5. Contexts'
    BY <1>0, <1>e, <2>2, <2>3, <2>4 DEF Contexts, Saving
  <2>6. OnCpu'
    BY <1>e, <2>1 DEF OnCpu, UserLabel
  <2> QED BY <2>5, <2>6
<1>2. CASE SvcEntry
  <2> DEFINE w == [by |-> "swi", pc |-> "ret", lr |-> lr, sp |-> sp, regs |-> regs]
  <2>1. /\ pc = "swi" /\ pc' = "svc_load" /\ usr_sp_cache' = sp /\ irq_lr_cache' = lr
        /\ left' = [left EXCEPT ![c] = w]
        /\ UNCHANGED <<regs, ctx, current_process, os_sp_cache>>
    BY <1>2 DEF SvcEntry, sched
  <2>2. pc \in UserLabel
    BY <2>1 DEF UserLabel
  <2>3. w \in L
    BY <1>0, <2>2 DEF OnCpu, UserLabel
  <2>4. w.by # "create" /\ w.lr = lr /\ w.sp = sp /\ w.regs = regs
    OBVIOUS
  <2>5. w.pc = w.lr
    BY <2>1 DEF OnCpu
  <2> HIDE DEF w, L
  <2> QED BY <1>e, <2>1, <2>2, <2>3, <2>4, <2>5
<1>3. CASE IrqEntry
  <2> DEFINE w == [by |-> "irq", pc |-> pc, lr |-> lr, sp |-> sp, regs |-> regs]
  <2>1. pc \in UserLabel
    BY <1>3 DEF IrqEntry, InKernel, OnCpu
  <2>2. /\ pc' = "irq_load" /\ usr_sp_cache' = sp /\ irq_lr_cache' = lr
        /\ left' = [left EXCEPT ![c] = w]
        /\ UNCHANGED <<regs, ctx, current_process, os_sp_cache>>
    BY <1>3, <2>1 DEF IrqEntry, sched
  <2>3. w \in L
    BY <1>0, <2>1 DEF OnCpu
  <2>4. w.by = "irq" /\ w.lr = lr /\ w.sp = sp /\ w.regs = regs
    OBVIOUS
  <2> HIDE DEF w, L
  <2> QED BY <1>e, <2>1, <2>2, <2>3, <2>4
<1>4. CASE LoadOsSp
  <2>1. os_sp_cache # NoSp
    BY <1>4 DEF LoadOsSp, OnCpu, Saving, NoSp, OsSp, NULL, OS
  <2>2. /\ pc \in {"svc_load", "irq_load"} /\ pc' \in {"svc_save", "irq_save"}
        /\ UNCHANGED <<regs, ctx, left, current_process, usr_sp_cache, irq_lr_cache, os_sp_cache>>
    BY <1>4, <2>1 DEF LoadOsSp, sched, caches
  <2>3. pc \in Saving /\ pc' \in Saving
    BY <2>2 DEF Saving
  <2>4. Contexts'
    BY <1>0, <2>2, <2>3, ContextsKept
  <2>5. OnCpu'
    BY <2>2, <2>3 DEF OnCpu, UserLabel
  <2> QED BY <2>4, <2>5
<1>5. CASE SaveContext
  <2> DEFINE r == [r0 |-> regs["r1"], r1 |-> regs["r0"], rx |-> regs["rx"]]
             k == [pc |-> irq_lr_cache, lr |-> irq_lr_cache, sp |-> usr_sp_cache, regs |-> r]
  <2>1. /\ pc \in Saving /\ pc' \in {"run", "irq_isr"} /\ ctx' = [ctx EXCEPT ![c] = k]
        /\ regs' = Junk /\ UNCHANGED <<left, current_process>>
    BY <1>5 DEF SaveContext, sched, Saving
  <2>2. /\ left[c].by # "create" /\ usr_sp_cache = left[c].sp
        /\ irq_lr_cache = left[c].lr /\ regs = left[c].regs
        /\ left[c].by = "swi" => left[c].pc = left[c].lr
    BY <2>1 DEF OnCpu
  <2>3. c \in Proc /\ left[c] \in L
    BY <1>0, <1>c, <2>1
  <2>4. r \in [Reg -> Value]
    <3>1. regs["r0"] \in Value /\ regs["r1"] \in Value /\ regs["rx"] \in Value
      BY <1>0 DEF Reg
    <3> QED BY <3>1 DEF Reg
  <2>5. k \in Context
    <3>1. irq_lr_cache \in Link /\ usr_sp_cache \in Proc \X Int
      BY <2>2, <2>3
    <3> HIDE DEF r
    <3> QED BY <2>4, <3>1 DEF Context
  <2>6. r["rx"] = regs["rx"]
    OBVIOUS
  <2>7. k.pc = irq_lr_cache /\ k.lr = irq_lr_cache /\ k.sp = usr_sp_cache /\ k.regs = r
    OBVIOUS
  <2> HIDE DEF k, r
  <2>8. ctx' \in [Proc -> Context] /\ ctx'[c] = k /\ \A p \in Proc \ {c} : ctx'[p] = ctx[p]
    BY <1>0, <2>1, <2>3, <2>5
  <2>9. \A p \in Proc : Saved(p)'
    <3>1. ASSUME NEW p \in Proc, p = c PROVE Saved(p)'
      BY <2>1, <2>2, <2>6, <2>7, <2>8, <3>1 DEF Saved
    <3>2. ASSUME NEW p \in Proc \ {c} PROVE Saved(p)'
      BY <1>0, <2>1, <2>8, <3>2 DEF Saved
    <3> QED BY <3>1, <3>2
  <2>10. \A p \in Proc : ctx'[p].sp[1] = p
    BY <1>0, <2>2, <2>3, <2>7, <2>8
  <2>11. Junk \in [Reg -> Value]
    BY DEF Junk, Value
  <2>12. Contexts'
    BY <1>0, <2>1, <2>8, <2>9, <2>10, <2>11 DEF Contexts
  <2>13. OnCpu'
    BY <2>1 DEF OnCpu, UserLabel, Saving
  <2> QED BY <2>12, <2>13
<1>6. CASE IrqIsr \/ SchedulerRun
  <2>1. /\ UNCHANGED <<regs, ctx, left>>
        /\ pc \in {"irq_isr", "run", "push_slot", "push_tail", "push_size", "run_pop",
                   "pop_head", "pop_size", "run_set"}
        /\ pc' \in {"run", "push_slot", "push_tail", "push_size", "run_pop",
                    "pop_head", "pop_size", "run_set", "restore"}
    BY <1>6 DEF IrqIsr, SchedulerRun, RunRequeue, PushSlot, PushTail, PushSize, RunPop,
                PopHead, PopSize, RunSet
  <2>2. pc \notin UserLabel \cup Saving
    BY <2>1 DEF UserLabel, Saving
  <2>3. Contexts'
    BY <1>0, <2>1, <2>2, ContextsKept
  <2>4. OnCpu'
    BY <2>1 DEF OnCpu, UserLabel, Saving
  <2> QED BY <2>3, <2>4
<1>7. CASE RestoreUnmask
  <2>1. /\ pc = "restore" /\ pc' = "rest_regs" /\ pc_cache' = ctx[c].pc
        /\ UNCHANGED <<regs, ctx, left, current_process>>
    BY <1>7 DEF RestoreUnmask, sched
  <2>2. Contexts'
    BY <1>0, <2>1, ContextsKept DEF UserLabel, Saving
  <2>3. OnCpu'
    BY <2>1 DEF OnCpu, UserLabel, Saving
  <2> QED BY <2>2, <2>3
<1>8. CASE RestoreRegs
  <2>1. /\ pc = "rest_regs" /\ pc' = "rest_sp" /\ regs' = ctx[c].regs /\ lr' = ctx[c].lr
        /\ UNCHANGED <<ctx, left, current_process, pc_cache>>
    BY <1>8 DEF RestoreRegs, sched, caches
  <2>2. regs' \in [Reg -> Value]
    BY <1>0, <1>c, <2>1 DEF Context
  <2>3. Contexts'
    BY <2>1, <2>2, ContextsKept DEF UserLabel, Saving
  <2>4. OnCpu'
    BY <2>1 DEF OnCpu, UserLabel, Saving
  <2> QED BY <2>3, <2>4
<1>9. CASE RestoreSp
  <2>1. /\ pc = "rest_sp" /\ pc' \in {"rest_pc", "overflow"} /\ os_sp_cache' = OsSp
        /\ pc' = "rest_pc" => sp' = ctx[c].sp
        /\ UNCHANGED <<regs, lr, ctx, left, current_process, pc_cache>>
    BY <1>9 DEF RestoreSp, sched
  <2>2. Contexts'
    BY <1>0, <2>1, ContextsKept DEF UserLabel, Saving
  <2>3. OnCpu'
    BY <2>1 DEF OnCpu, UserLabel, Saving
  <2> QED BY <2>2, <2>3
<1>10. CASE RestorePc
  <2>1. /\ pc = "rest_pc"
        /\ pc' = IF pc_cache \in UserLabel \cup {"ummm"} THEN pc_cache ELSE "wild"
        /\ UNCHANGED <<regs, lr, sp, ctx, left, current_process, os_sp_cache>>
    BY <1>10 DEF RestorePc, sched, caches
  <2>2. c \in Proc /\ ctx[c] \in Context
    BY <1>0, <1>c, <2>1
  <2>3. /\ pc_cache = ctx[c].pc /\ lr = ctx[c].lr /\ sp = ctx[c].sp /\ os_sp_cache = OsSp
    BY <2>1 DEF OnCpu
  <2>4. pc_cache \in Link \cup {"entry"} /\ lr \in Link /\ sp \in Proc \X Int /\ sp[1] = c
    BY <1>0, <2>2, <2>3 DEF Context
  <2>5. pc' \in UserLabel \cup {"wild"} /\ pc' # "swi"
    BY <2>1, <2>4 DEF Link, UserLabel
  <2>6. Contexts'
    BY <1>0, <2>1, ContextsKept DEF UserLabel, Saving
  <2>7. OnCpu'
    BY <2>1, <2>3, <2>4, <2>5 DEF OnCpu, UserLabel, Saving
  <2> QED BY <2>6, <2>7
<1>11. CASE UNCHANGED vars
  BY <1>11 DEF vars, cpu, sched, caches, Contexts, OnCpu, Saved
<1> QED BY <1>1, <1>2, <1>3, <1>4, <1>5, <1>6, <1>7, <1>8, <1>9, <1>10, <1>11
        DEF Next, Restore, Spin

-----------------------------------------------------------------------------
\* Once an interrupt has hit the kernel, it has.
LEMMA HitStays == Inv /\ [Next]_vars /\ hit => hit'
BY DEF Next, vars, UserStep, SvcEntry, IrqEntry, LoadOsSp, SaveContext, IrqIsr,
       SchedulerRun, RunRequeue, PushSlot, PushTail, PushSize, RunPop, PopHead, PopSize,
       RunSet, Restore, RestoreUnmask, RestoreRegs, RestoreSp, RestorePc, Spin

\* The invariant holds for every number of tasks, size of the ring and of the
\* OS stack, and every arrival of interrupts.
THEOREM Invariance == Spec => []Inv
<1>1. Init => Inv
  BY InitMasking, InitQueued, InitContexts DEF Inv
<1>2. Inv /\ [Next]_vars => Inv'
  <2> SUFFICES ASSUME Inv, [Next]_vars PROVE Inv'
    OBVIOUS
  <2>1. Masking /\ Masking'
    BY MaskingStep DEF Inv
  <2>2. ASSUME ~hit' PROVE Queued' /\ Contexts' /\ OnCpu'
    <3>1. ~hit
      BY <2>2, HitStays
    <3>2. Queued /\ Contexts /\ OnCpu
      BY <3>1 DEF Inv
    <3> QED BY <2>1, <2>2, <3>2, QueuedStep, ContextStep
  <2> QED BY <2>1, <2>2 DEF Inv
<1> QED BY <1>1, <1>2, PTL DEF Spec

\* While no interrupt has arrived in kernel code, no task is lost or duplicated,
\* although the ring is updated in three stores each way.
THEOREM NoTaskLost == Spec => []TasksConserved
<1>1. ASSUME Inv, pc \in UserLabel, ~hit
      PROVE  /\ RingConsistent(ready_queue) /\ IsInjective(Contents(ready_queue))
             /\ Range(Contents(ready_queue)) = Task \ {current_process}
             /\ current_process \in Task
  <2>1. Queued
    BY <1>1 DEF Inv
  <2>2. Settled = ready_queue /\ Out = {current_process}
    BY <1>1 DEF Settled, Out, UserLabel
  <2> QED BY <2>1, <2>2 DEF Queued, Holds
<1>2. Inv => TasksConserved
  BY <1>1 DEF TasksConserved
<1> QED BY <1>2, Invariance, PTL

\* While no interrupt has arrived in kernel code, every saved context is its
\* process's own and none points into the kernel.
THEOREM ContextsStayPrivate == Spec => []ContextsPrivate
<1>1. Inv => ContextsPrivate
  BY DEF Inv, Contexts, Context, Link, ContextsPrivate, UserLabel
<1> QED BY <1>1, Invariance, PTL

\* The switch as a whole: the process that restore_context_asm enters has the
\* sp, lr and r2 to r12 it lost the CPU with, and after a yield goes on behind
\* its swi.
THEOREM SwitchIsTransparent == Spec => SwitchPreserves
<1>1. ASSUME Inv, [Next]_vars, pc = "rest_pc", pc' \in UserLabel, ~hit
      PROVE  LET was == left[current_process] IN
             /\ sp = was.sp /\ lr = was.lr
             /\ regs["rx"] = was.regs["rx"]
             /\ was.by \in {"create", "swi"} => pc' = was.pc
  <2> DEFINE c == current_process
  <2>1. Queued /\ Contexts /\ OnCpu
    BY <1>1 DEF Inv
  <2>2. pc_cache = ctx[c].pc /\ regs = ctx[c].regs /\ sp = ctx[c].sp /\ lr = ctx[c].lr
    BY <1>1, <2>1 DEF OnCpu
  <2>3. c \in Proc
    BY <1>1, <2>1 DEF Queued, Out, Proc
  <2>4. Saved(c)
    BY <1>1, <2>1, <2>3 DEF Contexts, UserLabel, Saving
  <2>5. pc' = pc_cache
    <3>1. "rest_pc" \notin UserLabel
      BY DEF UserLabel
    <3>2. RestorePc
      BY <1>1, <3>1 DEF Next, vars, cpu, UserStep, SvcEntry, IrqEntry, LoadOsSp, SaveContext,
         IrqIsr, SchedulerRun, RunRequeue, PushSlot, PushTail, PushSize, RunPop, PopHead,
         PopSize, RunSet, Restore, RestoreUnmask, RestoreRegs, RestoreSp, Spin, UserLabel
    <3> QED BY <1>1, <3>2 DEF RestorePc, UserLabel
  <2> QED BY <2>2, <2>4, <2>5 DEF Saved
<1>2. Inv /\ [Next]_vars =>
        [pc = "rest_pc" /\ pc' \in UserLabel /\ ~hit =>
           LET was == left[current_process] IN
           /\ sp = was.sp /\ lr = was.lr
           /\ regs["rx"] = was.regs["rx"]
           /\ was.by \in {"create", "swi"} => pc' = was.pc]_vars
  BY <1>1
<1> QED BY <1>2, Invariance, PTL DEF Spec, SwitchPreserves
=============================================================================
