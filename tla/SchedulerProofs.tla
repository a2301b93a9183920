-------------------------- MODULE SchedulerProofs --------------------------
(***************************************************************************)
(* Scheduler for every number of PCBs, tasks and ring slots: IndInv is     *)
(* inductive, hence the safety properties hold, and Scheduler implements   *)
(* RoundRobin.                                                             *)
(***************************************************************************)
EXTENDS Scheduler, GenericCircularBufferProofs, SequenceTheorems

-----------------------------------------------------------------------------
LEMMA BssRingOK ==
  LET b == generic_circular_buffer_init(BssRing(NULL)) IN
  /\ b \in Ring(Pointer)
  /\ RingConsistent(b)
  /\ b.size = 0
  /\ Contents(b) = << >>
<1> DEFINE b == generic_circular_buffer_init(BssRing(NULL))
<1>1. b = [buffer |-> [k \in Index |-> NULL], head |-> 0, tail |-> 0, size |-> 0]
  <2> DEFINE z == [k \in Index |-> NULL]
  <2>1. BssRing(NULL) = [buffer |-> z, head |-> 0, tail |-> 0, size |-> 0]
    BY DEF BssRing
  <2> HIDE DEF z
  <2>2. b = [[buffer |-> z, head |-> 0, tail |-> 0, size |-> 0]
               EXCEPT !.head = 0, !.tail = 0, !.size = 0]
    BY <2>1, Zenon DEF generic_circular_buffer_init
  <2>3. b = [buffer |-> z, head |-> 0, tail |-> 0, size |-> 0]
    BY <2>2
  <2> QED BY <2>3 DEF z
<1>2. 0 \in Index /\ 0 \in 0 .. GENERIC_BUFFER_SIZE /\ 0 % GENERIC_BUFFER_SIZE = 0
  BY BufferSizeAssumption DEF Index
<1>3. [k \in Index |-> NULL] \in [Index -> Pointer]
  BY DEF Pointer
<1>4. b \in Ring(Pointer)
  BY <1>1, <1>2, <1>3 DEF Ring
<1>5. RingConsistent(b)
  BY <1>1, <1>2 DEF RingConsistent
<1>6. b.size = 0
  BY <1>1
<1>7. Contents(b) = << >>
  <2>1. Contents(b) \in Seq(Pointer) /\ Len(Contents(b)) = 0
    BY <1>4, <1>6, ContentsSeq
  <2> QED BY <2>1
<1> QED BY <1>4, <1>5, <1>6, <1>7

LEMMA InitInv == Init => IndInv
<1> SUFFICES ASSUME Init PROVE IndInv
  OBVIOUS
<1>1. /\ processes \in Ring(Pointer) /\ RingConsistent(processes)
      /\ free_processes \in Ring(Pointer) /\ RingConsistent(free_processes)
      /\ ready_queue \in Ring(Pointer) /\ RingConsistent(ready_queue)
      /\ ready_queue.size = 0
      /\ Contents(processes) = << >> /\ Contents(free_processes) = << >>
      /\ Contents(ready_queue) = << >>
  BY BssRingOK DEF Init
<1>2. TypeOK
  BY <1>1, ProcessesAssumption, TasksAssumption
     DEF Init, TypeOK, State, Phase, Pointer
<1>3. BootInv
  BY ProcessesAssumption, TasksAssumption DEF Init, BootInv
<1>4. RingInv
  <2>1. i = 0 /\ created = 0
    BY DEF Init
  <2>2. [k \in 1 .. 0 |-> k - 1] = << >> /\ [k \in 1 .. 0 - 0 |-> 0 + k - 1] = << >>
    OBVIOUS
  <2> QED BY <1>1, <2>1, <2>2 DEF RingInv
<1>5. ReadyConservation
  <2>1. Range(Contents(ready_queue)) = {} /\ IsInjective(Contents(ready_queue))
    BY <1>1 DEF Range, IsInjective
  <2>2. Task = {} /\ current_process = NULL
    BY DEF Init, Task
  <2> QED BY <2>1, <2>2 DEF ReadyConservation, ReadySet
<1>6. RunningIsCurrent /\ IdleOnlyWithoutTasks
  <2>1. ReadySet = {}
    BY <1>1 DEF ReadySet, Range
  <2> QED BY <2>1 DEF Init, RunningIsCurrent, IdleOnlyWithoutTasks
<1> QED BY <1>2, <1>3, <1>4, <1>5, <1>6 DEF IndInv

-----------------------------------------------------------------------------
\* The facts about the lists that scheduler_run relies on: whoever had the
\* CPU, after the conditional push the queue holds all tasks, once each.
LEMMA RequeueHoldsAll ==
  ASSUME IndInv, phase \in {"boot", "run"}
  PROVE  LET rq1 == IF Requeue
                    THEN generic_circular_buffer_push(ready_queue, current_process)
                    ELSE ready_queue
         IN /\ rq1 \in Ring(Pointer)
            /\ RingConsistent(rq1)
            /\ IsInjective(Contents(rq1))
            /\ Range(Contents(rq1)) = Task
            /\ rq1.size = created - 1
            /\ Contents(rq1) = Line \/ Requeue
            /\ Requeue => Contents(rq1) = Append(Contents(ready_queue), current_process)
<1> DEFINE q == Contents(ready_queue)
<1>0. /\ ready_queue \in Ring(Pointer) /\ RingConsistent(ready_queue)
      /\ current_process \in Pointer /\ IsInjective(q)
      /\ created \in Nat /\ created > 0 /\ created <= MAX_PROCESSES
      /\ created - 1 = ntasks
  BY TasksAssumption, ProcessesAssumption DEF IndInv, TypeOK, BootInv, RingInv, ReadyConservation
<1>1. q \in Seq(Pointer) /\ Len(q) = ready_queue.size
  BY <1>0, ContentsSeq
<1>2. CASE Requeue
  <2> DEFINE r == generic_circular_buffer_push(ready_queue, current_process)
  <2>1. ready_queue.size = created - 2
    BY <1>0, <1>2 DEF IndInv, RingInv
  <2>2. PushSucceeds(ready_queue)
    BY <1>0, <2>1, CapacityAssumption, BufferSizeAssumption, ProcessesAssumption
       DEF PushSucceeds
  <2>3. /\ r \in Ring(Pointer) /\ RingConsistent(r)
        /\ Contents(r) = Append(q, current_process)
    BY <1>0, <2>2, PushAppends
  <2>4. r.size = created - 1
    <3>1. r.size = ready_queue.size + 1
      BY <1>0, <2>2 DEF generic_circular_buffer_push, Ring
    <3> QED BY <1>0, <2>1, <3>1
  <2>5. current_process \notin Range(q) /\ Task = Range(q) \cup {current_process}
    BY <1>2 DEF IndInv, ReadyConservation, ReadySet, Requeue
  <2>6. IsInjective(Contents(r)) /\ Range(Contents(r)) = Range(q) \cup {current_process}
    BY <1>0, <1>1, <2>3, <2>5, AppendRange
  <2> HIDE DEF r
  <2> QED BY <1>2, <2>3, <2>4, <2>5, <2>6 DEF r
<1>3. CASE ~Requeue
  <2>1. Task = Range(q)
    BY <1>3 DEF IndInv, ReadyConservation, ReadySet, Requeue
  <2>2. ready_queue.size = created - 1
    BY <1>0, <1>3 DEF IndInv, RingInv
  <2>3. q = Line
    BY <1>3 DEF Line
  <2> QED BY <1>0, <1>3, <2>1, <2>2, <2>3
<1> QED BY <1>2, <1>3

\* One execution of scheduler_run: the new process, the new queue and states.
LEMMA RunEffect ==
  ASSUME IndInv, phase \in {"boot", "run"}, scheduler_run
  PROVE  \E rq1 \in Ring(Pointer) :
           /\ rq1 = IF Requeue
                    THEN generic_circular_buffer_push(ready_queue, current_process)
                    ELSE ready_queue
           /\ ready_queue' \in Ring(Pointer) /\ RingConsistent(ready_queue')
           /\ ready_queue'.size = IF created = 1 THEN 0 ELSE created - 2
           /\ created = 1 => /\ current_process' = 0
                             /\ Contents(ready_queue') = << >>
                             /\ Contents(rq1) = << >>
           /\ created # 1 => /\ Contents(rq1) # << >>
                             /\ current_process' = Head(Contents(rq1))
                             /\ current_process' \in Task
                             /\ Contents(ready_queue') = Tail(Contents(rq1))
                             /\ IsInjective(Contents(ready_queue'))
                             /\ Range(Contents(ready_queue')) = Task \ {current_process'}
<1> DEFINE rq1 == IF Requeue
                  THEN generic_circular_buffer_push(ready_queue, current_process)
                  ELSE ready_queue
<1>1. /\ rq1 \in Ring(Pointer) /\ RingConsistent(rq1) /\ IsInjective(Contents(rq1))
      /\ Range(Contents(rq1)) = Task /\ rq1.size = created - 1
  BY RequeueHoldsAll
<1>2. /\ ready_queue' = generic_circular_buffer_pop(rq1)
      /\ current_process' = IF PopSucceeds(rq1) THEN Popped(rq1) ELSE idle_process
  BY DEF scheduler_run
<1>3. created \in Nat /\ created > 0 /\ idle_process = 0
  BY TasksAssumption DEF IndInv, TypeOK, BootInv
<1>4. Contents(rq1) \in Seq(Pointer) /\ Len(Contents(rq1)) = created - 1
  BY <1>1, ContentsSeq
<1> SUFFICES /\ ready_queue' \in Ring(Pointer) /\ RingConsistent(ready_queue')
             /\ ready_queue'.size = IF created = 1 THEN 0 ELSE created - 2
             /\ created = 1 => /\ current_process' = 0
                               /\ Contents(ready_queue') = << >>
                               /\ Contents(rq1) = << >>
             /\ created # 1 => /\ Contents(rq1) # << >>
                               /\ current_process' = Head(Contents(rq1))
                               /\ current_process' \in Task
                               /\ Contents(ready_queue') = Tail(Contents(rq1))
                               /\ IsInjective(Contents(ready_queue'))
                               /\ Range(Contents(ready_queue')) = Task \ {current_process'}
  BY <1>1
<1> HIDE DEF rq1
<1>5. CASE created = 1
  <2>1. ~PopSucceeds(rq1) /\ rq1.size = 0
    BY <1>1, <1>5 DEF PopSucceeds
  <2>2. ready_queue' = rq1 /\ current_process' = 0
    BY <1>2, <1>3, <2>1 DEF generic_circular_buffer_pop
  <2>3. Contents(rq1) = << >>
    BY <1>4, <1>5
  <2> QED BY <1>1, <1>5, <2>1, <2>2, <2>3
<1>6. CASE created # 1
  <2>1. PopSucceeds(rq1) /\ created > 1
    BY <1>1, <1>3, <1>6 DEF PopSucceeds
  <2>2. current_process' = Popped(rq1)
    BY <1>2, <2>1
  <2>3. /\ ready_queue' \in Ring(Pointer) /\ RingConsistent(ready_queue')
        /\ Contents(rq1) # << >> /\ Popped(rq1) = Head(Contents(rq1))
        /\ Contents(ready_queue') = Tail(Contents(rq1))
    BY <1>1, <1>2, <2>1, PopTakesOldest
  <2>4. ready_queue'.size = created - 2
    <3>1. ready_queue'.size = rq1.size - 1
      BY <1>1, <1>2, <2>1 DEF generic_circular_buffer_pop, Ring
    <3> QED BY <1>1, <1>3, <3>1
  <2>5. /\ IsInjective(Tail(Contents(rq1)))
        /\ Range(Tail(Contents(rq1))) = Range(Contents(rq1)) \ {Head(Contents(rq1))}
        /\ Head(Contents(rq1)) \in Range(Contents(rq1))
    BY <1>1, <1>4, <2>3, TailRange
  <2> QED BY <1>1, <1>6, <2>2, <2>3, <2>4, <2>5
<1> QED BY <1>5, <1>6

\* scheduler_run preserves the invariant, whoever calls it.
LEMMA RunInv ==
  ASSUME IndInv, phase \in {"boot", "run"}, scheduler_run, phase' = "run",
         UNCHANGED <<processes, free_processes, idle_process, num_processes,
                     i, created, ntasks>>
  PROVE  IndInv'
<1>0. /\ created \in Nat /\ created > 0 /\ created <= MAX_PROCESSES
      /\ created = ntasks + 1 /\ idle_process = 0 /\ i = MAX_PROCESSES
      /\ ntasks \in 0 .. MAX_TASKS /\ 0 \in Slot /\ 0 # NULL
      /\ Task \subseteq Slot /\ NULL \notin Slot /\ 0 \notin Task
  BY TasksAssumption, ProcessesAssumption, NullAssumption
     DEF IndInv, TypeOK, BootInv, Task, Slot
<1>1. PICK rq1 \in Ring(Pointer) :
           /\ rq1 = IF Requeue
                    THEN generic_circular_buffer_push(ready_queue, current_process)
                    ELSE ready_queue
           /\ ready_queue' \in Ring(Pointer) /\ RingConsistent(ready_queue')
           /\ ready_queue'.size = IF created = 1 THEN 0 ELSE created - 2
           /\ created = 1 => /\ current_process' = 0
                             /\ Contents(ready_queue') = << >>
           /\ created # 1 => /\ current_process' \in Task
                             /\ IsInjective(Contents(ready_queue'))
                             /\ Range(Contents(ready_queue')) = Task \ {current_process'}
  BY RunEffect
<1>2. Task' = Task
  BY DEF Task
<1>3. current_process' \in Slot /\ current_process' # NULL
  BY <1>0, <1>1
<1>4. Requeue' <=> created # 1
  BY <1>0, <1>1, <1>3 DEF Requeue
<1>5. /\ ReadySet' = Task \ {current_process'}
      /\ IsInjective(Contents(ready_queue'))
  <2>1. CASE created = 1
    <3>1. Task = {}
      BY <2>1 DEF Task
    <3> QED BY <1>1, <2>1, <3>1 DEF ReadySet, Range, IsInjective
  <2> QED BY <1>1, <2>1 DEF ReadySet
<1>6. /\ pcb' \in [Slot -> [state : State, program_counter : Entry \cup {NULL}]]
      /\ \A s \in Slot : pcb'[s].state = "RUNNING" <=> s = current_process'
      /\ \A s \in Task \ {current_process'} : pcb'[s].state \in {"NEW", "READY"}
  <2> DEFINE pcb1 == IF Requeue THEN [pcb EXCEPT ![current_process].state = "READY"]
                                ELSE pcb
             PCBs == [Slot -> [state : State, program_counter : Entry \cup {NULL}]]
  <2>1. pcb \in PCBs /\ current_process \in Pointer
    BY DEF IndInv, TypeOK
  <2>2. pcb' = [pcb1 EXCEPT ![current_process'].state = "RUNNING"]
    BY DEF scheduler_run
  <2>3. Requeue => current_process \in Slot
    BY <2>1 DEF Requeue, Pointer
  <2>4. pcb1 \in PCBs
    BY <2>1, <2>3 DEF State
  <2>5. pcb' \in PCBs
    BY <1>3, <2>2, <2>4 DEF State
  <2>6. /\ pcb'[current_process'].state = "RUNNING"
        /\ \A s \in Slot \ {current_process'} : pcb'[s] = pcb1[s]
    BY <1>3, <2>2, <2>4
  <2>7. \A s \in Slot \ {current_process'} : pcb1[s].state # "RUNNING"
    <3>1. CASE phase = "boot"
      <4>1. ~Requeue
        BY <3>1 DEF IndInv, BootInv, Requeue
      <4> QED BY <3>1, <4>1 DEF IndInv, BootInv
    <3>2. CASE phase = "run" /\ Requeue
      <4>1. \A s \in Slot : pcb[s].state = "RUNNING" <=> s = current_process
        BY <3>2 DEF IndInv, RunningIsCurrent
      <4>2. pcb1 = [pcb EXCEPT ![current_process].state = "READY"]
        BY <3>2
      <4> QED BY <2>1, <2>3, <3>2, <4>1, <4>2
    <3>3. CASE phase = "run" /\ ~Requeue
      <4>1. \A s \in Slot : pcb[s].state = "RUNNING" <=> s = current_process
        BY <3>3 DEF IndInv, RunningIsCurrent
      <4>2. current_process = idle_process
        BY <3>3 DEF IndInv, BootInv, Requeue
      <4>3. created = 1 /\ current_process' = 0
        BY <1>0, <1>1, <3>3, <4>2 DEF IndInv, IdleOnlyWithoutTasks
      <4> QED BY <1>0, <3>3, <4>1, <4>2, <4>3
    <3> QED BY <3>1, <3>2, <3>3
  <2>8. \A s \in Task : pcb1[s].state \in {"NEW", "READY"} \/ s = current_process'
    <3> SUFFICES ASSUME NEW s \in Task PROVE pcb1[s].state \in {"NEW", "READY"}
      OBVIOUS
    <3>1. s \in Slot /\ s # 0 /\ s # NULL
      BY <1>0
    <3>2. s \in ReadySet \/ s = current_process
      BY DEF IndInv, ReadyConservation
    <3>3. CASE Requeue /\ s = current_process
      BY <2>1, <2>3, <3>3
    <3>4. CASE s \in ReadySet /\ s # current_process
      <4>1. pcb[s].state \in {"NEW", "READY"}
        BY <3>4 DEF IndInv, RunningIsCurrent
      <4>2. pcb1[s] = pcb[s]
        BY <2>1, <2>3, <3>1, <3>4
      <4> QED BY <4>1, <4>2
    <3>5. s = current_process => Requeue
      BY <1>0, <3>1 DEF Requeue
    <3> QED BY <3>2, <3>3, <3>4, <3>5
  <2> HIDE DEF pcb1
  <2> QED BY <1>0, <2>5, <2>6, <2>7, <2>8
<1>7. TypeOK'
  BY <1>1, <1>3, <1>6 DEF IndInv, TypeOK, Pointer, Phase
<1>8. BootInv'
  BY <1>0, <1>3 DEF IndInv, BootInv
<1>9. RingInv'
  BY <1>0, <1>1, <1>4 DEF IndInv, RingInv
<1>10. ReadyConservation'
  <2>1. current_process' = 0 \/ current_process' \in Task
    BY <1>1
  <2>2. created = 1 => Task = {}
    BY DEF Task
  <2> QED BY <1>0, <1>1, <1>2, <1>3, <1>5, <2>1, <2>2 DEF ReadyConservation
<1>11. RunningIsCurrent'
  BY <1>5, <1>6 DEF RunningIsCurrent
<1>12. IdleOnlyWithoutTasks'
  BY <1>0, <1>1 DEF IdleOnlyWithoutTasks
<1> QED BY <1>7, <1>8, <1>9, <1>10, <1>11, <1>12 DEF IndInv

-----------------------------------------------------------------------------
\* The sequence of the n consecutive numbers that start with c.
Run(c, n) == [k \in 1 .. n |-> c + k - 1]

LEMMA RunSeq ==
  ASSUME NEW c \in Nat, NEW n \in Nat
  PROVE  Run(c, n) \in Seq(Nat) /\ Len(Run(c, n)) = n
<1>1. Run(c, n) \in [1 .. n -> Nat]
  BY DEF Run
<1> QED BY <1>1

LEMMA RunAppend ==
  ASSUME NEW c \in Nat, NEW n \in Nat
  PROVE  Append(Run(c, n), c + n) = Run(c, n + 1)
<1>1. /\ Run(c, n) \in Seq(Nat) /\ Len(Run(c, n)) = n
      /\ Run(c, n + 1) \in Seq(Nat) /\ Len(Run(c, n + 1)) = n + 1
  <2>1. n + 1 \in Nat
    OBVIOUS
  <2> QED BY <2>1, RunSeq
<1>2. /\ \A k \in 1 .. n : Run(c, n)[k] = c + k - 1
      /\ \A k \in 1 .. n + 1 : Run(c, n + 1)[k] = c + k - 1
  BY DEF Run
<1> QED BY <1>1, <1>2

LEMMA RunTail ==
  ASSUME NEW c \in Nat, NEW n \in Nat, n > 0
  PROVE  Head(Run(c, n)) = c /\ Tail(Run(c, n)) = Run(c + 1, n - 1)
<1> DEFINE s == Run(c, n)
           t == Run(c + 1, n - 1)
<1>1. /\ s \in Seq(Nat) /\ Len(s) = n
      /\ t \in Seq(Nat) /\ Len(t) = n - 1
  <2>1. n - 1 \in Nat /\ c + 1 \in Nat
    OBVIOUS
  <2> QED BY <2>1, RunSeq
<1>2. /\ \A k \in 1 .. n : s[k] = c + k - 1
      /\ \A k \in 1 .. n - 1 : t[k] = (c + 1) + k - 1
  BY DEF Run
<1> HIDE DEF s, t
<1>3. s # << >> /\ Head(s) = c
  BY <1>1, <1>2
<1>4. /\ Tail(s) \in Seq(Nat) /\ Len(Tail(s)) = n - 1
      /\ \A k \in 1 .. n - 1 : Tail(s)[k] = s[k + 1]
  BY <1>1, <1>3, HeadTailProperties
<1>5. \A k \in 1 .. n - 1 : Tail(s)[k] = t[k]
  BY <1>2, <1>4
<1>6. Tail(s) = t
  BY <1>1, <1>4, <1>5, SeqEqual
<1> QED BY <1>3, <1>6 DEF s, t

\* The invariant read as: processes holds slots 0 .. created - 1 and
\* free_processes the rest, in order.
LEMMA RingsAreRuns ==
  ASSUME IndInv
  PROVE  /\ created \in Nat /\ i \in Nat /\ created <= i /\ i <= MAX_PROCESSES
         /\ processes \in Ring(Pointer) /\ RingConsistent(processes)
         /\ free_processes \in Ring(Pointer) /\ RingConsistent(free_processes)
         /\ Contents(processes) = Run(0, created) /\ processes.size = created
         /\ Contents(free_processes) = Run(created, i - created)
         /\ free_processes.size = i - created
<1>1. /\ created \in Nat /\ i \in Nat /\ created <= i /\ i <= MAX_PROCESSES
      /\ processes \in Ring(Pointer) /\ RingConsistent(processes)
      /\ free_processes \in Ring(Pointer) /\ RingConsistent(free_processes)
      /\ Contents(free_processes) = Run(created, i - created)
  BY ProcessesAssumption DEF IndInv, TypeOK, BootInv, RingInv, Run
<1>2. Contents(processes) = Run(0, created)
  <2>1. Contents(processes) = [k \in 1 .. created |-> k - 1]
    BY DEF IndInv, RingInv
  <2>2. [k \in 1 .. created |-> k - 1] = [k \in 1 .. created |-> 0 + k - 1]
    BY <1>1
  <2> QED BY <2>1, <2>2 DEF Run
<1>3. processes.size = created /\ free_processes.size = i - created
  <2>1. Len(Contents(processes)) = processes.size
        /\ Len(Contents(free_processes)) = free_processes.size
    BY <1>1, ContentsSeq
  <2>2. i - created \in Nat
    BY <1>1
  <2>3. Len(Run(0, created)) = created /\ Len(Run(created, i - created)) = i - created
    BY <1>1, <2>2, RunSeq
  <2> QED BY <1>1, <1>2, <2>1, <2>3
<1> QED BY <1>1, <1>2, <1>3

LEMMA PopulateInv ==
  ASSUME IndInv, PopulateFree
  PROVE  IndInv'
<1>0. /\ phase = "populate" /\ i \in Nat /\ i < MAX_PROCESSES /\ created = 0
      /\ MAX_PROCESSES \in Nat /\ GENERIC_BUFFER_SIZE \in Nat /\ i \in Slot
      /\ i' = i + 1 /\ created' = 0 /\ i \in Pointer
  BY ProcessesAssumption, BufferSizeAssumption
     DEF IndInv, TypeOK, BootInv, PopulateFree, Slot, Pointer
<1>1. PushSucceeds(free_processes)
  BY <1>0, CapacityAssumption, RingsAreRuns DEF PushSucceeds
<1>2. /\ free_processes' \in Ring(Pointer) /\ RingConsistent(free_processes')
      /\ Contents(free_processes') = Append(Contents(free_processes), i)
  BY <1>0, <1>1, RingsAreRuns, PushAppends DEF PopulateFree
<1>3. Contents(free_processes') = Run(0, i + 1)
  <2>1. Contents(free_processes) = Run(0, i)
    BY <1>0, RingsAreRuns
  <2>2. 0 + i = i
    BY <1>0
  <2> QED BY <1>0, <1>2, <2>1, <2>2, RunAppend
<1>4. phase' = IF i + 1 = MAX_PROCESSES THEN "create" ELSE "populate"
  BY DEF PopulateFree
<1>5. /\ pcb' \in [Slot -> [state : State, program_counter : Entry \cup {NULL}]]
      /\ \A s \in Slot : pcb'[s].state # "RUNNING"
  <2>1. /\ pcb \in [Slot -> [state : State, program_counter : Entry \cup {NULL}]]
        /\ \A s \in Slot : pcb[s].state # "RUNNING"
    BY <1>0 DEF IndInv, TypeOK, BootInv
  <2>2. pcb' = [pcb EXCEPT ![i] = [state |-> "UNDEFINED", program_counter |-> NULL]]
    BY DEF PopulateFree
  <2> QED BY <1>0, <2>1, <2>2 DEF State
<1>6. TypeOK'
  BY <1>0, <1>2, <1>4, <1>5 DEF IndInv, TypeOK, PopulateFree, Phase
<1>7. BootInv'
  BY <1>0, <1>4, <1>5 DEF IndInv, BootInv, TypeOK, PopulateFree
<1>8. RingInv'
  <2>1. Contents(free_processes') = [k \in 1 .. i' - created' |-> created' + k - 1]
    BY <1>0, <1>3 DEF Run
  <2>2. Requeue' <=> Requeue
    BY DEF PopulateFree, Requeue
  <2> QED BY <1>0, <1>2, <2>1, <2>2 DEF IndInv, RingInv, PopulateFree
<1>9. ReadySet = {} /\ ReadySet' = ReadySet
  BY <1>0 DEF IndInv, ReadyConservation, Task, PopulateFree, ReadySet
<1>10. ReadyConservation'
  BY <1>9 DEF IndInv, ReadyConservation, Task, PopulateFree
<1>11. RunningIsCurrent' /\ IdleOnlyWithoutTasks'
  BY <1>4, <1>9 DEF RunningIsCurrent, IdleOnlyWithoutTasks
<1> QED BY <1>6, <1>7, <1>8, <1>10, <1>11 DEF IndInv

\* process_create takes the lowest free slot, which is the slot number created.
LEMMA CreateEffect ==
  ASSUME IndInv, phase = "create", NEW e \in Entry, process_create(e),
         processes' = generic_circular_buffer_push(processes, Popped(free_processes))
  PROVE  /\ Popped(free_processes) = created
         /\ created < MAX_PROCESSES /\ created \in Slot /\ i = MAX_PROCESSES
         /\ free_processes' \in Ring(Pointer) /\ RingConsistent(free_processes')
         /\ Contents(free_processes') = Run(created + 1, i - (created + 1))
         /\ processes' \in Ring(Pointer) /\ RingConsistent(processes')
         /\ Contents(processes') = Run(0, created + 1)
         /\ pcb' = [pcb EXCEPT ![created] = [state |-> "NEW", program_counter |-> e]]
         /\ pcb' \in [Slot -> [state : State, program_counter : Entry \cup {NULL}]]
         /\ \A s \in Slot : pcb'[s].state # "RUNNING"
<1>0. i = MAX_PROCESSES /\ MAX_PROCESSES \in Nat /\ GENERIC_BUFFER_SIZE \in Nat
  BY ProcessesAssumption, BufferSizeAssumption DEF IndInv, BootInv
<1>1. PopSucceeds(free_processes) /\ free_processes' = generic_circular_buffer_pop(free_processes)
  BY DEF process_create
<1>2. i - created \in Nat /\ i - created > 0
  BY <1>1, RingsAreRuns DEF PopSucceeds
<1>3. /\ free_processes' \in Ring(Pointer) /\ RingConsistent(free_processes')
      /\ Popped(free_processes) = Head(Run(created, i - created))
      /\ Contents(free_processes') = Tail(Run(created, i - created))
  BY <1>1, RingsAreRuns, PopTakesOldest
<1>4. created \in Nat /\ created < MAX_PROCESSES /\ created \in Slot
  BY <1>0, <1>2, RingsAreRuns DEF Slot
<1>5. /\ Popped(free_processes) = created
      /\ Contents(free_processes') = Run(created + 1, (i - created) - 1)
  BY <1>2, <1>3, <1>4, RunTail
<1>6. (i - created) - 1 = i - (created + 1)
  BY <1>0, <1>4
<1>7. PushSucceeds(processes)
  BY <1>0, <1>4, CapacityAssumption, RingsAreRuns DEF PushSucceeds
<1>8. /\ processes' \in Ring(Pointer) /\ RingConsistent(processes')
      /\ Contents(processes') = Append(Run(0, created), created)
  BY <1>4, <1>5, <1>7, RingsAreRuns, PushAppends DEF Pointer
<1>9. Contents(processes') = Run(0, created + 1)
  <2>1. 0 + created = created
    BY <1>4
  <2> QED BY <1>4, <1>8, <2>1, RunAppend
<1>10. pcb' = [pcb EXCEPT ![created] = [state |-> "NEW", program_counter |-> e]]
  BY <1>5 DEF process_create
<1>11. /\ pcb' \in [Slot -> [state : State, program_counter : Entry \cup {NULL}]]
       /\ \A s \in Slot : pcb'[s].state # "RUNNING"
  <2>1. /\ pcb \in [Slot -> [state : State, program_counter : Entry \cup {NULL}]]
        /\ \A s \in Slot : pcb[s].state # "RUNNING"
    BY DEF IndInv, TypeOK, BootInv
  <2> QED BY <1>4, <1>10, <2>1 DEF State
<1> QED BY <1>0, <1>3, <1>4, <1>5, <1>6, <1>8, <1>9, <1>10, <1>11

LEMMA CreateIdleInv ==
  ASSUME IndInv, CreateIdle
  PROVE  IndInv'
<1>0. /\ phase = "create" /\ created = 0 /\ created' = 1 /\ i' = i
      /\ phase' = IF ntasks = 0 THEN "boot" ELSE "create"
      /\ process_create(0) /\ 0 \in Entry
      /\ processes' = generic_circular_buffer_push(processes, Popped(free_processes))
      /\ ntasks' = ntasks /\ ntasks \in Nat /\ MAX_PROCESSES \in Nat
  BY TasksAssumption, ProcessesAssumption DEF CreateIdle, Entry, IndInv, TypeOK
<1>1. /\ Popped(free_processes) = 0 /\ 0 < MAX_PROCESSES /\ 0 \in Slot /\ i = MAX_PROCESSES
      /\ free_processes' \in Ring(Pointer) /\ RingConsistent(free_processes')
      /\ Contents(free_processes') = Run(1, i - 1)
      /\ processes' \in Ring(Pointer) /\ RingConsistent(processes')
      /\ Contents(processes') = Run(0, 1)
      /\ pcb' \in [Slot -> [state : State, program_counter : Entry \cup {NULL}]]
      /\ \A s \in Slot : pcb'[s].state # "RUNNING"
  <2>1. created + 1 = 1
    BY <1>0
  <2> QED BY <1>0, <2>1, CreateEffect
<1>2. /\ current_process' = NULL /\ current_process = NULL /\ idle_process' = 0
      /\ ready_queue' = ready_queue /\ ready_queue.size = 0
  BY <1>0, <1>1 DEF CreateIdle, IndInv, BootInv, RingInv
<1>3. TypeOK'
  BY <1>0, <1>1, <1>2 DEF IndInv, TypeOK, CreateIdle, Pointer, Phase
<1>4. BootInv'
  BY <1>0, <1>1, <1>2 DEF IndInv, BootInv
<1>5. RingInv'
  <2>1. Contents(free_processes') = [k \in 1 .. i' - created' |-> created' + k - 1]
    BY <1>0, <1>1 DEF Run
  <2>2. Contents(processes') = [k \in 1 .. created' |-> k - 1]
    <3>1. Run(0, 1) = [k \in 1 .. 1 |-> 0 + k - 1]
      BY DEF Run
    <3>2. [k \in 1 .. 1 |-> 0 + k - 1] = [k \in 1 .. 1 |-> k - 1]
      OBVIOUS
    <3> QED BY <1>0, <1>1, <3>1, <3>2
  <2>3. ~Requeue'
    BY <1>2 DEF Requeue
  <2> QED BY <1>0, <1>1, <1>2, <2>1, <2>2, <2>3 DEF IndInv, RingInv
<1>6. ReadySet = {} /\ ReadySet' = ReadySet
  BY <1>0, <1>2 DEF IndInv, ReadyConservation, Task, ReadySet
<1>7. ReadyConservation'
  BY <1>0, <1>2, <1>6 DEF IndInv, ReadyConservation, Task
<1>8. RunningIsCurrent' /\ IdleOnlyWithoutTasks'
  BY <1>0, <1>6 DEF RunningIsCurrent, IdleOnlyWithoutTasks
<1> QED BY <1>3, <1>4, <1>5, <1>7, <1>8 DEF IndInv

\* The effect of CreateTask on the ready queue: the new slot is appended.
LEMMA CreateTaskQueue ==
  ASSUME IndInv, CreateTask
  PROVE  /\ Popped(free_processes) = created /\ created < MAX_PROCESSES
         /\ created \in Slot /\ created \in Nat /\ created > 0 /\ created <= ntasks
         /\ i = MAX_PROCESSES /\ created' = created + 1
         /\ ready_queue' \in Ring(Pointer) /\ RingConsistent(ready_queue')
         /\ ready_queue'.size = created
         /\ Contents(ready_queue') = Append(Contents(ready_queue), created)
         /\ IsInjective(Contents(ready_queue'))
         /\ ReadySet = 1 .. created - 1
         /\ ReadySet' = ReadySet \cup {created}
         /\ current_process = NULL /\ ~Requeue
<1>0. /\ phase = "create" /\ created \in 1 .. ntasks /\ created' = created + 1
      /\ process_create(created) /\ created \in Entry
      /\ processes' = generic_circular_buffer_push(processes, Popped(free_processes))
      /\ ready_queue' = generic_circular_buffer_push(ready_queue, Popped(free_processes))
      /\ ntasks \in Nat /\ created \in Nat /\ created > 0
      /\ MAX_PROCESSES \in Nat /\ GENERIC_BUFFER_SIZE \in Nat
  BY TasksAssumption, ProcessesAssumption, BufferSizeAssumption
     DEF CreateTask, Entry, IndInv, TypeOK
<1>1. /\ Popped(free_processes) = created /\ created < MAX_PROCESSES
      /\ created \in Slot /\ i = MAX_PROCESSES
  BY <1>0, CreateEffect
<1>2. /\ current_process = NULL /\ ~Requeue
      /\ ready_queue \in Ring(Pointer) /\ RingConsistent(ready_queue)
      /\ ready_queue.size = created - 1 /\ IsInjective(Contents(ready_queue))
  BY <1>0 DEF IndInv, TypeOK, BootInv, RingInv, ReadyConservation, Requeue
<1>3. PushSucceeds(ready_queue)
  BY <1>0, <1>1, <1>2, CapacityAssumption DEF PushSucceeds
<1>4. /\ ready_queue' \in Ring(Pointer) /\ RingConsistent(ready_queue')
      /\ Contents(ready_queue') = Append(Contents(ready_queue), created)
  BY <1>0, <1>1, <1>2, <1>3, PushAppends DEF Pointer
<1>5. ready_queue'.size = created
  <2>1. ready_queue'.size = ready_queue.size + 1
    BY <1>0, <1>2, <1>3 DEF generic_circular_buffer_push, Ring
  <2> QED BY <1>0, <1>2, <2>1
<1>6. ReadySet = 1 .. created - 1 /\ created \notin ReadySet
  <2>1. Task = ReadySet
    BY <1>2 DEF IndInv, ReadyConservation
  <2> QED BY <1>0, <2>1 DEF Task
<1>7. Contents(ready_queue) \in Seq(Pointer) /\ created \in Pointer
  BY <1>1, <1>2, ContentsSeq DEF Pointer
<1>8. /\ IsInjective(Contents(ready_queue'))
      /\ ReadySet' = ReadySet \cup {created}
  <2> DEFINE q == Contents(ready_queue)
  <2>1. created \notin Range(q)
    BY <1>6 DEF ReadySet
  <2> HIDE DEF q
  <2>2. /\ IsInjective(Append(q, created))
        /\ Range(Append(q, created)) = Range(q) \cup {created}
    BY <1>2, <1>7, <2>1, AppendRange DEF q
  <2> QED BY <1>4, <2>2 DEF ReadySet, q
<1> QED BY <1>0, <1>1, <1>2, <1>4, <1>5, <1>6, <1>8

LEMMA CreateTaskInv ==
  ASSUME IndInv, CreateTask
  PROVE  IndInv'
<1>0. /\ phase = "create" /\ i' = i
      /\ phase' = IF created = ntasks THEN "boot" ELSE "create"
      /\ process_create(created) /\ created \in Entry
      /\ processes' = generic_circular_buffer_push(processes, Popped(free_processes))
      /\ ntasks' = ntasks /\ ntasks \in Nat /\ MAX_PROCESSES \in Nat
      /\ current_process' = current_process /\ idle_process' = idle_process
  BY TasksAssumption, ProcessesAssumption DEF CreateTask, Entry, IndInv, TypeOK
<1>1. /\ Popped(free_processes) = created /\ created < MAX_PROCESSES
      /\ created \in Slot /\ created \in Nat /\ created > 0 /\ created <= ntasks
      /\ i = MAX_PROCESSES /\ created' = created + 1
      /\ ready_queue' \in Ring(Pointer) /\ RingConsistent(ready_queue')
      /\ ready_queue'.size = created
      /\ IsInjective(Contents(ready_queue'))
      /\ ReadySet = 1 .. created - 1 /\ ReadySet' = ReadySet \cup {created}
      /\ current_process = NULL
  BY CreateTaskQueue
<1>2. /\ free_processes' \in Ring(Pointer) /\ RingConsistent(free_processes')
      /\ Contents(free_processes') = Run(created + 1, i - (created + 1))
      /\ processes' \in Ring(Pointer) /\ RingConsistent(processes')
      /\ Contents(processes') = Run(0, created + 1)
      /\ pcb' = [pcb EXCEPT ![created] = [state |-> "NEW", program_counter |-> created]]
      /\ pcb' \in [Slot -> [state : State, program_counter : Entry \cup {NULL}]]
      /\ \A s \in Slot : pcb'[s].state # "RUNNING"
  BY <1>0, CreateEffect
<1>3. TypeOK'
  <2>1. num_processes' \in Nat
    BY DEF CreateTask, IndInv, TypeOK
  <2> QED BY <1>0, <1>1, <1>2, <2>1 DEF IndInv, TypeOK, Phase
<1>4. BootInv'
  BY <1>0, <1>1, <1>2 DEF IndInv, BootInv
<1>5. RingInv'
  <2>1. Contents(free_processes') = [k \in 1 .. i' - created' |-> created' + k - 1]
    BY <1>0, <1>1, <1>2 DEF Run
  <2>2. Contents(processes') = [k \in 1 .. created' |-> k - 1]
    <3>1. Run(0, created') = [k \in 1 .. created' |-> 0 + k - 1]
      BY DEF Run
    <3>2. [k \in 1 .. created' |-> 0 + k - 1] = [k \in 1 .. created' |-> k - 1]
      BY <1>1
    <3> QED BY <1>1, <1>2, <3>1, <3>2
  <2>3. ~Requeue'
    BY <1>0, <1>1 DEF Requeue
  <2>4. created' # 0 /\ ready_queue'.size = created' - 1
    BY <1>1
  <2> QED BY <1>1, <1>2, <2>1, <2>2, <2>3, <2>4 DEF RingInv
<1>6. ReadyConservation'
  <2>1. Task' = (1 .. created - 1) \cup {created}
    <3>1. Task' = 1 .. created
      BY <1>1 DEF Task
    <3> QED BY <1>1, <3>1
  <2>2. NULL \notin (1 .. created - 1) \cup {created}
    BY <1>0, <1>1, NullAssumption DEF Slot
  <2> QED BY <1>0, <1>1, <2>1, <2>2 DEF ReadyConservation
<1>7. RunningIsCurrent' /\ IdleOnlyWithoutTasks'
  <2>1. \A s \in ReadySet : pcb[s].state \in {"NEW", "READY"}
    BY DEF IndInv, RunningIsCurrent
  <2>4. ReadySet \subseteq Slot
    BY <1>0, <1>1 DEF Slot
  <2>2. pcb \in [Slot -> [state : State, program_counter : Entry \cup {NULL}]]
    BY DEF IndInv, TypeOK
  <2>3. \A s \in ReadySet' : pcb'[s].state \in {"NEW", "READY"}
    BY <1>1, <1>2, <2>1, <2>2, <2>4
  <2> QED BY <1>0, <2>3 DEF RunningIsCurrent, IdleOnlyWithoutTasks
<1> QED BY <1>3, <1>4, <1>5, <1>6, <1>7 DEF IndInv

\* Steps that only move phase away from booting.
LEMMA StopInv ==
  ASSUME IndInv, CreateFails \/ EarlyIrq
  PROVE  IndInv'
<1>0. /\ UNCHANGED <<pcb, processes, free_processes, ready_queue, current_process,
                     idle_process, num_processes, i, created, ntasks>>
      /\ phase # "run" /\ phase' \in {"halt", "abort"}
      /\ phase' = "halt" => phase = "create"
  BY DEF CreateFails, EarlyIrq, Booting, lists
<1>1. TypeOK' /\ BootInv'
  BY <1>0 DEF IndInv, TypeOK, BootInv, Phase
<1>2. RingInv' /\ ReadyConservation'
  BY <1>0 DEF IndInv, RingInv, Requeue, ReadyConservation, ReadySet, Task
<1>3. RunningIsCurrent' /\ IdleOnlyWithoutTasks'
  BY <1>0 DEF IndInv, RunningIsCurrent, IdleOnlyWithoutTasks, ReadySet
<1> QED BY <1>1, <1>2, <1>3 DEF IndInv

LEMMA NextInv == IndInv /\ [Next]_vars => IndInv'
<1> SUFFICES ASSUME IndInv, [Next]_vars PROVE IndInv'
  OBVIOUS
<1>1. CASE PopulateFree
  BY <1>1, PopulateInv
<1>2. CASE CreateIdle
  BY <1>2, CreateIdleInv
<1>3. CASE CreateTask
  BY <1>3, CreateTaskInv
<1>4. CASE CreateFails
  BY <1>4, StopInv
<1>5. CASE FirstRun
  BY <1>5, RunInv DEF FirstRun
<1>6. CASE yield
  <2>1. phase \in {"boot", "run"} /\ phase' = "run"
    BY <1>6 DEF yield
  <2> QED BY <1>6, <2>1, RunInv DEF yield
<1>7. CASE Irq
  <2>1. phase \in {"boot", "run"} /\ phase' = "run"
    BY <1>7 DEF Irq
  <2> QED BY <1>7, <2>1, RunInv DEF Irq
<1>8. CASE EarlyIrq
  BY <1>8, StopInv
<1>9. CASE Stuck \/ UNCHANGED vars
  <2>1. UNCHANGED vars
    BY <1>9 DEF Stuck
  <2> QED BY <2>1
       DEF vars, IndInv, TypeOK, BootInv, RingInv, Requeue, ReadyConservation,
           ReadySet, Task, RunningIsCurrent, IdleOnlyWithoutTasks
<1> QED BY <1>1, <1>2, <1>3, <1>4, <1>5, <1>6, <1>7, <1>8, <1>9 DEF Next

\* The inductive invariant holds in every reachable state.
THEOREM Invariance == Spec => []IndInv
<1> QED BY InitInv, NextInv, PTL DEF Spec

\* Scheduler stays in its types: in particular current_process never becomes
\* a value that is not a PCB once scheduling has started.
THEOREM TypeCorrect == Spec => []TypeOK
<1>1. IndInv => TypeOK
  BY DEF IndInv
<1> QED BY <1>1, Invariance, PTL

\* No task is lost, duplicated or queued while it runs, for every number of
\* PCBs, tasks and ring slots and every order of yields and interrupts.
THEOREM TasksConserved == Spec => []ReadyConservation
<1>1. IndInv => ReadyConservation
  BY DEF IndInv
<1> QED BY <1>1, Invariance, PTL

\* No PCB slot is leaked or handed out twice.
THEOREM SlotsAccounted == Spec => []SlotAccounting
<1>1. IndInv => SlotAccounting
  BY DEF IndInv, BootInv, RingInv, SlotAccounting
<1> QED BY <1>1, Invariance, PTL

\* Exactly the process on the CPU is RUNNING, and idle runs only if there is
\* no task.
THEOREM RunningUnique == Spec => [](RunningIsCurrent /\ IdleOnlyWithoutTasks)
<1>1. IndInv => RunningIsCurrent /\ IdleOnlyWithoutTasks
  BY DEF IndInv
<1> QED BY <1>1, Invariance, PTL

-----------------------------------------------------------------------------
LEMMA ConsHeadTail ==
  ASSUME NEW S, NEW s \in Seq(S), s # << >>
  PROVE  <<Head(s)>> \o Tail(s) = s
<1>1. Head(s) \in S /\ Tail(s) \in Seq(S) /\ Len(Tail(s)) = Len(s) - 1
      /\ \A k \in 1 .. Len(s) - 1 : Tail(s)[k] = s[k + 1]
  BY HeadTailProperties
<1>2. Len(s) \in Nat /\ Len(s) > 0 /\ Head(s) = s[1]
  BY LenProperties
<1>3. <<Head(s)>> \in Seq(S) /\ Len(<<Head(s)>>) = 1 /\ <<Head(s)>>[1] = Head(s)
  BY <1>1
<1> DEFINE t == <<Head(s)>> \o Tail(s)
<1>4. t \in Seq(S) /\ Len(t) = Len(s)
      /\ \A k \in 1 .. Len(s) : t[k] = IF k <= 1 THEN <<Head(s)>>[k] ELSE Tail(s)[k - 1]
  BY <1>1, <1>2, <1>3, ConcatProperties
<1>5. \A k \in 1 .. Len(s) : t[k] = s[k]
  BY <1>1, <1>2, <1>3, <1>4
<1> QED BY <1>4, <1>5, SeqEqual

\* The line is unchanged by the push of scheduler_run, seen as an order: the
\* new line is the queue after the push.
LEMMA RunLine ==
  ASSUME IndInv, phase \in {"boot", "run"}, scheduler_run,
         idle_process' = idle_process, created' = created
  PROVE  Line' = IF Requeue THEN Append(Contents(ready_queue), current_process)
                            ELSE Contents(ready_queue)
<1>0. /\ idle_process = 0 /\ 0 # NULL /\ 0 \notin Task /\ NULL \notin Task
  BY TasksAssumption, ProcessesAssumption, NullAssumption
     DEF IndInv, TypeOK, BootInv, Task, Slot
<1>1. PICK rq1 \in Ring(Pointer) :
           /\ rq1 = IF Requeue
                    THEN generic_circular_buffer_push(ready_queue, current_process)
                    ELSE ready_queue
           /\ created = 1 => /\ current_process' = 0
                             /\ Contents(ready_queue') = << >>
                             /\ Contents(rq1) = << >>
           /\ created # 1 => /\ Contents(rq1) # << >>
                             /\ current_process' = Head(Contents(rq1))
                             /\ current_process' \in Task
                             /\ Contents(ready_queue') = Tail(Contents(rq1))
  BY RunEffect
<1>2. Contents(rq1) \in Seq(Pointer)
  BY ContentsSeq
<1>3. Line' = Contents(rq1)
  <2>1. CASE created = 1
    BY <1>0, <1>1, <2>1 DEF Line, Requeue
  <2>2. CASE created # 1
    <3>1. Requeue'
      BY <1>0, <1>1, <2>2 DEF Requeue
    <3>2. Line' = <<Head(Contents(rq1))>> \o Tail(Contents(rq1))
      BY <1>1, <2>2, <3>1 DEF Line
    <3> QED BY <1>1, <1>2, <2>2, <3>2, ConsHeadTail
  <2> QED BY <2>1, <2>2
<1>4. Requeue => Contents(rq1) = Append(Contents(ready_queue), current_process)
  BY <1>1, RequeueHoldsAll
<1> QED BY <1>1, <1>3, <1>4

\* A scheduling decision while a process runs is a Rotate or changes nothing.
LEMMA RotateStep ==
  ASSUME IndInv, phase = "run", phase' = "run", scheduler_run,
         idle_process' = idle_process, created' = created
  PROVE  RR!Rotate \/ UNCHANGED RR!vars
<1> DEFINE q == Contents(ready_queue)
<1>1. Line' = IF Requeue THEN Append(q, current_process) ELSE q
  BY RunLine
<1>2. CASE ~Requeue
  BY <1>1, <1>2 DEF Line, RR!vars
<1>3. CASE Requeue
  <2>1. q \in Seq(Pointer) /\ current_process \in Pointer
    BY ContentsSeq DEF IndInv, TypeOK
  <2>2. Line = <<current_process>> \o q
    BY <1>3 DEF Line
  <2> HIDE DEF q
  <2>3. /\ <<current_process>> \o q # << >>
        /\ Head(<<current_process>> \o q) = current_process
        /\ Tail(<<current_process>> \o q) = q
    BY <2>1
  <2> QED BY <1>1, <1>3, <2>2, <2>3 DEF RR!Rotate
<1> QED BY <1>2, <1>3

LEMMA RefinementStep == IndInv /\ [Next]_vars => [RR!Next]_(RR!vars)
<1> SUFFICES ASSUME IndInv, [Next]_vars PROVE RR!Next \/ UNCHANGED RR!vars
  BY DEF RR!Next
<1>1. CASE PopulateFree
  BY <1>1 DEF PopulateFree, RR!vars, Line, Requeue
<1>2. CASE CreateIdle
  <2>1. current_process = NULL /\ ~Requeue /\ ~Requeue'
    BY <1>2 DEF CreateIdle, IndInv, BootInv, Requeue
  <2> QED BY <1>2, <2>1 DEF CreateIdle, RR!vars, Line
<1>3. CASE CreateTask
  <2>1. /\ created \in Slot /\ ~Requeue /\ current_process = NULL
        /\ created \in Nat /\ ReadySet = 1 .. created - 1
        /\ Contents(ready_queue') = Append(Contents(ready_queue), created)
    BY <1>3, CreateTaskQueue
  <2>2. ~Requeue'
    BY <1>3, <2>1 DEF CreateTask, Requeue
  <2>3. Line = Contents(ready_queue) /\ Line' = Append(Line, created)
    BY <2>1, <2>2 DEF Line
  <2>4. \A k \in DOMAIN Line : Line[k] # created
    <3>1. created \notin 1 .. created - 1
      BY <2>1
    <3>2. created \notin ReadySet
      BY <2>1, <3>1
    <3> QED BY <2>3, <3>2, Zenon DEF ReadySet, Range
  <2>5. phase # "run" /\ phase' # "run"
    BY <1>3 DEF CreateTask
  <2>6. RR!Admit(created)
    BY <2>3, <2>4, <2>5 DEF RR!Admit
  <2> QED BY <2>1, <2>6 DEF RR!Next
<1>4. CASE CreateFails
  BY <1>4 DEF CreateFails, lists, RR!vars, Line, Requeue
<1>5. CASE FirstRun
  <2>1. ~Requeue
    BY <1>5 DEF FirstRun, IndInv, BootInv, Requeue
  <2>2. Line' = Line
    BY <1>5, <2>1, RunLine DEF FirstRun, Line
  <2>3. RR!Start
    BY <1>5, <2>2 DEF FirstRun, RR!Start
  <2> QED BY <2>3 DEF RR!Next
<1>6. CASE yield
  BY <1>6, RotateStep DEF yield, RR!Next
<1>7. CASE Irq
  BY <1>7, RotateStep DEF Irq, RR!Next
<1>8. CASE EarlyIrq
  BY <1>8 DEF EarlyIrq, Booting, lists, RR!vars, Line, Requeue
<1>9. CASE Stuck \/ UNCHANGED vars
  BY <1>9 DEF Stuck, vars, RR!vars, Line, Requeue
<1> QED BY <1>1, <1>2, <1>3, <1>4, <1>5, <1>6, <1>7, <1>8, <1>9 DEF Next

\* scheduler_init, scheduler_run and yield implement round robin for every
\* number of tasks.
THEOREM Refinement == Spec => ImplementsRoundRobin
<1>1. Init => RR!Init
  <2> SUFFICES ASSUME Init PROVE RR!Init
    OBVIOUS
  <2>1. Contents(ready_queue) = << >> /\ ~Requeue /\ phase # "run"
    BY BssRingOK DEF Init, Requeue
  <2> QED BY <2>1 DEF RR!Init, Line
<1> QED BY <1>1, RefinementStep, Invariance, PTL
     DEF Spec, ImplementsRoundRobin, RR!Spec
=============================================================================
