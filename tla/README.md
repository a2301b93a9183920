# A TLA+ model of the kernel

The repository is a bare-metal kernel for the BeagleBone Black (ARM Cortex-A8,
one core, C and assembler): a boot loader reads the kernel from an SD card, the
kernel sets up interrupts and two UARTs, creates three tasks and an idle task,
and switches between them when a task yields or an interrupt arrives. One task
drives two motors from commands that come in over UART1. There are no tests.

## Inventory

| component | state | operations | interacts with | what makes it correct |
|---|---|---|---|---|
| circular buffers (`common/circular_buffer.c`) | slots, head, tail, size (and lines) | init, push, pop | scheduler, UART | a FIFO queue; full and empty are refused; lines counts newlines |
| scheduler (`os/scheduler/scheduler.c`) | PCB array, three rings, `current_process` | `scheduler_init`, `process_create`, `scheduler_run`, `yield` | entered from `kmain`, svc and irq handlers | tasks are conserved, round robin, every task gets its turn while dispatching goes on |
| context switch (`scheduler_asm.S`, `interrupt_handlers.S`) | CPU registers, saved registers, four caches, I bit | save, restore, svc entry, irq entry | scheduler, handlers of the INTC table | a process gets back its registers, stack and pc (r0, r1 and, after an interrupt, pc it does not); the kernel is not re-entered; the OS stack stays |
| interrupt controller (`interrupt.c`) | handler table, mask registers, I bit | init, register, enable, disable | all drivers | a handler is registered before its interrupt can arrive |
| UART (`uart.c`) | receive ring per port | two handlers, `uart_getchar`, `uart_readline`, port setup | context switch, motor task | order, whole lines, no line is left lying |
| motor driver and `motor_task` | pin pairs, direction | `motor_ioctl`, `motor_write`, `motor_read`, decoder | UART, GPIO | the pins say what the last whole command said |
| timer (`timer.c`) | tick functions, registers | init, start, stop, handlers | INTC, scheduler (not started) | the interval up to one clock, one tick per overflow at most, quiet when stopped |
| frame allocator (`mmu.c`) | frame array, free list | init, alloc, free | nobody yet | no frame is given out twice, no cycle |
| MMU tables (`mmu.c`) | L1 table | map section, map hardware, init, enable | boot | whatever runs on is reachable before and after; registers uncached |
| FAT32 (`fat32.c`) | volume, open file, cluster position | mount, open, read, seek | MMC, boot loader | the file the path names; the bytes read are those of the cluster chain |
| MMC (`boot/mmc.c`) | controller registers | init, command, read sector | FAT32 | success only if the sector was read; every read returns |
| DDR (`boot/ddr.c`) | memory, error count | setup, test | boot loader | no kernel runs in bad memory without a warning |
| boot loader (`boot/bootloader.c`) | kernel header, sections | setup, load, map, clear, jump | DDR, FAT32, MMU | the whole kernel is in memory, mapped, its bss clear, before the jump |
| system calls (`syscall.c`) | table | `handle_syscall` | not reached from the svc handler | - |

What is hard here: interrupts run between any two instructions of the processes
and of parts of the kernel itself; every interrupt ends in a switch; the save
path runs through words of memory shared by all activations; the results of
push are ignored; a full ring has no way out. The list with source lines is
under `hazards` in `PROJECT.json`.

## Modules

| module | models |
|---|---|
| `GenericCircularBuffer` | the pointer ring as a record with the C fields; `push`, `pop` and `init` as operators; `Contents` is the sequence a ring represents |
| `RoundRobin` | abstract: a line of tasks, whose head goes to the end at each decision |
| `Scheduler` | `scheduler_init` step by step, then one action per entry to `scheduler_run` |
| `ContextSwitch` | the handlers, save, restore and `scheduler_run` at the granularity at which an interrupt makes a difference |
| `SerialSizes` | the sizes `UartRx` and `Motor` share |
| `UartRx` | the receive handler against `uart_readline` |
| `Motor` | `motor_task` and `motor_ioctl`, from the bytes on the wire to the pins |
| `FrameAllocator` | the list of free frames, with the walk of `free_frame` step by step |
| `Fat32File` | seek and read of an open file, one step per link of the chain and per sector |
| `Mmc` | the SD card driver against controller and card, poll by poll |
| `Interrupts` | the interrupt controller and its driver, as operators |
| `Startup` | the order of the setup in boot loader and kernel, with characters arriving (uses `Interrupts`) |
| `Timer` | one timer, its driver, the clock and the interrupt (uses `Interrupts`) |
| `Ddr` | memory setup and memory test |
| `Fat32Lookup` | mount, path lookup and directory walk, one step per sector |
| `Mmu` | the first-level table and what the processor makes of it |
| `Bootloader` | `__BootloaderEntry`, composed of `Ddr`, `Fat32Lookup` and `Mmu` |
| `GenericCircularBufferProofs`, `SchedulerProofs`, `FrameAllocatorProofs`, `ContextSwitchProofs`, `Fat32FileProofs` | the theorems about the module they are named after |
| `SerialProofs` | the theorems about `UartRx` and `Motor` |
| `InterruptProofs` | the theorems about `Timer` and `Startup` |
| `BootProofs` | the theorems about `Bootloader` with its parts, and `Mmc` |
| `MCScheduler`, `MCContextSwitch`, `MCUartRx`, `MCMotor`, `MCFrameAllocator`, `MCFat32File`, `MCMmc`, `MCStartup`, `MCTimer`, `MCBootloader` | the modules TLC runs |

Definitions whose comment begins with "Mutant" are not part of a
specification: each is a plausible error in the definition that follows it, and
with it in place the named property fails. `PROJECT.json` maps every other
definition to source lines.

### Scheduler

A process pointer is an index into the PCB array. `phase` is the position of
`kmain`: `populate` and `create` are the two parts of `scheduler_init`, `boot`
is just before the call of `scheduler_run`, `run` is everything after, `halt`
is the `while (1)` after a failed creation. The code creates three tasks; the
model any number up to `MAX_TASKS`, so that none, one, and one too many are
covered. An interrupt before the first dispatch ends in `abort`: the handler
loads the stack pointer from `os_sp_cache`, which is still 0. After that,
`yield` and `Irq` are each one atomic call of `scheduler_run`: this module is
about what the calls do to the queues, `ContextSwitch` about what may happen
inside one.

### ContextSwitch

The process bodies are reduced to points that differ in what the link register
holds (process entry, after a call, in a leaf function, at the `swi`). The
kernel path is one step per label of `KernelLabel`; between two labels only
registers change. Registers are `r0`, `r1` and `rx`, which stands for r2 to
r12; a value is the process and the point where it was computed. `r0`
and `r1` come back exchanged; no property asserts or denies it (see the
disagreements below). A stack
pointer is the owner of the stack and a depth in frames. A process that is
dispatched at address 0 or inside the kernel stops the model (`wild`), because
the frame that code would use is gone. `left` is a history of what a process
had when it lost the CPU, and `hit` says whether an interrupt has ever arrived
in kernel code. The CPSR of a process is left out: `process_create` leaves 15
in it and `save_context_asm` reads an SPSR that System mode does not have, so
what `msr` does is not defined by the architecture; the model stays in System
mode.

### UartRx

One ring, one reader. The handlers of the two ports are the same code. Every
store of `circular_char_buffer_pop` is a step. An interrupt inside
`uart_readline` follows what `ContextSwitch` shows: from the loop the reader
continues behind its last call with a wrong `r0`, from anywhere else it is
lost. `hit` records it. The rest of `motor_task` is the label `out`; an
interrupt there stands for one that arrives while any other code runs.

### Motor

The remote control sends `x a y b newline`; a joystick position is any byte, so
it may look like a newline or a carriage return. The ring is a bounded queue,
which is what `UartRx` shows of it, and `uart_readline` is one step. Every write
to a GPIO register is a step, so the levels in between are states. `char` is
unsigned, as it is on ARM. An interrupt while another process runs only adds a
character (`IrqElsewhere`). One that finds `motor_task` on the CPU makes it
continue at its link register (`IrqInTask`, see `ContextSwitch`): behind its last
call, or behind a leaf function such as `GPIO_clear` without its store, or not at
all. Which point that is depends on the compiled code, so the model lets it go on
from any point of `motor_ioctl`, writing pins; `struck` records it, and the
properties stand as long as it is false. `dropped` records whether the ring ever
refused a character: the letters of a command are not checked, so after that two
commands can merge into one nobody sent. Which pair of levels is forward is left
open: `motors_start` and the comment in `motor.h` disagree.

### FrameAllocator

A node of the array is its index. The callers are free to pass `free_frame` any
address. `held` is the history of what has been given out and not freed since,
`misfreed` of reserved frames that a caller freed (the code accepts them), and
`free` and `rank` describe the list for the proof: which frames are on it, and
how far each is from its end. Nothing calls the allocator yet, so its functions
do not interleave.

### Fat32File

The volume is chosen in the initial state, sound or damaged: chains that end
early, run into a free, bad or foreign entry, or are cyclic. Every sector read
may fail. The buffer holds the places on the disk its bytes come from, so
`ByteAt` can say what it should hold. The errors of `fat32_get_next_cluster`
travel as cluster numbers, as in the code; a look-up for a number that is no
cluster (`astray`) may find anything. Two things are as the code has them and
worth knowing: a file that starts in cluster 2 cannot be read, and a chain that
is exactly one cluster short makes the call return an error although bytes were
read and the offset has moved. The look-up behind the sector loop is dead code
(the last conjunct of `TypeOK`) and not an action. Null pointers and negative sizes are not
passed.

### Mmc

A block is the number of its sector. The controller is modelled from the bits
the driver looks at: it may answer, time out, deliver a good or a corrupt block
or none, at any moment. `CMD17` is the only command that is sent. `flagged`
and `adrift` are histories: the block of this read came with an error bit, and an
earlier read was given up with its block under way. The driver looks at BRR
first, so a block with a CRC error is returned as a success; and it does not ask
whether the data lines are free, so after a read that was given up the next one
may get the block of the one before. `ReadsWanted` excepts these two and no other
case. `mmc_controller_init` returns nothing, so the boot goes on after a failure;
without a card clock the response loop of `sendCommand` has no end.

### Interrupts, Startup

The boot loader and the kernel are each linked with their own copy of the driver,
so there are two handler tables and one controller. `Program` is the sequence of
calls of `__BootloaderEntry` and `kmain` that matter for interrupts, each call a
step (`INTC_init` two), and a character may arrive between any two. In the boot
loader `scheduler_run` is a stub that returns to what `lr` holds, the return
address of the last call inside the handler, whose frame is gone: the program goes
on in the caller of the interrupted function, with that function cut short (`cut`)
and interrupts masked, or not at all. In the kernel an interrupt finds no stack
before the first dispatch and the machine stops. So typing while it boots can stop
it; `uart_port_init` resets the port and may still drop the character in time.
After the first dispatch a process may fail at any moment (`ProcessAborts`: it
resumes at address 0, or the OS stack is used up), and the machine with it; the
properties say that the set-up was right, not that processes go on.

### Timer

The callback and the write that ends the interrupt are two steps, with clock edges
in between. The write names the match bit (2) although the overflow bit is the
one that is set; it works because `REG32_write_masked` writes back what it has
read. Overflows that arrive during a callback are merged into one. The timers 0
and 1 are refused. An interrupt does not return into the driver call it found: the
process goes on at its link register (`Resume`), so the call may lose the write it
was about to make or be given up, or, from outside, seem to be entered again; or
the machine hangs in `prefetch_abort_handler`. This goes for the timer's own
interrupt and for those of other devices (`OtherIrq`, recorded by `struck`).
`timer_init` is called with the line masked, as `scheduler_init` does, and is one
step: interrupts of other devices within it are left out.

### Ddr

Every wait of the setup runs out in silence, so the steps only have an order, and
what the memory is like afterwards is chosen freely: any set of bits sticks at 0
or at 1. The test covers the first megabyte only, and a fault in which two
addresses share a cell is not found, because each word is read back at once.

### Fat32Lookup

Cards and directory trees are chosen in the initial state, damaged ones included.
`astray` is the history that the walk has left the directory it is in. The ways
there are in the code: `fat32_read_fat_entry` keeps one byte of an entry, so end
marks, bad clusters and numbers over 255 are followed as other clusters; all but
the last component of a path are followed whatever their attributes are, a volume
label named like the directory included. A cyclic chain of a directory without
an end mark is walked for ever. A boot sector with 0 sectors per cluster is
accepted. The signature of the boot sector is read as 32 bits (see the
findings). What the path names is defined apart from the walk: `Searched` is the
smallest set of clusters that holds the first one and is closed under the chain as
far as no entry ends the search, and `Entries` the entry of these clusters that
does. A sector read may fail; on a `noisy` card it may also report success and have
stored another sector, as `Mmc` shows (a block with an error bit, or one of an
earlier read): a sector of one of the `Foreign` cards, any sector of a directory,
any FAT entry. `garbled` records it.

### Mmu, Bootloader

The table is the list of what was written to it; an address is the number of its
section. The entries for the RAM have bit 18 set. A processor with supersections
takes them for such; `log_l1_pte` says that this one has none and that the bit
should not be set. `Translations` allows for both, and the properties ask that both
give the same: with a 1:1 mapping they do. A kernel is the sizes of its parts in
units of the header, and of the gaps the linker leaves before data and bss. Facts
the properties state and except: the size in the header sums up the sections and
counts neither the 64 bytes of the header nor the gaps, so the last bytes of a
kernel that ends just behind a section are not mapped, and are handed to the frame
allocator; the loop that clears the bss runs on behind it for the length of the
text. A failed memory test only warns.

The file is loaded cluster by cluster (`part`); `loaded` counts the clusters that
stand in memory as in the file. The walk along the chain ends a load early where
the chain does (`LoadPart`), without any sector failing. A sector may fail, or be
another one that is taken for it (`LoadFails`, `LoadsWrong`); nothing looks at the
bytes but the check of the magic number. If the card has no clock the first read
never returns (`NoClock`, `pc = "hung"`). Interrupts are in `Startup`, the sector
reads in `Mmc`, the reads of the file in `Fat32File`. `kernel.bin` is assumed not to
be empty: `fat32_read` of 0 bytes returns the size, 0, and the bootloader would then
look for the magic number in memory nobody has written.

## Runs

| run | result | shows |
|---|---|---|
| `scheduler` | passes | tasks and PCBs are conserved, round robin is implemented, every task gets its turn as long as processes are dispatched |
| `context_switch` | passes | until an interrupt hits kernel code a switch keeps sp, lr and r2 to r12, and continues behind a swi, the queue holds each task once, saved contexts are private; interrupts are never left masked, hit or not |
| `context_switch_resume` | violated | an interrupted process continues at its last return address |
| `uart_rx` | passes | FIFO with an exact line count, whole lines, the destination is not overrun (in `TypeOK`), every accepted line is read |
| `motor` | passes | pins follow the last command, no reversal under power, nothing is executed that was not sent, the last command wins, lines of a five-byte sender fit their array with the terminator (in `MotorTypeOK`); all until an interrupt finds `motor_task` on the CPU, the last three as long as the ring has refused nothing |
| `frame_allocator` | passes | no frame twice, no leak, the list holds exactly the free frames and has no cycle, so the walk ends |
| `fat32_file` | passes | the bytes of the file, all of them unless a sector fails, consistent counts on errors, no sector behind the cluster (in `TypeOK`), every call returns |
| `mmc` | passes | no block is copied that has not arrived, a success is the sector asked for (up to the two exceptions above), every read returns if the card is clocked |
| `startup` | passes | before processes run only early input stops the machine; afterwards every port that can interrupt has its handler and buffer, and every character is taken as long as the machine runs and its set-up was not cut short |
| `timer` | passes | the interval up to one clock, no extra tick, quiet when stopped (as far as the timer's own interrupts go), a pending overflow is handled unless the machine hangs |
| `boot` | passes | the jump goes into the whole kernel file the path names on the first FAT32 volume, mapped, with a clear bss, unless the memory test has warned; panics have a cause; the MMU takes nothing away; the boot comes to an end or waits for a card without a clock; boots that were given another sector by a read that reported success are excepted where they can differ |
| `boot_valid_card` | violated | a valid card is called invalid because of two bytes behind the sector buffer |

Also seen in the models, and not asked by a run of its own: interrupts between the
last two instructions of `restore_context_asm` return into `scheduler_run`, behind
"Ummm... we should not be here"; the OS stack sinks with every dispatch, and
`init.S` gives it 4 KB; a receive ring full of characters without a newline is
never drained, because the reader waits for a line; and a FAT sector that fails in
the middle of `fat32_read` may end in bytes of another cluster and a success.

Bounds. `scheduler`: 4 PCBs and up to 4 tasks next to idle, so creation fails
for the largest count; rings of 7 slots, which is not a multiple of the queue
length, so head and tail wrap at every alignment. Nothing else is bounded.
`context_switch`: two tasks, a ring of 4 slots that wraps, `OS_STACK` = 3
dispatches (the fourth ends in `overflow`), which is enough for each task to be
dispatched, preempted and dispatched again. The number of interrupts is not
bounded. `uart_rx`: a ring of 3 characters, a destination of 3, and at most
`MAX_RECEIVED` = 5 characters, so the ring fills up, refuses a character and
wraps. `motor`: two commands and a ring smaller than two, positions for a line end,
the middle, both sides and the threshold; the ring (7) is smaller than two commands,
so that it overflows, the array (6) just holds a command with its terminator, and
`READ_SIZE` (9) is larger than both, as 100 is larger than the array of 10 in the
code. `frame_allocator`: four
sections, one of the kernel, one the page table, all addresses from below the
memory to behind it; calls are not bounded. `fat32_file`: all chains of up to
three clusters of two sectors of two bytes; sizes and requests on both sides of
sector and cluster boundaries; calls are not bounded. `mmc`: two
sectors, two polls, room for two blocks, so that a read can time out with its
block under way and the next one find it; reads are not bounded. `startup`: three
characters, enough for both ports and one more behind a fatal one. `timer`: a
counter of three bits, intervals that fit, that fill it and that wrap, three
overflows. `boot`: memory, card, tree and kernel vary one at a time, the others
being plain: two words of two bits with any bits stuck; two partitions in all
types and orders with each sector signed or not; directories of up to two clusters of two
sectors, with deleted, empty, foreign and wrong entries at each place, a cluster
number over `BYTE` and a cycle; chains of the kernel file that are whole, too short,
leave the volume, run back or start in cluster 2, on a noisy card; kernels that end
before, at and behind the end of a section, with and without gaps, on quiet and
noisy cards. A sector that is taken for another is unsigned or that of another
volume (`Strangers`), or any sector of a directory of the tree.

Fairness. `Scheduler`: none. That processes go on being dispatched is not something
the code guarantees (a process may resume at address 0, and the OS stack sinks with
each dispatch), so it is the premise of `DispatchedInTurn` and not of the
specification. `UartRx`: weak fairness of the reader: the property is about a
reader that gets the CPU, which `DispatchedInTurn` gives as long as processes are
dispatched. `Motor`: weak fairness of `motor_task`, for the same reason, and of the
handler, because a byte that is sent arrives. `Fat32File`: weak fairness of the
steps of a call that has begun, which is sequential code. `ContextSwitch` and
`FrameAllocator` have safety properties only and no fairness. `Mmc`: weak fairness of
the driver, because the processor runs, and of `Answer`, because the controller
ends each command with a response or its own time-out as long as it has a clock;
none of `Deliver`, a card need not send. `Startup`: weak fairness of the program
and of taking an interrupt that stays raised while the machine runs. `Timer`: weak
fairness of the handler only; none of the driver calls, which may be cut short, nor
of the clock. `Bootloader`: weak fairness of the whole, because the processor runs
and sector reads return if the card has its clock, which is `ReadReturns` of `Mmc`;
that it has none is `NoClock`.

Deadlock is checked in the runs of the kernel's parts; the endless loops of the
code are stuttering steps. It is not checked in `mmc`, `startup`, `timer` and
`boot`, where the system really may stop: a wait for a card without a clock, a
processor that has panicked, a timer after its last counted overflow, a boot that
has come to its end.

## Proofs

For every ring size, every number of PCBs that fits in a ring and every number
of tasks (the named `ASSUME`s):

* `PushAppends`, `PopTakesOldest`: on a ring with `tail = head + size` modulo
  its size, push appends to `Contents` and pop takes its head, and both keep
  the relation. Everything below uses the rings only through these two.
* `Invariance`: `IndInv` is inductive. `ReadyConservation` alone is not: that
  `scheduler_run` loses no task needs that its push cannot find the ring full,
  and for that `RingInv` knows the exact length of the queue (all tasks, or all
  but the running one) and `BootInv` how many tasks there are in each phase.
  That creation never takes a slot twice needs the exact contents of the free
  ring (`created, created + 1, ...`).
* `TypeCorrect`, `TasksConserved`, `SlotsAccounted` and `RunningUnique` (the process
  on the CPU is the one that is RUNNING, and idle only without tasks) follow.
* `Refinement`: with the running task put in front of the queue, creating a
  task is `Admit`, the first dispatch is `Start`, and `scheduler_run` is
  `Rotate`, or a stutter while idle runs alone.

`FrameAllocatorProofs`, for every memory size, kernel size, page table and set of
addresses passed in:

* `AddressInjective`, `AcceptedIsFrame`: addresses and frames correspond, and an
  address that passes the checks of `free_frame` is that of the frame it computes.
* `Invariance`: `IndInv` is inductive. `NeverTwice` speaks of the first node
  only; to keep it one must know that the list holds every frame at most once,
  which rests on the walk of `free_frame` really seeing all of it. `Ranked` gives
  the nodes ranks that count down along the pointers, so there is no cycle, and
  `Walked` says that the frames of higher rank than the current one have been
  compared.
* `AllocatesOnce`, `FramesAccounted` follow.
* `FreeListExact`: what the pointers from `frame_list` reach is exactly the free
  frames, and the list ends. `List` is a recursive function; that its equation has
  a solution (`ListExists`) and that entry k has rank `TopRank - k` (`ListShape`)
  are inductions over the numbers, which `SetInduction` provides for sets from the
  well-foundedness of `<`. That the end comes within `FRAMES` entries is the
  pigeonhole principle (`ListShort`).

`ContextSwitchProofs`, for every number of tasks, ring size and size of the OS
stack, and every arrival of interrupts:

* `NeverLeftMasked`: by `Masking`, which names the labels that may run with the I
  bit set. It does not depend on where interrupts have arrived.
* `Invariance`: `Inv` is inductive. All but `Masking` holds until an interrupt has
  arrived in kernel code; that it does not hold after that is the known defect of
  the code, not of the proof. `TasksConserved` speaks of moments at which a process
  executes, while push and pop are three stores each: `Settled` is the ring as it
  will be after the last of them, and `Out` the task that is not in it, so that
  `Queued` holds at every label. `Saved` relates each saved context to the history
  of what its process had; `OnCpu` follows the caches and registers through the two
  handlers. That an interrupt cannot find `os_sp_cache` unset is part of it.
* `NoTaskLost`, `ContextsStayPrivate` and the action property `SwitchIsTransparent`
  follow.

Three modules speak of two components each and extend both. For that `Startup`,
`Mmc` and `Motor` have names of their own for their specification (`StartupSpec`,
`MmcSpec`, `MotorSpec`) and variables, and `UartRx` and `Motor` have the sizes they
share from `SerialSizes`. The theorems use the named assumptions of the component
they are about, which TLC evaluates in its run, and no other.

`SerialProofs`, of `UartRx`, for every ring size, every size of the reader's buffer
and any number of characters:

* The ring is used through `PushAppends` and `PopTakesOldest` only, instantiated
  with `CHAR_BUFFER_SIZE`; the new lemmas count newlines (`NewlinesAppend` and its
  kind).
* `Invariance`: `Inv` is inductive. `Fifo` excludes the middle of a pop, where a
  character is in neither the ring nor the buffer: `Settled` and `Taken` put it
  where it is going. `ReturnsWholeLine` needs that the count `uart_readline` saw
  stays true until the newline is taken (`Reading`): a newline is ahead at each
  label of the loop. After an interrupt in the middle of a pop what is left is that
  the line count is at most one too high, which is enough for the bounds.
* `TypeCorrect`, `ReceiveIsFifo`, `LinesAreWhole` follow.

`SerialProofs`, of `Motor`, for every set of byte positions, any
number of commands and every size of ring and reader's buffer; the array of
`motor_task` has room for a command, five bytes and the terminator
(`ArrayAssumption`; it is 10 in the code). All of it stands until an interrupt finds
the task on the CPU:

* `MotorInv` is inductive. `Driving` says at each pin write which pins are already
  those of the new command: `motor_ioctl` switches both motors off first, sets
  `state` from the decoded directions, and then writes motor by motor, so a motor
  is enabled only behind its two direction pins. That the states are what the
  positions want (`Wanted`), whatever they were before, is a case split over the
  decoder.
* `Sending` and `InStep` say what the bytes on the wire and in the ring are: byte n
  of what was sent is byte r of command j (`Is`), after the handler has turned a
  carriage return into a newline. A position that looks like a line end splits a
  command in two lines, none of which has the length that is decoded; that a line
  of that length then is one whole command follows from where the newlines can be.
* `MotorTypeCorrect` (a line and its terminator fit the array, for such a sender and
  while nothing is refused), `PinsAreRight` (with the levels `motors_start` drives,
  hence with some), `NoInventedCommand` and the action property `NeverReversed`
  follow.

`Fat32FileProofs`, for every number of bytes in a sector, sectors in a cluster and
clusters in a volume, every chain, sound or damaged, every file size and every
sequence of seeks, reads and failures. The one assumption besides types is that
cluster numbers lie below the marks of the format (`NumbersAssumption`); without
it the end mark would be a cluster.

* `HasPlace`, `PlaceParts`: an offset is byte t of sector s of cluster q in one
  way only, and the divisions of the code compute t, s and q. The step from one
  sector to the next, and the exactness of the last one, rest on these.
* `ChainSteps`: `ClusterAt` follows the chain; that its recursion has a solution is
  an induction as for the list of frames.
* `Invariance`: `Inv` is inductive. `Walking` says what the walk has found: a
  number in the volume is the right cluster, even after a failed read, as long as
  the FAT was not read for a number outside; and without failures a right cluster
  is not missed. `InSector` ties the next sector and the bytes wanted to
  `file_offset`; `Progress` says that what remains and what is there make up what
  was asked for; `OnPath` that on a sound chain only a failure leads astray.
* `TypeCorrect` (the loop never reads behind its cluster), `DeliversFileBytes`,
  `ReadIsComplete` follow.

`BootProofs`, of `Bootloader`, for every tested range, memory, card, directory tree,
size of a section and kernel. Assumed of the volume (`VolumeAssumption`): the root
and what is marked as a directory are directories, a chain of a directory leads to
its clusters or to a number from `BYTE` on, no volume label has the name of the
kernel, and no file is empty; apart from that it may be damaged, cyclic chains
included. Assumed of the
layout (`LayoutAssumption`): the RAM that is mapped reaches to the sector buffer,
and the kernel, with its gaps and as much behind it as its text is long, ends below
the page table; the code has 256 MB for it and does not check.

* `BootInvariance`: `BootInv` is inductive. `JumpsIntoKernel` compares the file that
  was opened with what the format says the path names. `OnTheWay` is the invariant
  of the search that makes them agree: the cluster belongs to the directory, there
  is a set of clusters that holds the first one in which all others are behind the
  search without an end (so the set is closed once an entry ends it here), and the
  sectors before this one hold no such entry. `SearchEnds` concludes that the entry
  found is the only one of `Entries`. `Directory` says the same of the first
  component while the second is searched.
* `MemoryTested` relates the words that have been tested to the errors counted;
  `TestIsExact`: with the patterns 0 and all ones every bit that sticks has shown.
* A boot that was given another sector (`garbled`) is outside `OnTheWay` from then on.
  While the file is loaded, `part` clusters have been read and, as long as the memory
  is sound, `loaded` is equal to it; a load that ends early has found no cluster of
  the volume, so the file is not `Whole`.
* `PanicsHaveCause`, `EntersTheKernel` follow.
* `TableInvariance`: `TableInv` is inductive. `Filled` gives each entry of the table
  after f sections of the kernel. `KernelSection` and `SameSection` read from it what
  the processor does with an address, the entry written last being the one that
  counts; `RoundsUp` that the number of sections covers every unit.
* `KernelIsMapped`, `MmuIsSafe`, `BssIsClear` follow.

`BootProofs`, of `Mmc`, for every set of sectors, number of polls and size of the
buffer; a wrong block and an empty register are told from data (`BlockAssumption`):

* `CardInvariance`: `CardInv` is inductive. That the copy finds a block needs that BRR
  is set only while one is in the buffer, and that in the data loop CC is still
  set (`Arrived`); which block it is needs to follow the command from the line
  through the card to the buffer (`InFlight`), as long as no read was given up.
* `NoEmptyCopy`, `RightSector` follow.

`InterruptProofs`, of `Timer`, for every counter width, clock rate, interval and
number of overflows, the timer being any of the six:

* `ClearsAll`, `ReloadFits`: the masked write clears every bit; a reload value that
  fits is not wrapped.
* `Invariance`: `IndInv` is inductive. `Paid` counts a tick that is under way or
  still pending against the overflows, `Counting` ties the counter to the clocks
  since the last reload, `Masked` says that a timer that stands still is masked or
  has nothing pending, as long as only its own interrupts have come: each clears
  what is pending before the call resumes, wherever it does.
* `NoExtraTick`, `PeriodOfInterval`, `Quiet` follow.

`InterruptProofs`, of `Startup`, for every number of interrupt
lines and of characters, the lines of the ports being among them (`WiringAssumption`):

* `StartupInv` is inductive. `SetUp` says what is in place behind each step of the
  program of boot loader and kernel, unless a step was cut short, and that nothing
  later undoes it; `Early` that
  a character pending before the first dispatch, and a processor that has stopped,
  mean that one came too early.
* `KernelReady`, `OnlyEarlyInputIsFatal` follow.

The type invariants of `Scheduler`, `FrameAllocator`, `Mmc`, `Timer`, `Startup` and
`Bootloader` are parts of the inductive invariants and not properties of a run. The
inductive invariants were checked with TLC on the instances of the runs before they
were proved, those of `Bootloader` excepted: its quantifiers are not bounded. That
the reference definition of the directory search agrees with the listing of all
entries in order was checked on all trees of the run.

Only model-checked: the liveness properties (`DispatchedInTurn`, `EveryLineRead`,
`LastCommandWins`, `ReadReturns` of both modules, `Served`, `Handled` and `Settles`),
because fairness and `ENABLED` are outside the reach of the prover. Every other
property that a passing run checks is a theorem.

## Disagreements in the repository

Two are checked by a run of their own and listed as findings: where a preempted
process continues (`context_switch_resume`) and the signature of a valid card
(`boot_valid_card`). These others were met while modelling. No run decides them: the
properties are stated so that they hold whichever side is meant.

* r0 and r1: `scheduler_asm.S:11-12` names their slots, and `save_context_asm`
  (lines 196-200) puts r1 into that of r0 and r0 into that of r1, so a switch exchanges
  them. `SwitchPreserves` says nothing of the two.
* Forward: `motor.h:19-21` and `motor_read` (`motor.c:177-180`) take the pins (0, 1) for
  forward, `motors_start` (`motor.c:38-54`) drives (1, 0). `PinsFollowCommand` asks for
  one pair of levels throughout.
* The interval of a timer: `timer.h:74` says "intervals specified by `timer_tick_ms`";
  the reload value of `timer.c:119` is one too small for a counter whose overflow is a
  clock of its own, so every interval is one clock long. `Period` allows the exact
  interval and the longer one.
* Supersections: the flags at `mmu.c:213` set bit 18, `log_l1_pte` (`mmu.c:335-339`) says
  the bit should not be set. `MmuKeepsGoing` holds for both readings.
* Failed reads: `mmc_read_sector` looks at BRR before the error bits and leaves its loop
  for the copy with no bit set (`mmc.c:268-278`), and returns 0 all the same. `ReadsWanted`,
  `JumpsIntoKernel` and `PanicsForCause` except what follows.
* Initialisation of the card: `mmc_controller_init` gives up on an error but has no
  result, so `bootloader.c:183` goes on. `Settles` allows for the endless wait that
  follows.
* The array of a command: `motor_task` passes 100 for an array of 10
  (`scheduler.c:90`). `MotorTypeOK` holds for a sender of five bytes only.

## Plan

Done: all parts of the inventory that carry state, as models with their runs, and
the proofs of all their safety properties and of the refinement of `RoundRobin`.
Left, in this order: the CPSR of a process, once the code defines it; the transmit
side of the UART, if it becomes driven by interrupts; the system calls, when
something reaches them. The proofs follow the modules, so a change of the code
shows in the action that models it and in the step of the proof that is about it.

## Not modelled

* The CPSR of a process: what the code does with it is not defined by the
  architecture.
* The transmit side of the UART, the polled `uart_getc` and formatted output: busy
  waits and text, on which no property depends.
* The system call table, `motor_read`, `motor_write`, `MOTOR_SET_SPEED`, the motor
  test sequence, `fat32_readlabel`, `fat32_tell`, `fat32_eof`, `fat32_close`,
  `MMU_disable`, `gpio_test` and `levenshtein`: never called. `INTC_set_priority` is
  called for both ports (`uart.c:364`, `395`) with the same priority; it only says
  which of several pending lines is served first, which the model leaves open.
* The values of the DDR, PLL and MMC registers: a model cannot tell a right one
  from a wrong one.
* The QEMU port, an older copy that is not linked with this kernel, and the
  directories whose files are empty.
