------------------------------- MODULE Motor -------------------------------
(***************************************************************************)
(* motor_task (scheduler.c) and the motor driver it calls (motor.c), fed   *)
(* by the receive ring of UART1.  A remote control sends commands of five  *)
(* bytes, 'x' a 'y' b newline, where a and b are joystick positions.       *)
(*                                                                         *)
(* The ring is the bounded FIFO queue that UartRx shows it to be, and      *)
(* uart_readline is one step; each write to a GPIO register is a step of   *)
(* its own, so that the levels of the pins in between can be talked about. *)
(***************************************************************************)
EXTENDS SerialSizes, Integers, Sequences, SequencesExt, FiniteSets

CONSTANTS Position,          \* joystick bytes the remote control sends
          UART_BUFFER_SIZE,  \* size of the array uart_readline is passed (10)
          MAX_FRAMES         \* bound: commands sent in a behaviour

ASSUME PositionAssumption == Position \subseteq 0 .. 255
ASSUME ArrayAssumption == UART_BUFFER_SIZE \in Nat /\ UART_BUFFER_SIZE >= 6
ASSUME FramesAssumption == MAX_FRAMES \in Nat \ {0}

LF == 10
CR == 13
LEFT == 0
RIGHT == 1
Side == {LEFT, RIGHT}
none == <<>>                 \* no command yet

VARIABLES
  wire,      \* bytes of the current command that are still to be sent
  frames,    \* commands the remote control has begun to send
  sent,      \* history: the commands, in order
  ring,      \* characters in uart1_rx_buffer, oldest first
  dropped,   \* history: has the ring refused a character?
  at, side,  \* position in motor_ioctl, and its loop index
  struck,       \* history: has an interrupt found motor_task on the CPU?
  dirs,      \* argument of motor_ioctl
  cmd,       \* history: the command decoded last
  state,     \* motors[].state
  pin1, pin2, en   \* output levels of the pins of each motor

pins == <<pin1, pin2, en>>
link == <<wire, frames, sent, ring, dropped>>
motorVars == <<link, at, side, struck, dirs, cmd, state, pins>>

\* After motor_init: all pins low; the states are .bss.
MotorInit ==
  /\ wire = << >> /\ frames = 0 /\ sent = << >>
  /\ ring = << >> /\ dropped = FALSE
  /\ at = "poll" /\ side = 0 /\ struck = FALSE /\ dirs = {} /\ cmd = none
  /\ state = [s \in Side |-> "STOP"]
  /\ pin1 = [s \in Side |-> 0] /\ pin2 = [s \in Side |-> 0]
  /\ en = [s \in Side |-> 0]

-----------------------------------------------------------------------------
\* The remote control starts the next command.
SendCommand ==
  /\ wire = << >>
  /\ frames < MAX_FRAMES
  /\ \E a, b \in Position :
       /\ wire' = <<120, a, 121, b, LF>>
       /\ sent' = Append(sent, <<a, b>>)
  /\ frames' = frames + 1
  /\ UNCHANGED <<ring, dropped, at, side, struck, dirs, cmd, state, pins>>

\* The driver's part of the interrupt: the next byte goes from the wire into the
\* ring, or is refused.
Receive ==
  LET ch == IF Head(wire) = CR THEN LF ELSE Head(wire)
      full == Len(ring) = CHAR_BUFFER_SIZE
  IN /\ wire # << >>
     /\ wire' = Tail(wire)
     /\ ring' = IF full THEN ring ELSE Append(ring, ch)
     /\ dropped' = (dropped \/ full)
     /\ UNCHANGED <<frames, sent, dirs, cmd, state, pins>>

\* Another process has the CPU.  motor_task gives it up at its yield only, or
\* anywhere once it has been interrupted.
IrqElsewhere ==
  /\ at = "poll" \/ struck
  /\ Receive
  /\ UNCHANGED <<at, side, struck>>

\* motor_task has the CPU, in motor_ioctl or in its loop and the reader.  It
\* continues at its link register (see ContextSwitch): after the last call it
\* made or, from a leaf function such as GPIO_clear, after that function without
\* its store, or in a frame that is gone.  Which it is depends on the compiled
\* code, so any point of motor_ioctl and any loop index is possible, and that it
\* is never seen again.  From any of them it goes on writing pins.
IrqInTask ==
  /\ Receive
  /\ struck' = TRUE
  /\ at' \in {"poll", "stop", "set", "pin1", "pin2", "en", "lost"}
  /\ side' \in Side

handle_uart1_irq == IrqElsewhere \/ IrqInTask

\* Mutant of uart_readline: the loop does not stop at a newline.
ReadlineNoBreak ==
  IF \A k \in DOMAIN ring : ring[k] # LF THEN << >>
  ELSE SubSeq(ring, 1, IF Len(ring) < READ_SIZE - 1 THEN Len(ring) ELSE READ_SIZE - 1)

\* What uart_readline returns: nothing without a newline in the ring, else the
\* characters up to the first newline, or as many as fit.
uart_readline_result ==
  IF \A k \in DOMAIN ring : ring[k] # LF THEN << >>
  ELSE LET nl == CHOOSE k \in DOMAIN ring : ring[k] = LF /\ \A j \in 1 .. k - 1 : ring[j] # LF
       IN SubSeq(ring, 1, IF nl < READ_SIZE - 1 THEN nl ELSE READ_SIZE - 1)

\* Mutant of the decoder: a push to the right is taken for one to the left.
DecodeMirrored(a, b) ==
  LET x == a - 128
      y == b - 128
      ahead == x > -5 /\ x < 5
  IN CASE ahead /\ y > 5    -> {"FORWARD"}
       [] ahead /\ y < -5   -> {"BACKWARD"}
       [] x > 5 /\ y > 5    -> {"FORWARD", "LEFT"}
       [] x > 5 /\ y < -5   -> {"BACKWARD", "LEFT"}
       [] x < -5 /\ y > 5   -> {"FORWARD", "RIGHT"}
       [] x < -5 /\ y < -5  -> {"BACKWARD", "RIGHT"}
       [] OTHER             -> {"STOP"}

\* The if-chain of motor_task.
Decode(a, b) ==
  LET x == a - 128
      y == b - 128
      ahead == x > -5 /\ x < 5
  IN CASE ahead /\ y > 5    -> {"FORWARD"}
       [] ahead /\ y < -5   -> {"BACKWARD"}
       [] x > 5 /\ y > 5    -> {"FORWARD", "RIGHT"}
       [] x > 5 /\ y < -5   -> {"BACKWARD", "RIGHT"}
       [] x < -5 /\ y > 5   -> {"FORWARD", "LEFT"}
       [] x < -5 /\ y < -5  -> {"BACKWARD", "LEFT"}
       [] OTHER             -> {"STOP"}

\* Mutant of motor_task: the newline is not counted.
PollFour ==
  LET line == uart_readline_result IN
  /\ at = "poll"
  /\ line # << >>
  /\ ring' = SubSeq(ring, Len(line) + 1, Len(ring))
  /\ IF Len(line) = 4
     THEN /\ cmd' = <<line[2], line[4]>>
          /\ dirs' = Decode(line[2], line[4])
          /\ at' = "stop" /\ side' = 0
     ELSE UNCHANGED <<cmd, dirs, at, side>>
  /\ UNCHANGED <<wire, frames, sent, dropped, struck, state, pins>>

\* One round of the loop of motor_task.  A line that is not five characters
\* long is thrown away; the letters in it are not looked at.
Poll ==
  LET line == uart_readline_result IN
  /\ at = "poll"
  /\ line # << >>
  /\ ring' = SubSeq(ring, Len(line) + 1, Len(ring))
  /\ IF Len(line) = 5
     THEN /\ cmd' = <<line[2], line[4]>>
          /\ dirs' = Decode(line[2], line[4])
          /\ at' = "stop" /\ side' = 0
     ELSE UNCHANGED <<cmd, dirs, at, side>>
  /\ UNCHANGED <<wire, frames, sent, dropped, struck, state, pins>>

\* A round without a line: motor_task yields.
PollNothing == at = "poll" /\ uart_readline_result = << >> /\ UNCHANGED motorVars

-----------------------------------------------------------------------------
\* Mutant of motors_stop: only the first motor is stopped.
StopFirst ==
  /\ at = "stop"
  /\ en' = [en EXCEPT ![LEFT] = 0]
  /\ at' = "set"
  /\ UNCHANGED <<link, side, struck, dirs, cmd, state, pin1, pin2>>

\* motors_stop: one GPIO_clear per motor.
motors_stop ==
  /\ at = "stop"
  /\ en' = [en EXCEPT ![side] = 0]
  /\ IF side = RIGHT THEN at' = "set" /\ side' = 0 ELSE at' = at /\ side' = side + 1
  /\ UNCHANGED <<link, struck, dirs, cmd, state, pin1, pin2>>

\* motors_set_dir.
motors_set_dir ==
  LET dir(s) == IF "BACKWARD" \in dirs THEN "BACKWARD"
                ELSE IF "FORWARD" \in dirs THEN "FORWARD" ELSE state[s]
  IN /\ at = "set"
     /\ state' = IF "STOP" \in dirs THEN [s \in Side |-> "STOP"]
                 ELSE [s \in Side |->
                         IF \/ s = LEFT /\ "LEFT" \in dirs
                            \/ s = RIGHT /\ "RIGHT" \in dirs
                         THEN "STOP" ELSE dir(s)]
     /\ at' = "pin1" /\ side' = 0
     /\ UNCHANGED <<link, struck, dirs, cmd, pins>>

\* motors_start: the two direction pins of motor i, then its enable pin.
StartPin1 ==
  /\ at = "pin1"
  /\ pin1' = [pin1 EXCEPT ![side] = IF state[side] = "FORWARD" THEN 1 ELSE 0]
  /\ at' = "pin2"
  /\ UNCHANGED <<link, side, struck, dirs, cmd, state, pin2, en>>

StartPin2 ==
  /\ at = "pin2"
  /\ pin2' = [pin2 EXCEPT ![side] = IF state[side] = "BACKWARD" THEN 1 ELSE 0]
  /\ at' = "en"
  /\ UNCHANGED <<link, side, struck, dirs, cmd, state, pin1, en>>

StartEn ==
  /\ at = "en"
  /\ en' = IF state[side] # "STOP" THEN [en EXCEPT ![side] = 1] ELSE en
  /\ IF side = RIGHT THEN at' = "poll" /\ side' = 0 ELSE at' = "pin1" /\ side' = side + 1
  /\ UNCHANGED <<link, struck, dirs, cmd, state, pin1, pin2>>

motors_start == StartPin1 \/ StartPin2 \/ StartEn
motor_ioctl == motors_stop \/ motors_set_dir \/ motors_start

motor_task == Poll \/ PollNothing \/ motor_ioctl

\* motor_task is at an address that is not its own, or in an abort handler.
MotorLost == at = "lost" /\ UNCHANGED motorVars

MotorNext == SendCommand \/ handle_uart1_irq \/ motor_task \/ MotorLost

\* The task gets the CPU again and again, as Scheduler shows for as long as
\* processes are dispatched at all, and a byte that is sent arrives.
MotorSpec ==
  /\ MotorInit /\ [][MotorNext]_motorVars
  /\ WF_motorVars(motor_task) /\ WF_motorVars(handle_uart1_irq)

-----------------------------------------------------------------------------
\* The types, and the array of motor_task: the line and its terminator fit it as
\* long as the remote control keeps to its five bytes, the ring has refused
\* nothing and the reader was not interrupted.  Nothing in the code says so:
\* uart_readline is passed 100 for the array of 10, and after a newline that was
\* refused the two commands that have become one overrun it.
MotorTypeOK ==
  /\ wire \in Seq(0 .. 255) /\ ring \in Seq(0 .. 255) /\ Len(ring) <= CHAR_BUFFER_SIZE
  /\ frames \in 0 .. MAX_FRAMES /\ sent \in Seq(Position \X Position)
  /\ dropped \in BOOLEAN /\ struck \in BOOLEAN
  /\ at \in {"poll", "stop", "set", "pin1", "pin2", "en", "lost"}
  /\ side \in Side
  /\ dirs \subseteq {"FORWARD", "BACKWARD", "LEFT", "RIGHT", "STOP"}
  /\ cmd = none \/ cmd \in (0 .. 255) \X (0 .. 255)
  /\ state \in [Side -> {"STOP", "FORWARD", "BACKWARD"}]
  /\ pin1 \in [Side -> 0 .. 1] /\ pin2 \in [Side -> 0 .. 1] /\ en \in [Side -> 0 .. 1]
  /\ ~dropped /\ ~struck => Len(uart_readline_result) < UART_BUFFER_SIZE

\* What motor s should do for joystick position <<a, b>>: it turns in the
\* direction of the stick, unless it is on the side the stick leans to, or the
\* stick is within five steps of the middle line, or exactly five off it.
Wanted(s, c) ==
  LET x == c[1] - 128
      y == c[2] - 128
      inner == IF x > 0 THEN RIGHT ELSE LEFT
  IN IF y \in -5 .. 5 \/ x \in {-5, 5} \/ (x \notin -5 .. 5 /\ s = inner) THEN "STOP"
     ELSE IF y > 0 THEN "FORWARD" ELSE "BACKWARD"

\* The pins of each motor, if forward is the pair of levels f: a motor that is to
\* stop is disabled with both pins low, one that is to turn is enabled and has
\* the levels of its direction.
PinsShow(f) ==
  at = "poll" /\ cmd # none /\ ~struck =>
    \A s \in Side :
      LET w == Wanted(s, cmd) IN
      /\ en[s] = IF w = "STOP" THEN 0 ELSE 1
      /\ <<pin1[s], pin2[s]>> = CASE w = "STOP"     -> <<0, 0>>
                                  [] w = "FORWARD"  -> f
                                  [] w = "BACKWARD" -> <<f[2], f[1]>>

\* Between two commands the pins of both motors say what the last decoded
\* command wants of them, whatever commands came before: no level is left over
\* from an earlier direction, and one pair of levels means forward throughout.
\* Which one is left open: motors_start drives (1, 0), the comment in motor.h
\* and motor_read take (0, 1) for forward.
PinsFollowCommand == []PinsShow(<<0, 1>>) \/ []PinsShow(<<1, 0>>)

\* Unless an interrupt has found motor_task on the CPU, the direction pins of a
\* motor never change while it is enabled, so that it is never reversed under
\* power.  An interrupt in GPIO_clear can make motors_stop leave a motor on.
NoReversalUnderPower ==
  [][~struck => \A s \in Side : <<pin1[s], pin2[s]>>' # <<pin1[s], pin2[s]>> =>
               en[s] = 0 /\ en'[s] = 0]_motorVars

\* As long as the ring has refused nothing and motor_task was not interrupted,
\* every command that is executed was sent, even if positions look like a newline
\* or a carriage return: such a command is lost as a whole and the next one is in
\* step again.
OnlySentCommands == ~dropped /\ ~struck /\ cmd # none => cmd \in Range(sent)

LastSent == IF sent = << >> THEN none ELSE Last(sent)

\* The last command wins: if nothing was refused and neither position looks
\* like the end of a line, it is the one in force in the end, unless an
\* interrupt has found motor_task on the CPU.
LastCommandWins ==
  [](/\ frames = MAX_FRAMES /\ wire = << >> /\ ~dropped
     /\ Range(LastSent) \cap {LF, CR} = {}
     => <>(cmd = LastSent \/ struck))
=============================================================================
