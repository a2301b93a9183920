\* Two commands with every kind of position: one that ends a line, both
\* sides of the middle, exactly five off it, and a ring smaller than two
\* commands.
SPECIFICATION MotorSpec
CONSTANTS
  Position = {13, 100, 123, 128, 140}
  CHAR_BUFFER_SIZE = 7
  READ_SIZE = 9
  UART_BUFFER_SIZE = 6
  MAX_FRAMES = 2
INVARIANTS MotorTypeOK OnlySentCommands
PROPERTIES PinsFollowCommand NoReversalUnderPower LastCommandWins
