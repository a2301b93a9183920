---------------------------- MODULE SerialSizes ----------------------------
(* The sizes that the receive path (UartRx) and its reader (Motor) share.   *)
EXTENDS Naturals

CONSTANTS CHAR_BUFFER_SIZE,  \* slots of the receive ring (512)
          READ_SIZE          \* buffer_size passed to uart_readline (100)

ASSUME CharBufferAssumption == CHAR_BUFFER_SIZE \in Nat \ {0}
ASSUME ReadSizeAssumption   == READ_SIZE \in Nat \ {0, 1}
=============================================================================
