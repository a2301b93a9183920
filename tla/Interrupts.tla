---------------------------- MODULE Interrupts ----------------------------
(***************************************************************************)
(* The interrupt controller and its driver (interrupt.c): the lines that   *)
(* are masked, the table of handlers of each program image, the owner of   *)
(* the exception vectors, and the I bit of the processor.  The bootloader  *)
(* and the kernel are each linked with a copy of the driver, so each has a *)
(* table of its own; the controller and the vectors they share.            *)
(***************************************************************************)
EXTENDS Naturals

CONSTANTS Line,            \* lines some device is wired to
          NUM_INTERRUPTS   \* 128

ASSUME LineAssumption == Line \subseteq Nat /\ NUM_INTERRUPTS \in Nat

Image == {"boot", "kernel"}

VARIABLES
  intc_vector_table,  \* [Image -> [Line -> handler]]
  vectors,            \* image whose irq_handler_asm the vector table leads to
  mir,                \* masked lines
  I                   \* the processor ignores interrupts

intc == <<intc_vector_table, vectors, mir, I>>

\* After reset.  The tables are in the BSS sections.
IntcInit ==
  /\ intc_vector_table = [image \in Image |-> [n \in Line |-> "null"]]
  /\ vectors = "rom" /\ mir = Line /\ I = TRUE

setup_vector_table(image) ==
  vectors' = image /\ UNCHANGED <<intc_vector_table, mir, I>>

CPU_irq_enable == I' = FALSE /\ UNCHANGED <<intc_vector_table, vectors, mir>>

\* INTC_init up to the end of the reset, which masks every line.
INTC_reset == mir' = Line /\ UNCHANGED <<intc_vector_table, vectors, I>>

\* The rest of it.
INTC_default_handlers(image) ==
  /\ intc_vector_table' =
       [intc_vector_table EXCEPT ![image] = [n \in Line |-> "default_handler"]]
  /\ UNCHANGED <<vectors, mir, I>>

INTC_register_irq(image, n, handler) ==
  /\ intc_vector_table' = IF n >= NUM_INTERRUPTS THEN intc_vector_table
                          ELSE [intc_vector_table EXCEPT ![image][n] = handler]
  /\ UNCHANGED <<vectors, mir, I>>

INTC_enable_irq(n) ==
  /\ mir' = IF n >= NUM_INTERRUPTS THEN mir ELSE mir \ {n}
  /\ UNCHANGED <<intc_vector_table, vectors, I>>

INTC_disable_irq(n) ==
  /\ mir' = IF n >= NUM_INTERRUPTS THEN mir ELSE mir \union {n}
  /\ UNCHANGED <<intc_vector_table, vectors, I>>
=============================================================================
