-------------------------------- MODULE Ddr --------------------------------
(***************************************************************************)
(* The memory setup of the bootloader (ddr.c): setup_memory switches on    *)
(* PLLs, clocks and the memory controller, each with waits that run out in *)
(* silence, and test_ddr3_memory writes four patterns through the tested   *)
(* range and counts the words that do not read back.                       *)
(*                                                                         *)
(* A word is the set of its bits that are 1.                               *)
(***************************************************************************)
EXTENDS Integers, Sequences

CONSTANTS Bit,          \* bits of a word
          DDR_WORDS     \* words of the tested range; 0x40000

ASSUME DdrAssumption == DDR_WORDS \in Nat \ {0} /\ Bit \subseteq Nat

VARIABLES
  ddr_step,     \* next step of setup_memory
  stuck,        \* bits of each word that stick at 1 and at 0, good or not set up
  p, mem_addr, errors,   \* of test_ddr3_memory
  cell          \* the words of the tested range

ddrVars == <<ddr_step, stuck, p, mem_addr, errors, cell>>

SetupSteps == <<"core_bypass", "core_lock", "ddr_bypass", "ddr_lock",
                "emif_clocks", "emif", "vtp", "phy", "io", "timing">>
DdrAddr == 1 .. DDR_WORDS
Even == {b \in Bit : b % 2 = 0}
patterns == <<Bit \ Even, Even, {}, Bit>>   \* 0xAAAAAAAA, 0x55555555, 0, 0xFFFFFFFF

\* Any bit may stick, at 1 or at 0.
Memory == {m \in [DdrAddr -> [one : SUBSET Bit, zero : SUBSET Bit]] :
             \A a \in DdrAddr : m[a].one \intersect m[a].zero = {}}

DdrInit(memory) ==
  /\ ddr_step = 1 /\ stuck = memory
  /\ p = 1 /\ mem_addr = 1 /\ errors = 0
  /\ cell = [a \in DdrAddr |-> {}]

AtStep(s) == /\ ddr_step <= Len(SetupSteps) /\ SetupSteps[ddr_step] = s
             /\ ddr_step' = ddr_step + 1
             /\ UNCHANGED <<stuck, p, mem_addr, errors, cell>>

\* Each step writes its registers and goes on when the bits it waits for show
\* or its polls run out: WAIT_FOR_REG32 does not tell which.
enable_core_pll == AtStep("core_bypass") \/ AtStep("core_lock")
enable_ddr_pll == AtStep("ddr_bypass") \/ AtStep("ddr_lock")
enable_emif_clocks == AtStep("emif_clocks")
init_emif == AtStep("emif")
configure_ddr_phy == AtStep("vtp")
configure_ddr_phy_cmd_data == AtStep("phy")
configure_ddr_io == AtStep("io")
init_ddr3 == AtStep("timing")

setup_memory ==
  \/ enable_core_pll \/ enable_ddr_pll \/ enable_emif_clocks \/ init_emif
  \/ configure_ddr_phy \/ configure_ddr_phy_cmd_data \/ configure_ddr_io
  \/ init_ddr3

SetUp == ddr_step > Len(SetupSteps)
Tested == SetUp /\ p > Len(patterns)

\* What a word reads as after w was written.
ReadBack(a, w) == (w \union stuck[a].one) \ stuck[a].zero

\* One word of test_ddr3_memory is written and read back.
TestWord ==
  LET read_back == ReadBack(mem_addr, patterns[p]) IN
  /\ SetUp /\ p <= Len(patterns)
  /\ cell' = [cell EXCEPT ![mem_addr] = read_back]
  /\ errors' = IF read_back # patterns[p] THEN errors + 1 ELSE errors
  /\ IF mem_addr < DDR_WORDS THEN mem_addr' = mem_addr + 1 /\ UNCHANGED p
     ELSE mem_addr' = 1 /\ p' = p + 1
  /\ UNCHANGED <<ddr_step, stuck>>

DdrNext == setup_memory \/ TestWord

-----------------------------------------------------------------------------
\* The word keeps what is written to it.
Sound(a) == stuck[a] = [one |-> {}, zero |-> {}]
=============================================================================
