-------------------------------- MODULE Mmc --------------------------------
(***************************************************************************)
(* The SD card driver of the bootloader (mmc.c) against the MMCHS          *)
(* controller and the card: mmc_controller_init, then any sequence of      *)
(* mmc_read_sector, each poll of the status register a step.  CMD17 is the *)
(* only command the program sends; the response words are not looked at.   *)
(*                                                                         *)
(* A sector's bytes are the sector's number; Corrupt is a block whose CRC  *)
(* was wrong, Junk what an empty data register delivers.                   *)
(***************************************************************************)
EXTENDS Integers, Sequences

CONSTANTS Sector,      \* sectors the caller asks for
          TIMEOUT,     \* polls of mmc_read_sector; 1000000 in the code
          FIFO_BLOCKS, \* blocks the controller holds back
          Corrupt, Junk

ASSUME BoundsAssumption == TIMEOUT \in Nat \ {0} /\ FIFO_BLOCKS \in Nat \ {0}

\* Neither is the data of a sector.
ASSUME BlockAssumption == Corrupt \notin Sector /\ Junk \notin Sector \union {Corrupt}

VARIABLES
  phase,    \* "init", "idle", or the loop of a read the driver is in
  step,     \* next step of mmc_controller_init
  on,       \* what the controller has been seen to have: clocks, power, ...
  stat,     \* SD_STAT
  cmd,      \* sector of the command on the line; Junk for none (SD_PSTATE CMDI)
  xfer,     \* sector the card is sending; Junk for none
  fifo,     \* blocks in the controller's buffer, oldest first
  timeout, want, buffer, result,
  flagged,  \* history: the block of this read came with an error flag
  adrift    \* history: a read was given up with its block still under way

driver == <<phase, step, timeout, want, buffer, result>>
wire == <<cmd, xfer, fifo>>
mmcVars == <<driver, wire, on, stat, flagged, adrift>>

Flag == {"CC", "BRR", "ERRI", "CTO", "CCRC", "DTO", "DCRC"}
InitSteps == <<"clocks", "ics", "noidle", "sysctl", "power", "dat", "cmd",
               "check", "blk">>

\* The boot ROM has used the card and may have left its clock on.
MmcInit ==
  /\ phase = "init" /\ step = 1 /\ on \in {{}, {"cen"}}
  /\ stat \in {{}, {"BRR", "CC"}} /\ cmd = Junk /\ xfer = Junk /\ fifo = << >>
  /\ timeout = 0 /\ want = Junk /\ buffer = Junk /\ result = 0
  /\ flagged = FALSE /\ adrift = FALSE

-----------------------------------------------------------------------------
At(s) == phase = "init" /\ InitSteps[step] = s

Advance == step' = step + 1 /\ UNCHANGED <<phase, timeout, want, buffer, result>>

\* mmc_controller_init returns; its caller is not told how.
Leave == phase' = "idle" /\ UNCHANGED <<step, timeout, want, buffer, result>>

\* A setting is written and polled until it shows, or the polls run out.
Wait(s) ==
  /\ At(s)
  /\ \/ on' = on \union {s} /\ Advance
     \/ UNCHANGED on /\ Leave
  /\ UNCHANGED <<stat, flagged, adrift>>

enableClocks == Wait("clocks") /\ UNCHANGED wire

enableInternalClock == Wait("ics") /\ UNCHANGED wire

disableAutoidle == Wait("noidle") /\ UNCHANGED wire

\* ICE, CEN and DTO are written; that one of them has no effect is only logged.
SetSysctl ==
  /\ At("sysctl")
  /\ \E took \in SUBSET {"ice", "cen", "dto"} : on' = on \union took
  /\ Advance
  /\ UNCHANGED <<wire, stat, flagged, adrift>>

setBusPowerOn == Wait("power") /\ UNCHANGED wire

\* The reset of the data lines empties the controller's buffer.
linesReset ==
  \/ Wait("dat") /\ xfer' = Junk /\ fifo' = << >> /\ UNCHANGED cmd
  \/ Wait("cmd") /\ cmd' = Junk /\ UNCHANGED <<xfer, fifo>>

CheckClock ==
  /\ At("check")
  /\ IF "cen" \in on THEN Advance ELSE Leave
  /\ UNCHANGED <<wire, on, stat, flagged, adrift>>

SetBlockSize ==
  /\ At("blk")
  /\ stat' = {} /\ on' = on \union {"blk"} /\ Leave
  /\ UNCHANGED <<wire, flagged, adrift>>

mmc_controller_init ==
  \/ enableClocks \/ enableInternalClock \/ disableAutoidle \/ SetSysctl
  \/ setBusPowerOn \/ linesReset \/ CheckClock \/ SetBlockSize

-----------------------------------------------------------------------------
\* Call of mmc_read_sector, up to the first loop of sendCommand.
ReadBegin(sector) ==
  /\ phase = "idle"
  /\ phase' = "pstate" /\ want' = sector /\ flagged' = FALSE
  /\ UNCHANGED <<step, timeout, buffer, result, wire, on, stat, adrift>>

\* Mutant: the flags of the read before are not cleared.
SendKeepsStat ==
  /\ phase = "pstate" /\ cmd = Junk
  /\ cmd' = want /\ phase' = "response"
  /\ UNCHANGED <<step, timeout, want, buffer, result, xfer, fifo, on, stat,
                 flagged, adrift>>

\* The command line is free: the status is cleared and the command written.
\* Whether the data lines are free is not asked.
SendCommand ==
  /\ phase = "pstate" /\ cmd = Junk
  /\ stat' = {} /\ cmd' = want /\ phase' = "response"
  /\ UNCHANGED <<step, timeout, want, buffer, result, xfer, fifo, on, flagged, adrift>>

\* mmc_read_sector returns -1, whatever the card is still doing.
Fail ==
  /\ phase' = "idle" /\ result' = -1
  /\ adrift' = (adrift \/ xfer # Junk \/ fifo # << >>)
  /\ UNCHANGED <<step, timeout, want, buffer, wire, on, flagged>>

\* Mutant: CC is cleared after CMD17 as it is after the other commands.
ResponseClears ==
  /\ phase = "response" /\ "CC" \in stat
  /\ phase' = "data" /\ timeout' = TIMEOUT /\ stat' = stat \ {"CC"}
  /\ UNCHANGED <<step, want, buffer, result, wire, on, flagged, adrift>>

\* sendCommand sees CC; the flag stays set for CMD17.
ResponseComplete ==
  /\ phase = "response" /\ "CC" \in stat
  /\ phase' = "data" /\ timeout' = TIMEOUT
  /\ UNCHANGED <<step, want, buffer, result, wire, on, stat, flagged, adrift>>

\* It sees no CC, but the command timeout.  Every other error is polled on.
ResponseTimeout ==
  /\ phase = "response" /\ "CC" \notin stat /\ "CTO" \in stat
  /\ stat' = {}
  /\ Fail

\* The loop is left for the copy of a block; only CC is cleared after it.
CopyBlock ==
  /\ phase = "data" /\ ("BRR" \in stat \/ stat = {})
  /\ buffer' = IF fifo = << >> THEN Junk ELSE Head(fifo)
  /\ fifo' = IF fifo = << >> THEN fifo ELSE Tail(fifo)
  /\ flagged' = ("ERRI" \in stat)
  /\ stat' = stat \ {"CC"}
  /\ phase' = "idle" /\ result' = 0
  /\ UNCHANGED <<step, timeout, want, cmd, xfer, on, adrift>>

\* DTO, or a bit of 0x78000: ERRI is set with every error.
DataError ==
  /\ phase = "data" /\ "BRR" \notin stat
  /\ stat \intersect {"DTO", "ERRI", "CTO", "CCRC"} # {}
  /\ Fail /\ UNCHANGED stat

\* Mutant: the polls are not counted.
PollForever ==
  /\ phase = "data" /\ stat = {"CC"}
  /\ UNCHANGED mmcVars

\* A poll that finds nothing new; the last one gives up.
Poll ==
  /\ phase = "data" /\ stat = {"CC"}
  /\ IF timeout = 1
     THEN Fail /\ UNCHANGED stat
     ELSE /\ timeout' = timeout - 1
          /\ UNCHANGED <<phase, step, want, buffer, result, wire, on, stat, flagged, adrift>>

mmc_read_sector ==
  \/ SendCommand \/ ResponseComplete \/ ResponseTimeout
  \/ CopyBlock \/ DataError \/ Poll

-----------------------------------------------------------------------------
(* The controller and the card, from the status bits the driver looks at.  *)
Running == "cen" \in on

\* The card takes the command and starts to send, or the command times out.  A
\* card that is still sending another block does not answer.
Answer ==
  /\ cmd # Junk /\ Running
  /\ \/ /\ xfer = Junk /\ xfer' = cmd
        /\ \E e \in {{}, {"CCRC", "ERRI"}} : stat' = stat \union {"CC"} \union e
     \/ stat' = stat \union {"CTO", "ERRI"} /\ UNCHANGED xfer
  /\ cmd' = Junk
  /\ UNCHANGED <<driver, fifo, on, flagged, adrift>>

\* The block arrives, or its CRC is wrong, or it does not come.
Deliver ==
  /\ xfer # Junk /\ Running
  /\ \/ /\ Len(fifo) < FIFO_BLOCKS
        /\ \/ fifo' = Append(fifo, xfer) /\ stat' = stat \union {"BRR"}
           \/ fifo' = Append(fifo, Corrupt) /\ stat' = stat \union {"BRR", "DCRC", "ERRI"}
     \/ stat' = stat \union {"DTO", "ERRI"} /\ UNCHANGED fifo
  /\ xfer' = Junk
  /\ UNCHANGED <<driver, cmd, on, flagged, adrift>>

MmcNext ==
  \/ mmc_controller_init
  \/ \E sector \in Sector : ReadBegin(sector)
  \/ mmc_read_sector
  \/ Answer \/ Deliver

\* The processor runs, and the controller ends every command it has a clock
\* for.  The card need not send a block.
MmcSpec ==
  /\ MmcInit /\ [][MmcNext]_mmcVars
  /\ WF_mmcVars(mmc_controller_init) /\ WF_mmcVars(mmc_read_sector) /\ WF_mmcVars(Answer)

-----------------------------------------------------------------------------
\* The branch of mmc_read_sector for "No response from card" leaves its loop for
\* the copy of a block nobody sent.  It is never taken, because sendCommand
\* leaves CC set, and a BRR of an earlier read is never taken for a new one.
CopiesArrivedBlock == phase = "data" /\ ("BRR" \in stat \/ stat = {}) => fifo # << >>

\* A read that returns 0 has stored the sector it was asked for, unless the
\* controller flagged the block or an earlier read was given up with its block
\* under way, which the next one then takes for its own.
ReadsWanted ==
  phase = "idle" /\ result = 0 /\ ~adrift =>
    buffer = want \/ (flagged /\ buffer = Corrupt)

\* Every read returns if the card is clocked, whatever the card does.  Without
\* the clock, after an initialisation that gave up, it waits for ever.
ReadReturns == phase # "idle" /\ Running ~> phase = "idle"
=============================================================================
