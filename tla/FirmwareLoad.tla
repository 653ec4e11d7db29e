---------------------------- MODULE FirmwareLoad ----------------------------
(***************************************************************************)
(* Loading the WiFi chip's RAM: write_firmware and write_nvram in          *)
(* srce/zjoin.c (the same in srce/zscan.c), over the backplane window of   *)
(* BakWindow and the block writes of sdio_write_blocks.                    *)
(*                                                                         *)
(* The firmware goes to the bottom of the RAM in bursts of blocks, each    *)
(* with the window set for its first byte, and then its last few bytes by  *)
(* themselves.  The NVRAM image goes to a fixed place, through a window    *)
(* set once.  Lengths and addresses are in units of one block.             *)
(*                                                                         *)
(* The firmware's bytes come from an array or, when it is not part of the  *)
(* image, from a serial flash: either way from where the last read of them *)
(* ended, whatever became of what was read.                                *)
(***************************************************************************)
EXTENDS Integers

CONSTANTS
  WinUnits,   \* size of a window
  Burst,      \* size of txbuffer: the most that is written by one command
  Blocks,     \* whole blocks of the firmware; some bytes more follow
  NvWin,      \* window of the NVRAM image
  NvOff,      \* its offset in the window
  NvUnits,    \* its size
  NvBurst,    \* what is written of it by one command
  ByteVals    \* values of a byte, see BakWindow

ASSUME FirmwareLoadAssumption ==
  /\ WinUnits \in Nat \ {0} /\ Burst \in Nat \ {0} /\ Blocks \in Nat
  /\ NvWin \in Nat /\ NvOff \in Nat /\ NvUnits \in Nat \ {0}
  /\ NvBurst \in Nat \ {0}
  /\ Blocks < NvWin * WinUnits        \* the images do not overlap
  /\ NvOff + NvUnits <= WinUnits      \* nor does the second one leave the window
  /\ ByteVals \in Nat \ {0}

VARIABLES
  pc,        \* "firmware", "verify", "nvram", "released" (ARM core started)
  source,    \* where firm_read goes on: firmware_pos or the flash's own address
  nbytes,    \* how much of the image has been written, as the program counts
  fwlen,     \* result of write_firmware, -1 before
  ram,       \* the chip's RAM
  lost,      \* what has gone unanswered: a subset of Kinds
  lastaddr, chipwin, missed, skipped     \* see BakWindow

\* A byte write of the window register; a data command; the data of a burst
\* whose command was answered.
Kinds == {"window", "command", "block"}

window == <<lastaddr, chipwin, missed, skipped>>
vars   == <<pc, source, nbytes, fwlen, ram, lost, window>>

Units == 0 .. (NvWin + 1) * WinUnits - 1
Empty == <<"empty", 0>>
Fw(k) == <<"firmware", k>>
Nv(k) == <<"nvram", k>>

\* Window numbers are those of addresses: any that the images lie in.
BW == INSTANCE BakWindow WITH
        Base <- NvWin, Wins <- 0..NvWin, DirectWins <- {}, Offsets <- {0},
        want <- 0, hit <- 0

\* Set the window for unit k of the RAM.
SetWindow(k) == BW!sdio_bak_window(k \div WinUnits)

\* A step keeps account of what it loses, byte writes of the window included.
Account(kinds) ==
  lost' = lost \union kinds \union (IF missed' # {} THEN {"window"} ELSE {})

-----------------------------------------------------------------------------

Smaller(a, b) == IF a < b THEN a ELSE b

\* A command writes len units of an image, from its unit k on, at an offset
\* of the window.  The address counts up inside the window and comes round.
Store(image, k, off, len) ==
  ram' = [u \in Units |->
            LET i == ((u % WinUnits) + WinUnits - off) % WinUnits
            IN  IF u \div WinUnits = chipwin' /\ i < len THEN <<image, k + i>> ELSE ram[u]]

\* Start reading the image; txbuffer is given the next len units of it.  The
\* serial flash is sent the address once and counts up by itself.
firm_open_read(addr) == source = addr
firm_read(len)       == source' = source + len

\* Seeded fault: the last burst is as long as the others.
FullBurst == Burst

\* What is left, but at most txbuffer; 0 when less than a block is left.
BurstLen == Smaller(Burst, Blocks - nbytes)

StoreBurst == Store("firmware", source, nbytes % WinUnits, BurstLen)

\* Seeded fault: a failed burst is tried again, from a buffer filled anew.
RetriedBurst ==
  /\ pc = "firmware" /\ BurstLen > 0
  /\ SetWindow(nbytes)
  /\ firm_read(BurstLen)
  /\ \/ StoreBurst /\ Account({}) /\ nbytes' = nbytes + BurstLen
     \/ UNCHANGED <<ram, nbytes>> /\ Account({"command"})
  /\ UNCHANGED <<pc, fwlen>>

\* One burst of whole blocks: set the window, fill txbuffer, write.  When the
\* command is not answered the loading of the firmware is over.  The chip's
\* acknowledgement of a block is logged, but nothing depends on it.
WriteBurst ==
  /\ pc = "firmware" /\ BurstLen > 0
  /\ SetWindow(nbytes)
  /\ firm_read(BurstLen)
  /\ \/ /\ \/ StoreBurst /\ Account({})
           \/ UNCHANGED ram /\ Account({"block"})
        /\ nbytes' = nbytes + BurstLen
        /\ UNCHANGED <<pc, fwlen>>
     \/ /\ UNCHANGED ram /\ Account({"command"})
        /\ fwlen' = nbytes
        /\ pc' = "verify"
        /\ UNCHANGED nbytes

\* The bytes after the last whole block.  The result is not looked at.
WriteRest ==
  /\ pc = "firmware" /\ BurstLen = 0
  /\ SetWindow(nbytes)
  /\ firm_read(1)
  /\ \/ Store("firmware", source, nbytes % WinUnits, 1) /\ Account({})
     \/ UNCHANGED ram /\ Account({"command"})
  /\ fwlen' = nbytes + 1
  /\ pc' = "verify"
  /\ UNCHANGED nbytes

\* sdio_init reads the last bytes of the firmware back and ignores them, and
\* the result of write_firmware too: the NVRAM image is written next.
ReadBack ==
  /\ pc = "verify"
  /\ SetWindow(Blocks)
  /\ Account({})
  /\ nbytes' = 0
  /\ pc' = "nvram"
  /\ UNCHANGED <<source, fwlen, ram>>

NvLen == Smaller(NvBurst, NvUnits - nbytes)

\* Seeded fault: the buffer is written from its start every time.
StillNvram ==
  /\ pc = "nvram" /\ NvLen > 0
  /\ IF nbytes = 0 THEN SetWindow(NvWin * WinUnits) ELSE UNCHANGED window
  /\ \/ Store("nvram", 0, NvOff + nbytes, NvLen) /\ Account({})
     \/ UNCHANGED ram /\ Account({"command"})
  /\ nbytes' = nbytes + NvLen
  /\ UNCHANGED <<pc, source, fwlen>>

\* The window is set when the writing of the NVRAM image starts.  No result is
\* looked at.
WriteNvram ==
  /\ pc = "nvram" /\ NvLen > 0
  /\ IF nbytes = 0 THEN SetWindow(NvWin * WinUnits) ELSE UNCHANGED window
  /\ \/ Store("nvram", nbytes, NvOff + nbytes, NvLen) /\ Account({})
     \/ UNCHANGED ram /\ Account({"command"})
  /\ nbytes' = nbytes + NvLen
  /\ UNCHANGED <<pc, source, fwlen>>

\* sdio_init goes on and starts the ARM core.
Release ==
  /\ pc = "nvram"
  /\ NvLen = 0
  /\ pc' = "released"
  /\ UNCHANGED <<source, nbytes, fwlen, ram, lost, window>>

\* The bring-up leaves the window at the chip's registers: any window but the
\* first one of the firmware will do.
Init ==
  /\ pc = "firmware"
  /\ firm_open_read(0)
  /\ nbytes = 0
  /\ fwlen = -1
  /\ ram = [u \in Units |-> Empty]
  /\ lost = {}
  /\ lastaddr = NvWin
  /\ chipwin = lastaddr
  /\ missed = {}
  /\ skipped = FALSE

Next == WriteBurst \/ WriteRest \/ ReadBack \/ WriteNvram \/ Release

Spec == Init /\ [][Next]_vars

-----------------------------------------------------------------------------
(* Properties.                                                             *)

TypeOK ==
  /\ pc \in {"firmware", "verify", "nvram", "released"}
  /\ source \in 0..Blocks + 1
  /\ nbytes \in 0..Blocks + NvUnits
  /\ fwlen \in -1..Blocks + 1
  /\ ram \in [Units -> {Empty} \union {Fw(k) : k \in 0..Blocks}
                               \union {Nv(k) : k \in 0..NvUnits-1}]
  /\ lost \in SUBSET Kinds
  /\ lastaddr \in 0..NvWin

\* When nothing is lost, the ARM core is started with both images complete
\* and in place, and with nothing anywhere else.
WholeImages ==
  pc = "released" /\ lost = {} =>
    ram = [u \in Units |->
             IF u <= Blocks THEN Fw(u)
             ELSE IF u - NvWin * WinUnits - NvOff \in 0..NvUnits-1
                  THEN Nv(u - NvWin * WinUnits - NvOff)
                  ELSE Empty]

\* When commands go unanswered, but the window is always set and no data is
\* lost on the way, what is loaded of the firmware is a gapless beginning of
\* it, each block in its own place, and write_firmware's result covers it;
\* nothing else is disturbed.
LoadedPrefix ==
  lost \subseteq {"command"} =>
    /\ \A u \in Units : ram[u] \in {Empty, Fw(u), Nv(u - NvWin * WinUnits - NvOff)}
    /\ \A u \in 1..Blocks : ram[u] = Fw(u) => ram[u-1] = Fw(u-1)
    /\ \A u \in 0..Blocks : ram[u] = Fw(u) /\ fwlen >= 0 => u < fwlen
=============================================================================
