------------------------------ MODULE SdioRead ------------------------------
(***************************************************************************)
(* sdio_rsp_block_read in srce/zw_sdio.c: the response to a CMD53 read is  *)
(* taken from the CMD line and the data block from D0-D3 in one loop,      *)
(* because the chip may start the block before its response has ended.     *)
(*                                                                         *)
(* A step is one cycle of the clock the host generates.  The chip counts   *)
(* cycles: it starts its response in cycle rspAt and its block, a start    *)
(* nibble of zeros, the data and the CRC of four lines, in cycle dataAt.   *)
(* The value of the CRC is the subject of module SdioCrc.                  *)
(***************************************************************************)
EXTENDS Integers, Sequences

CONSTANTS
  MSG_BITS,       \* bits of a response
  SD_DATA_PINS,   \* data lines
  RSP_WAIT,       \* cycles to wait for a response
  Blocks,         \* blocks a read may ask for, sequences of bytes
  RspStarts,      \* cycles in which the response may start
  DataStarts      \* cycles in which the block may start

ASSUME SdioReadAssumption ==
  /\ MSG_BITS \in Nat \ {0} /\ SD_DATA_PINS = 4 /\ RSP_WAIT \in Nat \ {0}
  /\ \A b \in Blocks : b \in Seq(0..255) /\ Len(b) > 0
  /\ RspStarts \subseteq Nat \ {0} /\ DataStarts \subseteq Nat \ {0}

VARIABLES
  pc,             \* "wait" for the start bit, "bits", or "done"
  wt,             \* cycles left to wait
  rbits, dbits,   \* bits received of the response and of the block
  din,            \* the block has started
  dp,             \* index of the byte being filled
  buf,            \* the caller's buffer
  keep,           \* whether the caller gave a buffer
  block,          \* the block the chip sends
  rspAt, dataAt,  \* when the chip starts to send
  cycle           \* cycles since the command

chip == <<block, rspAt, dataAt>>
vars == <<pc, wt, rbits, dbits, din, dp, buf, keep, block, rspAt, dataAt, cycle>>

nbytes == Len(block)

-----------------------------------------------------------------------------
(* What the chip drives; a line nobody drives is pulled up.                *)

CrcNibble == 9    \* any value but zero
Idle      == 15

\* Bytes go out high nibble first.
Nibble(i) == IF i % 2 = 0 THEN block[i \div 2 + 1] \div 16
                          ELSE block[i \div 2 + 1] % 16

DataLines == LET i == cycle - dataAt - 1
             IN  CASE i = -1                       -> 0
                   [] i \in 0 .. 2 * nbytes - 1    -> Nibble(i)
                   [] i \in 2 * nbytes .. 2 * nbytes + 15 -> CrcNibble
                   [] OTHER                        -> Idle

CmdLine == IF cycle = rspAt THEN 0 ELSE 1    \* looked at for the start bit

-----------------------------------------------------------------------------
Init ==
  /\ pc = "wait" /\ wt = RSP_WAIT /\ cycle = 1
  /\ rbits = 1 /\ dbits = 0 /\ din = FALSE
  /\ block \in Blocks /\ rspAt \in RspStarts /\ dataAt \in DataStarts
  /\ keep \in BOOLEAN
  /\ dp = 0 /\ buf = [i \in 0..nbytes-1 |-> IF keep /\ i = 0 THEN 0 ELSE 255]

\* A cycle of the loop that waits for the start bit.
WaitRsp ==
  /\ pc = "wait"
  /\ cycle' = cycle + 1 /\ wt' = wt - 1
  /\ pc' = CASE CmdLine = 0               -> "bits"
             [] CmdLine # 0 /\ wt > 1     -> "wait"
             [] CmdLine # 0 /\ ~(wt > 1)  -> "done"
  /\ UNCHANGED <<rbits, dbits, din, dp, buf, keep, chip>>

\* What a cycle does with the data lines before the block has started ...
NoData ==
  /\ ~din
  /\ din' = (DataLines = 0)
  /\ UNCHANGED <<dbits, dp, buf>>

\* Seeded fault: the byte count is compared after the new nibble is stored.
TakeNibbleLate ==
  /\ din
  /\ dbits' = dbits + SD_DATA_PINS
  /\ buf' = IF keep /\ dp < nbytes
            THEN [buf EXCEPT ![dp] = (@ * 16 + DataLines) % 256] ELSE buf
  /\ din' = (dbits' \div 8 < nbytes + SD_DATA_PINS * 2)
  /\ dp' = IF keep /\ din' /\ dbits \div 8 < nbytes /\ dbits' % 8 = 0
           THEN dp + 1 ELSE dp

\* ... and after: the nibble is stored, and the next byte cleared in time.
TakeNibble ==
  /\ din
  /\ dbits' = dbits + SD_DATA_PINS
  /\ din' = (dbits' \div 8 < nbytes + SD_DATA_PINS * 2)
  /\ LET stored  == IF keep /\ dbits \div 8 < nbytes
                    THEN [buf EXCEPT ![dp] = (@ * 16 + DataLines) % 256] ELSE buf
         advance == keep /\ din' /\ dbits' \div 8 < nbytes /\ dbits' % 8 = 0
     IN  IF advance THEN dp' = dp + 1 /\ buf' = [stored EXCEPT ![dp + 1] = 0]
                    ELSE dp' = dp     /\ buf' = stored

\* Seeded fault: the loop stops with the response.
MoreRsp == rbits < MSG_BITS

\* Seeded fault: off by one, the loop waits for a bit it never counts.
MoreByOne == rbits <= MSG_BITS \/ din

\* The condition of the loop.
More == rbits < MSG_BITS \/ din

\* Seeded fault: the bits of the response are counted past its end.
ReadBitOn ==
  /\ pc = "bits" /\ More
  /\ cycle' = cycle + 1
  /\ rbits' = rbits + 1
  /\ NoData \/ TakeNibble
  /\ UNCHANGED <<pc, wt, keep, chip>>

ReadBit ==
  /\ pc = "bits" /\ More
  /\ cycle' = cycle + 1
  /\ rbits' = IF rbits < MSG_BITS THEN rbits + 1 ELSE rbits
  /\ NoData \/ TakeNibble
  /\ UNCHANGED <<pc, wt, keep, chip>>

Return == /\ pc = "bits" /\ ~More
          /\ pc' = "done"
          /\ UNCHANGED <<wt, rbits, dbits, din, dp, buf, keep, chip, cycle>>

\* The value returned: bytes of data, without the CRC.
Result == LET d == dbits - SD_DATA_PINS * 2 * 8
          IN  IF d > 0 THEN d \div 8 ELSE 0

Next == WaitRsp \/ ReadBit \/ Return

Spec == Init /\ [][Next]_vars

-----------------------------------------------------------------------------
(* Properties.                                                             *)

TypeOK ==
  /\ pc \in {"wait", "bits", "done"}
  /\ wt \in 0..RSP_WAIT /\ cycle \in Nat \ {0}
  /\ rbits \in 1..MSG_BITS /\ dbits \in Nat /\ din \in BOOLEAN
  /\ keep \in BOOLEAN /\ block \in Blocks
  /\ rspAt \in RspStarts /\ dataAt \in DataStarts
  /\ dp \in Nat /\ buf \in [0..nbytes-1 -> 0..255]

\* No byte beyond the caller's buffer is filled or cleared, whatever the lines
\* carry and whenever.
InBuffer == dp \in 0..nbytes-1

\* The response counts when its start bit comes within RSP_WAIT cycles.
Answered == rspAt <= RSP_WAIT

\* A block that starts after the response has started and before it has ended
\* is read whole and its length returned.  One that starts later, or never, or
\* that belongs to a response that is too late, is missed and 0 returned.
ExactBlock ==
  pc = "done" /\ (Answered => dataAt > rspAt) =>
    IF Answered /\ dataAt < rspAt + MSG_BITS
    THEN /\ Result = nbytes
         /\ keep => \A i \in 0..nbytes-1 : buf[i] = block[i + 1]
    ELSE Result = 0

\* The call returns, with a response or not, with a block or not: it takes the
\* cycles of the wait, of the response and of a block that starts with the
\* response's last bit, no more.
ReturnsInTime == cycle <= RSP_WAIT + MSG_BITS + 2 * nbytes + 16
=============================================================================
