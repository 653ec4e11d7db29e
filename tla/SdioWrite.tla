----------------------------- MODULE SdioWrite ------------------------------
(***************************************************************************)
(* The data lines during a CMD53 write in srce/zw_sdio.c, from the         *)
(* response on: sdio_write_blocks, and sdio_rsp_block_write for a write of *)
(* bytes, both through sdio_block_out.                                     *)
(*                                                                         *)
(* A step is what the host does up to and with one cycle of the clock.     *)
(* The chip, external to the program, acts in the same cycle: it waits for *)
(* a start nibble, takes a block, answers with five bits on D0, and holds  *)
(* D0 down while it is busy.  A line nobody drives is pulled up; on a line *)
(* both drive, either level may be seen.                                   *)
(***************************************************************************)
EXTENDS Integers, Sequences

CONSTANTS
  RSP_WAIT, BLOCK_ACK_BITS,   \* as in zw_sdio.h
  Blocks,      \* blocks to write, sequences of nibbles of the same length
  MaxBusy      \* bound on the cycles the chip is busy with a block

ASSUME SdioWriteAssumption ==
  /\ RSP_WAIT \in Nat \ {0} /\ BLOCK_ACK_BITS \in Nat \ {0} /\ MaxBusy \in Nat
  /\ Blocks \in Seq(Seq(0..15)) /\ Len(Blocks) > 0
  /\ \A b \in DOMAIN Blocks : Len(Blocks[b]) = Len(Blocks[1]) /\ Len(Blocks[b]) > 0

VARIABLES
  pc,         \* what the host does next
  k,          \* cycles of it that are left
  n,          \* blocks sent
  blk,        \* blocks mode, or bytes mode
  latch,      \* output latches of D0-D3
  own,        \* whether D0-D3 are outputs
  cst, cnt,   \* state of the chip and cycles or nibbles in it
  busy,       \* cycles it will be busy
  cur, got    \* nibbles of the block it takes, blocks taken

host == <<pc, k, n, blk, latch, own>>
chip == <<cst, cnt, busy, cur, got>>
vars == <<pc, k, n, blk, latch, own, cst, cnt, busy, cur, got>>

CrcNibbles == 16
CrcNibble  == 9      \* its value is the subject of module SdioCrc
nblocks    == IF blk THEN Len(Blocks) ELSE 1
BlkNibbles == Len(Blocks[1])

-----------------------------------------------------------------------------
(* The chip in a cycle with the given levels on D0-D3.                     *)

Token == <<0, 0, 1, 0, 1>>    \* start, data accepted, end

\* The level it drives on D0, if any: from the third cycle after the block
\* its token, then 0 while busy.
ChipD0 == CASE cst = "after" /\ cnt \in 3..7 -> {Token[cnt - 2]}
            [] cst = "after" /\ cnt > 7      -> {0}
            [] OTHER                         -> {}

ChipCycle(lines) ==
  \/ /\ cst = "ready"
     /\ IF lines = 0 THEN cst' = "data" /\ cur' = <<>> ELSE UNCHANGED <<cst, cur>>
     /\ UNCHANGED <<cnt, busy, got>>
  \/ /\ cst = "data" /\ Len(cur) < BlkNibbles + CrcNibbles
     /\ cur' = Append(cur, lines)
     /\ IF Len(cur') = BlkNibbles + CrcNibbles
        THEN /\ cst' = "after" /\ cnt' = 0
             /\ busy' \in 0..MaxBusy
             /\ got' = Append(got, SubSeq(cur', 1, BlkNibbles))
        ELSE UNCHANGED <<cst, cnt, busy, got>>
  \/ /\ cst = "after"
     /\ IF cnt < 7 + busy THEN cnt' = cnt + 1 /\ UNCHANGED cst
                          ELSE cnt' = 0 /\ cst' = "ready"
     /\ UNCHANGED <<busy, cur, got>>

-----------------------------------------------------------------------------
(* The host.                                                               *)

\* A cycle with the latches and the direction as the step leaves them.
Cycle == ChipCycle(IF own' THEN latch' ELSE 15)

\* The levels that may be read from D0.
D0 == LET driven == ChipD0 \cup IF own THEN {latch % 2} ELSE {}
      IN  IF driven = {} THEN {1} ELSE driven

Then(next, cycles) == pc' = next /\ k' = cycles

Init ==
  /\ pc = "rsp" /\ k = 0 /\ n = 0 /\ blk \in BOOLEAN
  /\ latch \in {0, 15} /\ own = FALSE
  /\ cst = "ready" /\ cnt = 0 /\ busy = 0 /\ cur = <<>> /\ got = <<>>

\* What follows the last block: sdio_cmd53_write adds 16 cycles to the one.
Trailing == IF blk THEN 1 ELSE 17

\* sdio_rsp_read: the response.
Response ==
  /\ pc = "rsp"
  /\ Then(IF blk THEN "lead" ELSE "pre", 0)
  /\ UNCHANGED <<n, blk, latch, own, chip>>

\* None, although the chip waits for data: nothing is sent.
NoResponse ==
  /\ pc = "rsp"
  /\ Then("tail", Trailing)
  /\ UNCHANGED <<n, blk, latch, own, chip>>

\* sdio_rsp_block_write clocks once before it takes the lines.
Pre == /\ pc = "pre" /\ Then("lead", 0)
       /\ UNCHANGED <<n, blk, latch, own>> /\ Cycle

\* Seeded fault: the latches are not set before the lines become outputs.
LeadAsLatched ==
  /\ pc = "lead" /\ Then("start", 0)
  /\ own' = TRUE
  /\ UNCHANGED <<n, blk, latch>> /\ Cycle

\* The lines are set high and become outputs, before the first block; then, in
\* sdio_block_out, a cycle.
Lead == /\ pc = "lead" /\ Then("start", 0)
        /\ latch' = (IF own THEN latch ELSE 15) /\ own' = TRUE
        /\ UNCHANGED <<n, blk>> /\ Cycle

Start == /\ pc = "start" /\ Then("data", BlkNibbles)
         /\ latch' = 0
         /\ UNCHANGED <<n, blk, own>> /\ Cycle

SendData ==
  /\ pc = "data"
  /\ latch' = Blocks[n + 1][BlkNibbles - k + 1]
  /\ IF k > 1 THEN Then("data", k - 1) ELSE Then("crc", CrcNibbles)
  /\ UNCHANGED <<n, blk, own>> /\ Cycle

SendCrc ==
  /\ pc = "crc"
  /\ latch' = CrcNibble
  /\ IF k > 1 THEN Then("crc", k - 1) ELSE Then("end", 0)
  /\ UNCHANGED <<n, blk, own>> /\ Cycle

End == /\ pc = "end" /\ latch' = 15
       /\ n' = n + 1
       /\ IF blk THEN Then("ack", RSP_WAIT) ELSE Then("tail", Trailing)
       /\ UNCHANGED <<blk, own>> /\ Cycle

\* sdio_rsp_read on D0: cycles until a start bit, RSP_WAIT at most.
Hear ==
  /\ pc = "ack"
  /\ \E v \in D0 :
       CASE v = 0           -> Then("bits", BLOCK_ACK_BITS - 1)
         [] v # 0 /\ k > 1  -> Then("ack", k - 1)
         [] v # 0 /\ k <= 1 -> Then("gap", 2)
  /\ UNCHANGED <<n, blk, latch, own>> /\ Cycle

\* Its other bits are logged and nothing more.
HearBits ==
  /\ pc = "bits"
  /\ IF k > 1 THEN Then("bits", k - 1) ELSE Then("gap", 2)
  /\ UNCHANGED <<n, blk, latch, own>> /\ Cycle

\* Two cycles between blocks.
Gap ==
  /\ pc = "gap"
  /\ CASE k > 1                 -> Then("gap", k - 1)
       [] k = 1 /\ n < nblocks  -> Then("lead", 0)
       [] k = 1 /\ n >= nblocks -> Then("tail", Trailing)
  /\ UNCHANGED <<n, blk, latch, own>> /\ Cycle

\* The lines become inputs again, and the clock runs on.
Finish ==
  /\ pc = "tail"
  /\ IF k > 1 THEN Then("tail", k - 1) ELSE Then("done", 0)
  /\ own' = FALSE
  /\ UNCHANGED <<n, blk, latch>> /\ Cycle

Next == \/ Response \/ NoResponse \/ Pre \/ Lead \/ Start \/ SendData \/ SendCrc
        \/ End \/ Hear \/ HearBits \/ Gap \/ Finish
Spec == Init /\ [][Next]_vars

-----------------------------------------------------------------------------
(* Properties.                                                             *)

\* The chip takes the blocks the host sends, whole, in order and in step: what
\* it has taken when a block is complete is what was sent, and it never takes
\* the lines changing hands for a start.  This needs a chip that is ready
\* again by the earliest start of the next block, six cycles after its token:
\* nothing in the program waits for the end of busy.
InStep ==
  /\ got = SubSeq(Blocks, 1, Len(got))
  /\ pc \in {"ack", "bits", "gap", "tail", "done"} => Len(got) = n
=============================================================================
