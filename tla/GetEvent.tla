------------------------------ MODULE GetEvent ------------------------------
(***************************************************************************)
(* Fetching one frame from the WiFi chip: ioctl_get_event in               *)
(* srce/zw_ioctl.c, called over and over by the main loop.                 *)
(*                                                                         *)
(* A frame is a header, whose first field is the length of the frame, and  *)
(* a payload.  The header is read by itself; then the payload, in blocks,  *)
(* into the caller's buffer; then what does not fit, in blocks that are    *)
(* thrown away.  Only the header's read is checked: any read may lose the  *)
(* command, or lose the data and consume it.                               *)
(***************************************************************************)
EXTENDS Integers

CONSTANTS
  HdrLen,     \* sizeof(IOCTL_EVENT_HDR)
  MaxLen,     \* maxlen: the size of the caller's buffer
  MaxBlk,     \* IOCTL_MAX_BLKLEN
  FrameLens,  \* lengths of the chip's frames, header included
  Lookalikes, \* lengths in payload bytes that pass for a header
  MaxFaults   \* bound on the reads that are lost

ASSUME GetEventAssumption ==
  /\ HdrLen \in Nat \ {0} /\ MaxLen \in Nat \ {0} /\ MaxBlk \in Nat \ {0}
  /\ FrameLens \subseteq Nat \ {0}
  /\ Lookalikes \subseteq Nat
  /\ MaxFaults \in Nat

VARIABLES
  pc,      \* "idle", "header", "copy", "drain"
  hplen,   \* hp->len
  dlen,    \* payload length
  n,       \* bytes dealt with so far
  data,    \* which payload byte each byte of the caller's buffer holds
  top,     \* end of the part of the buffer written during this call
  ret,     \* the last call's result
  flen,    \* length of the frame the chip has for the host, 0: none
  pos,     \* how much of that frame has been read
  faults,  \* reads lost so far
  aligned  \* the header of this call was that of a frame (history)

hostVars == <<pc, hplen, dlen, n, data, top, ret>>
vars == <<hostVars, flen, pos, faults, aligned>>

Junk == -1     \* not a payload byte of the frame

Smaller(a, b) == IF a < b THEN a ELSE b

-----------------------------------------------------------------------------
(* The chip: a read takes bytes from the frame; what is read beyond its    *)
(* end is padding, and the frame is gone.                                  *)

Consume(len) ==
  IF pos + len < flen THEN pos' = pos + len /\ UNCHANGED flen
                      ELSE pos' = 0 /\ flen' = 0

\* The read is served, or its command is lost, or its data.
Served(len) == Consume(len) /\ UNCHANGED faults

Lost(len) == /\ faults < MaxFaults
             /\ faults' = faults + 1
             /\ Consume(len) \/ UNCHANGED <<flen, pos>>

ChipFrame ==
  /\ flen = 0
  /\ flen' \in FrameLens
  /\ UNCHANGED <<hostVars, pos, faults, aligned>>

-----------------------------------------------------------------------------
(* The host.                                                               *)

\* The main loop calls again.
Call ==
  /\ pc = "idle"
  /\ pc' = "header"
  /\ hplen' = 0 /\ dlen' = 0 /\ n' = 0 /\ top' = 0
  /\ UNCHANGED <<data, ret, flen, pos, faults, aligned>>

\* The header is good when it holds a length, longer than the header, and the
\* length's complement: at the start of a frame, or inside one whose bytes
\* happen to look like that.  Otherwise the call is over.
HeaderLens == {len \in IF pos = 0 THEN {flen} ELSE Lookalikes : len > HdrLen}

GoodHeader ==
  /\ pc = "header"
  /\ hplen' \in HeaderLens
  /\ dlen' = hplen' - HdrLen
  /\ aligned' = (pos = 0)
  /\ Served(HdrLen)
  /\ pc' = "copy"
  /\ UNCHANGED <<n, data, top, ret>>

BadHeader ==
  /\ pc = "header"
  /\ \/ (pos = 0 => HeaderLens = {}) /\ Served(HdrLen)
     \/ Lost(HdrLen)
  /\ pc' = "idle"
  /\ ret' = 0
  /\ UNCHANGED <<hplen, dlen, n, data, top, aligned>>

\* Seeded fault: the room left in the buffer does not limit the block.
RoomlessLen == Smaller(hplen - n, MaxBlk)

\* Length of the next block to be stored: the room left in the buffer, what
\* is left of the frame (counting the header a second time) and the largest
\* block.
CopyLen == Smaller(Smaller(MaxLen - n, hplen - n), MaxBlk)

\* Store the next block.  Bytes read beyond the frame are padding.
CopyBlock ==
  /\ pc = "copy"
  /\ n < dlen /\ n < MaxLen
  /\ n' = n + CopyLen
  /\ top' = IF top < n' THEN n' ELSE top
  /\ \/ /\ Served(CopyLen)
        /\ data' = [i \in DOMAIN data |->
                      IF i \in n..n'-1
                      THEN IF pos + (i - n) < flen THEN pos + (i - n) - HdrLen
                                                   ELSE Junk
                      ELSE data[i]]
     \/ /\ Lost(CopyLen)
        /\ data' = [data EXCEPT ![n] = Junk]      \* *dp = 0
  /\ UNCHANGED <<pc, hplen, dlen, ret, aligned>>

CopyEnd ==
  /\ pc = "copy"
  /\ ~(n < dlen /\ n < MaxLen)
  /\ pc' = "drain"
  /\ UNCHANGED <<hplen, dlen, n, data, top, ret, flen, pos, faults, aligned>>

\* Seeded faults: the rest of a long frame is limited by the buffer; it is
\* not read at all.
RoomDrain ==
  /\ pc = "drain"
  /\ n < dlen
  /\ n' = n + Smaller(MaxLen - n, MaxBlk)
  /\ Served(Smaller(MaxLen - n, MaxBlk)) \/ Lost(Smaller(MaxLen - n, MaxBlk))
  /\ UNCHANGED <<pc, hplen, dlen, data, top, ret, aligned>>
NoDrain ==
  /\ pc = "drain"
  /\ n < dlen
  /\ n' = dlen
  /\ UNCHANGED <<pc, hplen, dlen, data, top, ret, flen, pos, faults, aligned>>

\* Read the next block of what does not fit, and throw it away.
DrainBlock ==
  /\ pc = "drain"
  /\ n < dlen
  /\ LET blklen == Smaller(hplen - n, MaxBlk)
     IN  /\ n' = n + blklen
         /\ Served(blklen) \/ Lost(blklen)
  /\ UNCHANGED <<pc, hplen, dlen, data, top, ret, aligned>>

\* Seeded fault: the result is the payload's length although it did not fit.
UnclampedReturn ==
  /\ pc = "drain"
  /\ n >= dlen
  /\ ret' = dlen
  /\ pc' = "idle"
  /\ UNCHANGED <<hplen, dlen, n, data, top, flen, pos, faults, aligned>>

Return ==
  /\ pc = "drain"
  /\ n >= dlen
  /\ ret' = Smaller(dlen, MaxLen)
  /\ pc' = "idle"
  /\ UNCHANGED <<hplen, dlen, n, data, top, flen, pos, faults, aligned>>

Host == \/ Call \/ GoodHeader \/ BadHeader
        \/ CopyBlock \/ CopyEnd \/ DrainBlock \/ Return

-----------------------------------------------------------------------------

\* The chip may be part way through a frame, as other reads of the radio
\* function (the bring-up's, ioctl_cmd's) leave it.
Init ==
  /\ pc = "idle"
  /\ hplen = 0 /\ dlen = 0 /\ n = 0 /\ top = 0 /\ ret = 0
  /\ data = [i \in 0..MaxLen-1 |-> Junk]
  /\ \/ flen = 0 /\ pos = 0
     \/ flen \in FrameLens /\ pos \in 0..flen-1
  /\ faults = 0 /\ aligned = FALSE

Next == Host \/ ChipFrame

Spec == Init /\ [][Next]_vars

-----------------------------------------------------------------------------
(* Properties.                                                             *)

TypeOK ==
  /\ pc \in {"idle", "header", "copy", "drain"}
  /\ hplen \in Nat /\ dlen \in Nat /\ n \in Nat /\ top \in Nat
  /\ data \in [0..MaxLen-1 -> Int]
  /\ ret \in 0..MaxLen
  /\ flen \in FrameLens \union {0}
  /\ pos \in Nat /\ IF flen = 0 THEN pos = 0 ELSE pos < flen
  /\ faults \in 0..MaxFaults /\ aligned \in BOOLEAN

\* Nothing is stored beyond the caller's buffer, although the last block is
\* longer than what is left of the payload: for every frame length, buffer
\* size and block size, and whatever reads are lost.
NoOverrun == top <= MaxLen

\* While no read has been lost and the call began at the start of a frame, a
\* call that returns data has stored the payload in place, up to the size of
\* the buffer, and has read the whole frame: the next call starts at the
\* start of a frame, also when this one did not fit.
FrameWhole ==
  pc = "drain" /\ n >= dlen /\ faults = 0 /\ aligned =>
    /\ \A i \in 0..Smaller(dlen, MaxLen)-1 : data[i] = i
    /\ pos = 0

\* Every call returns, whatever the header says and whatever is lost.
CallReturns == pc = "header" ~> pc = "idle"

\* A call that starts inside a frame only ever gets back to the start of one:
\* once reads are no longer lost and payload bytes no longer taken for a
\* header, the host is at the start of a frame again after finitely many
\* calls, and stays there between calls.
Misled == pc = "header" /\ pos # 0 /\ pc' = "copy"
Resync == <>[][~Misled]_vars => <>[](pc = "idle" => pos = 0)
=============================================================================
