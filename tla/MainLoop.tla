------------------------------- MODULE MainLoop -------------------------------
(***************************************************************************)
(* The loop at the end of main in srce/zscan.c and srce/zjoin.c, over the  *)
(* frame reader of GetEvent.                                               *)
(*                                                                         *)
(* Every time its timer is due the loop turns the LED, and every other     *)
(* time, in zscan.c when the LED goes off and in zjoin.c when it goes on,  *)
(* it asks for a frame.  What is displayed is decoded from the fields of   *)
(* a structure laid over the buffer, which is not cleared between frames.  *)
(***************************************************************************)
EXTENDS GetEvent

CONSTANTS
  FetchOn,    \* the LED is on when a frame is asked for (zjoin.c)
  Decoded,    \* size of the structure that is decoded
  ShowMin     \* a frame is decoded when more bytes than this were returned

ASSUME MainLoopAssumption ==
  /\ FetchOn \in BOOLEAN
  /\ Decoded \in Nat /\ Decoded <= MaxLen
  /\ ShowMin \in Nat

VARIABLES
  lpc,      \* "wait" for the timer, "fetch": in ioctl_get_event, "show"
  ledon,
  shown     \* the last frame fetched has been decoded

loopVars == <<lpc, ledon, shown>>
mainVars == <<vars, loopVars>>

-----------------------------------------------------------------------------

\* Seeded fault: the LED is set, not turned.
LightOn == ledon' = TRUE

TurnLed == ledon' = ~ledon

\* The timer is due, and it is a turn without a frame.
Blink ==
  /\ lpc = "wait"
  /\ TurnLed
  /\ ledon' # FetchOn
  /\ UNCHANGED <<vars, lpc, shown>>

\* The timer is due: ask for a frame.
Ask ==
  /\ lpc = "wait"
  /\ TurnLed
  /\ ledon' = FetchOn
  /\ Call
  /\ lpc' = "fetch"
  /\ shown' = FALSE

\* Inside ioctl_get_event, up to its return.
Fetch ==
  /\ lpc = "fetch"
  /\ GoodHeader \/ BadHeader \/ CopyBlock \/ CopyEnd \/ DrainBlock \/ Return
  /\ lpc' = IF pc' = "idle" THEN "show" ELSE "fetch"
  /\ UNCHANGED <<ledon, shown>>

\* Seeded fault: any frame is decoded.
AnyFrame == ret > 0

LongEnough == ret > ShowMin

\* Decode the frame, or display a dot.
Show ==
  /\ lpc = "show"
  /\ shown' = LongEnough
  /\ lpc' = "wait"
  /\ UNCHANGED <<vars, ledon>>

Loop == Blink \/ Ask \/ Fetch \/ Show

LoopInit == Init /\ lpc = "wait" /\ ledon = FALSE /\ shown = FALSE

LoopNext == Loop \/ (ChipFrame /\ UNCHANGED loopVars)

LoopSpec == LoopInit /\ [][LoopNext]_mainVars

\* The loop runs for ever, and the timer, looked at in every turn, is due
\* again and again.  Nothing is assumed of the chip.
FairLoop == LoopSpec /\ WF_mainVars(Loop)

-----------------------------------------------------------------------------
(* Properties.                                                             *)

\* What is decoded and displayed is of the frame that was fetched, every byte
\* of it written in this call and in its place, and nothing left in the
\* buffer by an earlier, longer frame; while no read has been lost.
DecodesOwn ==
  shown /\ lpc = "wait" /\ faults = 0 /\ aligned =>
    \A i \in 0..Decoded-1 : i < top /\ data[i] = i

\* A frame that is long enough and stands whole in the chip when the loop waits
\* is decoded sooner or later, unless a read is lost first: the one turn in two
\* that asks is enough, and what is decoded is what that call has fetched.
FrameShown ==
  \A f \in 0..MaxFaults :
    lpc = "wait" /\ faults = f /\ flen - HdrLen > ShowMin /\ pos = 0
      ~> (lpc = "show" /\ aligned /\ LongEnough) \/ faults # f
=============================================================================
