------------------------------- MODULE SdioCmd -------------------------------
(***************************************************************************)
(* Commands on the CMD line in srce/zw_sdio.c: sdio_cmd, sdio_cmd7,        *)
(* sdio_cmd52 and the reads and writes of several bytes built from it, all *)
(* through sdio_cmd_rsp.                                                   *)
(*                                                                         *)
(* A command is 48 bits, a response too; both are sent on the same line.   *)
(* The host clocks the line and waits a fixed number of cycles for a start *)
(* bit.  It compares neither the command index nor the CRC of a response.  *)
(*                                                                         *)
(* A step is one clock cycle of host and chip, or half of one in clk_0,    *)
(* which turns the clock from whatever level its variable has.  The chip,  *)
(* external, gets on when the clock rises; it starts its response some     *)
(* cycles after the command, or ignores the command.                       *)
(***************************************************************************)
EXTENDS Integers, Sequences

CONSTANTS
  MSG_BITS, RSP_WAIT,  \* as in zw_sdio.h
  Latencies,           \* cycles from a command to the start bit of its response
  MaxBytes             \* bytes of an operation: each takes a command

ASSUME SdioCmdAssumption ==
  /\ MSG_BITS \in Nat /\ MSG_BITS > 2 /\ RSP_WAIT \in Nat \ {0}
  /\ Latencies \subseteq Nat \ {0}
  /\ MaxBytes \in Nat \ {0}

VARIABLES
  pc,       \* "idle", "lead", "send", "listen", "bits"
  k,        \* cycles of it that are left
  todo,     \* commands of the operation still to be sent
  n,        \* the operation's result: bits of response
  heard,    \* whose response each command of the operation was given (history)
  prompt,   \* commands of the operation answered within RSP_WAIT (history)
  ans,      \* what the chip answers: "none", "this" command or an "older" one
  t,        \* the bit of its answer the chip drives, negative before the first
  seen,     \* bits of the command that the clock has brought to the chip
  tardy,    \* an answer began too late since the line was last silent (history)
  clkval,   \* the host's variable for the level of the clock
  clk       \* level of the clock line

host  == <<pc, k, todo, n, heard, prompt>>
clock == <<clkval, clk>>
vars  == <<host, ans, t, seen, tardy, clock>>

-----------------------------------------------------------------------------
(* The chip.                                                               *)

Driving == ans # "none" /\ t \in 0..MSG_BITS-1

\* The levels the host may find on the line: a response begins with two zeros
\* and ends with a one; a line nobody drives is pulled up.
Level == IF ~Driving THEN {1}
         ELSE IF t \in {0, 1} THEN {0}
         ELSE IF t = MSG_BITS - 1 THEN {1} ELSE {0, 1}

\* The clock rises: the chip gets on with its answer.
ChipCycle ==
  IF ans = "none" \/ t = MSG_BITS - 1 THEN ans' = "none" /\ t' = 0
                                      ELSE ans' = ans /\ t' = t + 1

-----------------------------------------------------------------------------
(* The host.                                                               *)

Then(next, cycles) == pc' = next /\ k' = cycles

\* gpio_out(SD_CLK_PIN, clkval=!clkval).
Toggle ==
  /\ clkval' = 1 - clkval
  /\ clk' = clkval'
  /\ IF clk < clk' THEN ChipCycle ELSE UNCHANGED <<ans, t>>

\* An operation of one byte is any command; those of more are
\* sdio_cmd52_writes and sdio_cmd52_reads.  Each command starts with clk_0(2).
Operation ==
  /\ pc = "idle"
  /\ todo' \in 1..MaxBytes
  /\ Then("lead", 4)
  /\ n' = 0 /\ heard' = <<>> /\ prompt' = 0
  /\ tardy' = (tardy /\ ans # "none")
  /\ UNCHANGED <<ans, t, seen, clock>>

\* Between operations the clock may run: the loop of main turns it once in each
\* turn.
TurnClock == pc = "idle" /\ Toggle /\ UNCHANGED <<host, seen, tardy>>

\* Seeded fault: one turn of the clock and no more.
LeadCut ==
  /\ pc = "lead" /\ k > 0
  /\ Then("lead", 0)
  /\ Toggle
  /\ UNCHANGED <<todo, n, heard, prompt, seen, tardy>>

\* The loop of clk_0: each cycle turns the clock twice, from either level.
Lead ==
  /\ pc = "lead" /\ k > 0
  /\ Then("lead", k - 1)
  /\ Toggle
  /\ UNCHANGED <<todo, n, heard, prompt, seen, tardy>>

\* Seeded fault: the clock is left where the cycles began.
Unrested ==
  /\ pc = "lead" /\ k = 0
  /\ Then("send", MSG_BITS)
  /\ seen' = 0
  /\ UNCHANGED <<todo, n, heard, prompt, tardy, ans, t, clock>>

\* The end of clk_0: the clock is turned once more if its variable is 1.
Rest ==
  /\ pc = "lead" /\ k = 0
  /\ Then("send", MSG_BITS)
  /\ seen' = 0
  /\ IF clkval = 1 THEN Toggle ELSE UNCHANGED <<ans, t, clock>>
  /\ UNCHANGED <<todo, n, heard, prompt, tardy>>

\* sdio_cmd_write drives the line, and for each bit the clock pin to 1 and to 0,
\* without a look at clkval.  If the pin was 1, it does not rise.
SendBit ==
  /\ pc = "send" /\ k > 1
  /\ Then("send", k - 1)
  /\ clk' = 0
  /\ IF clk = 0 THEN ChipCycle /\ seen' = seen + 1 ELSE UNCHANGED <<ans, t, seen>>
  /\ UNCHANGED <<todo, n, heard, prompt, tardy, clkval>>

\* Too late to be over when the host listens again: two cycles and a command go
\* by before, and an answer's last bit is a one, as on a silent line.
TooLate(d) == d > RSP_WAIT + 4

\* With the last bit the chip has the command, unless it has missed one or is
\* still at an older answer.  It answers after a while, or not at all.
LastBit ==
  /\ pc = "send" /\ k = 1
  /\ Then("listen", RSP_WAIT)
  /\ clk' = 0 /\ seen' = IF clk = 0 THEN seen + 1 ELSE seen
  /\ \/ /\ ans = "none" \/ t = MSG_BITS - 1
        /\ seen' = MSG_BITS
        /\ \E d \in Latencies : /\ t' = 1 - d
                             /\ prompt' = prompt + (IF d <= RSP_WAIT THEN 1 ELSE 0)
                             /\ tardy' = (tardy \/ TooLate(d))
        /\ ans' = "this"
     \/ /\ IF clk = 0 THEN ChipCycle ELSE UNCHANGED <<ans, t>>
        /\ UNCHANGED <<prompt, tardy>>
  /\ todo' = todo - 1
  /\ UNCHANGED <<n, heard, clkval>>

\* After the response to a command, or its absence: the next command of the
\* operation, whatever became of this one.  An answer still to come is late.
EndCommand ==
  /\ IF todo > 0 THEN Then("lead", 4) ELSE Then("idle", 0)
  /\ IF ans = "none" \/ t = MSG_BITS - 1 THEN ans' = "none" /\ t' = 0
                                         ELSE ans' = "older" /\ t' = t + 1

\* sdio_rsp_read, with a pulse of the clock, which is low, for each bit that is
\* looked at: the first 0 within RSP_WAIT cycles is taken for a start bit.
StartBit ==
  /\ pc = "listen" /\ 0 \in Level
  /\ Then("bits", MSG_BITS - 1)
  /\ heard' = Append(heard, IF ans = "this" /\ t = 0 THEN "own" ELSE "other")
  /\ ChipCycle
  /\ UNCHANGED <<todo, n, prompt, seen, tardy, clock>>

Wait ==
  /\ pc = "listen" /\ k > 1 /\ 1 \in Level
  /\ Then("listen", k - 1)
  /\ ChipCycle
  /\ UNCHANGED <<todo, n, heard, prompt, seen, tardy, clock>>

\* Seeded fault: the last cycle of the wait is not looked at.
GiveUpEarly ==
  /\ pc = "listen" /\ k <= 2 /\ 1 \in Level
  /\ heard' = Append(heard, "nothing")
  /\ EndCommand
  /\ UNCHANGED <<todo, n, prompt, seen, tardy, clock>>

GiveUp ==
  /\ pc = "listen" /\ k = 1 /\ 1 \in Level
  /\ heard' = Append(heard, "nothing")
  /\ EndCommand
  /\ UNCHANGED <<todo, n, prompt, seen, tardy, clock>>

\* The other bits of the response, all of them.  A response counts as many.
ReadBits ==
  /\ pc = "bits"
  /\ IF k > 1 THEN Then("bits", k - 1) /\ ChipCycle /\ UNCHANGED n
              ELSE EndCommand /\ n' = n + MSG_BITS
  /\ UNCHANGED <<todo, heard, prompt, seen, tardy, clock>>

-----------------------------------------------------------------------------
Init ==
  /\ pc = "idle" /\ k = 0 /\ todo = 0 /\ n = 0 /\ heard = <<>> /\ prompt = 0
  /\ ans = "none" /\ t = 0
  /\ seen = 0 /\ tardy = FALSE
  /\ clkval = 0 /\ clk = 0

Next == \/ Operation \/ TurnClock \/ Lead \/ Rest \/ SendBit \/ LastBit
        \/ StartBit \/ Wait \/ GiveUp \/ ReadBits

Spec == Init /\ [][Next]_vars

-----------------------------------------------------------------------------
(* Properties.                                                             *)

\* What is read as the response to a command is the response to that command,
\* from its first bit: the end of a late response to a command given up, which
\* the host does not tell from a response, is over before it listens again.
\* So it is until an answer begins more than four cycles after RSP_WAIT, and
\* again once an operation has begun on a silent line.
OwnAnswers == tardy \/ \A i \in DOMAIN heard : heard[i] # "other"

\* The result of an operation counts exactly the answers that came in time:
\* no answer is missed, also when it starts in the last cycle waited for or
\* when the one before did not come, and none is counted twice; under the same
\* condition.
CountsAnswers == pc = "idle" /\ ~tardy => n = MSG_BITS * prompt

\* "Send SDIO command 52, get response, return 0 if none": whatever came before
\* it, and however late.
ZeroIfNone == pc = "idle" /\ Len(heard) = 1 /\ prompt = 0 => n = 0

\* Every bit of a command reaches the chip, and the host's variable tells the
\* level of the line, although the loop of main stops at either level to call an
\* operation, and commands are clocked without a look at the variable.
AllBitsClocked ==
  /\ pc = "send" => seen = MSG_BITS - k
  /\ pc = "listen" => seen = MSG_BITS
  /\ clk = clkval
=============================================================================
