-------------------------------- MODULE Ioctl --------------------------------
(***************************************************************************)
(* The IOCTL transaction engine, ioctl_cmd in srce/zw_ioctl.c, against the *)
(* WiFi chip it talks to over SDIO function 2 (the "radio" function).      *)
(*                                                                         *)
(* ioctl_cmd sends one request, waits a little for the chip's interrupt    *)
(* line, then polls the interrupt status register: when a frame is         *)
(* indicated it acknowledges the indication and fetches ONE frame, which   *)
(* may be its reply, the late reply of a call that has timed out, or an    *)
(* asynchronous event.  The reply is recognised by a 16-bit request id.    *)
(*                                                                         *)
(* The chip is external: it queues requests and executes them in order,    *)
(* queues replies and events in a FIFO that is read in pieces, and raises  *)
(* the indication bit.  Every SDIO command may go unanswered.              *)
(*                                                                         *)
(* A frame longer than the fetch leaves its tail for the next fetch, and   *)
(* nothing tells the host where a frame begins: it compares two bytes at   *)
(* the place where the id of a reply would be.                             *)
(*                                                                         *)
(* Calls are numbered 1, 2, ... and a frame remembers the call it answers; *)
(* call, outcome, applied, filled and misled are history and no guard of   *)
(* the host reads a frame's call number.                                   *)
(***************************************************************************)
EXTENDS Integers, Sequences

CONSTANTS
  IdMod,      \* ioctl_reqid counts modulo this (a uint16_t: 65536)
  Calls,      \* number of ioctl_cmd calls the program makes
  Waits,      \* values of wait_msec
  PollMsec,   \* IOCTL_POLL_MSEC
  Lens,       \* frame lengths, in units of the shortest request
  Lookalikes, \* ids that bytes of a frame's tail may read as
  FifoMax     \* frames the chip can queue for the host

\* Both programs make a fixed number of calls (15 in zjoin.c, 6 in zscan.c)
\* before their main loop, which makes none: the request id never wraps.
ASSUME IoctlAssumption ==
  /\ Calls \in Nat /\ IdMod \in Nat /\ Calls < IdMod
  /\ PollMsec \in Nat \ {0}
  /\ Waits \subseteq Nat
  /\ Lens \subseteq Nat \ {0}
  /\ Lookalikes \subseteq 0..IdMod-1
  /\ FifoMax \in Nat \ {0}

VARIABLES
  \* host
  pc,           \* where ioctl_cmd is: idle, wait, poll, ack, fetch
  ioctl_reqid,  \* id of the last request sent
  wait_msec,    \* what is left of the caller's time budget
  wr,           \* the call sets a variable (TRUE) or reads one
  txlen,        \* length of the request, and of every fetch of the call
  val,          \* the interrupt status read and not yet written back
  \* chip
  inbox,        \* requests received and not yet executed
  fifo,         \* frames queued for the host
  pos,          \* how much of the first frame has been read
  intStatus,    \* the interrupt status register: the bits that are set
  \* history
  call,         \* number of the current or last call
  outcome,      \* how each call ended
  applied,      \* the calls whose request the chip has carried out
  filled,       \* whose answer is in the buffer of each call, 0: not filled
  misled        \* the calls that succeeded on part of a tail

hostVars == <<pc, ioctl_reqid, wait_msec, wr, txlen, val>>
chipVars == <<inbox, fifo, pos, intStatus>>
history  == <<call, outcome, applied, filled, misled>>
vars     == <<hostVars, chipVars, history>>

-----------------------------------------------------------------------------
(* Requests and frames.                                                    *)

NoId   == 0   \* what the id field of a frame that is no reply reads as
Nobody == -1  \* whose answer the bytes of a tail are

\* The bits in the low byte of the interrupt status: a frame has been queued,
\* or the chip has a message in its mailbox.
Bits == {"frame", "mailbox"}

Request == [call : 1..Calls, id : 0..IdMod-1, len : Lens]
Frame   == [call : 0..Calls, id : 0..IdMod-1, err : BOOLEAN, len : Lens]

Reply(q, e) == [call |-> q.call, id |-> q.id, err |-> e, len |-> q.len]

\* The id field of an event lies on the first bytes of the host's own MAC
\* address, which is no small number: an event never carries a used id.
Event(l) == [call |-> 0, id |-> NoId, err |-> FALSE, len |-> l]

(***************************************************************************)
(* A read of n units takes the rest of the first frame, padded, or leaves  *)
(* the frame's tail for the next read.                                     *)
(***************************************************************************)
ReadFifo(n) ==
  IF fifo # <<>> /\ pos + n < Head(fifo).len
  THEN /\ pos' = pos + n
       /\ UNCHANGED fifo
  ELSE /\ pos' = 0
       /\ fifo' = IF fifo = <<>> THEN <<>> ELSE Tail(fifo)

-----------------------------------------------------------------------------
(* The host: ioctl_cmd.                                                    *)

\* Seeded fault: the request counter is not advanced between calls.
StuckId == ioctl_reqid' = IF call = 0 THEN 1 ELSE ioctl_reqid

NextId == ioctl_reqid' = (ioctl_reqid + 1) % IdMod

\* Build the request and send it with one CMD53 write whose result is not
\* looked at: the chip may never see it.  Matching tells the answer.
Send(w, l, t) ==
  /\ pc = "idle"
  /\ call < Calls
  /\ call' = call + 1
  /\ NextId
  /\ wr' = w
  /\ txlen' = l
  /\ wait_msec' = t
  /\ \/ inbox' = Append(inbox, [call |-> call', id |-> ioctl_reqid', len |-> l])
     \/ UNCHANGED inbox
  /\ pc' = "wait"
  /\ UNCHANGED <<val, fifo, pos, intStatus, outcome, applied, filled, misled>>

\* ioctl_wait: returns when data line 1 is low or after 2 ms, and the caller
\* ignores which.
IoctlWait ==
  /\ pc = "wait"
  /\ pc' = "poll"
  /\ UNCHANGED <<ioctl_reqid, wait_msec, wr, txlen, val, chipVars, history>>

\* Seeded fault: time is only charged for sleeping.
UnchargedPoll ==
  /\ pc = "poll"
  /\ wait_msec >= 0
  /\ val' \in {intStatus, {}}
  /\ \/ val' # {} /\ pc' = "ack" /\ UNCHANGED wait_msec
     \/ val' = {} /\ pc' = "poll" /\ wait_msec' = wait_msec - PollMsec
  /\ UNCHANGED <<ioctl_reqid, wr, txlen, chipVars, history>>

\* One turn of the loop: charge the budget, read the interrupt status.  A
\* status read that fails leaves 0 in the low byte, as if nothing waited.
Poll ==
  /\ pc = "poll"
  /\ wait_msec >= 0
  /\ wait_msec' = wait_msec - PollMsec
  /\ val' \in {intStatus, {}}
  /\ \/ val' # {} /\ pc' = "ack"
     \/ val' = {} /\ pc' = "poll"
  /\ UNCHANGED <<ioctl_reqid, wr, txlen, chipVars, history>>

\* Write the value read back to the register, which clears those bits, also
\* one that was raised again since it was read.  The write may be lost.  The value
\* has then served: it is read again before it is next used.
Ack ==
  /\ pc = "ack"
  /\ pc' = "fetch"
  /\ intStatus' \in {intStatus \ val, intStatus}
  /\ val' = {}
  /\ UNCHANGED <<ioctl_reqid, wait_msec, wr, txlen, inbox, fifo, pos, history>>

\* What a fetch may find: nothing, the beginning of a frame, or more of a frame
\* whose beginning is gone, with any bytes in the place of id and error flag.
Found(c, i, e) == [call |-> c, id |-> i, err |-> e]

Readings ==
  CASE fifo = <<>>            -> {Found(Nobody, NoId, FALSE)}
    [] fifo # <<>> /\ pos = 0 -> {Found(Head(fifo).call, Head(fifo).id, Head(fifo).err)}
    [] fifo # <<>> /\ pos > 0 ->
         {Found(Nobody, i, e) : i \in Lookalikes \union {NoId}, e \in BOOLEAN}

\* Seeded fault: any id is taken for the current one.
AnyReply(r) == r.id # NoId

\* The id in what was fetched is the current one.
Matching(r) == r.id = ioctl_reqid

\* Fetch what is not the reply, or fail to fetch: turn again.
Discard ==
  /\ pc = "fetch"
  /\ \/ (\E r \in Readings : ~Matching(r)) /\ ReadFifo(txlen)
     \/ ReadFifo(txlen)                   \* the data was lost on the way
     \/ UNCHANGED <<fifo, pos>>           \* the read command was lost
  /\ pc' = "poll"
  /\ UNCHANGED <<ioctl_reqid, wait_msec, wr, txlen, val, inbox, intStatus, history>>

\* Seeded fault: the error flag of the reply is not looked at.
TakenAny(r) ==
  /\ outcome' = [outcome EXCEPT ![call] = "ok"]
  /\ filled' = IF wr THEN filled ELSE [filled EXCEPT ![call] = r.call]

\* Success unless the error flag is set; a read call's data is copied to the
\* caller only on success.
Taken(r) ==
  /\ outcome' = [outcome EXCEPT ![call] = IF r.err THEN "failed" ELSE "ok"]
  /\ filled' = IF wr \/ r.err THEN filled ELSE [filled EXCEPT ![call] = r.call]

\* Fetch what passes for the reply: the call ends.
Accept ==
  /\ pc = "fetch"
  /\ \E r \in Readings :
        /\ Matching(r)
        /\ Taken(r)
        /\ misled' = IF r.call = Nobody /\ ~r.err THEN misled \union {call} ELSE misled
  /\ ReadFifo(txlen)
  /\ pc' = "idle"
  /\ UNCHANGED <<ioctl_reqid, wait_msec, wr, txlen, val, inbox, intStatus, call, applied>>

\* The budget is used up.
TimeOut ==
  /\ pc = "poll"
  /\ wait_msec < 0
  /\ outcome' = [outcome EXCEPT ![call] = "failed"]
  /\ pc' = "idle"
  /\ UNCHANGED <<ioctl_reqid, wait_msec, wr, txlen, val, chipVars>>
  /\ UNCHANGED <<call, applied, filled, misled>>

\* The wrappers of ioctl_cmd choose direction, length and patience of a call.
AnyCall == \E w \in BOOLEAN, l \in Lens, t \in Waits : Send(w, l, t)

\* A read of the radio function outside of calls: zscan.c makes one between two
\* calls, and after the last call ioctl_get_event reads frames in pieces.
RadioRead ==
  /\ pc = "idle"
  /\ \E n \in Lens : ReadFifo(n)
  /\ UNCHANGED <<hostVars, inbox, intStatus, history>>

Host == \/ AnyCall \/ IoctlWait \/ Poll \/ Ack \/ Discard \/ Accept \/ TimeOut
        \/ RadioRead

-----------------------------------------------------------------------------
(* The chip, as ioctl_cmd uses it.                                         *)

Enqueue(f) == /\ Len(fifo) < FifoMax
              /\ fifo' = Append(fifo, f)
              /\ intStatus' = intStatus \union {"frame"}
              /\ UNCHANGED pos

\* The chip executes the oldest request and queues a reply of its length.
Execute ==
  /\ inbox # <<>>
  /\ inbox' = Tail(inbox)
  /\ \E e \in BOOLEAN :
        /\ Enqueue(Reply(Head(inbox), e))
        /\ applied' = IF e THEN applied ELSE applied \union {Head(inbox).call}
  /\ UNCHANGED <<hostVars, call, outcome, filled, misled>>

EmitEvent ==
  /\ \E l \in Lens : Enqueue(Event(l))
  /\ UNCHANGED <<hostVars, inbox, history>>

\* The chip may indicate again a frame that is still queued, or not, and may
\* put a message in its mailbox at any time.
Interrupt ==
  /\ \/ fifo # <<>> /\ intStatus' = intStatus \union {"frame"}
     \/ intStatus' = intStatus \union {"mailbox"}
  /\ UNCHANGED <<hostVars, inbox, fifo, pos, history>>

Chip == Execute \/ EmitEvent \/ Interrupt

-----------------------------------------------------------------------------

\* The bring-up has read 64 bytes from the radio function: the chip may be
\* left with nothing queued, or part way through an event.
Init ==
  /\ pc = "idle"
  /\ ioctl_reqid = 0
  /\ wait_msec = 0
  /\ wr = FALSE
  /\ txlen = 0
  /\ val = {}
  /\ inbox = <<>>
  /\ \/ fifo = <<>> /\ pos = 0
     \/ \E l \in Lens : fifo = <<Event(l)>> /\ pos \in 0..l-1
  /\ intStatus \in SUBSET Bits
  /\ call = 0
  /\ outcome = [c \in 1..Calls |-> "none"]
  /\ applied = {}
  /\ filled = [c \in 1..Calls |-> 0]
  /\ misled = {}

Next == Host \/ Chip

Spec == Init /\ [][Next]_vars

\* The CPU runs nothing but this program and every delay ends, so a call that
\* can take a step takes one.  Nothing is assumed of the chip, nor that the
\* program makes another call.
InCall == IoctlWait \/ Poll \/ Ack \/ Discard \/ Accept \/ TimeOut

-----------------------------------------------------------------------------
(* Properties.                                                             *)

TypeOK ==
  /\ pc \in {"idle", "wait", "poll", "ack", "fetch"}
  /\ ioctl_reqid \in 0..IdMod-1
  /\ wait_msec \in Int /\ wait_msec >= -PollMsec
  /\ wr \in BOOLEAN
  /\ txlen \in Nat
  /\ inbox \in Seq(Request)
  /\ fifo \in Seq(Frame)
  /\ pos \in Nat
  /\ val \in SUBSET Bits
  /\ intStatus \in SUBSET Bits
  /\ call \in 0..Calls
  /\ outcome \in [1..Calls -> {"none", "ok", "failed"}]
  /\ applied \in SUBSET (1..Calls)
  /\ filled \in [1..Calls -> Nobody..Calls]
  /\ misled \in SUBSET (0..Calls)

\* A call that reports success has been executed by the chip without error,
\* and a caller's data buffer is only ever filled from the reply to its own
\* call: no late reply of a call that timed out and no event is taken for the
\* answer.  The one way out is the tail of a longer frame with the id of that
\* very call in the two bytes compared, which the code does not tell from a
\* reply: see SuccessIsExecution.
OwnReplyOnly ==
  \A c \in 1..Calls :
    \/ c \in misled \intersect Lookalikes
    \/ /\ outcome[c] = "ok" => c \in applied
       /\ filled[c] # 0 => filled[c] = c /\ outcome[c] = "ok"

\* What ioctl_cmd's "Discard response if not matching request" leads a caller
\* to expect of success, and what a lookalike in a tail belies.
SuccessIsExecution == \A c \in 1..Calls : outcome[c] = "ok" => c \in applied

\* Success re-synchronises the link: once a call has succeeded by a reply, no
\* request up to it is waiting in the chip and no reply up to it is in the
\* FIFO, so whatever went wrong before, another call misled included, cannot
\* disturb a later call.
NoReplyBehindSuccess ==
  \A c \in 1..Calls : outcome[c] = "ok" /\ c \notin misled =>
    /\ \A i \in 1..Len(inbox) : inbox[i].call > c
    /\ \A i \in 1..Len(fifo) : fifo[i].call # 0 => fifo[i].call > c

\* Why the two properties above hold.  Ids are call numbers, because the id
\* starts at 0 with call 0 and never wraps; the chip's requests and replies
\* are in call order, replies before requests; what has been applied is older
\* than every request waiting; and the calls up to the current one, and only
\* those, have an outcome.  A matching frame is taken off the queue whole,
\* because the chip answers in a frame as long as the request.
IdsAreCalls ==
  /\ ioctl_reqid = call
  /\ \A i \in 1..Len(inbox) : inbox[i].id = inbox[i].call /\ inbox[i].call <= call
  /\ \A i \in 1..Len(fifo) : fifo[i].id = fifo[i].call /\ fifo[i].call <= call

CallOrder ==
  /\ \A i, j \in 1..Len(inbox) : i < j => inbox[i].call < inbox[j].call
  /\ \A i, j \in 1..Len(fifo) :
        i < j /\ fifo[j].call # 0 => fifo[i].call < fifo[j].call
  /\ \A i \in 1..Len(fifo), j \in 1..Len(inbox) : fifo[i].call < inbox[j].call

AppliedOrder ==
  /\ \A c \in applied : c <= call /\ \A j \in 1..Len(inbox) : c < inbox[j].call
  /\ \A i \in 1..Len(fifo) :
        fifo[i].call # 0 /\ ~fifo[i].err => fifo[i].call \in applied

Outcomes ==
  /\ \A c \in 1..Calls : c > call => outcome[c] = "none"
  /\ \A c \in misled : c \in 1..Calls /\ outcome[c] = "ok"
  /\ pc # "idle" => call > 0 /\ outcome[call] = "none"
  /\ pc = "idle" /\ call > 0 => outcome[call] # "none"

\* The answer to the current call is fetched whole.
ReplyFits ==
  /\ \A i \in 1..Len(inbox) : inbox[i].call = call => inbox[i].len = txlen
  /\ \A i \in 1..Len(fifo) :
        fifo[i].call = call /\ call # 0 => fifo[i].len = txlen

IInv == /\ TypeOK
        /\ IdsAreCalls
        /\ CallOrder
        /\ AppliedOrder
        /\ Outcomes
        /\ ReplyFits
        /\ OwnReplyOnly
        /\ NoReplyBehindSuccess

\* Every call returns, even when the chip streams frames without end: each
\* turn of the loop is charged to the budget whether or not it sleeps.
CallReturns == pc # "idle" ~> pc = "idle"

\* The engine implements the service: commands take effect in call order and
\* at most once, and success means the command took effect.  A call misled by a
\* tail counts as failed: nothing follows from what it returned.
Service == INSTANCE IoctlService WITH
  outcome <- [c \in 1..Calls |-> IF c \in misled THEN "failed" ELSE outcome[c]],
  filled  <- [c \in 1..Calls |-> IF c \in misled THEN 0 ELSE filled[c]]
ImplementsService == Service!Spec
=============================================================================
