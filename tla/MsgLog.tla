------------------------------- MODULE MsgLog -------------------------------
(***************************************************************************)
(* The log of SDIO messages: log_enable, log_incr, log_msg, log_data,      *)
(* log_data_ack and disp_log in srce/zw_sdio.c.                            *)
(*                                                                         *)
(* Records go round a ring of LOG_SIZE slots between log_start and log_idx *)
(* until disp_log shows and drops them.  A slot tells by its first byte    *)
(* what it holds: a message, data with its length, or the acknowledgement  *)
(* of a block.                                                             *)
(***************************************************************************)
EXTENDS Integers, Sequences

CONSTANTS
  LogSize,    \* LOG_SIZE
  Msgs,       \* first bytes of messages, 0 when there was no response
  DataLens,   \* lengths of data logged
  MaxSince    \* bound on the records logged between two displays

\* A message begins with a 0 bit, so its first byte is below 128.  A length
\* has 14 bits in a data record, and from 62 * 256 on, when the data was good,
\* its first byte would be that of an acknowledgement.  The program logs 512
\* bytes at most.
ASSUME MsgLogAssumption ==
  /\ LogSize \in Nat \ {0, 1}
  /\ Msgs \subseteq 0..127
  /\ DataLens \subseteq 0 .. 62 * 256 - 1
  /\ MaxSince \in Nat

VARIABLES
  log_idx,    \* slot of the next record
  log_start,  \* slot of the oldest record kept
  msglog,     \* first two bytes of every slot
  logging,    \* 0, LOG_CMDS or LOG_ALL
  since       \* what was logged since the last display (history)

logVars == <<log_idx, log_start, msglog, logging, since>>

LOG_CMDS == 1
LOG_ALL  == 2

-----------------------------------------------------------------------------
(* Records: what is logged, its slot, and what disp_log makes of a slot.   *)

Msg(b)      == [kind |-> "msg", first |-> b]
Data(n, ok) == [kind |-> "data", len |-> n, ok |-> ok]
Ack(v)      == [kind |-> "ack", val |-> v]

LOG_DATA_ACK == 254

\* Seeded fault: the flag for good data shares a bit with the length.
CrampedSlot(r) ==
  CASE r.kind = "msg"  -> <<r.first, 0>>
    [] r.kind = "data" -> <<r.len \div 256 + 128 + IF r.ok THEN 1 ELSE 0, r.len % 256>>
    [] r.kind = "ack"  -> <<LOG_DATA_ACK, r.val>>

Slot(r) ==
  CASE r.kind = "msg"  -> <<r.first, 0>>
    [] r.kind = "data" -> <<r.len \div 256 + 128 + IF r.ok THEN 64 ELSE 0, r.len % 256>>
    [] r.kind = "ack"  -> <<LOG_DATA_ACK, r.val>>

Show(s) ==
  CASE s[1] = LOG_DATA_ACK -> Ack(s[2])
    [] s[1] >= 128 /\ s[1] # LOG_DATA_ACK ->
         Data((s[1] % 64) * 256 + s[2], (s[1] \div 64) % 2 = 1)
    [] s[1] < 128 -> Msg(s[1])

-----------------------------------------------------------------------------
(* Operations.                                                             *)

\* Seeded fault: a full ring does not push the oldest record out.
UnpushedIncr ==
  /\ log_idx' = (log_idx + 1) % LogSize
  /\ UNCHANGED log_start

log_incr ==
  /\ log_idx' = (log_idx + 1) % LogSize
  /\ log_start' = IF log_start = log_idx' THEN (log_start + 1) % LogSize
                                          ELSE log_start

Record(r) ==
  /\ Len(since) < MaxSince
  /\ msglog' = [msglog EXCEPT ![log_idx] = Slot(r)]
  /\ log_incr
  /\ since' = Append(since, r)
  /\ UNCHANGED logging

log_msg      == logging > 0 /\ \E b \in Msgs : Record(Msg(b))
log_data     == logging > LOG_CMDS /\ \E n \in DataLens, ok \in BOOLEAN : Record(Data(n, ok))
log_data_ack == logging > LOG_CMDS /\ \E v \in {0, 5} : Record(Ack(v))

log_enable == /\ logging' \in {0, LOG_CMDS, LOG_ALL}
              /\ UNCHANGED <<log_idx, log_start, msglog, since>>

\* The records between log_start and log_idx, oldest first.
Kept == [i \in 1..(log_idx + LogSize - log_start) % LogSize |->
           msglog[(log_start + i - 1) % LogSize]]

Shown == [i \in DOMAIN Kept |-> Show(Kept[i])]

disp_log == /\ log_start' = log_idx
            /\ since' = <<>>
            /\ UNCHANGED <<log_idx, msglog, logging>>

LogInit == /\ log_idx = 0 /\ log_start = 0
           /\ msglog = [s \in 0..LogSize-1 |-> <<0, 0>>]
           /\ logging = 0
           /\ since = <<>>

LogNext == log_enable \/ log_msg \/ log_data \/ log_data_ack \/ disp_log

LogSpec == LogInit /\ [][LogNext]_logVars

-----------------------------------------------------------------------------
(* Properties.                                                             *)

\* The last n elements of a sequence, or all of it.
LastOf(s, n) == IF Len(s) <= n THEN s ELSE SubSeq(s, Len(s) - n + 1, Len(s))

\* A display by disp_log, whenever it comes, shows the latest records, each as
\* it was logged and in order: as many as fit in the ring, less one.
ShowsLatest == Shown = LastOf(since, LogSize - 1)

\* "keeping the last LOG_SIZE records": as many as the ring has slots.
KeepsLogSize == Shown = LastOf(since, LogSize)
=============================================================================
