------------------------------ MODULE SdioCrc -------------------------------
(***************************************************************************)
(* A command on its way to the chip and, for a CMD53 write, the block that *)
(* follows it, in srce/zw_sdio.c: what a command of Messages says, and the *)
(* CRCs of both.  Words are sets of bit positions.                         *)
(*                                                                         *)
(* The command's 7-bit CRC (crc7_init, crc7_byte, crc7_data, add_crc7) is  *)
(* kept one bit up, in bits 1-7 of a byte, through a table of 256 entries; *)
(* bit 0 becomes the stop bit.  A step is one byte of the command.         *)
(*                                                                         *)
(* Four lines carry a block, each with a CRC16 of its own; the driver      *)
(* keeps the four in one 64-bit word, bit i of line j at position 4*i + j  *)
(* and bit-reversed, and takes a nibble at a time through a table          *)
(* (qcrc16r_init, quadval).  sdio_block_out sends data and CRC, and the    *)
(* loop of sdio_rsp_block_read computes over both: its log marks a block   *)
(* as good when the result is 0.  A step is one nibble.                    *)
(***************************************************************************)
EXTENDS Polynomials, Messages

CONSTANTS
  Calls,          \* the commands callers ask for
  SD_DATA_PINS,   \* lines
  Nibbles,        \* nibbles sent, each the set of its lines that carry a 1
  Errors,         \* lines flipped in a nibble underway
  MaxLen,         \* bound on the nibbles of a block
  MaxBurst        \* bound on the span of the errors of a block, in nibbles

ASSUME SdioCrcAssumption ==
  /\ Calls \subseteq ArgCalls \union RcaCalls \union Calls52 \union Calls53
  /\ SD_DATA_PINS = 4
  /\ Nibbles \subseteq SUBSET (0..3) /\ Errors \subseteq (SUBSET (0..3)) \ {{}}
  /\ MaxLen \in Nat /\ MaxBurst \in Nat

MSG_BYTES == 6

VARIABLES
  cmd,       \* the command
  crc,       \* crc of crc7_data
  data,      \* bytes of the command so far
  block,     \* the block is on its way
  txcrc,     \* qcrc of sdio_block_out
  left,      \* nibbles of CRC still to send, 16 while data is sent
  rxcrc,     \* qcrc of sdio_rsp_block_read
  got,       \* nibbles received (history)
  firstErr   \* the first nibble received that had an error, 0 if none

cmdVars == <<cmd, crc, data>>
blkVars == <<txcrc, left, rxcrc, got, firstErr>>
crcVars == <<cmd, crc, data, block, txcrc, left, rxcrc, got, firstErr>>

-----------------------------------------------------------------------------
(* The CRC of the command.                                                 *)

\* (uint8_t)(0b10001001 << 1): the cast drops the highest term.
CRC7_POLY == {4, 1}

\* Seeded fault: the bit tested is the one before the shift brings it there.
EarlyShift(w) == LET s == Shl(w, 1) IN IF 7 \in s THEN Xor(s, CRC7_POLY) ELSE s

\* One turn of the loop in crc7_byte, on 16 bits.
ShiftOnce(w) == LET s == Shl(w, 1) IN IF 8 \in s THEN Xor(s, CRC7_POLY) ELSE s

crc7_byte(b) ==
  LET w[n \in 0..8] == IF n = 0 THEN b ELSE ShiftOnce(w[n - 1])
  IN  Low(w[8], 8)

crc7_table == [b \in SUBSET (0..7) |-> crc7_byte(b)]

\* A byte as a word, and a sequence of words as bytes.
Word(v)   == {i \in 0..7 : Field(v, i, 1) = 1}
ByteOf    == [w \in SUBSET (0..7) |-> CHOOSE v \in 0..255 : Word(v) = w]
Values(s) == [i \in DOMAIN s |-> ByteOf[s[i]]]

\* The rest: CMD0 as the bring-up sends it.
GoIdle == [num |-> 0, arg |-> <<0, 0, 0, 0>>]

\* crc7_data takes the next byte, with the first one of a new command.
NextByte ==
  /\ ~block /\ Len(data) < MSG_BYTES - 1
  /\ IF data = <<>> THEN cmd' \in Calls ELSE UNCHANGED cmd
  /\ LET b == Word(Encode(cmd')[Len(data) + 1])
     IN  crc' = crc7_table[Xor(crc, b)] /\ data' = Append(data, b)
  /\ UNCHANGED <<block, blkVars>>

\* crc7_data ends with the stop bit, add_crc7 stores the last byte.
add_crc7 ==
  /\ ~block /\ Len(data) = MSG_BYTES - 1
  /\ data' = Append(data, crc \cup {0})
  /\ UNCHANGED <<cmd, crc, block, blkVars>>

-----------------------------------------------------------------------------
(* The CRC of the block.                                                   *)

\* 1<<(15-0) | 1<<(15-5) | 1<<(15-12)
CRC16R_POLY == {15, 10, 3}

\* Seeded fault: spread over five lines.
SpreadTooFar(v) == {5 * i : i \in v}

\* A 16-bit value spread over 64 bits.
quadval(v) == {4 * i : i \in v}

qcrc16r_poly == quadval(CRC16R_POLY)

\* Seeded fault: the table has no entries for the highest line.
ShortTable == [i \in SUBSET (0..3) |-> UNION {Shl(qcrc16r_poly, j) : j \in i \cap 0..2}]

qcrc16r_table == [i \in SUBSET (0..3) |-> UNION {Shl(qcrc16r_poly, j) : j \in i}]

\* Seeded fault: the nibble is looked up as it is.
BlindUpdate(q, d) == Xor(Shr(q, SD_DATA_PINS), qcrc16r_table[Low(d, 4)])

Update(q, d) == Xor(Shr(q, SD_DATA_PINS), qcrc16r_table[Low(Xor(d, q), 4)])

\* The command is sent: what crc7_data held is gone, and the block follows.
StartBlock ==
  /\ ~block /\ Len(data) = MSG_BYTES
  /\ cmd.num = 53 /\ cmd.wr = 1
  /\ block' = TRUE
  /\ cmd' = GoIdle /\ crc' = {} /\ data' = <<>>
  /\ UNCHANGED blkVars

\* What the receiver does with the nibble d of the sender.
Receive(d) ==
  \E e \in Errors \cup {{}} :
    /\ e # {} /\ firstErr # 0 => Len(got) + 1 < firstErr + MaxBurst
    /\ firstErr' = IF firstErr = 0 /\ e # {} THEN Len(got) + 1 ELSE firstErr
    /\ rxcrc' = Update(rxcrc, Xor(d, e))
    /\ got' = Append(got, Xor(d, e))

SendData ==
  /\ block /\ left = 16 /\ Len(got) < MaxLen
  /\ \E d \in Nibbles : txcrc' = Update(txcrc, d) /\ Receive(d)
  /\ UNCHANGED <<left, block, cmdVars>>

SendCrc ==
  /\ block /\ left > 0 /\ got # <<>>
  /\ Receive(Low(txcrc, 4))
  /\ txcrc' = Shr(txcrc, 4)
  /\ left' = left - 1
  /\ UNCHANGED <<block, cmdVars>>

\* The command is sent and no block follows, or the block is: the next command
\* and the next block start with CRCs of 0.
NextMessage ==
  /\ \/ ~block /\ Len(data) = MSG_BYTES /\ ~(cmd.num = 53 /\ cmd.wr = 1)
     \/ block /\ left = 0
  /\ cmd' = GoIdle /\ crc' = {} /\ data' = <<>> /\ block' = FALSE
  /\ txcrc' = {} /\ left' = 16 /\ rxcrc' = {} /\ got' = <<>> /\ firstErr' = 0

-----------------------------------------------------------------------------
CrcInit == /\ cmd = GoIdle /\ crc = {} /\ data = <<>> /\ block = FALSE
        /\ txcrc = {} /\ left = 16 /\ rxcrc = {} /\ got = <<>> /\ firstErr = 0

CrcNext == NextByte \/ add_crc7 \/ StartBlock \/ SendData \/ SendCrc \/ NextMessage

CrcSpec == CrcInit /\ [][CrcNext]_crcVars

-----------------------------------------------------------------------------
(* Properties.                                                             *)

\* The message as a polynomial, first bit sent highest.
Poly(s) == UNION {Shl(s[i], 8 * (Len(s) - i)) : i \in DOMAIN s}

\* x^7 + x^3 + 1
G7 == {7, 3, 0}

\* A complete message ends with the stop bit, and the bits before it divide by
\* the polynomial: what the chip checks of a command.
Accepted ==
  Len(data) = MSG_BYTES =>
    /\ 0 \in data[MSG_BYTES]
    /\ Remainder(Shr(Poly(data), 1), G7, 7, 8 * MSG_BYTES) = {}

\* The chip, which takes a command's fields from their places on the line, is
\* cmd for what the caller wanted: that function and register or place in
\* the window, though some addresses are given with more bits than fit, all of
\* the length, though it is split, and that argument, highest byte first.
ChipUnderstands ==
  Len(data) = MSG_BYTES => Understood(Values(data)) = Meant(cmd)

\* What the log displays of a transfer is what the chip takes it for, the
\* longest one included.
LogAgrees ==
  Len(data) = MSG_BYTES =>
    /\ cmd.num = 52 => Logged52(Values(data)) = Understood(Values(data))
    /\ cmd.num = 53 => Logged53(Values(data)) = Understood(Values(data))

\* The CRC16 of a line, from the polynomial x^16 + x^12 + x^5 + 1: the bits
\* received, first one highest, times x^16.
G16 == {16, 12, 5, 0}
LineCrc(s, j) ==
  Remainder({Len(s) - i + 16 : i \in {k \in DOMAIN s : j \in s[k]}}, G16, 16, Len(s) + 16)

\* The table-driven word holds the CRC16 of each line, bit-reversed.
LinesRight ==
  \A j \in 0..3 : {15 - i : i \in {k \in 0..15 : 4 * k + j \in rxcrc}} = LineCrc(got, j)

\* At the end of a block the receiver's CRC is 0 when nothing was flipped
\* underway, and is not when anything was, on any lines, within the span a
\* CRC16 covers.
ZeroIffIntact == left = 0 => (rxcrc = {} <=> firstErr = 0)
=============================================================================
