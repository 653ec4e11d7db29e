------------------------------ MODULE Messages ------------------------------
(***************************************************************************)
(* The bits of the SDIO commands of srce/zw_sdio.c: the structures of      *)
(* zw_sdio.h as sdio_cmd, sdio_cmd7, sdio_cmd52, sdio_cmd53_read,          *)
(* sdio_cmd53_write and sdio_write_blocks fill them, and as the log        *)
(* displays them.  A message is a sequence of bytes, without its CRC.      *)
(*                                                                         *)
(* A field is given more bits than it has in several places and keeps its  *)
(* lowest.                                                                 *)
(***************************************************************************)
EXTENDS Integers, Sequences, Regs

\* The part of v in n bits from bit k on: (v >> k) in a field of n bits.
Field(v, k, n) == (v \div 2^k) % 2^n

\* One bit each for start, command, and six for the number.
FirstByte(num) == 64 + Field(num, 0, 6)

\* SWAP16 and SWAP32, of a value as the sequence of its bytes, lowest first.
Swap(bytes) == [i \in DOMAIN bytes |-> bytes[Len(bytes) + 1 - i]]

\* sdio_cmd and sdio_cmd7: the argument goes out highest byte first, although
\* the host keeps the lowest first.
EncodeCmd(num, arg) == <<FirstByte(num)>> \o Swap(arg)
EncodeCmd7(rca)     == <<FirstByte(7)>> \o Swap(rca) \o <<0, 0>>

\* The second byte: write, function, raw or block mode, increment, address.
Flags(wr, func, blk, inc, addr) ==
  128 * wr + 16 * Field(func, 0, 3) + 8 * blk + 4 * inc + Field(addr, 15, 2)

EncodeCmd52(func, addr, data, wr, raw) ==
  <<FirstByte(52), Flags(wr, func, raw, 0, addr), Field(addr, 7, 8),
    2 * Field(addr, 0, 7), Field(data, 0, 8)>>

\* Seeded fault: the length's highest bit is left out.
ShortLength(func, addr, len, wr, blk) ==
  <<FirstByte(53), Flags(wr, func, blk, 1, addr), Field(addr, 7, 8),
    2 * Field(addr, 0, 7), Field(len, 0, 8)>>

\* A length in bytes, or with blk in blocks.
EncodeCmd53(func, addr, len, wr, blk) ==
  <<FirstByte(53), Flags(wr, func, blk, 1, addr), Field(addr, 7, 8),
    2 * Field(addr, 0, 7) + Field(len, 8, 1), Field(len, 0, 8)>>

\* A command as its caller gives it.
Encode(c) ==
  CASE c.num = 7  -> EncodeCmd7(c.rca)
    [] c.num = 52 -> EncodeCmd52(c.func, c.addr, c.data, c.wr, c.raw)
    [] c.num = 53 -> EncodeCmd53(c.func, c.addr, c.len, c.wr, c.blk)
    [] OTHER      -> EncodeCmd(c.num, c.arg)

\* What callers give: a register's address is within the 17 bits it is sent in,
\* a backplane address is whole, with the flag of a 32-bit access but not the
\* bit above, and all blocks there are room for are one less than 512.
Byte     == 0..255
ArgCalls == [num : 0..63 \ {7, 52, 53}, arg : Byte \X Byte \X Byte \X Byte]
RcaCalls == [num : {7}, rca : Byte \X Byte]
Calls52  == [num : {52}, func : 0..7, addr : 0..2^17-1, data : Byte, wr : 0..1, raw : 0..1]
Calls53  ==
  {c \in [num : {53}, func : 0..7, addr : Nat, len : 1..512, wr : 0..1, blk : 0..1] :
     /\ c.addr >= 2^17 => Field(c.addr, 15, 2) = 1
     /\ c.len = 512 => c.blk = 0}

\* sdio_bak_read32 and sdio_bak_write32 hand on the whole backplane address,
\* with the flag of a 32-bit access; the window is not masked out.
Flagged(addr)  == IF Field(addr, 15, 1) = 1 THEN addr ELSE addr + SB_32BIT_WIN
BakCall(addr, wr) ==
  [num |-> 53, func |-> 1, addr |-> Flagged(addr), len |-> 4, wr |-> wr, blk |-> 0]

-----------------------------------------------------------------------------

\* What the caller wants of the chip: of a backplane address, the place in the
\* window.
Meant(c) ==
  IF c.num = 53 /\ c.addr >= 2^17
  THEN [c EXCEPT !.addr = SB_32BIT_WIN + OffsetIn(c.addr)]
  ELSE c

\* REG_ADDR: the address as the log shows it.
RegAddr(m) == Field(m[4], 1, 7) + 2^7 * m[3] + 2^15 * Field(m[2], 0, 2)

\* disp_cmd52 and disp_cmd53: a length of 0 is shown as 512.
\* Seeded fault: it is shown as it is.
LoggedBare(m) == m[5] + 256 * Field(m[4], 0, 1)
LoggedLen(m) ==
  LET n == m[5] + 256 * Field(m[4], 0, 1) IN IF n = 0 THEN 512 ELSE n

Logged52(m) ==
  [num |-> 52, wr |-> Field(m[2], 7, 1), func |-> Field(m[2], 4, 3),
   addr |-> RegAddr(m), data |-> m[5], raw |-> Field(m[2], 3, 1)]

Logged53(m) ==
  [num |-> 53, wr |-> Field(m[2], 7, 1), func |-> Field(m[2], 4, 3),
   addr |-> RegAddr(m), blk |-> Field(m[2], 3, 1), len |-> LoggedLen(m)]

\* What the chip takes a command for: the fields of the SDIO specification,
\* highest bit first, where a length of 0 is 512 bytes, but blocks without end.
Endless == 0
BitOf(m, i) == Field(m[(i + 7) \div 8], 7 - ((i - 1) % 8), 1)
At(m, f, l) ==
  LET v[i \in f-1..l] == IF i < f THEN 0 ELSE 2 * v[i - 1] + BitOf(m, i) IN v[l]

Understood(m) ==
  LET num == At(m, 3, 8)
  IN  CASE num = 52 ->
             [num |-> 52, wr |-> At(m, 9, 9), func |-> At(m, 10, 12),
              raw |-> At(m, 13, 13), addr |-> At(m, 15, 31), data |-> At(m, 33, 40)]
        [] num = 53 ->
             [num |-> 53, wr |-> At(m, 9, 9), func |-> At(m, 10, 12),
              blk |-> At(m, 13, 13), addr |-> At(m, 15, 31),
              len |-> IF At(m, 32, 40) = 0
                      THEN IF At(m, 13, 13) = 1 THEN Endless ELSE 512
                      ELSE At(m, 32, 40)]
        [] num = 7 -> [num |-> 7, rca |-> <<At(m, 17, 24), At(m, 9, 16)>>]
        [] OTHER ->
             [num |-> num, arg |-> <<At(m, 33, 40), At(m, 25, 32),
                                     At(m, 17, 24), At(m, 9, 16)>>]
=============================================================================
