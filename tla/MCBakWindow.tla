----------------------------- MODULE MCBakWindow -----------------------------
(***************************************************************************)
(* BakWindow with the program's own addresses: the windows of the firmware *)
(* image (0x00000 to 0x58000) and of the NVRAM (0x78000), and those of the *)
(* addresses given to bak_read32 and bak_write32: 0x68000, 0x18000000 and  *)
(* 0x18100000, each divided by 0x8000.                                     *)
(***************************************************************************)
EXTENDS BakWindow

MCBase       == 12288
MCDirectWins == {13, MCBase, MCBase + 32}
MCWins       == 0..11 \union {15} \union MCDirectWins
MCOffsets    == 0..3
=============================================================================
