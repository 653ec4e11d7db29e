------------------------------ MODULE MCBringUp ------------------------------
(***************************************************************************)
(* BringUp with values for TLC.  The script is the program's own, with its *)
(* own windows: those of the firmware (0 to 11), of the NVRAM image (15),  *)
(* of RAM that is read (7, 13), and of the cores and their wrappers.       *)
(***************************************************************************)
EXTENDS BringUp

MCBase       == 12288
MCDirectWins == {13, MCBase, MCBase + 32}
MCWins       == 0..11 \union {15} \union MCDirectWins

Of(kinds)    == {Script[i] : i \in {j \in 1..Len(Script) : Script[j].op \in kinds}}
MCOffsets    == {s.off : s \in Of({"residual"})} \union
                {s.addr.off : s \in Of({"bak_write32", "bak_read32", "bak_check"})}
=============================================================================
