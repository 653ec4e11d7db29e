---------------------------- MODULE MCSdioWrite -----------------------------
(***************************************************************************)
(* SdioWrite with the program's constants, three short blocks that begin,  *)
(* end, or consist of zeros, and a chip that is busy for up to six cycles. *)
(***************************************************************************)
EXTENDS SdioWrite

MCBlocks == <<<<0, 5>>, <<0, 0>>, <<15, 0>>>>
=============================================================================
