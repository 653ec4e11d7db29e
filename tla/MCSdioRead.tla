----------------------------- MODULE MCSdioRead -----------------------------
(***************************************************************************)
(* SdioRead with the program's own constants.  The response starts at once, *)
(* later, in the last cycle waited for, or too late; the block starts in    *)
(* any cycle from before the first response to after the last one, or not  *)
(* at all.  A block of zeros and one with a zero nibble may be mistaken for *)
(* their own start.                                                        *)
(***************************************************************************)
EXTENDS SdioRead

MCBlocks     == {<<0>>, <<165, 60>>, <<240, 15, 129>>}
MCRspStarts  == {1, 7, 20, 21}
MCDataStarts == 1..72 \cup {1000}
=============================================================================
