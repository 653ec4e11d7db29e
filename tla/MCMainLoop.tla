------------------------------ MODULE MCMainLoop ------------------------------
(***************************************************************************)
(* MainLoop with values for TLC, those of zscan.c: a header of 2, a buffer *)
(* of 5 and blocks of 3 units, of which 3 are decoded when more than 3     *)
(* were returned; frames from a header alone to one that takes two blocks  *)
(* beyond the buffer; payload bytes that pass for a header of a frame that *)
(* fits and of one that does not.                                          *)
(***************************************************************************)
EXTENDS MainLoop

MCFrameLens  == {2, 4, 7, 8, 12}
MCLookalikes == {3, 12}
=============================================================================
