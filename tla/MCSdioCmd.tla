------------------------------ MODULE MCSdioCmd -----------------------------
(***************************************************************************)
(* SdioCmd with the program's constants.  The chip answers at once, later, *)
(* in the last cycle waited for, too late by four cycles or by more, up to *)
(* the 64 cycles that the SDIO specification gives it.                     *)
(***************************************************************************)
EXTENDS SdioCmd

MCLatencies == {1, 2, 7, 19, 20, 21, 24, 25, 40, 64}
=============================================================================
