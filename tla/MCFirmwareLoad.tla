--------------------------- MODULE MCFirmwareLoad ---------------------------
(***************************************************************************)
(* FirmwareLoad with values for TLC.  The program's window is two bursts   *)
(* long and its firmware 23.6 bursts; its NVRAM image fills the end of the *)
(* window and takes eleven commands.  Here a burst is two units, the       *)
(* firmware two windows and a half, and the NVRAM image takes three.        *)
(***************************************************************************)
EXTENDS FirmwareLoad
=============================================================================
