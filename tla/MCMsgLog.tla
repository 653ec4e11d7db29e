------------------------------ MODULE MCMsgLog ------------------------------
(***************************************************************************)
(* MsgLog with values for TLC: a ring of three slots and up to four records *)
(* between displays, so that it overflows from every position; a message   *)
(* without response and one with, lengths on both sides of a byte.         *)
(***************************************************************************)
EXTENDS MsgLog

MCMsgs     == {0, 117}
MCDataLens == {255, 256}
=============================================================================
