------------------------------ MODULE MCTimer -------------------------------
(***************************************************************************)
(* Timer with values for TLC: a counter of four bits, from every position, *)
(* and gaps between calls up to the limit for the longest delay.           *)
(***************************************************************************)
EXTENDS Timer

MCDelays == {1, 3, 5}
=============================================================================
