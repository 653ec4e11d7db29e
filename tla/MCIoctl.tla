------------------------------- MODULE MCIoctl -------------------------------
(***************************************************************************)
(* Ioctl and Events with values for TLC.  Two waits give calls of one and  *)
(* of two turns of the poll loop; two lengths let a fetch leave the tail   *)
(* of a frame, or read past its end; a tail may read as the id of the      *)
(* second call, or of any call where Lookalikes says so.  The program is   *)
(* zjoin.c, with one call of any kind for those between its two enabling   *)
(* ones.                                                                   *)
(***************************************************************************)
EXTENDS Events

MCWaits == {0, 2}
MCLens  == {1, 2}
MCLists == [c \in {1, 3} |-> IF c = 1 THEN NO_EVTS ELSE JOIN_EVTS]
=============================================================================
