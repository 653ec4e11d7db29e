------------------------------ MODULE BakWindow ------------------------------
(***************************************************************************)
(* The backplane window: sdio_bak_window, sdio_bak_addr, sdio_bak_read32   *)
(* and sdio_bak_write32 in srce/zw_sdio.c.                                 *)
(*                                                                         *)
(* SDIO function 1 shows one window of the chip's backplane at a time.  The *)
(* host sets the window number in three byte writes (CMD52), and remembers *)
(* the last one in lastaddr so as not to set it again.  The result of the  *)
(* byte writes is not looked at.                                           *)
(*                                                                         *)
(* A backplane address is a window number and an offset.  Window numbers   *)
(* are kept here divided by the window size, so that the first of the      *)
(* three bytes holds one bit of them and the others a byte each.           *)
(***************************************************************************)
EXTENDS Integers

CONSTANTS
  ByteVals,   \* values of a byte (256)
  Base,       \* window of BAK_BASE_ADDR, the first one the program sets
  Wins,       \* windows the program sets
  DirectWins, \* windows of the addresses given to bak_read32 and bak_write32
  Offsets     \* offsets within a window

ASSUME BakWindowAssumption ==
  /\ ByteVals \in Nat \ {0}
  /\ Wins \subseteq Nat /\ DirectWins \subseteq Wins
  /\ Base \in Wins \ {0}

VARIABLES
  lastaddr,  \* the static variable of sdio_bak_window, as a window number
  chipwin,   \* window number in the chip's register
  want,      \* backplane address the last access was meant for
  hit,       \* where it went
  missed,    \* byte writes lost by the last setting of the window
  skipped    \* the last sdio_bak_window did not set the window

vars == <<lastaddr, chipwin, want, hit, missed, skipped>>

-----------------------------------------------------------------------------
(* Addresses.                                                              *)

\* The three bytes of the chip's window register.
Bytes(w) == <<w % 2, (w \div 2) % ByteVals, w \div (2 * ByteVals)>>

FromBytes(b) == b[1] + 2 * b[2] + 2 * ByteVals * b[3]

At(w, off)   == [where |-> "backplane", win |-> w, off |-> off]
Core(off)    == [where |-> "function registers", win |-> 0, off |-> off]

\* A function 1 access carries 17 bits of address; the top one selects the
\* function's own registers instead of the window.  It is bit 16 of the
\* address, which is the second bit of a window number.
TopBit(w) == (w \div 2) % 2

Reach(top, off) == IF top = 1 THEN Core(off) ELSE At(chipwin', off)

-----------------------------------------------------------------------------
(* Setting the window.                                                     *)

\* Seeded fault: the third byte is not written when the window is a low one.
ShortWrite(w, lost) ==
  chipwin' = FromBytes([i \in 1..3 |->
               IF i \in lost \/ (i = 3 /\ w < 2 * ByteVals)
               THEN Bytes(chipwin)[i] ELSE Bytes(w)[i]])

\* The three byte writes, but those in lost do not reach the chip.
WriteBytes(w, lost) ==
  chipwin' = FromBytes([i \in 1..3 |->
               IF i \in lost THEN Bytes(chipwin)[i] ELSE Bytes(w)[i]])

sdio_bak_window(w) ==
  /\ skipped' = (w = lastaddr)
  /\ IF skipped' THEN UNCHANGED <<chipwin, missed>>
     ELSE /\ missed' \in SUBSET (1..3)
          /\ WriteBytes(w, missed')
  /\ lastaddr' = w

-----------------------------------------------------------------------------
(* Operations.  The first one is the bring-up's, sdio_init's.              *)

Started == want.where # "nowhere"

\* sdio_bak_window by itself: sdio_init, write_firmware and write_nvram set the
\* window and then use it.  What counts is where its first byte now lies.
OpenWindow(w) ==
  /\ Started \/ w = Base
  /\ want' = At(w, 0)
  /\ sdio_bak_window(w)
  /\ hit' = Reach(0, 0)

\* A read or write with the window left as it is.
ResidualAccess(off) ==
  /\ Started
  /\ want' = At(lastaddr, off)
  /\ hit' = At(chipwin, off)
  /\ UNCHANGED <<lastaddr, chipwin, missed, skipped>>

\* sdio_bak_read32 and sdio_bak_write32: the address is passed on unmasked.
DirectAccess(w, off) ==
  /\ Started
  /\ want' = At(w, off)
  /\ sdio_bak_window(w)
  /\ hit' = Reach(TopBit(w), off)

\* The register holds whatever an earlier run of the program left in it.
Init ==
  /\ lastaddr = 0
  /\ chipwin \in Wins
  /\ want = [where |-> "nowhere", win |-> 0, off |-> 0]
  /\ hit = want
  /\ missed = {}
  /\ skipped = FALSE

Next == \/ \E w \in Wins : OpenWindow(w)
        \/ \E off \in Offsets :
              \/ ResidualAccess(off)
              \/ \E w \in DirectWins : DirectAccess(w, off)

Spec == Init /\ [][Next]_vars

-----------------------------------------------------------------------------
(* Properties.                                                             *)

TypeOK ==
  /\ lastaddr \in Wins \union {0}
  /\ chipwin \in Nat
  /\ missed \in SUBSET (1..3)
  /\ skipped \in BOOLEAN
  /\ \A a \in {want, hit} : a.win \in Nat /\ a.off \in Offsets \union {0}

\* When the last setting of the window lost no byte write, every access goes
\* to the backplane address it is meant for: also one that skips the setting,
\* one that relies on the window left by another, and one after a restart of
\* the program alone.  No part of an older window survives, whatever was lost
\* before.
RightAddress == missed = {} => hit = want

\* The comment on sdio_bak_window, "Set backplane window, don't set if already
\* OK": when it does not set the window, the window is the one asked for.
SkipOnlyIfOK == skipped => chipwin = lastaddr
=============================================================================
