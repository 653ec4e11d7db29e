-------------------------------- MODULE Events --------------------------------
(***************************************************************************)
(* Which events the WiFi chip is asked to send: ioctl_enable_evts and      *)
(* ioctl_evt_str in srce/zw_ioctl.c, over the transaction engine of Ioctl. *)
(*                                                                         *)
(* The program keeps the list of the events it has last asked for, to name *)
(* the ones it is sent; the chip keeps the mask it was last sent.  The     *)
(* list changes before the call, the mask when the chip executes it, which *)
(* may be after the call has given up, or never.  No caller looks at the   *)
(* result of ioctl_enable_evts.                                            *)
(***************************************************************************)
EXTENDS Ioctl

\* Event numbers, from whd/whd_events.h.
WLC_E_SET_SSID     == 0
WLC_E_AUTH         == 3
WLC_E_DEAUTH_IND   == 6
WLC_E_DISASSOC_IND == 12
WLC_E_LINK         == 16
WLC_E_PSK_SUP      == 46
WLC_E_ESCAN_RESULT == 69

\* Lists of the programs, without the -1 at their ends.
NO_EVTS    == {}
ESCAN_EVTS == {WLC_E_ESCAN_RESULT}
JOIN_EVTS  == {WLC_E_SET_SSID, WLC_E_LINK, WLC_E_AUTH,
               WLC_E_DEAUTH_IND, WLC_E_DISASSOC_IND, WLC_E_PSK_SUP}

EVENT_MAX == 208
MaskBytes == 0 .. EVENT_MAX \div 8 - 1

CONSTANT Lists   \* the calls that enable events, and the list each is given

ASSUME EventsAssumption ==
  /\ DOMAIN Lists \subseteq 1..Calls
  /\ \A c \in DOMAIN Lists : Lists[c] \subseteq Nat
  /\ 0 \in Waits

VARIABLES
  current_evts,  \* the list last asked for
  event_mask,    \* the mask built from it: byte by byte, the bits that are set
  sent           \* the mask in the request of each enabling call

eventVars == <<current_evts, event_mask, sent>>
allVars   == <<vars, eventVars>>

-----------------------------------------------------------------------------
(* The host.                                                               *)

\* Seeded fault: the bit is taken from too few bits of the number.
NarrowMask(list) == [b \in MaskBytes |-> {e % 4 : e \in {x \in list : x \div 8 = b}}]

\* memset, then SET_EVENT for every event of the list that the mask has room for.
MaskOf(list) == [b \in MaskBytes |-> {e % 8 : e \in {x \in list : x \div 8 = b}}]

\* ioctl_enable_evts, up to the sending of its request: a write with no wait.
EnableEvts ==
  /\ \E l \in Lens : Send(TRUE, l, 0)
  /\ call' \in DOMAIN Lists
  /\ current_evts' = Lists[call']
  /\ event_mask' = MaskOf(current_evts')
  /\ sent' = [sent EXCEPT ![call'] = event_mask']

OtherCall ==
  /\ AnyCall
  /\ call' \notin DOMAIN Lists
  /\ UNCHANGED eventVars

Underway == (InCall \/ RadioRead \/ Chip) /\ UNCHANGED eventVars

EventsInit ==
  /\ Init
  /\ current_evts = {}
  /\ event_mask = MaskOf({})
  /\ sent = [c \in DOMAIN Lists |-> MaskOf({})]

EventsNext == EnableEvts \/ OtherCall \/ Underway

EventsSpec == EventsInit /\ [][EventsNext]_allVars

\* Of the chip and of further calls nothing is assumed.
FairEvents == EventsSpec /\ WF_vars(InCall)

-----------------------------------------------------------------------------
(* The chip.                                                               *)

Enabling(c) == c \in DOMAIN Lists

\* The chip sends the events in the mask of the last enabling call it has
\* executed; before one, those of its firmware's own choice.
ChipSends(e) ==
  \E c \in applied : /\ Enabling(c)
                     /\ \A d \in applied : Enabling(d) => d <= c
                     /\ e % 8 \in sent[c][e \div 8]

-----------------------------------------------------------------------------
(* Properties.                                                             *)

\* ioctl_evt_str finds the event in the list.
Named(e) == e \in current_evts

\* If the last enabling call has succeeded by a reply, then from there on the
\* chip sends the events of the list and no others, and each one it sends can be
\* named: no older request, late or given up, changes the mask again, and no
\* late reply makes a list count as sent that the chip does not have.
SendsWhatIsNamed ==
  \A c \in DOMAIN Lists \ misled :
    outcome[c] = "ok" /\ (\A d \in DOMAIN Lists : d > c => d > call) =>
      \A e \in 0..EVENT_MAX-1 : ChipSends(e) <=> Named(e)
=============================================================================
