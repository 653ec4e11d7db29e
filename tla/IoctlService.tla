---------------------------- MODULE IoctlService ----------------------------
(***************************************************************************)
(* What a caller of ioctl_cmd may rely on, with the link to the WiFi chip  *)
(* left out.  Calls are numbered in the order the program makes them, one  *)
(* at a time.  The chip applies commands in call order and at most once;   *)
(* a command may be applied while its call waits, after the call has given *)
(* up, or never.  A call that reports success has been applied, and a read *)
(* call that reports success holds the answer to that very call.           *)
(***************************************************************************)
EXTENDS Naturals

CONSTANT Calls          \* how many ioctl calls the program makes

VARIABLES call,         \* number of the current or last call, 0 before any
          outcome,      \* "none", "ok" or "failed" for every call
          applied,      \* the calls whose command the chip has applied
          filled        \* whose answer each call's data buffer holds, 0: none

svars == <<call, outcome, applied, filled>>

Open == call > 0 /\ outcome[call] = "none"

Init == /\ call = 0
        /\ outcome = [c \in 1..Calls |-> "none"]
        /\ applied = {}
        /\ filled = [c \in 1..Calls |-> 0]

Begin == /\ ~Open
         /\ call < Calls
         /\ call' = call + 1
         /\ UNCHANGED <<outcome, applied, filled>>

Apply(c) == /\ \A d \in applied : d < c
            /\ applied' = applied \union {c}
            /\ UNCHANGED <<call, outcome, filled>>

Succeed == /\ Open
           /\ call \in applied
           /\ outcome' = [outcome EXCEPT ![call] = "ok"]
           /\ \/ filled' = [filled EXCEPT ![call] = call]
              \/ UNCHANGED filled
           /\ UNCHANGED <<call, applied>>

Fail == /\ Open
        /\ outcome' = [outcome EXCEPT ![call] = "failed"]
        /\ UNCHANGED <<call, applied, filled>>

Next == \/ Begin
        \/ \E c \in 1..call : Apply(c)
        \/ Succeed
        \/ Fail

Spec == Init /\ [][Next]_svars
=============================================================================
