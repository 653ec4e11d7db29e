------------------------------- MODULE MCHost -------------------------------
(***************************************************************************)
(* The host's own parts together, each with its values for TLC: the pins,  *)
(* the log, the commands and their answers, the encoding and the CRCs of   *)
(* what is sent, and the timer.  They share no state, so a behaviour in    *)
(* which only one of them moves shows all that there is to see of it.      *)
(***************************************************************************)
EXTENDS MCGpio, MCMsgLog, MCSdioCmd, MCSdioCrc, MCTimer

VARIABLE part   \* the part that moves

hostVars == <<part, gpioVars, logVars, vars, crcVars, timerVars>>

\* The timer starts at every position and with every delay where it is the part
\* that moves, elsewhere at one.
HostInit ==
  /\ part \in {"pins", "log", "command", "message", "timer"}
  /\ GpioInit /\ LogInit /\ Init /\ CrcInit /\ TimerInit
  /\ part = "timer" \/ (usec = 0 /\ delay = 1)

HostNext ==
  /\ UNCHANGED part
  /\ \/ /\ part = "pins" /\ GpioNext
        /\ UNCHANGED <<logVars, vars, crcVars, timerVars>>
     \/ /\ part = "log" /\ LogNext
        /\ UNCHANGED <<gpioVars, vars, crcVars, timerVars>>
     \/ /\ part = "command" /\ Next
        /\ UNCHANGED <<gpioVars, logVars, crcVars, timerVars>>
     \/ /\ part = "message" /\ CrcNext
        /\ UNCHANGED <<gpioVars, logVars, vars, timerVars>>
     \/ /\ part = "timer" /\ TimerNext
        /\ UNCHANGED <<gpioVars, logVars, vars, crcVars>>

HostSpec == HostInit /\ [][HostNext]_hostVars
=============================================================================
