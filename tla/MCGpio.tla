------------------------------- MODULE MCGpio -------------------------------
(***************************************************************************)
(* Gpio with the pins and power-on pulls of the BCM2835: up on pins 0-8,   *)
(* 34-36 and 46-53, none on 28, 29, 44 and 45, down on the others.         *)
(***************************************************************************)
EXTENDS Gpio

MCPins    == 0..53
MCPowerOn == [p \in MCPins |->
                CASE p \in 0..8 \cup 34..36 \cup 46..53 -> GPIO_PULLUP
                  [] p \in {28, 29, 44, 45}             -> GPIO_NOPULL
                  [] OTHER                              -> GPIO_PULLDN]
=============================================================================
