------------------------------- MODULE Timer --------------------------------
(***************************************************************************)
(* ustime, ustimeout and usdelay in srce/zw_gpio.c: time is told by a      *)
(* counter of microseconds that wraps around.  One caller times one delay  *)
(* after the other, as usdelay, ioctl_wait and the loop of main do.        *)
(*                                                                         *)
(* A step is a microsecond, or a call of ustimeout.                        *)
(***************************************************************************)
EXTENDS Integers

CONSTANTS
  Wrap,      \* values of the counter, 2^32
  Delays,    \* delays in use
  MaxIdle    \* bound on the microseconds between two calls

\* Between two calls, at most what is left of half the counter's range.
ASSUME TimerAssumption ==
  /\ Wrap \in Nat \ {0} /\ MaxIdle \in Nat
  /\ Delays \subseteq Nat \ {0}
  /\ \A d \in Delays : 2 * (d + MaxIdle) <= Wrap

VARIABLES
  usec,      \* the counter, *USEC_REG
  ticks,     \* *tickp
  delay,     \* the delay the caller times
  elapsed,   \* microseconds since ticks was set (history)
  idle,      \* microseconds since the last call (history)
  fired      \* what the last call returned

timerVars == <<usec, ticks, delay, elapsed, idle, fired>>

\* t - *tickp, two words of the counter's width, as a signed word.
Since(t) == LET d == t - ticks
                m == IF d < 0 THEN d + Wrap ELSE d
            IN  IF 2 * m < Wrap THEN m ELSE m - Wrap

TimerInit ==
  /\ usec \in 0..Wrap-1 /\ ticks = usec
  /\ delay \in Delays
  /\ elapsed = 0 /\ idle = 0 /\ fired = TRUE

Microsecond ==
  /\ idle < MaxIdle
  /\ usec' = IF usec = Wrap - 1 THEN 0 ELSE usec + 1
  /\ elapsed' = elapsed + 1 /\ idle' = idle + 1
  /\ UNCHANGED <<ticks, delay, fired>>

\* ustimeout(tickp, 0) starts a delay.
Start ==
  /\ ticks' = usec /\ elapsed' = 0 /\ idle' = 0
  /\ fired' = TRUE /\ delay' \in Delays
  /\ UNCHANGED usec

\* Seeded fault: the end of the delay is compared instead of the difference.
EndPassed == usec >= ticks + delay

Expired == Since(usec) >= delay

\* Seeded fault: the next delay starts at the computed end of this one.
TimeoutFromEnd ==
  /\ idle' = 0
  /\ fired' = Expired
  /\ IF Expired THEN ticks' = ticks + delay /\ elapsed' = 0 /\ delay' \in Delays
                ELSE UNCHANGED <<ticks, elapsed, delay>>
  /\ UNCHANGED usec

\* ustimeout(tickp, usec) with a delay: when it is over the next one starts.
ustimeout ==
  /\ idle' = 0
  /\ fired' = Expired
  /\ IF Expired THEN ticks' = usec /\ elapsed' = 0 /\ delay' \in Delays
                ELSE UNCHANGED <<ticks, elapsed, delay>>
  /\ UNCHANGED usec

TimerNext == Microsecond \/ Start \/ ustimeout
TimerSpec == TimerInit /\ [][TimerNext]_timerVars

-----------------------------------------------------------------------------
(* Properties.                                                             *)

TimerTypeOK ==
  /\ usec \in 0..Wrap-1 /\ ticks \in 0..Wrap-1
  /\ delay \in Delays /\ elapsed \in Nat /\ idle \in 0..MaxIdle
  /\ fired \in BOOLEAN

\* ustimeout ends a delay neither early nor late, wherever the counter stood
\* at its start and whether it wraps or not: a call says so exactly when the
\* time is up.
OnTime == [][ustimeout => (fired' <=> elapsed >= delay)]_timerVars
=============================================================================
