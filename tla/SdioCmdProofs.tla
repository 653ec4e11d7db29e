---------------------------- MODULE SdioCmdProofs ----------------------------
(***************************************************************************)
(* Proofs about SdioCmd, for every length of message, wait and operation   *)
(* and all delays of the chip's answers.                                   *)
(***************************************************************************)
EXTENDS SdioCmd, TLAPS

-----------------------------------------------------------------------------
(* The inductive invariant.                                                *)

Phase == /\ pc \in {"idle", "lead", "send", "listen", "bits"}
         /\ k \in Nat
         /\ pc \in {"send", "listen", "bits"} => k > 0
         /\ pc = "lead" => k <= 4
         /\ pc = "send" => k <= MSG_BITS
         /\ pc = "listen" => k <= RSP_WAIT
         /\ pc = "bits" => k < MSG_BITS

\* The host's variable tells the level of the clock, which only main and the
\* cycles of clk_0 leave high.
Clocked == /\ clkval \in {0, 1}
           /\ pc \in {"send", "listen", "bits"} => clkval = 0
           /\ AllBitsClocked

Answer == /\ ans \in {"none", "this", "older"}
          /\ t \in Int /\ t < MSG_BITS
          /\ tardy \in BOOLEAN

\* The answer to the current command is either still to come or being read.
Current ==
  \/ pc = "listen" /\ t >= -3 - k /\ t <= 0
  \/ pc = "bits" /\ t = MSG_BITS - k

\* Where a late answer has got to when the host is in a given phase: it began
\* at most four cycles after the wait, and each cycle brings it on.  Of the half
\* cycles of clk_0 those count that raise the clock.  When the host listens
\* again nothing is left of it but the stop bit, which is a one.
Late ==
  /\ pc = "idle" => t >= -3
  /\ pc = "lead" => 2*t + k + 3 >= clkval
  /\ pc = "send" => t >= MSG_BITS - 1 - k
  /\ pc = "listen" => t >= MSG_BITS - 1

Place ==
  /\ ans = "this" => Current
  /\ ans = "older" => Late
  /\ pc = "bits" => ans = "this"

Heard == heard \in Seq({"own", "other", "nothing"}) /\ OwnAnswers

AInv == Phase /\ Answer /\ Clocked /\ (tardy \/ Place)

\* An answer in time that has been counted in prompt and not yet in n: one
\* being read, or one to come before the wait ends.
Owed == IF pc = "bits" \/ (pc = "listen" /\ ans = "this" /\ t + k >= 1)
        THEN 1 ELSE 0

Counted == prompt \in Nat /\ (tardy \/ n = MSG_BITS * (prompt - Owed))

IInv == AInv /\ Heard /\ Counted

-----------------------------------------------------------------------------
(* What single cycles do.                                                  *)

\* A cycle brings the answer on by a bit, and takes one away that has ended.
LEMMA Cycle ==
  ASSUME Answer, ChipCycle
  PROVE  \/ ans' = "none" /\ t' = 0
         \/ ans # "none" /\ ans' = ans /\ t' = t + 1 /\ t' < MSG_BITS
  BY SdioCmdAssumption DEF ChipCycle, Answer

\* A half cycle of clk_0 or of main is a cycle for the chip if it raises the
\* clock.
LEMMA HalfCycle ==
  ASSUME Answer, Clocked, Toggle
  PROVE  /\ clkval' = 1 - clkval /\ clk' = clkval'
         /\ \/ clkval = 0 /\ ans' = "none" /\ t' = 0
            \/ /\ clkval = 0 /\ ans # "none" /\ ans' = ans
               /\ t' = t + 1 /\ t' < MSG_BITS
            \/ clkval = 1 /\ ans' = ans /\ t' = t
<1>1. clk = clkval /\ clkval \in {0, 1}
  BY DEF Clocked, AllBitsClocked
<1>2. CASE clkval = 0
  BY <1>1, <1>2, Cycle DEF Toggle
<1>3. CASE clkval = 1
  BY <1>1, <1>3 DEF Toggle
<1> QED BY <1>1, <1>2, <1>3

\* So does the end of a command, which makes an answer still to come late.
LEMMA CommandEnds ==
  ASSUME Answer, EndCommand
  PROVE  /\ \/ pc' = "lead" /\ k' = 4
            \/ pc' = "idle" /\ k' = 0
         /\ \/ ans' = "none" /\ t' = 0
            \/ ans # "none" /\ ans' = "older" /\ t' = t + 1 /\ t' < MSG_BITS
                            /\ t # MSG_BITS - 1
  BY SdioCmdAssumption DEF EndCommand, Answer, Then

\* While the host listens, a zero on the line is the start bit of its own
\* answer, and a one is not.
LEMMA Levels ==
  ASSUME Answer, Place, pc = "listen"
  PROVE  /\ 0 \in Level => ans = "this" /\ t = 0
         /\ 1 \in Level => ~(ans = "this" /\ t = 0)
<1>1. MSG_BITS \in Nat /\ MSG_BITS > 2 /\ t \in Int
  BY SdioCmdAssumption DEF Answer
<1>2. CASE ans = "none"
  BY <1>2 DEF Level, Driving
<1>3. CASE ans = "this"
  <2>1. t <= 0
    BY <1>3 DEF Place, Current
  <2>2. CASE t = 0
    <3>1. Driving
      BY <1>1, <1>3, <2>2 DEF Driving
    <3>2. Level = {0}
      BY <2>2, <3>1 DEF Level
    <3> QED BY <1>3, <2>2, <3>2
  <2>3. CASE t < 0
    <3>1. ~Driving
      BY <1>1, <2>3 DEF Driving
    <3>2. Level = {1}
      BY <3>1 DEF Level
    <3> QED BY <1>1, <2>3, <3>2
  <2> QED BY <1>1, <2>1, <2>2, <2>3
<1>4. CASE ans = "older"
  <2>1. t = MSG_BITS - 1
    BY <1>1, <1>4 DEF Answer, Place, Late
  <2>2. Level = {1}
    BY <1>1, <2>1 DEF Level
  <2> QED BY <1>4, <2>2
<1> QED BY <1>2, <1>3, <1>4 DEF Answer

-----------------------------------------------------------------------------
(* Host and chip keep the invariant.                                       *)

LEMMA PhaseStep ==
  ASSUME Phase, [Next]_vars
  PROVE  Phase'
<1> USE SdioCmdAssumption DEF Phase, Then
<1>1. CASE Operation
  BY <1>1 DEF Operation
<1>2. CASE TurnClock
  BY <1>2 DEF TurnClock, host
<1>3. CASE Lead
  BY <1>3 DEF Lead
<1>4. CASE Rest
  BY <1>4 DEF Rest
<1>5. CASE SendBit
  BY <1>5 DEF SendBit
<1>6. CASE LastBit
  BY <1>6 DEF LastBit
<1>7. CASE StartBit
  BY <1>7 DEF StartBit
<1>8. CASE Wait
  BY <1>8 DEF Wait
<1>9. CASE GiveUp
  BY <1>9 DEF GiveUp, EndCommand
<1>10. CASE ReadBits
  BY <1>10 DEF ReadBits, EndCommand
<1>11. CASE UNCHANGED vars
  BY <1>11 DEF vars, host
<1> QED
  BY <1>1, <1>2, <1>3, <1>4, <1>5, <1>6, <1>7, <1>8, <1>9, <1>10, <1>11 DEF Next

\* From either level of the clock, a command begins with the clock low.
LEMMA ClockStep ==
  ASSUME Phase, Clocked, [Next]_vars
  PROVE  Clocked'
<1>0. k \in Nat /\ clkval \in {0, 1} /\ clk = clkval /\ MSG_BITS \in Nat
  BY SdioCmdAssumption DEF Phase, Clocked, AllBitsClocked
<1>1. CASE TurnClock
  BY <1>0, <1>1 DEF TurnClock, Toggle, host, Clocked, AllBitsClocked
<1>2. CASE Lead
  BY <1>0, <1>2 DEF Lead, Toggle, Then, Clocked, AllBitsClocked
<1>3. CASE Rest
  <2>1. pc' = "send" /\ k' = MSG_BITS /\ seen' = 0
    BY <1>3 DEF Rest, Then
  <2>2. clkval' = 0 /\ clk' = 0
    BY <1>0, <1>3 DEF Rest, Toggle, clock
  <2> QED BY <1>0, <2>1, <2>2 DEF Clocked, AllBitsClocked
<1>4. CASE SendBit
  BY <1>0, <1>4 DEF SendBit, Then, Clocked, AllBitsClocked
<1>5. CASE LastBit
  BY <1>0, <1>5 DEF LastBit, Then, Clocked, AllBitsClocked
<1>6. CASE /\ UNCHANGED clock
           /\ pc' # "send"
           /\ pc' \in {"listen", "bits"} => pc \in {"listen", "bits"}
           /\ pc' = "listen" => pc = "listen" /\ seen' = seen
  BY <1>0, <1>6 DEF clock, Clocked, AllBitsClocked
<1>7. CASE UNCHANGED vars
  BY <1>7 DEF vars, host, clock, Clocked, AllBitsClocked
<1>8. Operation \/ StartBit \/ Wait \/ GiveUp \/ ReadBits
      => /\ UNCHANGED clock
         /\ pc' # "send"
         /\ pc' \in {"listen", "bits"} => pc \in {"listen", "bits"}
         /\ pc' = "listen" => pc = "listen" /\ seen' = seen
  BY DEF Operation, StartBit, Wait, GiveUp, ReadBits, EndCommand, Then
<1> QED BY <1>1, <1>2, <1>3, <1>4, <1>5, <1>6, <1>7, <1>8 DEF Next

LEMMA AnswerStep ==
  ASSUME Answer, Clocked, [Next]_vars
  PROVE  Answer'
<1>0. MSG_BITS \in Nat /\ MSG_BITS > 2
  BY SdioCmdAssumption
<1>1. CASE UNCHANGED <<ans, t>> /\ tardy' \in BOOLEAN
  BY <1>1 DEF Answer
<1>2. CASE ChipCycle /\ tardy' \in BOOLEAN
  BY <1>0, <1>2, Cycle DEF Answer
<1>3. CASE Toggle /\ tardy' \in BOOLEAN
  BY <1>0, <1>3, HalfCycle DEF Answer
<1>4. CASE EndCommand /\ tardy' \in BOOLEAN
  BY <1>0, <1>4, CommandEnds DEF Answer
<1>5. CASE Operation
  BY <1>1, <1>5 DEF Operation, Answer
<1>6. CASE LastBit
  <2>1. CASE (ChipCycle \/ UNCHANGED <<ans, t>>) /\ UNCHANGED tardy
    BY <1>1, <1>2, <2>1 DEF Answer
  <2>2. CASE \E d \in Latencies : t' = 1 - d /\ ans' = "this" /\ tardy' = (tardy \/ TooLate(d))
    <3>1. PICK d \in Latencies : t' = 1 - d /\ ans' = "this" /\ tardy' = (tardy \/ TooLate(d))
      BY <2>2
    <3>2. d \in Nat \ {0}
      BY SdioCmdAssumption
    <3> QED BY <1>0, <3>1, <3>2 DEF Answer
  <2>3. \/ (ChipCycle \/ UNCHANGED <<ans, t>>) /\ UNCHANGED tardy
        \/ \E d \in Latencies : t' = 1 - d /\ ans' = "this" /\ tardy' = (tardy \/ TooLate(d))
    BY <1>6 DEF LastBit
  <2> QED BY <2>1, <2>2, <2>3
<1>7. ASSUME TurnClock \/ Lead \/ Rest \/ SendBit \/ StartBit \/ Wait \/ GiveUp \/ ReadBits
             \/ UNCHANGED vars
      PROVE  tardy' = tardy /\ (Toggle \/ ChipCycle \/ EndCommand \/ UNCHANGED <<ans, t>>)
  BY <1>7 DEF TurnClock, Lead, Rest, SendBit, StartBit, Wait, GiveUp, ReadBits, vars
<1>8. tardy \in BOOLEAN
  BY DEF Answer
<1> QED BY <1>1, <1>2, <1>3, <1>4, <1>5, <1>6, <1>7, <1>8 DEF Next

\* Only an operation that begins on a silent line ends the effect of an answer
\* that began too late.
LEMMA TardyStep ==
  ASSUME Answer, [Next]_vars, ~tardy'
  PROVE  ~tardy \/ (Operation /\ ans = "none")
<1>1. CASE Operation
  BY <1>1 DEF Operation
<1>2. CASE LastBit
  BY <1>2 DEF LastBit
<1>3. TurnClock \/ Lead \/ Rest \/ SendBit \/ StartBit \/ Wait \/ GiveUp \/ ReadBits
        \/ UNCHANGED vars
      => tardy' = tardy
  BY DEF TurnClock, Lead, Rest, SendBit, StartBit, Wait, GiveUp, ReadBits, vars
<1> QED BY <1>1, <1>2, <1>3 DEF Next

LEMMA PlaceStep ==
  ASSUME Phase, Answer, Clocked, Place, [Next]_vars, ~tardy'
  PROVE  Place'
<1>0. /\ MSG_BITS \in Nat /\ MSG_BITS > 2 /\ RSP_WAIT \in Nat
      /\ t \in Int /\ k \in Nat /\ t < MSG_BITS /\ clkval \in {0, 1}
      /\ ans \in {"none", "this", "older"}
  BY SdioCmdAssumption DEF Answer, Phase, Clocked
<1>1. CASE Operation
  <2>1. pc = "idle" /\ pc' = "lead" /\ k' = 4 /\ ans' = ans /\ t' = t /\ clkval' = clkval
    BY <1>1 DEF Operation, Then, clock
  <2> QED BY <1>0, <2>1 DEF Place, Current, Late
<1>2. CASE TurnClock
  <2>1. pc = "idle" /\ pc' = "idle" /\ k' = k /\ Toggle
    BY <1>2 DEF TurnClock, host
  <2> QED BY <1>0, <2>1, HalfCycle DEF Place, Current, Late
<1>3. CASE Lead
  <2>1. pc = "lead" /\ k > 0 /\ pc' = "lead" /\ k' = k - 1 /\ Toggle
    BY <1>3 DEF Lead, Then
  <2> QED BY <1>0, <2>1, HalfCycle DEF Place, Current, Late
<1>4. CASE Rest
  <2>1. pc = "lead" /\ k = 0 /\ pc' = "send" /\ k' = MSG_BITS
    BY <1>4 DEF Rest, Then
  <2>2. ans' = ans /\ t' = t
    <3>1. CASE clkval = 1
      BY <1>4, <3>1, HalfCycle DEF Rest
    <3>2. CASE clkval # 1
      BY <1>4, <3>2 DEF Rest
    <3> QED BY <3>1, <3>2
  <2> QED BY <1>0, <2>1, <2>2 DEF Place, Current, Late
<1>5. CASE SendBit
  <2>1. pc = "send" /\ k > 1 /\ pc' = "send" /\ k' = k - 1
    BY <1>5 DEF SendBit, Then
  <2>2. ChipCycle
    BY <1>5, <2>1 DEF SendBit, Clocked, AllBitsClocked
  <2> QED BY <1>0, <2>1, <2>2, Cycle DEF Place, Current, Late
<1>6. CASE LastBit
  <2>1. pc = "send" /\ k = 1 /\ pc' = "listen" /\ k' = RSP_WAIT /\ clk = 0
    BY <1>6 DEF LastBit, Then, Clocked, AllBitsClocked
  <2>2. CASE ChipCycle
    BY <1>0, <2>1, <2>2, Cycle DEF Place, Current, Late
  <2>3. CASE \E d \in Latencies : ans' = "this" /\ t' = 1 - d /\ tardy' = (tardy \/ TooLate(d))
    <3>1. PICK d \in Latencies : ans' = "this" /\ t' = 1 - d /\ tardy' = (tardy \/ TooLate(d))
      BY <2>3
    <3>2. ~TooLate(d)
      BY <3>1
    <3>3. d \in Nat \ {0} /\ d <= RSP_WAIT + 4
      BY <1>0, <3>2, SdioCmdAssumption DEF TooLate
    <3> QED BY <1>0, <2>1, <3>1, <3>3 DEF Place, Current, Late
  <2> QED BY <1>6, <2>1, <2>2, <2>3 DEF LastBit
<1>7. CASE StartBit
  <2>1. pc = "listen" /\ pc' = "bits" /\ k' = MSG_BITS - 1 /\ ans = "this" /\ t = 0
    BY <1>7, Levels DEF StartBit, Then
  <2>2. ans' = "this" /\ t' = 1
    BY <1>0, <1>7, <2>1 DEF StartBit, ChipCycle
  <2> QED BY <1>0, <2>1, <2>2 DEF Place, Current, Late
<1>8. CASE Wait
  <2>1. /\ pc = "listen" /\ k > 1 /\ pc' = "listen" /\ k' = k - 1
        /\ ~(ans = "this" /\ t = 0) /\ ChipCycle
    BY <1>8, Levels DEF Wait, Then
  <2> QED BY <1>0, <2>1, Cycle DEF Place, Current, Late
<1>9. CASE GiveUp
  <2>1. pc = "listen" /\ k = 1 /\ EndCommand /\ clkval' = 0
    BY <1>9 DEF GiveUp, clock, Clocked
  <2> QED BY <1>0, <2>1, CommandEnds DEF Place, Current, Late
<1>10. CASE ReadBits
  <2>1. pc = "bits" /\ ans = "this" /\ t = MSG_BITS - k
    BY <1>10 DEF ReadBits, Place, Current
  <2>2. CASE k > 1
    <3>1. pc' = "bits" /\ k' = k - 1 /\ ChipCycle
      BY <1>10, <2>2 DEF ReadBits, Then
    <3>2. ans' = "this" /\ t' = t + 1
      BY <1>0, <2>1, <2>2, <3>1 DEF ChipCycle
    <3> QED BY <1>0, <2>1, <2>2, <3>1, <3>2 DEF Place, Current, Late
  <2>3. CASE k = 1
    <3>1. EndCommand /\ t = MSG_BITS - 1
      BY <1>0, <1>10, <2>1, <2>3 DEF ReadBits
    <3> QED BY <1>0, <3>1, CommandEnds DEF Place, Current, Late
  <2> QED BY <1>0, <2>1, <2>2, <2>3 DEF Phase
<1>11. CASE UNCHANGED vars
  BY <1>11 DEF vars, host, clock, Place, Current, Late
<1> QED
  BY <1>1, <1>2, <1>3, <1>4, <1>5, <1>6, <1>7, <1>8, <1>9, <1>10, <1>11 DEF Next

LEMMA AStep ==
  ASSUME AInv, [Next]_vars
  PROVE  AInv'
<1>1. Phase' /\ Answer' /\ Clocked'
  BY PhaseStep, AnswerStep, ClockStep DEF AInv
<1>2. ASSUME ~tardy' PROVE Place'
  <2>1. CASE ~tardy
    BY <1>2, <2>1, PlaceStep DEF AInv
  <2>2. CASE Operation /\ ans = "none"
    BY <2>2 DEF Operation, Then, Place
  <2> QED BY <1>2, <2>1, <2>2, TardyStep DEF AInv
<1> QED BY <1>1, <1>2 DEF AInv

\* What a command is given is its own answer or nothing.
LEMMA HeardStep ==
  ASSUME AInv, Heard, [Next]_vars
  PROVE  Heard'
<1>1. CASE Operation
  BY <1>1 DEF Operation, Heard, OwnAnswers
<1>2. ASSUME NEW x \in {"own", "other", "nothing"}, heard' = Append(heard, x),
             tardy' \/ (x # "other" /\ ~tardy)
      PROVE  Heard'
  <2>1. heard \in Seq({"own", "other", "nothing"})
    BY DEF Heard
  <2>2. Append(heard, x) \in Seq({"own", "other", "nothing"})
    BY <2>1
  <2>3. CASE tardy'
    BY <1>2, <2>2, <2>3 DEF Heard, OwnAnswers
  <2>4. CASE x # "other" /\ ~tardy
    <3>1. \A i \in DOMAIN heard : heard[i] # "other"
      BY <2>4 DEF Heard, OwnAnswers
    <3>2. \A i \in DOMAIN Append(heard, x) : Append(heard, x)[i] # "other"
      BY <2>1, <2>4, <3>1
    <3> QED BY <1>2, <2>2, <3>2 DEF Heard, OwnAnswers
  <2> QED BY <1>2, <2>3, <2>4
<1>3. CASE StartBit
  <2>1. CASE tardy
    BY <1>2, <1>3, <2>1 DEF StartBit
  <2>2. CASE ~tardy
    <3>1. ans = "this" /\ t = 0
      BY <1>3, <2>2, Levels DEF StartBit, AInv
    <3> QED BY <1>2, <1>3, <2>2, <3>1 DEF StartBit
  <2> QED BY <2>1, <2>2
<1>4. CASE GiveUp
  <2>1. tardy' = tardy /\ tardy \in BOOLEAN /\ heard' = Append(heard, "nothing")
    BY <1>4 DEF GiveUp, AInv, Answer
  <2> QED BY <1>2, <2>1
<1>5. CASE UNCHANGED heard /\ (tardy' \/ ~tardy)
  BY <1>5 DEF Heard, OwnAnswers
<1>6. TurnClock \/ Lead \/ Rest \/ SendBit \/ LastBit \/ Wait \/ ReadBits \/ UNCHANGED vars
      => UNCHANGED heard
  BY DEF TurnClock, host, Lead, Rest, SendBit, LastBit, Wait, ReadBits, vars
<1>7. tardy' \/ ~tardy \/ Operation
  BY TardyStep DEF AInv
<1> QED BY <1>1, <1>3, <1>4, <1>5, <1>6, <1>7 DEF Next

\* How a step moves the count of answers in time and that of bits read.
LEMMA OwedStep ==
  ASSUME Phase, Answer, Place, prompt \in Nat, [Next]_vars, ~tardy'
  PROVE  \/ n' = 0 /\ prompt' = 0 /\ Owed' = 0
         \/ n' = n /\ prompt' = prompt /\ Owed' = Owed
         \/ n' = n /\ prompt' = prompt + 1 /\ Owed = 0 /\ Owed' = 1
         \/ n' = n + MSG_BITS /\ prompt' = prompt /\ Owed = 1 /\ Owed' = 0
<1>0. /\ MSG_BITS \in Nat /\ MSG_BITS > 2 /\ RSP_WAIT \in Nat
      /\ t \in Int /\ k \in Nat /\ t < MSG_BITS
  BY SdioCmdAssumption DEF Answer, Phase
<1>1. CASE Operation
  BY <1>1 DEF Operation, Then, Owed
<1>2. CASE TurnClock
  BY <1>2 DEF TurnClock, host, Owed
<1>3. CASE Lead \/ Rest
  <2>1. pc = "lead" /\ pc' \in {"lead", "send"} /\ n' = n /\ prompt' = prompt
    BY <1>3 DEF Lead, Rest, Then
  <2> QED BY <2>1 DEF Owed
<1>4. CASE SendBit
  BY <1>4 DEF SendBit, Then, Owed
<1>5. CASE LastBit
  <2>1. pc = "send" /\ pc' = "listen" /\ k' = RSP_WAIT /\ n' = n /\ ans # "this"
    BY <1>5 DEF LastBit, Then, Place, Current
  <2>2. Owed = 0
    BY <2>1 DEF Owed
  <2>3. CASE (ChipCycle \/ UNCHANGED ans) /\ UNCHANGED prompt
    <3>1. ans' # "this"
      BY <2>1, <2>3 DEF ChipCycle
    <3> QED BY <2>1, <2>2, <2>3, <3>1 DEF Owed
  <2>4. CASE /\ ans' = "this"
             /\ \E d \in Latencies : /\ t' = 1 - d
                                  /\ prompt' = prompt + (IF d <= RSP_WAIT THEN 1 ELSE 0)
    <3>1. PICK d \in Latencies : /\ t' = 1 - d
                              /\ prompt' = prompt + (IF d <= RSP_WAIT THEN 1 ELSE 0)
      BY <2>4
    <3>2. d \in Nat
      BY SdioCmdAssumption
    <3>3. CASE d <= RSP_WAIT
      <4>1. t' + k' >= 1
        BY <1>0, <2>1, <3>1, <3>2, <3>3
      <4> QED BY <2>1, <2>2, <2>4, <3>1, <3>3, <4>1 DEF Owed
    <3>4. CASE ~(d <= RSP_WAIT)
      <4>1. ~(t' + k' >= 1)
        BY <1>0, <2>1, <3>1, <3>2, <3>4
      <4> QED BY <2>1, <2>2, <2>4, <3>1, <3>4, <4>1 DEF Owed
    <3> QED BY <3>3, <3>4
  <2> QED BY <1>5, <2>3, <2>4 DEF LastBit
<1>6. CASE StartBit
  <2>1. /\ pc = "listen" /\ pc' = "bits" /\ n' = n /\ prompt' = prompt
        /\ ans = "this" /\ t = 0 /\ k > 0
    BY <1>6, Levels DEF StartBit, Then, Phase
  <2> QED BY <1>0, <2>1 DEF Owed
<1>7. CASE Wait
  <2>1. /\ pc = "listen" /\ pc' = "listen" /\ k' = k - 1 /\ n' = n /\ prompt' = prompt
        /\ ChipCycle
    BY <1>7 DEF Wait, Then
  <2>2. CASE ans = "this"
    <3>1. t <= 0
      BY <2>1, <2>2 DEF Place, Current
    <3>2. ans' = "this" /\ t' = t + 1
      BY <1>0, <2>1, <2>2, <3>1 DEF ChipCycle
    <3>3. t' + k' >= 1 <=> t + k >= 1
      BY <1>0, <2>1, <3>2
    <3> QED BY <2>1, <2>2, <3>2, <3>3 DEF Owed
  <2>3. CASE ans # "this"
    <3>1. ans' # "this"
      BY <2>1, <2>3 DEF ChipCycle
    <3> QED BY <2>1, <2>3, <3>1 DEF Owed
  <2> QED BY <2>2, <2>3
<1>8. CASE GiveUp
  <2>1. /\ pc = "listen" /\ k = 1 /\ n' = n /\ prompt' = prompt
        /\ EndCommand /\ ~(ans = "this" /\ t = 0)
    BY <1>8, Levels DEF GiveUp
  <2>2. pc' \in {"lead", "idle"}
    BY <2>1 DEF EndCommand, Then
  <2>3. ans = "this" => t < 0
    BY <1>0, <2>1 DEF Place, Current
  <2>4. Owed = 0
    BY <1>0, <2>1, <2>3 DEF Owed
  <2>5. Owed' = 0
    BY <2>2 DEF Owed
  <2> QED BY <2>1, <2>4, <2>5
<1>9. CASE ReadBits
  <2>1. pc = "bits" /\ prompt' = prompt
    BY <1>9 DEF ReadBits
  <2>2. CASE k > 1
    BY <1>9, <2>1, <2>2 DEF ReadBits, Then, Owed
  <2>3. CASE ~(k > 1)
    <3>1. EndCommand /\ n' = n + MSG_BITS
      BY <1>9, <2>3 DEF ReadBits
    <3>2. pc' \in {"lead", "idle"}
      BY <3>1 DEF EndCommand, Then
    <3> QED BY <2>1, <3>1, <3>2 DEF Owed
  <2> QED BY <2>2, <2>3
<1>10. CASE UNCHANGED vars
  BY <1>10 DEF vars, host, Owed
<1> QED
  BY <1>1, <1>2, <1>3, <1>4, <1>5, <1>6, <1>7, <1>8, <1>9, <1>10 DEF Next

LEMMA PromptStep ==
  ASSUME prompt \in Nat, [Next]_vars
  PROVE  prompt' \in Nat
<1>1. CASE Operation
  BY <1>1 DEF Operation
<1>2. CASE LastBit
  BY <1>2 DEF LastBit
<1>3. TurnClock \/ Lead \/ Rest \/ SendBit \/ StartBit \/ Wait \/ GiveUp \/ ReadBits
        \/ UNCHANGED vars
      => prompt' = prompt
  BY DEF TurnClock, host, Lead, Rest, SendBit, StartBit, Wait, GiveUp, ReadBits, vars
<1> QED BY <1>1, <1>2, <1>3 DEF Next

LEMMA CountedStep ==
  ASSUME AInv, Counted, [Next]_vars
  PROVE  Counted'
<1>0. prompt \in Nat /\ prompt' \in Nat
  BY PromptStep DEF Counted
<1>1. CASE tardy'
  BY <1>0, <1>1 DEF Counted
<1>2. CASE ~tardy' /\ Operation
  <2>1. n' = 0 /\ prompt' = 0 /\ Owed' = 0
    BY <1>2 DEF Operation, Then, Owed
  <2> QED BY <2>1, SdioCmdAssumption DEF Counted
<1>3. CASE ~tardy' /\ ~tardy
  <2>1. PICK m : m = n'
    OBVIOUS
  <2>2. PICK p : p = prompt'
    OBVIOUS
  <2>3. PICK o : o = Owed'
    OBVIOUS
  <2>4. Owed \in {0, 1} /\ MSG_BITS \in Nat /\ n = MSG_BITS * (prompt - Owed)
    BY <1>3, SdioCmdAssumption DEF Counted, Owed
  <2>5. \/ m = 0 /\ p = 0 /\ o = 0
        \/ m = n /\ p = prompt /\ o = Owed
        \/ m = n /\ p = prompt + 1 /\ Owed = 0 /\ o = 1
        \/ m = n + MSG_BITS /\ p = prompt /\ Owed = 1 /\ o = 0
    BY <1>0, <1>3, <2>1, <2>2, <2>3, OwedStep DEF AInv
  <2>6. m = MSG_BITS * (p - o)
    BY <1>0, <2>4, <2>5
  <2> QED BY <1>0, <2>1, <2>2, <2>3, <2>6 DEF Counted
<1> QED BY <1>1, <1>2, <1>3, TardyStep DEF AInv

-----------------------------------------------------------------------------
(* Theorems.                                                               *)

LEMMA Initially == Init => IInv
<1> SUFFICES ASSUME Init PROVE IInv
  OBVIOUS
<1>1. Phase /\ Clocked
  BY DEF Init, Phase, Clocked, AllBitsClocked
<1>2. Answer
  <2>1. t = 0 /\ 0 < MSG_BITS
    BY SdioCmdAssumption DEF Init
  <2>2. ans = "none" /\ tardy \in BOOLEAN
    BY DEF Init
  <2> QED BY <2>1, <2>2, SdioCmdAssumption DEF Answer
<1>3. Place
  BY DEF Init, Place
<1>4. Heard
  BY DEF Init, Heard, OwnAnswers
<1>5. Counted
  BY SdioCmdAssumption DEF Init, Counted, Owed
<1> QED BY <1>1, <1>2, <1>3, <1>4, <1>5 DEF IInv, AInv

LEMMA Preserved == IInv /\ [Next]_vars => IInv'
  BY AStep, HeardStep, CountedStep DEF IInv

\* However long messages, wait and operations are: until an answer begins more
\* than four cycles after the host has given it up, sdio_rsp_read takes nothing
\* for a response but the response to the command just sent; and so it is again
\* from the first operation that begins on a silent line.  Four cycles is what
\* the two idle cycles of sdio_cmd_rsp and the length of a command leave.
THEOREM NoStaleAnswer == Spec => []OwnAnswers
<1>1. IInv => OwnAnswers
  BY DEF IInv, Heard
<1> QED BY Initially, Preserved, <1>1, PTL DEF Spec

\* Whatever level the loop of main leaves the clock at, the turns of clk_0 bring
\* it low, and every bit of a command is clocked into the chip.
THEOREM BitsReachChip == Spec => []AllBitsClocked
<1>1. IInv => AllBitsClocked
  BY DEF IInv, AInv, Clocked
<1> QED BY Initially, Preserved, <1>1, PTL DEF Spec

\* Under the condition of NoStaleAnswer, the sum sdio_cmd52_writes and
\* sdio_cmd52_reads return is the number of commands answered in time, each
\* counted MSG_BITS.
THEOREM ResultsCount == Spec => []CountsAnswers
<1>1. IInv => CountsAnswers
  BY SdioCmdAssumption DEF IInv, AInv, Answer, Counted, Owed, CountsAnswers
<1> QED BY Initially, Preserved, <1>1, PTL DEF Spec
=============================================================================
