----------------------------- MODULE HostProofs -----------------------------
(***************************************************************************)
(* Proofs about the parts that are the host's own: Timer, for every width  *)
(* of the counter and all delays; MsgLog, for every size of the ring;      *)
(* Gpio, for all pulls at power-on and values on the data lines; SdioCrc,  *)
(* for every command and every block, of any length, and for errors        *)
(* within the 16 bits of a line that its CRC covers.                       *)
(***************************************************************************)
EXTENDS Timer, MsgLog, Gpio, SdioCrc, SequenceTheorems, WellFoundedInduction, TLAPS

-----------------------------------------------------------------------------
(* The timer.                                                              *)

\* The counter is ahead of ticks by the time elapsed, modulo its range, and
\* that is less than half the range.
Ahead ==
  /\ usec = ticks + elapsed \/ usec = ticks + elapsed - Wrap
  /\ elapsed < idle + delay

TimerInv == TimerTypeOK /\ Ahead

LEMMA DelayFacts ==
  ASSUME NEW d \in Delays
  PROVE  d \in Nat \ {0} /\ 2 * (d + MaxIdle) <= Wrap
BY TimerAssumption

\* The signed difference is the time elapsed.
LEMMA SinceElapsed ==
  ASSUME TimerInv
  PROVE  Since(usec) = elapsed /\ (Expired <=> elapsed >= delay)
<1>1. delay \in Nat \ {0} /\ 2 * (delay + MaxIdle) <= Wrap
  BY DelayFacts DEF TimerInv, TimerTypeOK
<1>2. 2 * elapsed < Wrap
  BY <1>1, TimerAssumption DEF TimerInv, TimerTypeOK, Ahead
<1>3. Since(usec) = elapsed
  BY <1>2, TimerAssumption DEF TimerInv, TimerTypeOK, Ahead, Since
<1> QED BY <1>3 DEF Expired

LEMMA InitTimerInv == TimerInit => TimerInv
BY DelayFacts, TimerAssumption DEF TimerInit, TimerInv, TimerTypeOK, Ahead

\* A delay that starts.
LEMMA Restart ==
  ASSUME TimerInv, usec' = usec, ticks' = usec, elapsed' = 0, idle' = 0, delay' \in Delays,
         fired' \in BOOLEAN
  PROVE  TimerInv'
<1>1. PICK d \in Delays : delay' = d
  OBVIOUS
<1>2. 0 < 0 + d
  BY DelayFacts
<1>3. Ahead'
  BY <1>1, <1>2 DEF TimerInv, TimerTypeOK, Ahead
<1> QED BY <1>3, TimerAssumption DEF TimerInv, TimerTypeOK

LEMMA StepTimerInv == TimerInv /\ [TimerNext]_timerVars => TimerInv'
<1> SUFFICES ASSUME TimerInv, [TimerNext]_timerVars PROVE TimerInv'
  OBVIOUS
<1> USE TimerAssumption
<1>1. CASE Microsecond
  BY <1>1, DelayFacts DEF TimerInv, TimerTypeOK, Ahead, Microsecond
<1>2. CASE Start
  BY <1>2, Restart DEF TimerInv, TimerTypeOK, Start
<1>3. CASE ustimeout
  <2>1. fired' \in BOOLEAN
    <3>1. fired' = Expired
      BY <1>3 DEF ustimeout
    <3>2. Expired \in BOOLEAN
      BY DEF Expired
    <3> QED BY <3>1, <3>2
  <2>2. CASE Expired
    <3>1. usec' = usec /\ ticks' = usec /\ elapsed' = 0 /\ idle' = 0 /\ delay' \in Delays
      BY <1>3, <2>2 DEF ustimeout
    <3> QED BY <2>1, <3>1, Restart DEF TimerInv, TimerTypeOK
  <2>3. CASE ~Expired
    <3>1. elapsed < delay
      <4>1. ~(elapsed >= delay)
        BY <2>3, SinceElapsed, Zenon
      <4> QED BY <4>1, DelayFacts DEF TimerInv, TimerTypeOK
    <3>2. /\ usec' = usec /\ ticks' = ticks /\ elapsed' = elapsed /\ idle' = 0
          /\ delay' = delay
      BY <1>3, <2>3 DEF ustimeout
    <3>3. Ahead'
      BY <3>1, <3>2, DelayFacts DEF TimerInv, TimerTypeOK, Ahead
    <3> QED BY <2>1, <3>2, <3>3 DEF TimerInv, TimerTypeOK
  <2> QED BY <2>2, <2>3
<1>4. CASE UNCHANGED timerVars
  BY <1>4 DEF TimerInv, TimerTypeOK, Ahead, timerVars
<1> QED BY <1>1, <1>2, <1>3, <1>4 DEF TimerNext

\* Every variable keeps its type: counter and ticks stay words.
THEOREM TimerTypeCorrect == TimerSpec => []TimerTypeOK
<1>1. TimerInv => TimerTypeOK
  BY DEF TimerInv
<1> QED BY InitTimerInv, StepTimerInv, <1>1, PTL DEF TimerSpec

\* ustimeout ends every delay on time, across the wrap of the counter.
THEOREM DelaysOnTime == TimerSpec => OnTime
<1>1. TimerInv => [ustimeout => (fired' <=> elapsed >= delay)]_timerVars
  <2> SUFFICES ASSUME TimerInv, ustimeout PROVE fired' <=> elapsed >= delay
    OBVIOUS
  <2>1. fired' = Expired
    BY DEF ustimeout
  <2>2. Expired <=> elapsed >= delay
    BY SinceElapsed
  <2> QED BY <2>1, <2>2, Zenon
<1> QED BY InitTimerInv, StepTimerInv, <1>1, PTL DEF TimerSpec, OnTime

-----------------------------------------------------------------------------
(* The message log.                                                        *)

Records == {Msg(b) : b \in Msgs} \union {Data(n, ok) : n \in DataLens, ok \in BOOLEAN}
             \union {Ack(v) : v \in {0, 5}}

\* How many records are kept, and in which slot the i-th of them is.
NKept  == (log_idx + LogSize - log_start) % LogSize
Pos(i) == (log_start + i - 1) % LogSize

\* What the ring holds are the last records logged: all of them until there
\* are as many as slots but one.
LogInv ==
  /\ log_idx \in 0..LogSize-1 /\ log_start \in 0..LogSize-1
  /\ msglog \in [0..LogSize-1 -> Int \X Int]
  /\ since \in Seq(Records)
  /\ NKept = IF Len(since) < LogSize THEN Len(since) ELSE LogSize - 1
  /\ \A i \in 1..NKept : Show(msglog[Pos(i)]) = since[Len(since) - NKept + i]

\* The two bytes of a length.
LEMMA LengthBytes ==
  ASSUME NEW n \in 0 .. 62 * 256 - 1
  PROVE  /\ n \div 256 \in 0..61 /\ (n % 256) \in 0..255
         /\ n = (n \div 256) * 256 + (n % 256)
<1>1. n \in Nat /\ n <= 15871
  OBVIOUS
<1>2. (n % 256) \in 0..255
  BY <1>1
<1>3. n = (n \div 256) * 256 + (n % 256)
  BY <1>1
<1>4. n \div 256 \in 0..61
  BY <1>1
<1> QED BY <1>2, <1>3, <1>4

\* A slot is shown as what was stored in it: no kind of record is taken for
\* another.
LEMMA RoundTrip ==
  ASSUME NEW r \in Records
  PROVE  Slot(r) \in Int \X Int /\ Show(Slot(r)) = r
<1>1. ASSUME NEW b \in Msgs, r = Msg(b)
      PROVE  Slot(r) \in Int \X Int /\ Show(Slot(r)) = r
  <2>1. b \in 0..127
    BY MsgLogAssumption
  <2>2. Slot(r) = <<b, 0>>
    BY <1>1 DEF Slot, Msg
  <2> QED BY <1>1, <2>1, <2>2 DEF Show, LOG_DATA_ACK
<1>2. ASSUME NEW n \in DataLens, NEW ok \in BOOLEAN, r = Data(n, ok)
      PROVE  Slot(r) \in Int \X Int /\ Show(Slot(r)) = r
  <2>1. n \in 0 .. 62 * 256 - 1
    BY MsgLogAssumption
  <2> DEFINE b == (n \div 256) + 128 + IF ok THEN 64 ELSE 0
  <2>2. Slot(r) = <<b, n % 256>>
    BY <1>2 DEF Slot, Data
  <2>3. /\ b \in 128..253 /\ (n % 256) \in 0..255
        /\ (b % 64) * 256 + (n % 256) = n /\ ((b \div 64) % 2 = 1 <=> ok)
    <3>1. /\ n \div 256 \in 0..61 /\ (n % 256) \in 0..255
          /\ n = (n \div 256) * 256 + (n % 256)
      BY <2>1, LengthBytes
    <3>2. CASE ok
      BY <3>1, <3>2
    <3>3. CASE ~ok
      BY <3>1, <3>3
    <3> QED BY <3>2, <3>3
  <2> HIDE DEF b
  <2>4. Show(Slot(r)) = Data((b % 64) * 256 + (n % 256), (b \div 64) % 2 = 1)
    BY <2>2, <2>3 DEF Show, LOG_DATA_ACK
  <2>5. Data((b % 64) * 256 + (n % 256), (b \div 64) % 2 = 1) = Data(n, ok)
    BY <2>3, Zenon DEF Data
  <2> QED BY <1>2, <2>2, <2>3, <2>4, <2>5
<1>3. ASSUME NEW v \in {0, 5}, r = Ack(v)
      PROVE  Slot(r) \in Int \X Int /\ Show(Slot(r)) = r
  BY <1>3 DEF Slot, Show, Ack, LOG_DATA_ACK
<1> QED BY <1>1, <1>2, <1>3 DEF Records

\* Round a ring of n slots: the next one, the distance from s to i, and the
\* k-th from s on.
LEMMA NextSlot ==
  ASSUME NEW n \in Nat \ {0}, NEW i \in 0..n-1
  PROVE  (i + 1) % n = IF i + 1 < n THEN i + 1 ELSE 0
OBVIOUS

LEMMA Distance ==
  ASSUME NEW n \in Nat \ {0}, NEW i \in 0..n-1, NEW s \in 0..n-1
  PROVE  /\ (i + n - s) % n = IF i >= s THEN i - s ELSE i + n - s
         /\ (i + n - s) % n \in 0..n-1
OBVIOUS

LEMMA SlotFrom ==
  ASSUME NEW n \in Nat \ {0}, NEW s \in 0..n-1, NEW k \in 1..n
  PROVE  (s + k - 1) % n = IF s + k - 1 < n THEN s + k - 1 ELSE s + k - 1 - n
OBVIOUS

\* A record that is logged.
LEMMA RecordStep ==
  ASSUME LogInv, NEW r \in Records, Record(r)
  PROVE  LogInv'
<1> DEFINE L == LogSize
<1>1. /\ L \in Nat \ {0, 1} /\ log_idx \in 0..L-1 /\ log_start \in 0..L-1
      /\ since \in Seq(Records) /\ Len(since) \in Nat
  <2>1. Len(since) \in Nat
    BY LenProperties DEF LogInv
  <2> QED BY <2>1, MsgLogAssumption DEF LogInv
<1>2. /\ log_idx' = IF log_idx + 1 < L THEN log_idx + 1 ELSE 0
      /\ log_start' = IF log_start = log_idx' THEN IF log_start + 1 < L THEN log_start + 1 ELSE 0
                                              ELSE log_start
  <2>1. log_idx' = (log_idx + 1) % L
    BY DEF Record, log_incr
  <2>2. log_start' = IF log_start = log_idx' THEN (log_start + 1) % L ELSE log_start
    BY DEF Record, log_incr
  <2>3. log_idx' = IF log_idx + 1 < L THEN log_idx + 1 ELSE 0
    BY <1>1, <2>1, NextSlot
  <2>4. (log_start + 1) % L = IF log_start + 1 < L THEN log_start + 1 ELSE 0
    BY <1>1, NextSlot
  <2> QED BY <2>2, <2>3, <2>4
<1>3. log_idx' \in 0..L-1 /\ log_start' \in 0..L-1
  BY <1>1, <1>2
<1>4. NKept = IF log_idx >= log_start THEN log_idx - log_start ELSE log_idx + L - log_start
  BY <1>1, Distance DEF NKept
<1>5. NKept' = IF log_idx' >= log_start' THEN log_idx' - log_start' ELSE log_idx' + L - log_start'
  BY <1>1, <1>3, Distance DEF NKept
<1>6. NKept' = IF log_start = log_idx' THEN NKept ELSE NKept + 1
  BY <1>1, <1>2, <1>4, <1>5
<1>7. log_start = log_idx' <=> NKept = L - 1
  BY <1>1, <1>2, <1>4
<1>8. /\ since' = Append(since, r) /\ since' \in Seq(Records) /\ Len(since') = Len(since) + 1
      /\ \A i \in 1..Len(since) : since'[i] = since[i]
      /\ since'[Len(since')] = r
  BY <1>1, AppendProperties DEF Record
<1>9. NKept' = IF Len(since') < L THEN Len(since') ELSE L - 1
  <2>1. NKept = IF Len(since) < L THEN Len(since) ELSE L - 1
    BY DEF LogInv
  <2>2. Len(since') = Len(since) + 1
    BY <1>8
  <2>3. CASE Len(since) < L - 1
    <3>1. NKept = Len(since) /\ NKept # L - 1 /\ Len(since') < L
      BY <1>1, <2>1, <2>2, <2>3
    <3> QED BY <1>6, <1>7, <2>2, <3>1
  <2>4. CASE ~(Len(since) < L - 1)
    <3>1. NKept = L - 1 /\ ~(Len(since') < L)
      BY <1>1, <2>1, <2>2, <2>4
    <3> QED BY <1>6, <1>7, <3>1
  <2> QED BY <2>3, <2>4
<1>10. msglog' = [msglog EXCEPT ![log_idx] = Slot(r)] /\ msglog' \in [0..L-1 -> Int \X Int]
  BY <1>1, RoundTrip DEF Record, LogInv
<1>11. ASSUME NEW i \in 1..NKept'
       PROVE  Show(msglog'[Pos(i)']) = since'[Len(since') - NKept' + i]
  <2>1. i \in 1..L /\ i <= NKept' /\ NKept \in 0..L-1 /\ NKept' \in 0..L-1
    <3>1. NKept \in 0..L-1
      BY <1>1, Distance DEF NKept
    <3>2. NKept' \in 0..L-1
      BY <1>1, <1>3, Distance DEF NKept
    <3> QED BY <1>1, <3>1, <3>2
  <2>2. Pos(i)' = IF log_start' + i - 1 < L THEN log_start' + i - 1 ELSE log_start' + i - 1 - L
    BY <1>1, <1>3, <2>1, SlotFrom DEF Pos
  <2>3. CASE i = NKept'
    <3>1. Pos(i)' = log_idx
      BY <1>1, <1>2, <1>3, <1>5, <2>2, <2>3
    <3>2. msglog'[Pos(i)'] = Slot(r)
      BY <1>1, <1>10, <3>1 DEF LogInv
    <3>3. Len(since') - NKept' + i = Len(since')
      BY <1>1, <1>8, <2>1, <2>3, <1>6
    <3> QED BY <1>8, <3>2, <3>3, RoundTrip
  <2>4. CASE i # NKept'
    <3> DEFINE j == IF log_start = log_idx' THEN i + 1 ELSE i
    <3>1. j \in 1..NKept
      BY <1>6, <2>1, <2>4
    <3> HIDE DEF j
    <3>2. Pos(j) = IF log_start + j - 1 < L THEN log_start + j - 1 ELSE log_start + j - 1 - L
      BY <1>1, <2>1, <3>1, SlotFrom DEF Pos
    <3>3. Pos(i)' = Pos(j) /\ Pos(j) \in 0..L-1 /\ Pos(j) # log_idx
      BY <1>1, <1>2, <1>4, <2>1, <2>2, <3>1, <3>2 DEF j
    <3>4. msglog'[Pos(i)'] = msglog[Pos(j)]
      BY <1>10, <3>3 DEF LogInv
    <3>5. Show(msglog[Pos(j)]) = since[Len(since) - NKept + j]
      BY <3>1 DEF LogInv
    <3>6. Len(since) - NKept + j = Len(since') - NKept' + i
      BY <1>1, <1>6, <1>8, <2>1 DEF j
    <3>7. NKept <= Len(since)
      BY <1>1 DEF LogInv
    <3>8. Len(since) - NKept + j \in 1..Len(since)
      BY <1>1, <2>1, <3>1, <3>7
    <3> QED BY <1>8, <3>4, <3>5, <3>6, <3>8
  <2> QED BY <2>3, <2>4
<1> QED BY <1>3, <1>8, <1>9, <1>10, <1>11 DEF LogInv

LEMMA LogStep == LogInv /\ [LogNext]_logVars => LogInv'
<1> SUFFICES ASSUME LogInv, [LogNext]_logVars PROVE LogInv'
  OBVIOUS
<1>1. CASE log_msg \/ log_data \/ log_data_ack
  <2>1. \E r \in Records : Record(r)
    BY <1>1 DEF log_msg, log_data, log_data_ack, Records
  <2> QED BY <2>1, RecordStep
<1>2. CASE disp_log
  <2>1. log_idx' = log_idx /\ log_start' = log_idx /\ msglog' = msglog /\ since' = <<>>
    BY <1>2 DEF disp_log
  <2>2. NKept' = 0
    BY <2>1, MsgLogAssumption, Distance DEF NKept, LogInv
  <2>3. since' \in Seq(Records) /\ Len(since') = 0
    BY <2>1, EmptySeq
  <2>4. \A i \in 1..NKept' : FALSE
    BY <2>2
  <2>5. log_idx' \in 0..LogSize-1 /\ log_start' \in 0..LogSize-1
        /\ msglog' \in [0..LogSize-1 -> Int \X Int]
    BY <2>1 DEF LogInv
  <2>6. NKept' = IF Len(since') < LogSize THEN Len(since') ELSE LogSize - 1
    BY <2>2, <2>3, MsgLogAssumption
  <2> QED BY <2>3, <2>4, <2>5, <2>6 DEF LogInv
<1>3. CASE log_enable \/ UNCHANGED logVars
  BY <1>3 DEF log_enable, logVars, LogInv, NKept, Pos
<1> QED BY <1>1, <1>2, <1>3 DEF LogNext

LEMMA LogStart == LogInit => LogInv
<1> SUFFICES ASSUME LogInit PROVE LogInv
  OBVIOUS
<1>1. NKept = 0
  BY MsgLogAssumption, Distance DEF LogInit, NKept
<1>2. since \in Seq(Records) /\ Len(since) = 0
  BY EmptySeq DEF LogInit
<1>3. msglog \in [0..LogSize-1 -> Int \X Int]
  BY DEF LogInit
<1>4. \A i \in 1..NKept : FALSE
  BY <1>1
<1>5. NKept = IF Len(since) < LogSize THEN Len(since) ELSE LogSize - 1
  BY <1>1, <1>2, MsgLogAssumption
<1>6. log_idx \in 0..LogSize-1 /\ log_start \in 0..LogSize-1
  <2>1. 0 \in 0..LogSize-1
    BY MsgLogAssumption
  <2> QED BY <2>1 DEF LogInit
<1> QED BY <1>2, <1>3, <1>4, <1>5, <1>6 DEF LogInv

\* What a display shows is what the invariant says of the slots.
LEMMA ShownIs == LogInv => ShowsLatest
<1> SUFFICES ASSUME LogInv PROVE ShowsLatest
  OBVIOUS
<1> DEFINE n == Len(since)
<1>1. since \in Seq(Records) /\ n \in Nat /\ LogSize \in Nat \ {0, 1} /\ NKept \in Nat
  <2>1. since \in Seq(Records) /\ n \in Nat
    BY LenProperties DEF LogInv
  <2> QED BY <2>1, MsgLogAssumption DEF LogInv
<1>2. since = [i \in 1..n |-> since[i]]
  BY <1>1
<1>3. Shown = [i \in 1..NKept |-> Show(msglog[Pos(i)])]
  BY DEF Shown, Kept, NKept, Pos
<1>4. Shown = [i \in 1..NKept |-> since[n - NKept + i]]
  BY <1>3 DEF LogInv
<1>5. CASE n < LogSize
  <2>1. NKept = n /\ n <= LogSize - 1
    BY <1>1, <1>5 DEF LogInv
  <2>2. Shown = [i \in 1..n |-> since[i]]
    BY <1>1, <1>4, <2>1
  <2> QED BY <1>2, <2>1, <2>2 DEF ShowsLatest, LastOf
<1>6. CASE ~(n < LogSize)
  <2>1. NKept = LogSize - 1 /\ ~(n <= LogSize - 1)
    BY <1>1, <1>6 DEF LogInv
  <2>2. LastOf(since, LogSize - 1) = SubSeq(since, n - NKept + 1, n)
    BY <1>1, <2>1 DEF LastOf
  <2>3. SubSeq(since, n - NKept + 1, n) = [i \in 1..NKept |-> since[n - NKept + i]]
    <3> DEFINE s == SubSeq(since, n - NKept + 1, n)
               t == [i \in 1..NKept |-> since[n - NKept + i]]
    <3>1. NKept \in 1..n
      BY <1>1, <1>6, <2>1
    <3>2. \A i \in 1..n : since[i] \in Records
      BY <1>1, ElementOfSeq
    <3>3. /\ s \in Seq(Records) /\ Len(s) = NKept
          /\ \A i \in 1..NKept : s[i] = since[n - NKept + i]
      <4>1. \A i \in n - NKept + 1 .. n : since[i] \in Records
        BY <1>1, <3>1, <3>2
      <4>2. /\ s \in Seq(Records)
            /\ Len(s) = IF n - NKept + 1 <= n THEN n - (n - NKept + 1) + 1 ELSE 0
            /\ \A i \in 1 .. n - (n - NKept + 1) + 1 : s[i] = since[n - NKept + 1 + i - 1]
        BY <1>1, <4>1, SubSeqProperties
      <4> QED BY <1>1, <3>1, <4>2
    <3> HIDE DEF s
    <3>4. s = [i \in 1..NKept |-> s[i]]
      BY <3>3, LenProperties
    <3> QED BY <3>3, <3>4 DEF s
  <2> QED BY <1>4, <2>2, <2>3 DEF ShowsLatest
<1> QED BY <1>5, <1>6

\* A display shows the latest records, in order and of the right kind, for any
\* size of the ring, whatever has been logged and displayed before.
THEOREM LogShowsLatest == LogSpec => []ShowsLatest
BY LogStart, LogStep, ShownIs, PTL DEF LogSpec

-----------------------------------------------------------------------------
(* The pins.                                                               *)

\* The calls of the set-up: outputs, inputs and alternate functions, pulls up
\* or none, and the chip's power pin taken up.
SetCalls == [op : {"set"}, pin : Pins, mode : {GPIO_IN, GPIO_OUT, GPIO_ALT0},
             pull : {GPIO_NOPULL, GPIO_PULLUP}]
PinCalls    == SetCalls \union {Out(WLAN_ON_PIN, 1)}

LEMMA SetIsCall ==
  ASSUME NEW pin \in 0..53, NEW m \in {GPIO_IN, GPIO_OUT, GPIO_ALT0},
         NEW pull \in {GPIO_NOPULL, GPIO_PULLUP}
  PROVE  Set(pin, m, pull) \in PinCalls
BY GpioAssumption DEF PinCalls, SetCalls, Set

\* The fourth to eighth of its thirteen calls are for the lines to the chip that
\* are pulled up; after them come the power pin and the first bank.
LEMMA MainCalls ==
  /\ main \in Seq(PinCalls) /\ Len(main) = 13
  /\ \A i \in 4..8 : main[i] = Set(i + 31, GPIO_IN, GPIO_PULLUP)
  /\ main[9] = Out(WLAN_ON_PIN, 1)
  /\ \A i \in 10..13 : main[i].op = "set" /\ main[i].pin \in 8..11
<1> USE DEF GPIO_IN, GPIO_OUT, GPIO_ALT0, GPIO_NOPULL, GPIO_PULLUP
<1> DEFINE a == <<Set(SD_32KHZ_PIN, GPIO_ALT0, GPIO_NOPULL)>>
           b == <<Set(LED_PIN, GPIO_OUT, GPIO_NOPULL)>>
           c == <<Set(SD_CLK_PIN, GPIO_OUT, GPIO_NOPULL), Set(SD_CMD_PIN, GPIO_IN, GPIO_PULLUP)>>
           d == [i \in 1..4 |-> Set(SD_D0_PIN + i - 1, GPIO_IN, GPIO_PULLUP)]
           e == <<Out(WLAN_ON_PIN, 1)>>
           f == flash_init
<1>1. a \in Seq(PinCalls) /\ Len(a) = 1
  BY SetIsCall DEF SD_32KHZ_PIN
<1>2. b \in Seq(PinCalls) /\ Len(b) = 1
  BY SetIsCall DEF LED_PIN
<1>3. /\ c \in Seq(PinCalls) /\ Len(c) = 2
      /\ c[2] = Set(35, GPIO_IN, GPIO_PULLUP)
  BY SetIsCall DEF SD_CLK_PIN, SD_CMD_PIN
<1>4. /\ d \in Seq(PinCalls) /\ Len(d) = 4
      /\ \A i \in 1..4 : d[i] = Set(i + 35, GPIO_IN, GPIO_PULLUP)
  <2>1. \A i \in 1..4 : d[i] = Set(i + 35, GPIO_IN, GPIO_PULLUP)
    BY DEF SD_D0_PIN
  <2>2. \A i \in 1..4 : d[i] \in PinCalls
    BY <2>1, SetIsCall
  <2> QED BY <2>1, <2>2
<1>5. e \in Seq(PinCalls) /\ Len(e) = 1 /\ e[1] = Out(WLAN_ON_PIN, 1)
  BY DEF PinCalls
<1>6. /\ f \in Seq(PinCalls) /\ Len(f) = 4
      /\ \A i \in 1..4 : f[i].op = "set" /\ f[i].pin \in 8..11
  <2>1. /\ Set(8, GPIO_ALT0, GPIO_NOPULL) \in PinCalls /\ Set(9, GPIO_ALT0, GPIO_PULLUP) \in PinCalls
        /\ Set(10, GPIO_ALT0, GPIO_NOPULL) \in PinCalls /\ Set(11, GPIO_ALT0, GPIO_NOPULL) \in PinCalls
    BY SetIsCall
  <2> QED BY <2>1 DEF flash_init, Set
<1> HIDE DEF a, b, c, d, e, f
<1>7. sd_setup = c \o d /\ main = (((a \o b) \o (c \o d)) \o e) \o f
  BY DEF main, osc_init, sd_setup, a, b, c, d, e, f
<1> DEFINE cd == c \o d   ab == a \o b   abcd == ab \o cd   abcde == abcd \o e
<1>8. /\ cd \in Seq(PinCalls) /\ Len(cd) = 6
      /\ \A i \in 2..6 : cd[i] = Set(i + 33, GPIO_IN, GPIO_PULLUP)
  <2>1. /\ cd \in Seq(PinCalls) /\ Len(cd) = Len(c) + Len(d)
        /\ \A i \in 1 .. Len(c) + Len(d) : cd[i] = IF i <= Len(c) THEN c[i] ELSE d[i - Len(c)]
    BY <1>3, <1>4, ConcatProperties
  <2> HIDE DEF cd
  <2> QED BY <1>3, <1>4, <2>1
<1>9. ab \in Seq(PinCalls) /\ Len(ab) = 2
  <2>1. ab \in Seq(PinCalls) /\ Len(ab) = Len(a) + Len(b)
    BY <1>1, <1>2, ConcatProperties
  <2> HIDE DEF ab
  <2> QED BY <1>1, <1>2, <2>1
<1> HIDE DEF cd, ab
<1>10. /\ abcd \in Seq(PinCalls) /\ Len(abcd) = 8
       /\ \A i \in 4..8 : abcd[i] = Set(i + 31, GPIO_IN, GPIO_PULLUP)
  <2>1. /\ abcd \in Seq(PinCalls) /\ Len(abcd) = Len(ab) + Len(cd)
        /\ \A i \in 1 .. Len(ab) + Len(cd) :
              abcd[i] = IF i <= Len(ab) THEN ab[i] ELSE cd[i - Len(ab)]
    BY <1>8, <1>9, ConcatProperties
  <2> HIDE DEF abcd
  <2> QED BY <1>8, <1>9, <2>1
<1> HIDE DEF abcd
<1>11. /\ abcde \in Seq(PinCalls) /\ Len(abcde) = 9
       /\ \A i \in 1..9 : abcde[i] = IF i <= 8 THEN abcd[i] ELSE e[i - 8]
  <2>1. /\ abcde \in Seq(PinCalls) /\ Len(abcde) = Len(abcd) + Len(e)
        /\ \A i \in 1 .. Len(abcd) + Len(e) :
              abcde[i] = IF i <= Len(abcd) THEN abcd[i] ELSE e[i - Len(abcd)]
    BY <1>5, <1>10, ConcatProperties
  <2> HIDE DEF abcde
  <2> QED BY <1>5, <1>10, <2>1
<1> HIDE DEF abcde
<1>12. /\ main \in Seq(PinCalls) /\ Len(main) = 13
       /\ \A i \in 1..13 : main[i] = IF i <= 9 THEN abcde[i] ELSE f[i - 9]
  <2>1. main = abcde \o f
    BY <1>7 DEF ab, cd, abcd, abcde
  <2>2. /\ main \in Seq(PinCalls) /\ Len(main) = Len(abcde) + Len(f)
        /\ \A i \in 1 .. Len(abcde) + Len(f) :
              main[i] = IF i <= Len(abcde) THEN abcde[i] ELSE f[i - Len(abcde)]
    BY <1>6, <1>11, <2>1, ConcatProperties
  <2> QED BY <1>6, <1>11, <2>2
<1>13. \A i \in 4..8 : main[i] = Set(i + 31, GPIO_IN, GPIO_PULLUP)
  <2>1. \A i \in 4..8 : main[i] = abcd[i]
    BY <1>11, <1>12
  <2> QED BY <1>10, <2>1
<1>14. main[9] = Out(WLAN_ON_PIN, 1)
  <2>1. main[9] = e[1]
    BY <1>11, <1>12
  <2> QED BY <1>5, <2>1
<1>15. \A i \in 10..13 : main[i].op = "set" /\ main[i].pin \in 8..11
  <2>1. \A i \in 10..13 : main[i] = f[i - 9] /\ i - 9 \in 1..4
    BY <1>12
  <2> QED BY <1>6, <2>1
<1> QED BY <1>12, <1>13, <1>14, <1>15, Zenon

\* The pins of the second bank that gpio_pull reaches when it is called for
\* the lines to the chip, and those it does not reach from the first bank.
LEMMA PullReaches ==
  /\ {35, 36} \subseteq Selected(35, PullBits(35))
  /\ 38 \in Selected(36, PullBits(36))
  /\ {37, 39} \subseteq Selected(37, PullBits(37))
  /\ \A pin \in 8..11, p \in 35..39 : p \notin Selected(pin, PullBits(pin))
<1>1. {35, 36} \subseteq Selected(35, PullBits(35))
  <2>1. Bit(35, 0) /\ Bit(35, 1)
    BY DEF Bit
  <2> QED BY <2>1, GpioAssumption DEF Selected, PullBits, Shifted
<1>2. 38 \in Selected(36, PullBits(36))
  <2>1. Bit(36, 2)
    BY DEF Bit
  <2> QED BY <2>1, GpioAssumption DEF Selected, PullBits, Shifted
<1>3. {37, 39} \subseteq Selected(37, PullBits(37))
  <2>1. Bit(37, 0) /\ Bit(37, 2)
    BY DEF Bit
  <2> QED BY <2>1, GpioAssumption DEF Selected, PullBits, Shifted
<1>4. \A pin \in 8..11, p \in 35..39 : p \notin Selected(pin, PullBits(pin))
  BY GpioAssumption DEF Selected
<1> QED BY <1>1, <1>2, <1>3, <1>4

\* The call for a line to the chip has been made.
Made(pin) == Len(setup) <= 13 - (pin - 31)

\* Each of the lines has been pulled up when the call that reaches it has been
\* made, which is not always its own.
PulledUp ==
  /\ \A pin \in 35..39 : Made(pin) => pin \in DOMAIN asked /\ asked[pin] = GPIO_PULLUP
  /\ Made(35) => pulls[35] = GPIO_PULLUP /\ pulls[36] = GPIO_PULLUP
  /\ Made(36) => pulls[38] = GPIO_PULLUP
  /\ Made(37) => pulls[37] = GPIO_PULLUP /\ pulls[39] = GPIO_PULLUP

GpioInv ==
  /\ GpioTypeOK
  /\ Len(setup) \in 0..13 /\ setup = SubSeq(main, 14 - Len(setup), 13)
  /\ PulledUp

LEMMA GpioStart == GpioInit => GpioInv
<1> SUFFICES ASSUME GpioInit PROVE GpioInv
  OBVIOUS
<1>1. GpioTypeOK
  BY GpioAssumption DEF GpioInit, GpioTypeOK, GPIO_IN
<1>2. Len(setup) = 13 /\ setup = SubSeq(main, 1, 13)
  BY MainCalls, SubSeqFull DEF GpioInit
<1> QED BY <1>1, <1>2 DEF GpioInv, PulledUp, Made

\* The head of what is left is the next call of main.
LEMMA NextCall ==
  ASSUME GpioInv, setup # <<>>, setup' = Tail(setup)
  PROVE  /\ Len(setup) \in 1..13 /\ Len(setup') = Len(setup) - 1
         /\ Head(setup) = main[14 - Len(setup)] /\ Head(setup) \in PinCalls
         /\ setup' = SubSeq(main, 14 - Len(setup'), 13)
<1>1. main \in Seq(PinCalls) /\ Len(main) = 13 /\ \A i \in 1..13 : main[i] \in PinCalls
  <2>1. main \in Seq(PinCalls) /\ Len(main) = 13
    BY MainCalls
  <2> QED BY <2>1, ElementOfSeq
<1>2. PICK k \in 0..13 : k = Len(setup) /\ setup = SubSeq(main, 14 - k, 13)
  BY DEF GpioInv
<1>3. setup \in Seq(PinCalls)
  <2>1. \A i \in 14 - k .. 13 : main[i] \in PinCalls
    BY <1>1
  <2> QED BY <1>2, <2>1, SubSeqProperties
<1>4. k \in 1..13
  BY <1>2, <1>3, EmptySeq
<1>5. /\ Head(SubSeq(main, 14 - k, 13)) = main[14 - k]
      /\ Tail(SubSeq(main, 14 - k, 13)) = SubSeq(main, 14 - k + 1, 13)
  BY <1>1, <1>4, HeadTailOfSubSeq
<1>6. Len(setup') = k - 1 /\ Head(setup) \in PinCalls
  BY <1>2, <1>3, HeadTailProperties
<1>7. 14 - (k - 1) = 14 - k + 1
  BY <1>4
<1> QED BY <1>2, <1>4, <1>5, <1>6, <1>7

\* A call of gpio_set leaves the types as they are.
LEMMA SetType ==
  ASSUME GpioTypeOK, NEW pin \in Pins, NEW m \in 0..7, NEW pull \in 0..2,
         gpio_set(pin, m, pull)
  PROVE  /\ GpioTypeOK'
         /\ \A p \in Pins : pulls'[p] = IF p \in Selected(pin, PullBits(pin))
                                       THEN pull ELSE pulls[p]
         /\ DOMAIN asked' = DOMAIN asked \union {pin}
         /\ \A p \in DOMAIN asked' : asked'[p] = IF p = pin THEN pull ELSE asked[p]
<1>1. /\ mode' = [mode EXCEPT ![pin] = m] /\ latch' = latch
      /\ pulls' = [p \in Pins |-> IF p \in Selected(pin, PullBits(pin)) THEN pull ELSE pulls[p]]
      /\ asked' = [p \in DOMAIN asked \union {pin} |-> IF p = pin THEN pull ELSE asked[p]]
  BY DEF gpio_set, gpio_mode, gpio_pull
<1>2. mode' \in [Pins -> 0..7] /\ latch' \in [Pins -> {0, 1}]
  BY <1>1 DEF GpioTypeOK
<1>3. pulls' \in [Pins -> 0..2]
  BY <1>1 DEF GpioTypeOK
<1>4. /\ DOMAIN asked' = DOMAIN asked \union {pin}
      /\ \A p \in DOMAIN asked' : asked'[p] = IF p = pin THEN pull ELSE asked[p]
  BY <1>1
<1>5. DOMAIN asked' \subseteq Pins /\ \A p \in DOMAIN asked' : asked'[p] \in 0..2
  BY <1>4 DEF GpioTypeOK
<1> QED BY <1>1, <1>2, <1>3, <1>4, <1>5 DEF GpioTypeOK

LEMMA SetUpStep ==
  ASSUME GpioInv, SetUp
  PROVE  GpioInv'
<1> DEFINE c == Head(setup)
<1>1. /\ Len(setup) \in 1..13 /\ Len(setup') = Len(setup) - 1
      /\ c = main[14 - Len(setup)] /\ c \in PinCalls
      /\ setup' = SubSeq(main, 14 - Len(setup'), 13)
  BY NextCall DEF SetUp
<1> HIDE DEF c
<1>2. PICK i \in 1..13 : Len(setup) = 14 - i
  <2>1. PICK k \in 1..13 : k = Len(setup)
    BY <1>1
  <2>2. 14 - k \in 1..13 /\ k = 14 - (14 - k)
    OBVIOUS
  <2> QED BY <2>1, <2>2
<1>3. Len(setup') = 13 - i /\ Len(setup') \in 0..13 /\ c = main[i]
  <2>1. (14 - i) - 1 = 13 - i /\ 14 - (14 - i) = i /\ 13 - i \in 0..13
    OBVIOUS
  <2> QED BY <1>1, <1>2, <2>1
<1>4. \A pin \in 35..39 : (Made(pin) <=> pin <= i + 30) /\ (Made(pin)' <=> pin <= i + 31)
  BY <1>2, <1>3 DEF Made
<1>5. GpioTypeOK /\ PulledUp
  BY DEF GpioInv
<1>6. CASE c.op = "set" /\ gpio_set(c.pin, c.mode, c.pull)
  <2>1. c \in SetCalls
    BY <1>1, <1>6 DEF PinCalls, Out
  <2>2. c.pin \in Pins /\ c.mode \in 0..7 /\ c.pull \in 0..2
    BY <2>1 DEF SetCalls, GPIO_IN, GPIO_OUT, GPIO_ALT0, GPIO_NOPULL, GPIO_PULLUP
  <2>3. /\ GpioTypeOK'
        /\ \A p \in Pins : pulls'[p] = IF p \in Selected(c.pin, PullBits(c.pin))
                                      THEN c.pull ELSE pulls[p]
        /\ DOMAIN asked' = DOMAIN asked \union {c.pin}
        /\ \A p \in DOMAIN asked' : asked'[p] = IF p = c.pin THEN c.pull ELSE asked[p]
    BY <1>5, <1>6, <2>2, SetType
  <2>4. {35, 36, 37, 38, 39} \subseteq Pins
    BY GpioAssumption
  <2>5. CASE i \in 1..3
    <3>1. \A pin \in 35..39 : ~Made(pin)'
      BY <1>4, <2>5
    <3>2. PulledUp'
      BY <3>1 DEF PulledUp
    <3> QED BY <1>1, <1>3, <2>3, <3>2 DEF GpioInv
  <2>6. CASE i \in 4..8
    <3>1. c.pin = i + 31 /\ c.pull = GPIO_PULLUP
      BY <1>3, <2>6, MainCalls DEF Set
    <3>2. \A pin \in 35..39 :
             Made(pin)' => pin \in DOMAIN asked' /\ asked'[pin] = GPIO_PULLUP
      BY <1>4, <1>5, <2>3, <2>6, <3>1 DEF PulledUp
    <3>3. \A p \in Pins : pulls[p] = GPIO_PULLUP => pulls'[p] = GPIO_PULLUP
      BY <2>3, <3>1
    <3>4. Made(35)' => pulls'[35] = GPIO_PULLUP /\ pulls'[36] = GPIO_PULLUP
      <4>1. CASE i = 4
        BY <2>3, <2>4, <3>1, <4>1, PullReaches
      <4>2. CASE i # 4
        BY <1>4, <1>5, <2>4, <2>6, <3>3, <4>2 DEF PulledUp
      <4> QED BY <4>1, <4>2
    <3>5. Made(36)' => pulls'[38] = GPIO_PULLUP
      <4>1. CASE i = 5
        BY <2>3, <2>4, <3>1, <4>1, PullReaches
      <4>2. CASE i # 5
        BY <1>4, <1>5, <2>4, <2>6, <3>3, <4>2 DEF PulledUp
      <4> QED BY <4>1, <4>2
    <3>6. Made(37)' => pulls'[37] = GPIO_PULLUP /\ pulls'[39] = GPIO_PULLUP
      <4>1. CASE i = 6
        BY <2>3, <2>4, <3>1, <4>1, PullReaches
      <4>2. CASE i # 6
        BY <1>4, <1>5, <2>4, <2>6, <3>3, <4>2 DEF PulledUp
      <4> QED BY <4>1, <4>2
    <3>7. PulledUp'
      BY <3>2, <3>4, <3>5, <3>6 DEF PulledUp
    <3> QED BY <1>1, <1>3, <2>3, <3>7 DEF GpioInv
  <2>7. CASE i \in 9..13
    <3>1. c.pin \in 8..11
      <4>1. i # 9
        BY <1>3, <1>6, MainCalls DEF Out
      <4> QED BY <1>3, <2>7, <4>1, MainCalls
    <3>2. \A p \in 35..39 : pulls'[p] = pulls[p]
      BY <2>3, <2>4, <3>1, PullReaches
    <3>3. \A p \in 35..39 : p \in DOMAIN asked => p \in DOMAIN asked' /\ asked'[p] = asked[p]
      BY <2>3, <3>1
    <3>4. \A p \in 35..39 : Made(p)
      BY <1>4, <2>7
    <3>5. \A p \in 35..39 : p \in DOMAIN asked' /\ asked'[p] = GPIO_PULLUP
      BY <1>5, <3>3, <3>4 DEF PulledUp
    <3>6. \A p \in 35..39 : pulls'[p] = GPIO_PULLUP
      BY <1>5, <3>2, <3>4 DEF PulledUp
    <3>7. PulledUp'
      BY <3>5, <3>6 DEF PulledUp
    <3> QED BY <1>1, <1>3, <2>3, <3>7 DEF GpioInv
  <2> QED BY <2>5, <2>6, <2>7
<1>7. CASE c.op = "out" /\ gpio_out(c.pin, c.val)
  <2>1. c = Out(WLAN_ON_PIN, 1)
    <3>1. c \notin SetCalls
      BY <1>7 DEF SetCalls
    <3> QED BY <1>1, <3>1 DEF PinCalls
  <2>2. /\ latch' = [latch EXCEPT ![c.pin] = IF c.val # 0 THEN 1 ELSE 0]
        /\ UNCHANGED <<mode, pulls, asked>>
    BY <1>7 DEF gpio_out
  <2>3. GpioTypeOK'
    BY <1>5, <2>1, <2>2 DEF GpioTypeOK
  <2>4. i \notin 4..8
    <3>1. i \in 4..8 => main[i].op = "set"
      BY MainCalls DEF Set
    <3> QED BY <1>3, <1>7, <3>1
  <2>5. \A p \in 35..39 : Made(p) <=> Made(p)'
    BY <1>4, <2>4
  <2>6. PulledUp'
    BY <1>5, <2>2, <2>5 DEF PulledUp
  <2> QED BY <1>1, <1>3, <2>3, <2>6 DEF GpioInv
<1> QED BY <1>6, <1>7 DEF SetUp, c

\* After the set-up only modes and latches change.
LEMMA DriveStep ==
  ASSUME GpioTypeOK, DriveLine \/ TurnLine \/ WriteNibble
  PROVE  GpioTypeOK' /\ UNCHANGED <<setup, pulls, asked>>
<1>1. CASE DriveLine
  <2>1. PICK pin \in {SD_CLK_PIN, SD_CMD_PIN, LED_PIN}, v \in {0, 1} : gpio_out(pin, v)
    BY <1>1 DEF DriveLine
  <2>2. pin \in Pins
    BY GpioAssumption DEF SD_CLK_PIN, SD_CMD_PIN, LED_PIN
  <2> QED BY <1>1, <2>1, <2>2 DEF DriveLine, gpio_out, GpioTypeOK
<1>2. CASE TurnLine
  <2>1. UNCHANGED <<setup, latch, pulls, asked>>
    BY <1>2 DEF TurnLine
  <2>2. mode' \in [Pins -> 0..7]
    <3>1. PICK m \in {GPIO_IN, GPIO_OUT} :
             \/ gpio_mode(SD_CMD_PIN, m)
             \/ mode' = [p \in Pins |-> IF p \in SD_D0_PIN..SD_D3_PIN THEN m ELSE mode[p]]
      BY <1>2 DEF TurnLine
    <3>2. m \in 0..7
      BY DEF GPIO_IN, GPIO_OUT
    <3> QED BY <3>1, <3>2 DEF gpio_mode, GpioTypeOK
  <2> QED BY <2>1, <2>2 DEF GpioTypeOK
<1>3. CASE WriteNibble
  <2>1. PICK val \in Written : WriteLatches(SD_D0_PIN, 4, val)
    BY <1>3 DEF WriteNibble, gpio_write
  <2>2. latch' \in [Pins -> {0, 1}]
    BY <2>1 DEF WriteLatches, GpioTypeOK
  <2>3. UNCHANGED <<mode, setup, pulls, asked>>
    BY <1>3 DEF WriteNibble, gpio_write
  <2> QED BY <2>2, <2>3 DEF GpioTypeOK
<1> QED BY <1>1, <1>2, <1>3

LEMMA GpioAlways == GpioSpec => []GpioInv
<1>1. GpioInv /\ GpioNext => GpioInv'
  <2> SUFFICES ASSUME GpioInv, GpioNext PROVE GpioInv'
    OBVIOUS
  <2>1. CASE SetUp
    BY <2>1, SetUpStep
  <2>2. CASE DriveLine \/ TurnLine \/ WriteNibble
    BY <2>2, DriveStep DEF GpioInv, PulledUp, Made
  <2> QED BY <2>1, <2>2 DEF GpioNext
<1>2. GpioInv /\ UNCHANGED gpioVars => GpioInv'
  BY DEF GpioInv, GpioTypeOK, PulledUp, Made, gpioVars
<1> QED BY <1>1, <1>2, GpioStart, PTL DEF GpioSpec

\* zw_gpio.c, all of it: the state keeps its types, so no call of the program
\* names a pin, a mode or a pull that is not one.
THEOREM GpioTypeCorrect == GpioSpec => []GpioTypeOK
<1>1. GpioInv => GpioTypeOK
  BY DEF GpioInv
<1> QED BY <1>1, GpioAlways, PTL

\* sd_setup, gpio_pull: after the set-up the command and data lines have the
\* pulls asked for, whatever the pulls were at power-on, although a call reaches
\* pins that were not asked about, and some lines only by way of others.  Of the
\* clock line this is not so.
THEOREM ReadLinesPulledUp == GpioSpec => []ReadPullsAsAsked
<1>1. GpioInv => ReadPullsAsAsked
  <2> SUFFICES ASSUME GpioInv, setup = <<>>, NEW pin \in 35..39
               PROVE  pulls[pin] = asked[pin]
    BY DEF ReadPullsAsAsked, SD_CMD_PIN, SD_D3_PIN
  <2>1. Len(setup) = 0
    BY EmptySeq
  <2>2. \A p \in 35..39 : Made(p)
    BY <2>1 DEF Made
  <2>3. pin = 35 \/ pin = 36 \/ pin = 37 \/ pin = 38 \/ pin = 39
    OBVIOUS
  <2> QED BY <2>2, <2>3 DEF GpioInv, PulledUp
<1> QED BY <1>1, GpioAlways, PTL

\* gpio_write, gpio_out: whatever is written to the data lines, 0xff among it,
\* the power pin of the chip is not among the bits it clears.
THEOREM PowerStays == GpioSpec => StaysOn
<1>1. GpioInv /\ [GpioNext]_gpioVars =>
        [latch[WLAN_ON_PIN] = 1 => latch'[WLAN_ON_PIN] = 1]_gpioVars
  <2> SUFFICES ASSUME GpioInv, GpioNext, latch[41] = 1 PROVE latch'[41] = 1
    BY DEF WLAN_ON_PIN
  <2>1. GpioTypeOK /\ 41 \in Pins
    BY GpioAssumption DEF GpioInv
  <2>2. CASE SetUp
    <3> DEFINE c == Head(setup)
    <3>1. c \in PinCalls
      BY <2>2, NextCall DEF SetUp
    <3> HIDE DEF c
    <3>2. CASE c.op = "set" /\ gpio_set(c.pin, c.mode, c.pull)
      BY <3>2 DEF gpio_set
    <3>3. CASE c.op = "out" /\ gpio_out(c.pin, c.val)
      <4>1. c.val = 1
        BY <3>1, <3>3 DEF PinCalls, SetCalls, Out
      <4> QED BY <2>1, <3>3, <4>1 DEF gpio_out, GpioTypeOK
    <3> QED BY <2>2, <3>2, <3>3 DEF SetUp, c
  <2>3. CASE DriveLine
    <3>1. PICK pin \in {SD_CLK_PIN, SD_CMD_PIN, LED_PIN}, v \in {0, 1} : gpio_out(pin, v)
      BY <2>3 DEF DriveLine
    <3>2. pin # 41
      BY DEF SD_CLK_PIN, SD_CMD_PIN, LED_PIN
    <3> QED BY <2>1, <3>1, <3>2 DEF gpio_out, GpioTypeOK
  <2>4. CASE TurnLine
    BY <2>4 DEF TurnLine
  <2>5. CASE WriteNibble
    <3>1. PICK val \in Written : WriteLatches(36, 4, val)
      BY <2>5 DEF WriteNibble, gpio_write, SD_D0_PIN
    <3> DEFINE clr == Selected(36, Shifted((255 - val) % 2^4, 36 % 32))
    <3>2. 41 \notin clr
      <4>1. val \in Nat /\ val <= 255
        BY GpioAssumption
      <4>2. (255 - val) % 16 \in 0..15
        BY <4>1
      <4>3. PICK m \in 0..15 : m = (255 - val) % 16
        BY <4>2
      <4>4. m \div 2^5 = 0
        OBVIOUS
      <4>5. ~Bit(m, 5)
        BY <4>4 DEF Bit
      <4>6. 9 \notin Shifted(m, 4)
        BY <4>5 DEF Shifted
      <4> QED BY <4>3, <4>6 DEF Selected
    <3> QED BY <2>1, <3>1, <3>2 DEF WriteLatches
  <2> QED BY <2>2, <2>3, <2>4, <2>5 DEF GpioNext
<1> QED BY <1>1, GpioAlways, PTL DEF GpioSpec, StaysOn

-----------------------------------------------------------------------------
(* Recursion.                                                              *)

\* A set of numbers that is not empty has a least one.
LEMMA Least ==
  ASSUME NEW S \in SUBSET Nat, S # {}
  PROVE  \E x \in S : \A y \in S : x <= y
<1>1. PICK x \in S : \A y \in S : <<y, x>> \notin OpToRel(<, Nat)
  BY NatLessThanWellFounded, WFMin
<1>2. ASSUME NEW y \in S PROVE x <= y
  <2>1. ~(y < x)
    BY <1>1 DEF OpToRel
  <2> QED BY <2>1
<1> QED BY <1>2

\* A set that holds 0 and with every number below N the next one.
LEMMA Upward ==
  ASSUME NEW S, NEW N \in Nat, 0 \in S, \A n \in 0..N-1 : n \in S => n + 1 \in S
  PROVE  \A n \in 0..N : n \in S
<1> DEFINE Bad == {n \in 0..N : n \notin S}
<1>1. ASSUME Bad # {} PROVE FALSE
  <2>1. PICK x \in Bad : \A y \in Bad : x <= y
    <3>1. Bad \in SUBSET Nat
      OBVIOUS
    <3> HIDE DEF Bad
    <3> QED BY <1>1, <3>1, Least
  <2>2. x \in 0..N /\ x \notin S /\ x # 0
    BY <2>1
  <2>3. x - 1 \in 0..N-1 /\ x - 1 \notin Bad
    BY <2>1, <2>2
  <2> QED BY <2>2, <2>3
<1> QED BY <1>1

\* A value computed in N steps from a.
Steps(f, a, step, N) == f[0] = a /\ \A n \in 1..N : f[n] = step[n][f[n - 1]]

LEMMA StepsExist ==
  ASSUME NEW V, NEW a \in V, NEW N \in Nat, NEW step \in [1..N -> [V -> V]]
  PROVE  \E f \in [0..N -> V] : Steps(f, a, step, N)
<1> DEFINE S == {n \in Nat : n <= N => \E f \in [0..n -> V] : Steps(f, a, step, n)}
<1>1. 0 \in S
  <2>1. [i \in 0..0 |-> a] \in [0..0 -> V] /\ Steps([i \in 0..0 |-> a], a, step, 0)
    BY DEF Steps
  <2> QED BY <2>1
<1>2. ASSUME NEW n \in 0..N-1, n \in S PROVE n + 1 \in S
  <2>1. PICK f \in [0..n -> V] : Steps(f, a, step, n)
    BY <1>2
  <2> DEFINE g == [i \in 0..n+1 |-> IF i = n + 1 THEN step[n + 1][f[n]] ELSE f[i]]
  <2>2. step[n + 1] \in [V -> V] /\ f[n] \in V
    OBVIOUS
  <2>3. g \in [0..n+1 -> V]
    BY <2>2
  <2>4. g[0] = a
    BY <2>1 DEF Steps
  <2>5. ASSUME NEW i \in 1..n+1 PROVE g[i] = step[i][g[i - 1]]
    <3>1. CASE i = n + 1
      BY <3>1
    <3>2. CASE i # n + 1
      BY <3>2, <2>1 DEF Steps
    <3> QED BY <3>1, <3>2
  <2>6. Steps(g, a, step, n + 1)
    BY <2>4, <2>5 DEF Steps
  <2> QED BY <2>3, <2>6
<1>3. N \in S
  <2>1. N \in 0..N
    OBVIOUS
  <2> HIDE DEF S
  <2> QED BY <1>1, <1>2, <2>1, Upward
<1> QED BY <1>3

-----------------------------------------------------------------------------
(* Words.                                                                  *)

LEMMA XorMoves ==
  ASSUME NEW a, NEW b, NEW c
  PROVE  Xor(Xor(a, b), c) = Xor(Xor(a, c), b)
BY DEF Xor

LEMMA ShlXor ==
  ASSUME NEW a \in SUBSET Int, NEW b \in SUBSET Int, NEW k \in Int
  PROVE  Shl(Xor(a, b), k) = Xor(Shl(a, k), Shl(b, k))
<1>1. \A x \in Int : x \in Shl(a, k) <=> x - k \in a
  BY DEF Shl
<1>2. \A x \in Int : x \in Shl(b, k) <=> x - k \in b
  BY DEF Shl
<1>3. Xor(a, b) \subseteq Int
  BY DEF Xor
<1>4. \A x \in Int : x \in Shl(Xor(a, b), k) <=> x - k \in Xor(a, b)
  BY <1>3 DEF Shl
<1>5. Shl(Xor(a, b), k) \subseteq Int /\ Shl(a, k) \subseteq Int /\ Shl(b, k) \subseteq Int
  BY <1>3 DEF Shl
<1> QED BY <1>1, <1>2, <1>4, <1>5 DEF Xor

-----------------------------------------------------------------------------
(* Division.                                                               *)

\* One step of the division, at k, and all of them, from n down to d.
Cancel(r, g, k, d)    == IF k \in r THEN Xor(r, Shl(g, k - d)) ELSE r
Divides(f, a, g, d, n) ==
  f[n] = a /\ \A k \in d..n-1 : f[k] = Cancel(f[k + 1], g, k, d)

LEMMA DivisionExists ==
  ASSUME NEW a \in SUBSET Int, NEW g \in SUBSET Int, NEW d \in Nat, NEW n \in Nat, d <= n
  PROVE  \E f \in [d..n -> SUBSET Int] : Divides(f, a, g, d, n)
<1> DEFINE V    == SUBSET Int
           N    == n - d
           step == [i \in 1..N |-> [r \in V |-> Cancel(r, g, n - i, d)]]
<1>1. ASSUME NEW r \in V, NEW k \in Int PROVE Cancel(r, g, k, d) \in V
  <2>1. Shl(g, k - d) \subseteq Int
    BY DEF Shl
  <2> QED BY <2>1 DEF Cancel, Xor
<1>2. step \in [1..N -> [V -> V]] /\ a \in V /\ N \in Nat
  BY <1>1
<1>3. \E s \in [0..N -> V] : Steps(s, a, step, N)
  <2> HIDE DEF V, N, step
  <2> QED BY <1>2, StepsExist
<1>4. PICK s \in [0..N -> V] : Steps(s, a, step, N)
  BY <1>3
<1> DEFINE f == [k \in d..n |-> s[n - k]]
<1>5. f \in [d..n -> SUBSET Int]
  BY <1>4
<1>6. f[n] = a
  BY <1>4 DEF Steps
<1>7. ASSUME NEW k \in d..n-1 PROVE f[k] = Cancel(f[k + 1], g, k, d)
  <2>1. n - k \in 1..N /\ (n - k) - 1 = n - (k + 1) /\ n - (n - k) = k /\ n - (k + 1) \in 0..N
    OBVIOUS
  <2>2. s[n - k] = step[n - k][s[(n - k) - 1]]
    BY <1>4, <2>1 DEF Steps
  <2>3. s[n - (k + 1)] \in V
    BY <1>4, <2>1
  <2>4. step[n - k][s[n - (k + 1)]] = Cancel(s[n - (k + 1)], g, k, d)
    BY <2>1, <2>3
  <2> QED BY <2>1, <2>2, <2>4
<1> QED BY <1>5, <1>6, <1>7 DEF Divides

\* It is the division that Remainder makes.
LEMMA RemainderIs ==
  ASSUME NEW a, NEW g, NEW d \in Nat, NEW n \in Nat, d <= n,
         NEW f \in [d..n -> SUBSET Int], Divides(f, a, g, d, n)
  PROVE  Remainder(a, g, d, n) = f[d]
<1> DEFINE Def(h) == [k \in d..n |-> IF k = n THEN a ELSE Cancel(h[k + 1], g, k, d)]
<1>1. f = Def(f)
  BY DEF Divides
<1>2. ASSUME NEW h, h = Def(h) PROVE h = f
  <2> DEFINE S == {i \in Nat : i <= n - d => h[n - i] = f[n - i]}
  <2>1. 0 \in S
    BY <1>1, <1>2
  <2>2. ASSUME NEW i \in 0..n-d-1, i \in S PROVE i + 1 \in S
    <3>1. h[n - i] = f[n - i] /\ n - (i + 1) \in d..n-1 /\ (n - (i + 1)) + 1 = n - i
      BY <2>2
    <3>2. h[n - (i + 1)] = Cancel(h[n - i], g, n - (i + 1), d)
      BY <1>2, <3>1
    <3>3. f[n - (i + 1)] = Cancel(f[n - i], g, n - (i + 1), d)
      BY <3>1 DEF Divides
    <3> QED BY <3>1, <3>2, <3>3
  <2>3. \A i \in 0..n-d : i \in S
    <3>1. n - d \in Nat
      OBVIOUS
    <3> HIDE DEF S
    <3> QED BY <2>1, <2>2, <3>1, Upward
  <2>4. ASSUME NEW k \in d..n PROVE h[k] = f[k]
    <3>1. n - k \in 0..n-d /\ n - (n - k) = k
      OBVIOUS
    <3>2. n - k \in S
      BY <2>3, <3>1
    <3> QED BY <3>1, <3>2
  <2> QED BY <1>2, <2>4
<1>3. (CHOOSE h : h = Def(h)) = f
  <2> HIDE DEF Def
  <2> QED BY <1>1, <1>2
<1>4. Remainder(a, g, d, n) = (CHOOSE h : h = Def(h))[d]
  BY DEF Remainder, Cancel
<1> QED BY <1>3, <1>4

\* The remainder is below the divisor's degree.
LEMMA RemainderBelow ==
  ASSUME NEW a \in SUBSET Int, NEW g \in SUBSET Int, NEW d \in Nat, NEW n \in Nat, d <= n,
         a \subseteq 0..n-1, g \subseteq 0..d, d \in g
  PROVE  Remainder(a, g, d, n) \subseteq 0..d-1
<1>1. PICK f \in [d..n -> SUBSET Int] : Divides(f, a, g, d, n)
  BY DivisionExists
<1>2. Remainder(a, g, d, n) = f[d]
  BY <1>1, RemainderIs
<1> DEFINE S == {i \in Nat : i <= n - d => f[n - i] \subseteq 0 .. n - i - 1}
<1>3. 0 \in S
  BY <1>1 DEF Divides
<1>4. ASSUME NEW i \in 0..n-d-1, i \in S PROVE i + 1 \in S
  <2>1. PICK k \in d..n-1 : k = n - (i + 1)
    OBVIOUS
  <2>2. f[k + 1] \subseteq 0..k
    <3>1. k + 1 = n - i /\ k = n - i - 1
      BY <2>1
    <3> QED BY <1>4, <3>1
  <2>3. f[k] = Cancel(f[k + 1], g, k, d)
    BY <1>1, <2>1 DEF Divides
  <2>4. Shl(g, k - d) \subseteq 0..k /\ k \in Shl(g, k - d)
    <3>1. \A x \in g : x + (k - d) \in 0..k
      OBVIOUS
    <3>2. d + (k - d) = k
      OBVIOUS
    <3> QED BY <3>1, <3>2 DEF Shl
  <2>5. f[k] \subseteq 0..k /\ k \notin f[k]
    BY <2>2, <2>3, <2>4 DEF Cancel, Xor
  <2>6. f[n - (i + 1)] \subseteq 0 .. n - (i + 1) - 1
    BY <2>1, <2>5
  <2> QED BY <2>6
<1>5. \A i \in 0..n-d : i \in S
  <2>1. n - d \in Nat
    OBVIOUS
  <2> HIDE DEF S
  <2> QED BY <1>3, <1>4, <2>1, Upward
<1>6. n - d \in 0..n-d /\ n - (n - d) = d
  OBVIOUS
<1>7. n - d \in S
  BY <1>5, <1>6
<1> QED BY <1>2, <1>6, <1>7

\* A word moved up with bits appended that the division does not look at:
\* the steps are the same, moved up, and the bits appended stay.
LEMMA Appended ==
  ASSUME NEW a \in SUBSET Int, NEW g \in SUBSET Int, NEW d \in Nat, NEW n \in Nat, d <= n,
         NEW m \in Nat, NEW b \in SUBSET (0 .. d + m - 1),
         NEW f \in [d..n -> SUBSET Int], Divides(f, a, g, d, n),
         NEW h \in [d..n+m -> SUBSET Int], Divides(h, Xor(Shl(a, m), b), g, d, n + m)
  PROVE  h[d + m] = Xor(Shl(f[d], m), b)
<1> DEFINE S == {i \in Nat : i <= n - d => h[n + m - i] = Xor(Shl(f[n - i], m), b)}
<1>1. 0 \in S
  BY DEF Divides
<1>2. ASSUME NEW i \in 0..n-d-1, i \in S PROVE i + 1 \in S
  <2>1. PICK k \in d..n-1 : k = n - (i + 1)
    OBVIOUS
  <2>2. h[k + m + 1] = Xor(Shl(f[k + 1], m), b)
    <3>1. k + m + 1 = n + m - i /\ k + 1 = n - i
      BY <2>1
    <3> QED BY <1>2, <3>1
  <2>3. f[k] = Cancel(f[k + 1], g, k, d)
    BY <2>1 DEF Divides
  <2>4. h[k + m] = Cancel(h[k + m + 1], g, k + m, d)
    BY <2>1 DEF Divides
  <2>5. f[k + 1] \subseteq Int
    OBVIOUS
  <2>6. k + m \in h[k + m + 1] <=> k \in f[k + 1]
    <3>1. k + m \notin b
      OBVIOUS
    <3>2. k + m \in Shl(f[k + 1], m) <=> k \in f[k + 1]
      BY <2>5 DEF Shl
    <3> QED BY <2>2, <3>1, <3>2 DEF Xor
  <2>7. Shl(g, k + m - d) = Shl(Shl(g, k - d), m)
    <3>1. \A x \in g : x + (k + m - d) = (x + (k - d)) + m
      OBVIOUS
    <3> QED BY <3>1 DEF Shl
  <2>8. h[k + m] = Xor(Shl(f[k], m), b)
    <3>1. CASE k \in f[k + 1]
      <4> DEFINE r == f[k + 1]
                 t == Shl(g, k - d)
      <4>1. r \subseteq Int /\ t \subseteq Int
        BY DEF Shl
      <4>2. f[k] = Xor(r, t) /\ h[k + m] = Xor(Xor(Shl(r, m), b), Shl(t, m))
        BY <2>2, <2>3, <2>4, <2>6, <2>7, <3>1 DEF Cancel
      <4> HIDE DEF r, t
      <4>3. Shl(Xor(r, t), m) = Xor(Shl(r, m), Shl(t, m))
        BY <4>1, ShlXor
      <4>4. Xor(Xor(Shl(r, m), b), Shl(t, m)) = Xor(Xor(Shl(r, m), Shl(t, m)), b)
        BY XorMoves
      <4> QED BY <4>2, <4>3, <4>4
    <3>2. CASE k \notin f[k + 1]
      BY <2>2, <2>3, <2>4, <2>6, <3>2 DEF Cancel
    <3> QED BY <3>1, <3>2
  <2>9. n + m - (i + 1) = k + m
    BY <2>1
  <2> QED BY <2>1, <2>8, <2>9
<1>3. \A i \in 0..n-d : i \in S
  <2>1. n - d \in Nat
    OBVIOUS
  <2> HIDE DEF S
  <2> QED BY <1>1, <1>2, <2>1, Upward
<1>4. n - d \in S /\ n - (n - d) = d /\ n + m - (n - d) = d + m
  BY <1>3
<1> QED BY <1>4

-----------------------------------------------------------------------------
(* The four lines of a block.                                              *)

\* The CRC16 of line j in the word q, as LinesRight reads it.
Lane(q, j) == {15 - i : i \in {k \in 0..15 : 4 * k + j \in q}}

\* One turn of the division for a CRC16, with the bits of e shifted in.
Turn16(r, e) == LET s == Xor(Shl(r, 1), e) IN IF 16 \in s THEN Xor(s, G16) ELSE s

LEMMA TableEntry ==
  ASSUME NEW T \in SUBSET (0..3)
  PROVE  /\ qcrc16r_table[T] \subseteq 0..63
         /\ \A j \in 0..3, k \in 0..15 :
              4 * k + j \in qcrc16r_table[T] <=> j \in T /\ k \in CRC16R_POLY
<1>1. \A x : x \in qcrc16r_table[T] <=> \E j \in T : x \in Shl(qcrc16r_poly, j)
  BY DEF qcrc16r_table
<1>2. \A x, j : x \in Shl(qcrc16r_poly, j) <=> \E i \in CRC16R_POLY : x = 4 * i + j
  BY DEF Shl, qcrc16r_poly, quadval
<1>3. \A x : x \in qcrc16r_table[T] <=> \E j \in T, i \in CRC16R_POLY : x = 4 * i + j
  BY <1>1, <1>2
<1>4. \A i \in CRC16R_POLY : i \in 0..15
  BY DEF CRC16R_POLY
<1>5. \A j, jj \in 0..3, k, i \in 0..15 : 4 * k + j = 4 * i + jj => k = i /\ j = jj
  OBVIOUS
<1>6. ASSUME NEW x, x \in qcrc16r_table[T] PROVE x \in 0..63
  <2>1. PICK j \in T, i \in CRC16R_POLY : x = 4 * i + j
    BY <1>3, <1>6
  <2>2. j \in 0..3 /\ i \in 0..15
    BY <1>4
  <2> QED BY <2>1, <2>2
<1>7. ASSUME NEW j \in 0..3, NEW k \in 0..15
      PROVE  4 * k + j \in qcrc16r_table[T] <=> j \in T /\ k \in CRC16R_POLY
  <2>1. ASSUME 4 * k + j \in qcrc16r_table[T] PROVE j \in T /\ k \in CRC16R_POLY
    <3>1. PICK jj \in T, i \in CRC16R_POLY : 4 * k + j = 4 * i + jj
      BY <1>3, <2>1
    <3>2. jj \in 0..3 /\ i \in 0..15
      BY <1>4
    <3>3. k = i /\ j = jj
      BY <1>5, <3>1, <3>2
    <3> QED BY <3>1, <3>3
  <2> QED BY <1>3, <2>1
<1> QED BY <1>6, <1>7

\* The nibble that selects an entry.
Picked(q, d) == Low(Xor(d, q), 4)

\* What Update does to the bits of the word.
LEMMA UpdateBits ==
  ASSUME NEW q \in SUBSET (0..63), NEW d \in SUBSET (0..3)
  PROVE  /\ Picked(q, d) \subseteq 0..3
         /\ \A j \in 0..3 : j \in Picked(q, d) <=> (j \in d <=> j \notin q)
         /\ Update(q, d) \subseteq 0..63
         /\ \A j \in 0..3, k \in 0..15 :
              4 * k + j \in Update(q, d) <=>
                (4 * (k + 1) + j \in q <=> ~(j \in Picked(q, d) /\ k \in CRC16R_POLY))
<1> DEFINE T == Picked(q, d)
<1>1. T \subseteq 0..3
  BY DEF Picked, Low
<1>2. \A j \in 0..3 : j \in T <=> (j \in d <=> j \notin q)
  BY DEF Picked, Low, Xor
<1>3. Update(q, d) = Xor(Shr(q, 4), qcrc16r_table[T])
  BY SdioCrcAssumption DEF Update, Picked
<1>4. /\ Shr(q, 4) \subseteq 0..63
      /\ \A j \in 0..3, k \in 0..15 : 4 * k + j \in Shr(q, 4) <=> 4 * (k + 1) + j \in q
  <2>1. \A x : x \in Shr(q, 4) <=> \E i \in q : i >= 4 /\ x = i - 4
    BY DEF Shr
  <2>2. ASSUME NEW x, x \in Shr(q, 4) PROVE x \in 0..63
    BY <2>1, <2>2
  <2>3. ASSUME NEW j \in 0..3, NEW k \in 0..15
        PROVE  4 * k + j \in Shr(q, 4) <=> 4 * (k + 1) + j \in q
    <3>1. 4 * (k + 1) + j >= 4 /\ 4 * k + j = (4 * (k + 1) + j) - 4
      OBVIOUS
    <3>2. \A i \in q : 4 * k + j = i - 4 => i = 4 * (k + 1) + j
      OBVIOUS
    <3> QED BY <2>1, <3>1, <3>2
  <2> QED BY <2>2, <2>3
<1> HIDE DEF T
<1>5. Update(q, d) \subseteq 0..63
  BY <1>1, <1>3, <1>4, TableEntry DEF Xor
<1>6. ASSUME NEW j \in 0..3, NEW k \in 0..15
      PROVE  4 * k + j \in Update(q, d) <=>
               (4 * (k + 1) + j \in q <=> ~(j \in T /\ k \in CRC16R_POLY))
  <2>1. 4 * k + j \in qcrc16r_table[T] <=> j \in T /\ k \in CRC16R_POLY
    BY <1>1, TableEntry
  <2>2. 4 * k + j \in Shr(q, 4) <=> 4 * (k + 1) + j \in q
    BY <1>4
  <2> QED BY <1>3, <2>1, <2>2 DEF Xor
<1> QED BY <1>1, <1>2, <1>5, <1>6 DEF T

LEMMA LaneBits ==
  ASSUME NEW q, NEW j
  PROVE  /\ Lane(q, j) \subseteq 0..15
         /\ \A p \in 0..15 : p \in Lane(q, j) <=> 4 * (15 - p) + j \in q
<1>1. \A p : p \in Lane(q, j) <=> \E k \in 0..15 : 4 * k + j \in q /\ p = 15 - k
  BY DEF Lane
<1>2. ASSUME NEW p \in 0..15 PROVE p \in Lane(q, j) <=> 4 * (15 - p) + j \in q
  <2>1. 15 - p \in 0..15 /\ p = 15 - (15 - p)
    OBVIOUS
  <2>2. \A k \in 0..15 : p = 15 - k => k = 15 - p
    OBVIOUS
  <2> QED BY <1>1, <2>1, <2>2
<1> QED BY <1>1, <1>2

LEMMA UpdateType ==
  ASSUME NEW q \in SUBSET (0..63), NEW d \in SUBSET (0..3)
  PROVE  Update(q, d) \subseteq 0..63
BY UpdateBits

\* So one turn of the four divisions at once.
LEMMA UpdateLane ==
  ASSUME NEW q \in SUBSET (0..63), NEW d \in SUBSET (0..3), NEW j \in 0..3
  PROVE  Lane(Update(q, d), j) = Turn16(Lane(q, j), IF j \in d THEN {16} ELSE {})
<1> DEFINE r == Lane(q, j)
           e == IF j \in d THEN {16} ELSE {}
           s == Xor(Shl(r, 1), e)
<1>1. r \subseteq 0..15 /\ s \subseteq 0..16
  <2>1. r \subseteq 0..15
    BY LaneBits
  <2>2. Shl(r, 1) \subseteq 0..16
    BY <2>1 DEF Shl
  <2> QED BY <2>1, <2>2 DEF Xor
<1>2. \A p \in 0..16 : p \in Shl(r, 1) <=> p - 1 \in r
  BY <1>1 DEF Shl
<1>3. 16 \in s <=> j \in Picked(q, d)
  <2>1. 15 \in r <=> 4 * 0 + j \in q
    <3>1. 15 \in 0..15 /\ 15 - 15 = 0
      OBVIOUS
    <3> QED BY <3>1, LaneBits
  <2>2. 4 * 0 + j = j /\ 16 - 1 = 15 /\ 16 \in 0..16
    OBVIOUS
  <2> QED BY <1>2, <2>1, <2>2, UpdateBits DEF Xor
<1>4. \A p \in 0..15 : p \in s <=> p - 1 \in r
  BY <1>2 DEF Xor
<1>5. \A p \in 0..15 : p - 1 \in r <=> 4 * ((15 - p) + 1) + j \in q
  <2>1. \A p \in 1..15 : p - 1 \in 0..15 /\ 15 - (p - 1) = (15 - p) + 1
    OBVIOUS
  <2>2. \A p \in 1..15 : p - 1 \in r <=> 4 * ((15 - p) + 1) + j \in q
    BY <2>1, LaneBits
  <2>3. 0 - 1 \notin r /\ 4 * ((15 - 0) + 1) + j \notin q
    BY <1>1
  <2> QED BY <2>2, <2>3
<1>6. \A p \in 0..15 : p \in Lane(Update(q, d), j) <=>
                         (p \in s <=> ~(16 \in s /\ 15 - p \in CRC16R_POLY))
  <2>1. ASSUME NEW p \in 0..15
        PROVE  p \in Lane(Update(q, d), j) <=>
                 (4 * ((15 - p) + 1) + j \in q <=> ~(j \in Picked(q, d) /\ 15 - p \in CRC16R_POLY))
    <3>1. 15 - p \in 0..15
      OBVIOUS
    <3> QED BY <3>1, UpdateBits, LaneBits
  <2> QED BY <1>3, <1>4, <1>5, <2>1
<1>7. \A p \in 0..15 : 15 - p \in CRC16R_POLY <=> p \in G16
  BY DEF CRC16R_POLY, G16
<1>8. 16 \in G16 /\ G16 \subseteq 0..16
  BY DEF G16
<1>9. Lane(Update(q, d), j) \subseteq 0..15
  BY LaneBits
<1> HIDE DEF r, s
<1>10. Lane(Update(q, d), j) = IF 16 \in s THEN Xor(s, G16) ELSE s
  <2>1. CASE 16 \in s
    <3>1. \A p \in 0..15 : p \in Lane(Update(q, d), j) <=> p \in Xor(s, G16)
      BY <1>6, <1>7, <2>1 DEF Xor
    <3>2. Xor(s, G16) \subseteq 0..15
      <4>1. Xor(s, G16) \subseteq 0..16 /\ 16 \notin Xor(s, G16)
        BY <1>1, <1>8, <2>1 DEF Xor
      <4>2. \A p \in 0..16 : p = 16 \/ p \in 0..15
        OBVIOUS
      <4> QED BY <4>1, <4>2
    <3> QED BY <1>9, <2>1, <3>1, <3>2
  <2>2. CASE 16 \notin s
    <3>1. \A p \in 0..15 : p \in Lane(Update(q, d), j) <=> p \in s
      BY <1>6, <2>2
    <3>2. s \subseteq 0..15
      <4>1. \A p \in 0..16 : p = 16 \/ p \in 0..15
        OBVIOUS
      <4> QED BY <1>1, <2>2, <4>1
    <3> QED BY <1>9, <2>2, <3>1, <3>2
  <2> QED BY <2>1, <2>2
<1> QED BY <1>10 DEF Turn16, r, s

\* The bits received on line j, as LineCrc divides them.
LineBits(s, j) == {Len(s) - i + 16 : i \in {k \in DOMAIN s : j \in s[k]}}

\* The CRC16 of a line turns with every bit received.
LEMMA LineTurns ==
  ASSUME NEW s \in Seq(SUBSET (0..3)), NEW d \in SUBSET (0..3), NEW j \in 0..3
  PROVE  LineCrc(Append(s, d), j) = Turn16(LineCrc(s, j), IF j \in d THEN {16} ELSE {})
<1> DEFINE n == Len(s) + 16
           a == LineBits(s, j)
           e == IF j \in d THEN {16} ELSE {}
           t == Append(s, d)
<1>1. /\ Len(s) \in Nat /\ DOMAIN s = 1..Len(s)
      /\ Len(t) = Len(s) + 1 /\ DOMAIN t = 1..Len(s)+1
      /\ \A i \in 1..Len(s) : t[i] = s[i]
      /\ t[Len(s) + 1] = d
  BY AppendProperties, LenProperties
<1>2. a \in SUBSET Int /\ a \subseteq 16..n-1
  <2>1. \A i \in DOMAIN s : Len(s) - i + 16 \in 16..n-1
    BY <1>1
  <2> QED BY <1>1, <2>1 DEF LineBits
<1>3. LineBits(t, j) = Xor(Shl(a, 1), e)
  <2>1. \A i \in DOMAIN s : Len(t) - i + 16 = (Len(s) - i + 16) + 1
    BY <1>1
  <2>2. Len(t) - (Len(s) + 1) + 16 = 16
    BY <1>1
  <2>3. \A x : x \in Shl(a, 1) <=> \E i \in DOMAIN s : j \in s[i] /\ x = (Len(s) - i + 16) + 1
    BY DEF Shl, LineBits
  <2>4. \A x : x \in LineBits(t, j) <=> \E i \in DOMAIN t : j \in t[i] /\ x = Len(t) - i + 16
    BY DEF LineBits
  <2>5. \A x : x \in LineBits(t, j) <=> x \in Shl(a, 1) \/ (j \in d /\ x = 16)
    <3>1. \A i : i \in DOMAIN t <=> i \in DOMAIN s \/ i = Len(s) + 1
      BY <1>1
    <3> HIDE DEF t, a
    <3> QED BY <1>1, <2>1, <2>2, <2>3, <2>4, <3>1
  <2>6. 16 \notin Shl(a, 1)
    BY <1>2 DEF Shl
  <2> QED BY <2>5, <2>6 DEF Xor
<1>4. G16 \in SUBSET Int /\ 16 \in Nat /\ n \in Nat /\ 16 <= n /\ n + 1 \in Nat /\ 16 <= n + 1
  BY <1>1 DEF G16
<1>5. PICK f \in [16..n -> SUBSET Int] : Divides(f, a, G16, 16, n)
  BY <1>2, <1>4, DivisionExists
<1>6. e \in SUBSET (0 .. 16 + 1 - 1) /\ 1 \in Nat
  OBVIOUS
<1>7. LineBits(t, j) \in SUBSET Int
  <2>1. Shl(a, 1) \subseteq Int /\ e \subseteq Int
    BY <1>2 DEF Shl
  <2> QED BY <1>3, <2>1 DEF Xor
<1>8. PICK h \in [16..n+1 -> SUBSET Int] : Divides(h, LineBits(t, j), G16, 16, n + 1)
  BY <1>4, <1>7, DivisionExists
<1>9. LineCrc(s, j) = f[16]
  <2>1. LineCrc(s, j) = Remainder(a, G16, 16, n)
    BY DEF LineCrc, LineBits
  <2> QED BY <1>4, <1>5, <2>1, RemainderIs
<1>10. LineCrc(t, j) = h[16]
  <2>1. Len(t) + 16 = n + 1
    BY <1>1
  <2>2. LineCrc(t, j) = Remainder(LineBits(t, j), G16, 16, n + 1)
    BY <2>1 DEF LineCrc, LineBits
  <2> QED BY <1>4, <1>8, <2>2, RemainderIs
<1> HIDE DEF n, a, e, t
<1>11. h[16 + 1] = Xor(Shl(f[16], 1), e)
  BY <1>2, <1>3, <1>4, <1>5, <1>6, <1>8, Appended
<1>12. h[16] = Cancel(h[16 + 1], G16, 16, 16)
  BY <1>4, <1>8 DEF Divides
<1>13. Shl(G16, 16 - 16) = G16
  <2>1. \A x \in G16 : x + (16 - 16) = x
    BY DEF G16
  <2> QED BY <2>1 DEF Shl
<1>14. h[16] = Turn16(f[16], e)
  BY <1>11, <1>12, <1>13 DEF Cancel, Turn16
<1> QED BY <1>9, <1>10, <1>14 DEF e, t

LEMMA LineStarts == ASSUME NEW j PROVE LineCrc(<<>>, j) = {}
<1>1. LineBits(<<>>, j) = {} /\ Len(<<>>) + 16 = 16
  BY DEF LineBits
<1>2. G16 \in SUBSET Int /\ {} \in SUBSET Int
  BY DEF G16
<1> DEFINE n == 16
<1>n. n \in Nat /\ n <= n /\ n - 1 < n
  OBVIOUS
<1> HIDE DEF n
<1>3. PICK f \in [n..n -> SUBSET Int] : Divides(f, {}, G16, n, n)
  BY <1>2, <1>n, DivisionExists
<1>4. LineCrc(<<>>, j) = Remainder({}, G16, n, n)
  BY <1>1 DEF LineCrc, LineBits, n
<1>5. Remainder({}, G16, n, n) = f[n]
  BY <1>2, <1>n, <1>3, RemainderIs
<1> QED BY <1>3, <1>4, <1>5 DEF Divides

\* The four CRCs of a block are those of what has been received.
LinesInv ==
  /\ got \in Seq(SUBSET (0..3)) /\ txcrc \subseteq 0..63 /\ rxcrc \subseteq 0..63
  /\ LinesRight

LEMMA LinesRightIs == LinesRight <=> \A j \in 0..3 : Lane(rxcrc, j) = LineCrc(got, j)
BY DEF LinesRight, Lane

\* A nibble is received, with errors or without.
LEMMA LinesReceive ==
  ASSUME LinesInv, NEW d \in SUBSET (0..3), NEW e \in SUBSET (0..3),
         rxcrc' = Update(rxcrc, Xor(d, e)), got' = Append(got, Xor(d, e)),
         txcrc' \subseteq 0..63
  PROVE  LinesInv'
<1>1. Xor(d, e) \in SUBSET (0..3)
  BY DEF Xor
<1>2. rxcrc' \subseteq 0..63
  <2>1. rxcrc \in SUBSET (0..63)
    BY DEF LinesInv
  <2>2. Update(rxcrc, Xor(d, e)) \subseteq 0..63
    BY <1>1, <2>1, UpdateType
  <2> QED BY <2>2
<1>3. got' \in Seq(SUBSET (0..3))
  BY <1>1 DEF LinesInv
<1>4. ASSUME NEW j \in 0..3 PROVE Lane(rxcrc', j) = LineCrc(got', j)
  <2>1. Lane(rxcrc, j) = LineCrc(got, j)
    BY LinesRightIs DEF LinesInv
  <2>2. Lane(rxcrc', j) = Turn16(Lane(rxcrc, j), IF j \in Xor(d, e) THEN {16} ELSE {})
    BY <1>1, UpdateLane DEF LinesInv
  <2>3. LineCrc(got', j) = Turn16(LineCrc(got, j), IF j \in Xor(d, e) THEN {16} ELSE {})
    BY <1>1, LineTurns DEF LinesInv
  <2> QED BY <2>1, <2>2, <2>3
<1>5. LinesRight'
  BY <1>4 DEF LinesRight, Lane
<1> QED BY <1>2, <1>3, <1>5 DEF LinesInv

LEMMA ErrorsType == ASSUME NEW e \in Errors \cup {{}} PROVE e \in SUBSET (0..3)
BY SdioCrcAssumption

\* The next message starts as the first one did.
LEMMA StartsOver == NextMessage => CrcInit'
BY DEF NextMessage, CrcInit

LEMMA LinesInit == CrcInit => LinesInv
<1> SUFFICES ASSUME CrcInit PROVE LinesInv
  OBVIOUS
<1>1. got = <<>> /\ txcrc = {} /\ rxcrc = {}
  BY DEF CrcInit
<1>2. \A j \in 0..3 : Lane(rxcrc, j) = {}
  BY <1>1 DEF Lane
<1>3. \A j \in 0..3 : LineCrc(got, j) = {}
  BY <1>1, LineStarts
<1>4. LinesRight
  BY <1>2, <1>3, LinesRightIs
<1> QED BY <1>1, <1>4 DEF LinesInv

LEMMA LinesAgain == NextMessage => LinesInv'
<1>1. CrcInit' => LinesInv'
  BY LinesInit, PTL
<1> QED BY <1>1, StartsOver

LEMMA LinesStep == LinesInv /\ [CrcNext]_crcVars => LinesInv'
<1> SUFFICES ASSUME LinesInv, [CrcNext]_crcVars PROVE LinesInv'
  OBVIOUS
<1>1. CASE SendData
  <2>1. PICK d \in Nibbles : txcrc' = Update(txcrc, d) /\ Receive(d)
    BY <1>1 DEF SendData
  <2>2. PICK e \in Errors \cup {{}} : /\ rxcrc' = Update(rxcrc, Xor(d, e))
                                      /\ got' = Append(got, Xor(d, e))
    BY <2>1 DEF Receive
  <2>3. d \in SUBSET (0..3) /\ e \in SUBSET (0..3)
    BY SdioCrcAssumption, ErrorsType
  <2>4. txcrc' \subseteq 0..63
    BY <2>1, <2>3, UpdateType DEF LinesInv
  <2> QED BY <2>2, <2>3, <2>4, LinesReceive
<1>2. CASE SendCrc
  <2>1. txcrc' = Shr(txcrc, 4) /\ Receive(Low(txcrc, 4))
    BY <1>2 DEF SendCrc
  <2>2. PICK e \in Errors \cup {{}} : /\ rxcrc' = Update(rxcrc, Xor(Low(txcrc, 4), e))
                                      /\ got' = Append(got, Xor(Low(txcrc, 4), e))
    BY <2>1 DEF Receive
  <2>3. Low(txcrc, 4) \in SUBSET (0..3) /\ e \in SUBSET (0..3)
    BY ErrorsType DEF Low
  <2>4. txcrc' \subseteq 0..63
    <3>1. \A i \in 0..63 : i >= 4 => i - 4 \in 0..63
      OBVIOUS
    <3> QED BY <2>1, <3>1 DEF LinesInv, Shr
  <2> QED BY <2>2, <2>3, <2>4, LinesReceive
<1>3. CASE UNCHANGED <<txcrc, rxcrc, got>>
  <2>1. LinesRight' <=> LinesRight
    BY <1>3 DEF LinesRight, LineCrc
  <2> QED BY <1>3, <2>1 DEF LinesInv
<1>4. CASE NextByte \/ add_crc7 \/ StartBlock \/ UNCHANGED crcVars
  BY <1>3, <1>4 DEF NextByte, add_crc7, StartBlock, blkVars, crcVars
<1>5. CASE NextMessage
  BY <1>5, LinesAgain
<1> QED BY <1>1, <1>2, <1>4, <1>5 DEF CrcNext

\* qcrc16r_init, quadval: the four CRCs kept in one word are the remainders of
\* the bits received on each line, for blocks of any length.
THEOREM FourRemainders == CrcSpec => []LinesRight
<1>1. LinesInv => LinesRight
  BY DEF LinesInv
<1> QED BY <1>1, LinesInit, LinesStep, PTL DEF CrcSpec

-----------------------------------------------------------------------------
(* Errors in a block.                                                      *)

\* What the two ends have different, which the errors alone make.
Differ == Xor(rxcrc, txcrc)

LEMMA UpdateDiffers ==
  ASSUME NEW q \in SUBSET (0..63), NEW p \in SUBSET (0..63),
         NEW d \in SUBSET (0..3), NEW e \in SUBSET (0..3)
  PROVE  Xor(Update(q, Xor(d, e)), Update(p, d)) = Update(Xor(q, p), e)
<1> DEFINE D == Xor(q, p)
           l == Xor(Update(q, Xor(d, e)), Update(p, d))
<1>1. D \in SUBSET (0..63) /\ Xor(d, e) \in SUBSET (0..3)
  BY DEF Xor
<1>2. l \subseteq 0..63 /\ Update(D, e) \subseteq 0..63
  BY <1>1, UpdateType DEF Xor
<1>3. ASSUME NEW j \in 0..3, NEW k \in 0..15
      PROVE  4 * k + j \in l <=> 4 * k + j \in Update(D, e)
  <2>1. j \in Picked(q, Xor(d, e)) <=> ((j \in d <=> j \notin e) <=> j \notin q)
    BY <1>1, UpdateBits DEF Xor
  <2>2. j \in Picked(p, d) <=> (j \in d <=> j \notin p)
    BY UpdateBits
  <2>3. j \in Picked(D, e) <=> (j \in e <=> (j \in q <=> j \in p))
    BY <1>1, UpdateBits DEF Xor
  <2>4. 4 * k + j \in Update(q, Xor(d, e)) <=>
          (4 * (k + 1) + j \in q <=> ~(j \in Picked(q, Xor(d, e)) /\ k \in CRC16R_POLY))
    BY <1>1, UpdateBits
  <2>5. 4 * k + j \in Update(p, d) <=>
          (4 * (k + 1) + j \in p <=> ~(j \in Picked(p, d) /\ k \in CRC16R_POLY))
    BY UpdateBits
  <2>6. 4 * k + j \in Update(D, e) <=>
          (4 * (k + 1) + j \in D <=> ~(j \in Picked(D, e) /\ k \in CRC16R_POLY))
    BY <1>1, UpdateBits
  <2>7. 4 * (k + 1) + j \in D <=> ~(4 * (k + 1) + j \in q <=> 4 * (k + 1) + j \in p)
    BY DEF Xor
  <2>8. 4 * k + j \in l <=>
          ~(4 * k + j \in Update(q, Xor(d, e)) <=> 4 * k + j \in Update(p, d))
    BY DEF Xor
  <2> HIDE DEF l, D
  <2> QED BY <2>1, <2>2, <2>3, <2>4, <2>5, <2>6, <2>7, <2>8
<1>4. ASSUME NEW x \in 0..63 PROVE x \in l <=> x \in Update(D, e)
  <2>1. PICK j \in 0..3, k \in 0..15 : x = 4 * k + j
    <3>1. (x \div 4) \in 0..15 /\ (x % 4) \in 0..3 /\ x = 4 * (x \div 4) + (x % 4)
      OBVIOUS
    <3> QED BY <3>1
  <2> QED BY <1>3, <2>1
<1> HIDE DEF l
<1>5. l = Update(D, e)
  BY <1>2, <1>4
<1> QED BY <1>5 DEF l

\* Where the nibble is that made the first difference, m nibbles ago: its mark
\* has got down to there, or a higher one has been made since.
Marked(D, m) == \E x \in D : x >= 4 * (16 - m)

LEMMA UpdateNothing == Update({}, {}) = {}
<1>1. Picked({}, {}) = {} /\ Shr({}, SD_DATA_PINS) = {}
  BY DEF Picked, Low, Xor, Shr
<1>2. qcrc16r_table[{}] = {}
  BY DEF qcrc16r_table
<1> QED BY <1>1, <1>2 DEF Update, Picked, Xor

LEMMA FirstMark ==
  ASSUME NEW e \in SUBSET (0..3), e # {}
  PROVE  Marked(Update({}, e), 1)
<1>1. PICK j \in 0..3 : j \in e
  OBVIOUS
<1>2. j \in Picked({}, e)
  BY <1>1, UpdateBits
<1>3. 15 \in 0..15 /\ 15 \in CRC16R_POLY /\ 4 * (15 + 1) + j \notin {}
  BY DEF CRC16R_POLY
<1>4. 4 * 15 + j \in Update({}, e)
  BY <1>2, <1>3, UpdateBits
<1>5. 4 * 15 + j >= 4 * (16 - 1)
  OBVIOUS
<1> QED BY <1>4, <1>5 DEF Marked

LEMMA MarkStays ==
  ASSUME NEW D \in SUBSET (0..63), NEW e \in SUBSET (0..3), NEW m \in Nat \ {0},
         Marked(D, m), e = {} \/ m <= 15
  PROVE  Marked(Update(D, e), m + 1)
<1>1. PICK x \in D : x >= 4 * (16 - m)
  BY DEF Marked
<1>2. ASSUME NEW j \in 0..3, j \in Picked(D, e) PROVE Marked(Update(D, e), m + 1)
  <2>1. 15 \in 0..15 /\ 15 \in CRC16R_POLY /\ 4 * (15 + 1) + j \notin D
    BY DEF CRC16R_POLY
  <2>2. 4 * 15 + j \in Update(D, e)
    BY <1>2, <2>1, UpdateBits
  <2>3. 4 * 15 + j >= 4 * (16 - (m + 1))
    OBVIOUS
  <2> QED BY <2>2, <2>3 DEF Marked
<1>3. PICK j \in 0..3, k \in 0..15 : x = 4 * k + j
  <2>1. (x \div 4) \in 0..15 /\ (x % 4) \in 0..3 /\ x = 4 * (x \div 4) + (x % 4)
    OBVIOUS
  <2> QED BY <2>1
<1>4. CASE j \notin Picked(D, e)
  <2>1. k >= 1
    <3>1. CASE e = {}
      <4>1. j \notin e /\ j \notin D
        BY <1>4, <3>1, UpdateBits
      <4> QED BY <1>3, <4>1
    <3>2. CASE m <= 15
      BY <1>1, <1>3, <3>2
    <3> QED BY <3>1, <3>2
  <2>2. k - 1 \in 0..15 /\ (k - 1) + 1 = k
    BY <2>1
  <2>3. 4 * (k - 1) + j \in Update(D, e)
    BY <1>3, <1>4, <2>2, UpdateBits
  <2>4. 4 * (k - 1) + j >= 4 * (16 - (m + 1))
    BY <1>1, <1>3
  <2> QED BY <2>3, <2>4 DEF Marked
<1> QED BY <1>2, <1>4

\* The burst is within what a CRC16 covers.
BurstCovered == MaxBurst <= 16

\* While nothing has been flipped the ends agree; after that they do not, and
\* for as long as flips may follow the mark of the first is still there.
ErrorInv ==
  /\ got \in Seq(SUBSET (0..3)) /\ left \in 0..16 /\ firstErr \in 0..Len(got)
  /\ rxcrc \subseteq 0..63 /\ txcrc \subseteq 0 .. 4 * left - 1
  /\ firstErr = 0 => Differ = {}
  /\ firstErr # 0 => Marked(Differ, Len(got) - firstErr + 1)

LEMMA ErrorReceive ==
  ASSUME BurstCovered, ErrorInv, NEW d \in SUBSET (0..3), Receive(d),
         left' \in 0..16, txcrc' = Update(txcrc, d), txcrc' \subseteq 0 .. 4 * left' - 1
  PROVE  ErrorInv'
<1>1. PICK e \in Errors \cup {{}} :
        /\ e # {} /\ firstErr # 0 => Len(got) + 1 < firstErr + MaxBurst
        /\ firstErr' = IF firstErr = 0 /\ e # {} THEN Len(got) + 1 ELSE firstErr
        /\ rxcrc' = Update(rxcrc, Xor(d, e))
        /\ got' = Append(got, Xor(d, e))
  BY DEF Receive
<1>2. e \in SUBSET (0..3) /\ Xor(d, e) \in SUBSET (0..3)
  BY ErrorsType DEF Xor
<1>3. /\ txcrc \in SUBSET (0..63) /\ rxcrc \in SUBSET (0..63) /\ Differ \in SUBSET (0..63)
      /\ Len(got) \in Nat /\ firstErr \in 0..Len(got)
  <2>1. txcrc \subseteq 0..63
    <3>1. 0 .. 4 * left - 1 \subseteq 0..63
      BY DEF ErrorInv
    <3> QED BY <3>1 DEF ErrorInv
  <2>2. rxcrc \subseteq 0..63 /\ Len(got) \in Nat /\ firstErr \in 0..Len(got)
    BY LenProperties DEF ErrorInv
  <2> QED BY <2>1, <2>2 DEF Differ, Xor
<1>4. rxcrc' \subseteq 0..63
  BY <1>1, <1>2, <1>3, UpdateType
<1>5. got' \in Seq(SUBSET (0..3)) /\ Len(got') = Len(got) + 1
  <2>1. got \in Seq(SUBSET (0..3))
    BY DEF ErrorInv
  <2> QED BY <1>1, <1>2, <2>1, AppendProperties
<1>6. firstErr' \in 0..Len(got')
  BY <1>1, <1>3, <1>5
<1>7. Differ' = Update(Differ, e)
  BY <1>1, <1>2, <1>3, UpdateDiffers DEF Differ
<1>8. ASSUME firstErr' = 0 PROVE Differ' = {}
  <2>1. firstErr = 0 /\ e = {}
    BY <1>1, <1>3, <1>8
  <2>2. Differ = {}
    BY <2>1 DEF ErrorInv
  <2> QED BY <1>7, <2>1, <2>2, UpdateNothing
<1>9. ASSUME firstErr' # 0 PROVE Marked(Differ', Len(got') - firstErr' + 1)
  <2>1. CASE firstErr = 0
    <3>1. e # {} /\ firstErr' = Len(got) + 1
      BY <1>1, <1>9, <2>1
    <3>2. Differ = {}
      BY <2>1 DEF ErrorInv
    <3>3. Len(got') - firstErr' + 1 = 1
      BY <1>3, <1>5, <3>1
    <3>4. Marked(Update({}, e), 1)
      BY <1>2, <3>1, FirstMark
    <3> QED BY <1>7, <3>2, <3>3, <3>4
  <2>2. CASE firstErr # 0
    <3>1. firstErr' = firstErr
      BY <1>1, <2>2
    <3>2. PICK m \in Nat \ {0} : m = Len(got) - firstErr + 1
      BY <1>3
    <3>3. Marked(Differ, m)
      BY <2>2, <3>2 DEF ErrorInv
    <3>4. e = {} \/ m <= 15
      BY <1>1, <1>3, <2>2, <3>2, SdioCrcAssumption DEF BurstCovered
    <3>5. Marked(Update(Differ, e), m + 1)
      BY <1>2, <1>3, <3>3, <3>4, MarkStays
    <3>6. Len(got') - firstErr' + 1 = m + 1
      BY <1>3, <1>5, <3>1, <3>2
    <3> QED BY <1>7, <3>5, <3>6
  <2> QED BY <2>1, <2>2
<1> QED BY <1>4, <1>5, <1>6, <1>8, <1>9 DEF ErrorInv

\* Sending the CRC is an update by the nibble sent: the table is not used.
LEMMA SendsItself ==
  ASSUME NEW q \in SUBSET (0..63)
  PROVE  Shr(q, 4) = Update(q, Low(q, 4))
<1>1. Low(Xor(Low(q, 4), q), 4) = {}
  BY DEF Low, Xor
<1>2. qcrc16r_table[{}] = {}
  BY DEF qcrc16r_table
<1>3. Update(q, Low(q, 4)) = Xor(Shr(q, 4), {})
  BY <1>1, <1>2, SdioCrcAssumption DEF Update
<1> QED BY <1>3 DEF Xor

LEMMA ErrorInit == CrcInit => ErrorInv
<1> SUFFICES ASSUME CrcInit PROVE ErrorInv
  OBVIOUS
<1>1. got = <<>> /\ txcrc = {} /\ rxcrc = {} /\ left = 16 /\ firstErr = 0 /\ Len(got) = 0
  BY DEF CrcInit
<1>2. left \in 0..16 /\ firstErr \in 0..Len(got)
  BY <1>1
<1> QED BY <1>1, <1>2 DEF ErrorInv, Differ, Xor

LEMMA ErrorAgain == NextMessage => ErrorInv'
<1>1. CrcInit' => ErrorInv'
  BY ErrorInit, PTL
<1> QED BY <1>1, StartsOver

LEMMA ErrorStep == ASSUME BurstCovered, ErrorInv, [CrcNext]_crcVars PROVE ErrorInv'
<1>0. left \in 0..16 /\ txcrc \subseteq 0 .. 4 * left - 1 /\ txcrc \in SUBSET (0..63)
  <2>1. left \in 0..16 /\ txcrc \subseteq 0 .. 4 * left - 1
    BY DEF ErrorInv
  <2>2. 0 .. 4 * left - 1 \subseteq 0..63
    BY <2>1
  <2> QED BY <2>1, <2>2
<1>1. CASE SendData
  <2>1. PICK d \in Nibbles : txcrc' = Update(txcrc, d) /\ Receive(d)
    BY <1>1 DEF SendData
  <2>2. left = 16 /\ left' = 16
    BY <1>1 DEF SendData
  <2>3. d \in SUBSET (0..3)
    BY SdioCrcAssumption
  <2>4. txcrc' \subseteq 0 .. 4 * left' - 1
    <3>1. txcrc' \subseteq 0..63
      BY <1>0, <2>1, <2>3, UpdateType
    <3> QED BY <2>2, <3>1
  <2>5. left' \in 0..16
    BY <2>2
  <2> QED BY <2>1, <2>3, <2>4, <2>5, ErrorReceive
<1>2. CASE SendCrc
  <2>1. Receive(Low(txcrc, 4)) /\ txcrc' = Shr(txcrc, 4) /\ left > 0 /\ left' = left - 1
    BY <1>2 DEF SendCrc
  <2>2. Low(txcrc, 4) \in SUBSET (0..3)
    BY DEF Low
  <2>3. txcrc' = Update(txcrc, Low(txcrc, 4))
    BY <1>0, <2>1, SendsItself
  <2>4. left' \in 0..16
    BY <1>0, <2>1
  <2>5. txcrc' \subseteq 0 .. 4 * left' - 1
    <3>1. \A i \in 0 .. 4 * left - 1 : i >= 4 => i - 4 \in 0 .. 4 * left' - 1
      BY <1>0, <2>1
    <3> QED BY <1>0, <2>1, <3>1 DEF Shr
  <2> QED BY <2>1, <2>2, <2>3, <2>4, <2>5, ErrorReceive
<1>3. CASE UNCHANGED <<txcrc, rxcrc, got, left, firstErr>>
  BY <1>3 DEF ErrorInv, Differ, Marked
<1>4. CASE NextByte \/ add_crc7 \/ StartBlock \/ UNCHANGED crcVars
  BY <1>3, <1>4 DEF NextByte, add_crc7, StartBlock, blkVars, crcVars
<1>5. CASE NextMessage
  BY <1>5, ErrorAgain
<1> QED BY <1>1, <1>2, <1>4, <1>5 DEF CrcNext

\* sdio_rsp_block_read, sdio_block_out: a result of 0 is given to a block of any
\* length exactly if nothing was flipped underway, in data or CRC, however the
\* flips are spread over the lines, in any span of 16 nibbles.
THEOREM DetectsBursts == ASSUME BurstCovered PROVE CrcSpec => []ZeroIffIntact
<1>1. ErrorInv => ZeroIffIntact
  <2> SUFFICES ASSUME ErrorInv, left = 0 PROVE rxcrc = {} <=> firstErr = 0
    BY DEF ZeroIffIntact
  <2>1. txcrc = {}
    <3>1. 0 .. 4 * left - 1 = {}
      OBVIOUS
    <3> QED BY <3>1 DEF ErrorInv
  <2>2. Differ = rxcrc
    BY <2>1 DEF Differ, Xor
  <2> QED BY <2>2 DEF ErrorInv, Marked
<1>2. ErrorInv /\ [CrcNext]_crcVars => ErrorInv'
  BY BurstCovered, ErrorStep
<1> QED BY <1>1, <1>2, ErrorInit, PTL DEF CrcSpec

-----------------------------------------------------------------------------
(* The CRC of the command.                                                 *)

\* What crc7_byte computes, turn by turn.
ByteTurns(w, b) ==
  w[0] = b /\ \A n \in 1..8 : w[n] = ShiftOnce(w[n - 1])

LEMMA ByteTurnsExist ==
  ASSUME NEW b \in SUBSET Nat
  PROVE  \E w \in [0..8 -> SUBSET Nat] : ByteTurns(w, b) /\ crc7_byte(b) = Low(w[8], 8)
<1> DEFINE V      == SUBSET Nat
           step   == [n \in 1..8 |-> [v \in V |-> ShiftOnce(v)]]
           Def(h) == [n \in 0..8 |-> IF n = 0 THEN b ELSE ShiftOnce(h[n - 1])]
<1>1. ASSUME NEW v \in V PROVE ShiftOnce(v) \in V
  <2>1. Shl(v, 1) \subseteq Nat /\ CRC7_POLY \subseteq Nat
    BY DEF Shl, CRC7_POLY
  <2> QED BY <2>1 DEF ShiftOnce, Xor
<1>2. PICK w \in [0..8 -> V] : Steps(w, b, step, 8)
  <2>1. step \in [1..8 -> [V -> V]] /\ b \in V /\ 8 \in Nat
    BY <1>1
  <2> HIDE DEF V, step
  <2> QED BY <2>1, StepsExist
<1>3. ASSUME NEW n \in 1..8 PROVE w[n] = ShiftOnce(w[n - 1])
  <2>1. w[n] = step[n][w[n - 1]] /\ w[n - 1] \in V
    BY <1>2 DEF Steps
  <2> QED BY <2>1
<1>4. w[0] = b
  BY <1>2 DEF Steps
<1>5. w = Def(w)
  BY <1>2, <1>3, <1>4
<1>6. ASSUME NEW h, h = Def(h) PROVE h = w
  <2> DEFINE S == {n \in Nat : n <= 8 => h[n] = w[n]}
  <2>1. 0 \in S
    BY <1>4, <1>6
  <2>2. ASSUME NEW n \in 0..8-1, n \in S PROVE n + 1 \in S
    <3>1. n + 1 \in 1..8 /\ (n + 1) - 1 = n /\ h[n] = w[n]
      BY <2>2
    <3>2. h[n + 1] = ShiftOnce(h[n])
      BY <1>6, <3>1
    <3>3. w[n + 1] = ShiftOnce(w[n])
      BY <1>3, <3>1
    <3> QED BY <3>1, <3>2, <3>3
  <2>3. \A n \in 0..8 : n \in S
    <3>1. 8 \in Nat
      OBVIOUS
    <3> HIDE DEF S
    <3> QED BY <2>1, <2>2, <3>1, Upward
  <2>4. \A n \in 0..8 : h[n] = w[n]
    BY <2>3
  <2> QED BY <1>2, <1>6, <2>4
<1>7. (CHOOSE h : h = Def(h)) = w
  <2> HIDE DEF Def
  <2> QED BY <1>5, <1>6
<1>8. crc7_byte(b) = Low((CHOOSE h : h = Def(h))[8], 8)
  BY DEF crc7_byte
<1>9. ByteTurns(w, b)
  BY <1>3, <1>4 DEF ByteTurns
<1> QED BY <1>2, <1>7, <1>8, <1>9

\* After n turns the low byte is the dividend 7 - n bits further down.
Above(w, r, n) == \A p \in Int : p \in r <=> p - 7 + n \in 0..7 /\ p - 7 + n \in w

\* One turn is one step of the division.
LEMMA ByteTurn ==
  ASSUME NEW n \in 0..7, NEW w \in SUBSET Nat, NEW r \in SUBSET Int, Above(w, r, n)
  PROVE  Above(ShiftOnce(w), Cancel(r, G7, 14 - n, 7), n + 1)
<1> DEFINE s == Shl(w, 1)
           t == Shl(G7, (14 - n) - 7)
<1>1. \A x \in Int : x \in s <=> x - 1 \in w
  BY DEF Shl
<1>2. \A x : x \in t <=> x \in {14 - n, 10 - n, 7 - n}
  BY DEF Shl, G7
<1>3. \A x : x \in CRC7_POLY <=> x \in {4, 1}
  BY DEF CRC7_POLY
<1>4. 8 \in s <=> 14 - n \in r
  <2>1. 14 - n \in Int /\ (14 - n) - 7 + n = 7 /\ 8 - 1 = 7 /\ 7 \in 0..7 /\ 8 \in Int
    OBVIOUS
  <2> QED BY <1>1, <2>1 DEF Above
<1> HIDE DEF s, t
<1>5. ASSUME NEW p \in Int
      PROVE  p \in Cancel(r, G7, 14 - n, 7) <=>
               p - 7 + (n + 1) \in 0..7 /\ p - 7 + (n + 1) \in ShiftOnce(w)
  <2>1. PICK y \in Int : y = p - 7 + n
    OBVIOUS
  <2>2. p \in r <=> y \in 0..7 /\ y \in w
    BY <2>1 DEF Above
  <2>3. y + 1 \in s <=> y \in w
    BY <1>1
  <2>4. p \in t <=> y \in {7, 3, 0}
    BY <1>2, <2>1
  <2>4a. p \in t <=> y = 7 \/ y + 1 \in CRC7_POLY
    BY <1>3, <2>4
  <2>5. p = 14 - n <=> y = 7
    BY <2>1
  <2>6. p - 7 + (n + 1) = y + 1
    BY <2>1
  <2>7. CASE 14 - n \in r
    <3>1. p \in Cancel(r, G7, 14 - n, 7) <=> ~(p \in r <=> p \in t)
      BY <2>7 DEF Cancel, Xor, t
    <3>2. y + 1 \in ShiftOnce(w) <=> ~(y + 1 \in s <=> y + 1 \in CRC7_POLY)
      BY <1>4, <2>7 DEF ShiftOnce, Xor, s
    <3>3. y = 7 => p \in r
      BY <2>5, <2>7
    <3>4. y + 1 \in CRC7_POLY => y \in 0..6
      BY <1>3
    <3>5. y \in 0..7 <=> y \in 0..6 \/ y = 7
      OBVIOUS
    <3>6. y + 1 \in 0..7 <=> y \in 0..6 \/ y = -1
      OBVIOUS
    <3>7. y = -1 => y + 1 \notin ShiftOnce(w)
      BY <2>3, <3>2, <3>4
    <3> QED BY <2>2, <2>3, <2>4a, <2>6, <3>1, <3>2, <3>3, <3>4, <3>5, <3>6, <3>7
  <2>8. CASE 14 - n \notin r
    <3>1. Cancel(r, G7, 14 - n, 7) = r /\ ShiftOnce(w) = s
      BY <1>4, <2>8 DEF Cancel, ShiftOnce, s
    <3>2. y = 7 => y \notin w
      BY <2>2, <2>5, <2>8
    <3>3. y + 1 \in 0..7 <=> y \in 0..6 \/ y = -1
      OBVIOUS
    <3>4. y \in 0..7 <=> y \in 0..6 \/ y = 7
      OBVIOUS
    <3> QED BY <2>2, <2>3, <2>6, <3>1, <3>2, <3>3, <3>4
  <2> QED BY <2>7, <2>8
<1> QED BY <1>5 DEF Above

\* A word to which its own remainder has been added has none.
LEMMA Completed ==
  ASSUME NEW a \in SUBSET Int, NEW g \in SUBSET Int, NEW d \in Nat, NEW n \in Nat, d <= n,
         a \subseteq 0..n-1, g \subseteq 0..d, d \in g
  PROVE  Remainder(Xor(a, Remainder(a, g, d, n)), g, d, n + 1) = {}
<1>1. PICK f \in [d..n -> SUBSET Int] : Divides(f, a, g, d, n)
  BY DivisionExists
<1>2. PICK r \in SUBSET Int : r = Remainder(a, g, d, n) /\ r = f[d] /\ r \subseteq 0..d-1
  <2>1. Remainder(a, g, d, n) = f[d] /\ f[d] \in SUBSET Int
    BY <1>1, RemainderIs
  <2> QED BY <2>1, RemainderBelow
<1> DEFINE h == [k \in d..n+1 |-> IF k = n + 1 THEN Xor(f[n], r) ELSE Xor(f[k], r)]
<1>3. h \in [d..n+1 -> SUBSET Int]
  <2>1. ASSUME NEW k \in d..n PROVE Xor(f[k], r) \in SUBSET Int
    BY DEF Xor
  <2>2. n \in d..n /\ \A k \in d..n+1 : k = n + 1 \/ k \in d..n
    OBVIOUS
  <2> QED BY <2>1, <2>2
<1>4. h[n + 1] = Xor(a, r)
  BY <1>1 DEF Divides
<1>5. ASSUME NEW k \in d..n PROVE h[k] = Cancel(h[k + 1], g, k, d)
  <2>1. k \notin r
    BY <1>2
  <2>2. CASE k = n
    <3>1. h[k] = h[k + 1] /\ k \notin h[k + 1]
      BY <1>1, <2>1, <2>2 DEF Divides, Xor
    <3> HIDE DEF h
    <3> QED BY <3>1 DEF Cancel
  <2>3. CASE k # n
    <3>1. k \in d..n-1 /\ h[k] = Xor(f[k], r) /\ h[k + 1] = Xor(f[k + 1], r)
      BY <2>3
    <3>2. f[k] = Cancel(f[k + 1], g, k, d)
      BY <1>1, <3>1 DEF Divides
    <3>3. k \in h[k + 1] <=> k \in f[k + 1]
      BY <2>1, <3>1 DEF Xor
    <3> HIDE DEF h
    <3> QED BY <3>1, <3>2, <3>3, XorMoves DEF Cancel
  <2> QED BY <2>2, <2>3
<1>6. Divides(h, Xor(a, r), g, d, n + 1)
  <2> HIDE DEF h
  <2>1. (n + 1) - 1 = n
    OBVIOUS
  <2> QED BY <1>4, <1>5, <2>1 DEF Divides
<1>7. h[d] = {}
  <2>1. h[d] = Xor(f[d], r)
    OBVIOUS
  <2> QED BY <1>2, <2>1 DEF Xor
<1>8. Remainder(Xor(a, r), g, d, n + 1) = h[d]
  <2>1. n + 1 \in Nat /\ d <= n + 1
    OBVIOUS
  <2> HIDE DEF h
  <2> QED BY <1>3, <1>6, <2>1, RemainderIs
<1> QED BY <1>2, <1>7, <1>8

\* A byte is eight steps of the division.
LEMMA ByteRemainder ==
  ASSUME NEW r \in SUBSET (0..6), NEW b \in SUBSET (0..7), NEW N \in Nat, N >= 15,
         NEW h \in [7..N -> SUBSET Int], h[15] = Xor(Shl(r, 8), Shl(b, 7)),
         \A k \in 7..14 : h[k] = Cancel(h[k + 1], G7, k, 7)
  PROVE  crc7_byte(Xor(Shl(r, 1), b)) = Shl(h[7], 1)
<1> DEFINE x == Xor(Shl(r, 1), b)
<1>1. x \subseteq 0..7
  <2>1. Shl(r, 1) \subseteq 0..7
    BY DEF Shl
  <2> QED BY <2>1 DEF Xor
<1>2. PICK w \in [0..8 -> SUBSET Nat] : ByteTurns(w, x) /\ crc7_byte(x) = Low(w[8], 8)
  <2>1. x \in SUBSET Nat
    BY <1>1
  <2> HIDE DEF x
  <2> QED BY <2>1, ByteTurnsExist
<1>3. Above(w[0], h[15], 0)
  <2>1. ASSUME NEW p \in Int PROVE p \in h[15] <=> p - 7 + 0 \in 0..7 /\ p - 7 + 0 \in x
    <3>1. p \in Shl(r, 8) <=> p - 8 \in r
      BY DEF Shl
    <3>2. p \in Shl(b, 7) <=> p - 7 \in b
      BY DEF Shl
    <3>3. p - 7 \in Shl(r, 1) <=> p - 8 \in r
      BY DEF Shl
    <3>4. p - 7 + 0 = p - 7
      OBVIOUS
    <3>5. p \in h[15] <=> p - 7 \in x
      BY <3>1, <3>2, <3>3 DEF Xor
    <3> HIDE DEF x
    <3> QED BY <1>1, <3>4, <3>5
  <2>2. w[0] = x
    BY <1>2 DEF ByteTurns
  <2> QED BY <2>1, <2>2 DEF Above
<1> DEFINE S == {n \in Nat : n <= 8 => Above(w[n], h[15 - n], n)}
<1>4. 0 \in S
  BY <1>3
<1>5. ASSUME NEW n \in 0..8-1, n \in S PROVE n + 1 \in S
  <2>1. n \in 0..7 /\ 14 - n \in 7..14 /\ (14 - n) + 1 = 15 - n /\ 15 - n \in 7..N
        /\ n + 1 \in 1..8 /\ (n + 1) - 1 = n /\ 15 - (n + 1) = 14 - n /\ n \in 0..8
    OBVIOUS
  <2>2. Above(w[n], h[15 - n], n)
    BY <1>5
  <2>3. w[n + 1] = ShiftOnce(w[n])
    BY <1>2, <2>1 DEF ByteTurns
  <2>4. h[14 - n] = Cancel(h[15 - n], G7, 14 - n, 7)
    BY <2>1
  <2>5. w[n] \in SUBSET Nat /\ h[15 - n] \in SUBSET Int
    BY <2>1
  <2>6. Above(w[n + 1], h[14 - n], n + 1)
    BY <2>1, <2>2, <2>3, <2>4, <2>5, ByteTurn
  <2> QED BY <2>1, <2>6
<1>6. \A n \in 0..8 : n \in S
  <2>1. 8 \in Nat
    OBVIOUS
  <2> HIDE DEF S
  <2> QED BY <1>4, <1>5, <2>1, Upward
<1>7. Above(w[8], h[7], 8)
  <2>1. 8 \in S /\ 15 - 8 = 7
    BY <1>6
  <2> QED BY <2>1
<1>8. \A p \in Int : p \in Low(w[8], 8) <=> p \in Shl(h[7], 1)
  <2>1. ASSUME NEW p \in Int PROVE p \in Low(w[8], 8) <=> p \in Shl(h[7], 1)
    <3>1. p \in Shl(h[7], 1) <=> p - 1 \in h[7]
      <4>1. h[7] \subseteq Int
        OBVIOUS
      <4> QED BY <4>1 DEF Shl
    <3>2. p - 1 \in Int /\ (p - 1) - 7 + 8 = p /\ 8 - 1 = 7
      OBVIOUS
    <3>3. p - 1 \in h[7] <=> p \in 0..7 /\ p \in w[8]
      BY <1>7, <3>2 DEF Above
    <3> QED BY <3>1, <3>2, <3>3 DEF Low
  <2> QED BY <2>1
<1>9. Low(w[8], 8) \subseteq Int /\ Shl(h[7], 1) \subseteq Int
  <2>1. h[7] \subseteq Int
    OBVIOUS
  <2> QED BY <2>1 DEF Low, Shl
<1> QED BY <1>2, <1>8, <1>9

LEMMA PolyBits ==
  ASSUME NEW s, NEW n, DOMAIN s = 1..n
  PROVE  \A x : x \in Poly(s) <=> \E i \in 1..n : \E y \in s[i] : x = y + 8 * (Len(s) - i)
BY DEF Poly, Shl

\* The message with one more byte.
LEMMA PolyGrows ==
  ASSUME NEW s \in Seq(SUBSET (0..7)), NEW b \in SUBSET (0..7)
  PROVE  /\ Poly(s) \subseteq 0 .. 8 * Len(s) - 1
         /\ Poly(Append(s, b)) = Shl(Poly(s), 8) \cup b
<1> DEFINE t == Append(s, b)
<1>1. /\ Len(s) \in Nat /\ DOMAIN s = 1..Len(s)
      /\ Len(t) = Len(s) + 1 /\ DOMAIN t = 1..Len(s)+1
      /\ \A i \in 1..Len(s) : t[i] = s[i] /\ s[i] \in SUBSET (0..7)
      /\ t[Len(s) + 1] = b
  BY AppendProperties, LenProperties
<1>2. \A x : x \in Poly(s) <=> \E i \in 1..Len(s) : \E y \in s[i] : x = y + 8 * (Len(s) - i)
  BY <1>1 DEF Poly, Shl
<1>3. \A x : x \in Poly(t) <=> \E i \in 1..Len(s)+1 : \E y \in t[i] : x = y + 8 * (Len(t) - i)
  <2> HIDE DEF t
  <2>1. PICK n \in Nat : n = Len(s) + 1
    BY <1>1
  <2>2. DOMAIN t = 1..n
    BY <1>1, <2>1
  <2>3. \A x : x \in Poly(t) <=> \E i \in 1..n : \E y \in t[i] : x = y + 8 * (Len(t) - i)
    BY <2>2, PolyBits
  <2> QED BY <2>1, <2>3
<1>4. Poly(s) \subseteq 0 .. 8 * Len(s) - 1
  <2>1. ASSUME NEW i \in 1..Len(s), NEW y \in s[i]
        PROVE  y + 8 * (Len(s) - i) \in 0 .. 8 * Len(s) - 1
    <3>1. y \in 0..7
      BY <1>1
    <3> QED BY <1>1, <3>1
  <2> QED BY <1>2, <2>1
<1> HIDE DEF t
<1>5. \A x : x \in Shl(Poly(s), 8) <=> \E i \in 1..Len(s) : \E y \in s[i] : x = y + 8 * (Len(t) - i)
  <2>1. \A x : x \in Shl(Poly(s), 8) <=> \E z \in Poly(s) : x = z + 8
    BY DEF Shl
  <2>2. ASSUME NEW i \in 1..Len(s), NEW y \in s[i]
        PROVE  y + 8 * (Len(t) - i) = (y + 8 * (Len(s) - i)) + 8
    <3>1. y \in 0..7
      BY <1>1
    <3> QED BY <1>1, <3>1
  <2> QED BY <1>2, <2>1, <2>2
<1>6. ASSUME NEW y \in b PROVE y + 8 * (Len(t) - (Len(s) + 1)) = y
  <2>1. y \in 0..7
    OBVIOUS
  <2> QED BY <1>1, <2>1
<1>7. ASSUME NEW x PROVE x \in Poly(t) <=> x \in Shl(Poly(s), 8) \/ x \in b
  <2>1. ASSUME x \in Poly(t) PROVE x \in Shl(Poly(s), 8) \/ x \in b
    <3>0. PICK i \in 1..Len(s)+1 : \E y \in t[i] : x = y + 8 * (Len(t) - i)
      BY <1>3, <2>1
    <3>1. PICK y \in t[i] : x = y + 8 * (Len(t) - i)
      BY <3>0
    <3>2. CASE i = Len(s) + 1
      BY <1>1, <1>6, <3>1, <3>2
    <3>3. CASE i # Len(s) + 1
      <4>1. i \in 1..Len(s)
        BY <1>1, <3>3
      <4> QED BY <1>1, <1>5, <3>1, <4>1
    <3> QED BY <3>2, <3>3
  <2>2. ASSUME x \in Shl(Poly(s), 8) PROVE x \in Poly(t)
    <3>0. PICK i \in 1..Len(s) : \E y \in s[i] : x = y + 8 * (Len(t) - i)
      BY <1>5, <2>2
    <3>1. PICK y \in s[i] : x = y + 8 * (Len(t) - i)
      BY <3>0
    <3>2. i \in 1..Len(s)+1 /\ y \in t[i]
      BY <1>1
    <3> QED BY <1>3, <3>1, <3>2
  <2>3. ASSUME x \in b PROVE x \in Poly(t)
    <3>1. Len(s) + 1 \in 1..Len(s)+1 /\ x \in t[Len(s) + 1] /\ x = x + 8 * (Len(t) - (Len(s) + 1))
      BY <1>1, <1>6, <2>3
    <3> QED BY <1>3, <3>1
  <2> QED BY <2>1, <2>2, <2>3
<1> QED BY <1>4, <1>7 DEF t

LEMMA PolyNat == ASSUME NEW s \in Seq(SUBSET (0..7)) PROVE Poly(s) \subseteq Nat
<1>1. Poly(s) \subseteq 0 .. 8 * Len(s) - 1 /\ Len(s) \in Nat
  BY PolyGrows, LenProperties
<1> QED BY <1>1

\* The CRC of the bytes so far, with seven bits to come, one bit up; and a
\* message that is complete divides.
SumOf(s) == Remainder(Shl(Poly(s), 7), G7, 7, 8 * Len(s) + 7)

CmdInv ==
  /\ data \in Seq(SUBSET (0..7)) /\ Len(data) <= MSG_BYTES
  /\ Len(data) < MSG_BYTES => crc = Shl(SumOf(data), 1)
  /\ Accepted

LEMMA G7Facts == G7 \in SUBSET Int /\ G7 \subseteq 0..7 /\ 7 \in G7 /\ 7 \in Nat
BY DEF G7

LEMMA SumFacts ==
  ASSUME NEW s \in Seq(SUBSET (0..7))
  PROVE  /\ Len(s) \in Nat /\ 8 * Len(s) + 7 \in Nat /\ 7 <= 8 * Len(s) + 7
         /\ Shl(Poly(s), 7) \in SUBSET Int /\ Shl(Poly(s), 7) \subseteq 0 .. 8 * Len(s) + 7 - 1
         /\ SumOf(s) \in SUBSET (0..6)
<1>1. Len(s) \in Nat /\ Poly(s) \subseteq 0 .. 8 * Len(s) - 1
  BY PolyGrows, LenProperties
<1>2. Shl(Poly(s), 7) \subseteq 0 .. 8 * Len(s) + 7 - 1
  BY <1>1 DEF Shl
<1>3. PICK n \in Nat : n = 8 * Len(s) + 7 /\ 7 <= n
  BY <1>1
<1>4. PICK a \in SUBSET Int : a = Shl(Poly(s), 7) /\ a \subseteq 0..n-1
  BY <1>2, <1>3
<1>5. Remainder(a, G7, 7, n) \subseteq 0..7-1
  BY <1>3, <1>4, G7Facts, RemainderBelow
<1>6. SumOf(s) = Remainder(a, G7, 7, n) /\ 7 - 1 = 6
  BY <1>3, <1>4 DEF SumOf
<1> QED BY <1>1, <1>3, <1>4, <1>5, <1>6

LEMMA SumStarts == Shl(SumOf(<<>>), 1) = {}
<1> DEFINE n == 7
<1>1. Poly(<<>>) = {} /\ 8 * Len(<<>>) + 7 = n
  BY DEF Poly
<1>2. n \in Nat /\ n <= n
  OBVIOUS
<1>3. SumOf(<<>>) = Remainder({}, G7, n, n)
  <2>1. Shl({}, 7) = {}
    BY DEF Shl
  <2> QED BY <1>1, <2>1 DEF SumOf
<1> HIDE DEF n
<1>4. PICK f \in [n..n -> SUBSET Int] : Divides(f, {}, G7, n, n)
  BY <1>2, G7Facts, DivisionExists
<1>5. SumOf(<<>>) = {}
  <2>1. Remainder({}, G7, n, n) = f[n]
    BY <1>2, <1>4, RemainderIs
  <2> QED BY <1>3, <1>4, <2>1 DEF Divides
<1> QED BY <1>5 DEF Shl

\* What crc7_data adds with a byte.
LEMMA SumGrows ==
  ASSUME NEW s \in Seq(SUBSET (0..7)), NEW b \in SUBSET (0..7)
  PROVE  crc7_byte(Xor(Shl(SumOf(s), 1), b)) = Shl(SumOf(Append(s, b)), 1)
<1> DEFINE t == Append(s, b)
<1>1. PICK n \in Nat : n = 8 * Len(s) + 7 /\ 7 <= n
  BY SumFacts
<1>2. PICK a \in SUBSET Int : a = Shl(Poly(s), 7)
  BY SumFacts
<1>3. PICK r \in SUBSET (0..6) : r = SumOf(s)
  BY SumFacts
<1>4. PICK c \in SUBSET (0 .. 7 + 8 - 1) : c = Shl(b, 7)
  <2>1. \A x \in b : x + 7 \in 0 .. 7 + 8 - 1
    OBVIOUS
  <2> QED BY <2>1 DEF Shl
<1>5. t \in Seq(SUBSET (0..7)) /\ Len(t) = Len(s) + 1
  BY AppendProperties
<1>6. 8 * Len(t) + 7 = n + 8
  BY <1>1, <1>5, SumFacts
<1>7. Shl(Poly(t), 7) = Xor(Shl(a, 8), c)
  <2>0. Poly(t) = Shl(Poly(s), 8) \cup b
    BY PolyGrows
  <2>2. Poly(s) \subseteq Nat
    BY PolyNat
  <2>1. Poly(s) \subseteq Int
    BY <2>2
  <2>3a. Poly(t) \subseteq Int
    <3>1. Poly(t) \subseteq Nat
      <4> HIDE DEF t
      <4> QED BY <1>5, PolyNat
    <3> QED BY <3>1
  <2>3b. \A x \in Int : x \in Shl(Poly(t), 7) <=> x - 7 \in Poly(t)
    BY <2>3a DEF Shl
  <2>3c. \A x \in Int : x - 7 \in Shl(Poly(s), 8) <=> x - 15 \in Poly(s)
    BY <2>1 DEF Shl
  <2>3. \A x \in Int : x \in Shl(Poly(t), 7) <=> x - 15 \in Poly(s) \/ x - 7 \in b
    BY <2>0, <2>3b, <2>3c
  <2>4. \A x \in Int : x \in Shl(a, 8) <=> x - 15 \in Poly(s)
    BY <1>2, <2>1 DEF Shl
  <2>5. \A x \in Int : x \in c <=> x - 7 \in b
    <3>1. \A x : x \in c <=> \E i \in b : x = i + 7
      BY <1>4 DEF Shl
    <3>2. \A x \in Int : \A i \in b : x = i + 7 <=> i = x - 7
      OBVIOUS
    <3> QED BY <3>1, <3>2
  <2>6. \A x \in Int : x - 7 \in b => x - 15 \notin Poly(s)
    BY <2>2
  <2>7. \A x \in Int : x \in Shl(Poly(t), 7) <=> x \in Xor(Shl(a, 8), c)
    BY <2>3, <2>4, <2>5, <2>6 DEF Xor
  <2>8. Shl(Poly(t), 7) \subseteq Int /\ Xor(Shl(a, 8), c) \subseteq Int
    <3>1. Shl(a, 8) \subseteq Int
      BY DEF Shl
    <3>2. c \subseteq Int
      OBVIOUS
    <3>3. Xor(Shl(a, 8), c) \subseteq Int
      BY <3>1, <3>2 DEF Xor
    <3>4. Shl(Poly(t), 7) \subseteq Int
      BY <2>3a DEF Shl
    <3> QED BY <3>3, <3>4
  <2> QED BY <2>7, <2>8
<1>8. PICK f \in [7..n -> SUBSET Int] : Divides(f, a, G7, 7, n)
  BY <1>1, G7Facts, DivisionExists
<1>9. r = f[7]
  <2>1. r = Remainder(a, G7, 7, n)
    BY <1>1, <1>2, <1>3 DEF SumOf
  <2> QED BY <1>1, <1>8, <2>1, G7Facts, RemainderIs
<1>10. PICK a2 \in SUBSET Int : a2 = Xor(Shl(a, 8), c)
  <2>1. Shl(a, 8) \subseteq Int
    BY DEF Shl
  <2>2. c \subseteq Int
    OBVIOUS
  <2> QED BY <2>1, <2>2 DEF Xor
<1>11. n + 8 \in Nat /\ 7 <= n + 8 /\ n + 8 >= 15 /\ 8 \in Nat
  BY <1>1
<1>12. PICK h \in [7..n+8 -> SUBSET Int] : Divides(h, a2, G7, 7, n + 8)
  BY <1>10, <1>11, G7Facts, DivisionExists
<1>13. SumOf(t) = h[7]
  <2>1. SumOf(t) = Remainder(a2, G7, 7, n + 8)
    BY <1>6, <1>7, <1>10 DEF SumOf
  <2> QED BY <1>10, <1>11, <1>12, <2>1, G7Facts, RemainderIs
<1>14. h[15] = Xor(Shl(r, 8), Shl(b, 7))
  <2>1. h[7 + 8] = Xor(Shl(f[7], 8), c)
    <3>1. PICK d \in Nat, m \in Nat : d = 7 /\ m = 8
      OBVIOUS
    <3>2. /\ d <= n /\ c \in SUBSET (0 .. d + m - 1)
          /\ f \in [d..n -> SUBSET Int] /\ Divides(f, a, G7, d, n)
          /\ h \in [d..n+m -> SUBSET Int] /\ Divides(h, Xor(Shl(a, m), c), G7, d, n + m)
      BY <1>1, <1>8, <1>10, <1>12, <3>1
    <3>3. h[d + m] = Xor(Shl(f[d], m), c)
      BY <3>2, G7Facts, Appended
    <3> QED BY <3>1, <3>3
  <2>2. 7 + 8 = 15
    OBVIOUS
  <2> QED BY <1>4, <1>9, <2>1, <2>2
<1>15. \A k \in 7..14 : h[k] = Cancel(h[k + 1], G7, k, 7)
  <2>1. \A k \in 7..14 : k \in 7..n+8-1
    BY <1>1
  <2> QED BY <1>12, <2>1 DEF Divides
<1>16. crc7_byte(Xor(Shl(r, 1), b)) = Shl(h[7], 1)
  BY <1>11, <1>14, <1>15, ByteRemainder
<1> QED BY <1>3, <1>13, <1>16

\* add_crc7: with its CRC and the stop bit a message of any length divides.
LEMMA SumCompletes ==
  ASSUME NEW s \in Seq(SUBSET (0..7))
  PROVE  /\ Shl(SumOf(s), 1) \cup {0} \in SUBSET (0..7)
         /\ Remainder(Shr(Poly(Append(s, Shl(SumOf(s), 1) \cup {0})), 1), G7, 7,
                      8 * (Len(s) + 1)) = {}
<1>1. PICK n \in Nat : n = 8 * Len(s) + 7 /\ 7 <= n
  BY SumFacts
<1>2. PICK a \in SUBSET Int : a = Shl(Poly(s), 7) /\ a \subseteq 0..n-1
  BY <1>1, SumFacts
<1>3. PICK r \in SUBSET (0..6) : r = SumOf(s) /\ r = Remainder(a, G7, 7, n)
  BY <1>1, <1>2, SumFacts DEF SumOf
<1>4. PICK b \in SUBSET (0..7) : b = Shl(r, 1) \cup {0}
  <2>1. \A x \in r : x + 1 \in 0..7
    OBVIOUS
  <2>2. Shl(r, 1) \subseteq 0..7 /\ 0 \in 0..7
    BY <2>1 DEF Shl
  <2> QED BY <2>2
<1>5. Poly(s) \subseteq Nat /\ Poly(Append(s, b)) = Shl(Poly(s), 8) \cup b
  BY PolyGrows, PolyNat
<1>6. Shr(Poly(Append(s, b)), 1) = Xor(a, r)
  <2>1. \A x : x \in Shr(Poly(Append(s, b)), 1) <=>
                 \E i \in Poly(Append(s, b)) : i >= 1 /\ x = i - 1
    BY DEF Shr
  <2>2. \A i : i \in Poly(Append(s, b)) <=>
                 (\E y \in Poly(s) : i = y + 8) \/ (\E y \in r : i = y + 1) \/ i = 0
    BY <1>4, <1>5 DEF Shl
  <2>3. \A x : x \in a <=> \E y \in Poly(s) : x = y + 7
    BY <1>2 DEF Shl
  <2>4. \A y \in Poly(s) : y + 8 >= 1 /\ (y + 8) - 1 = y + 7 /\ y + 7 >= 7
    BY <1>5
  <2>5. \A y \in r : y + 1 >= 1 /\ (y + 1) - 1 = y /\ y < 7
    OBVIOUS
  <2>6. \A x : x \in Shr(Poly(Append(s, b)), 1) <=> x \in a \/ x \in r
    <3>1. ASSUME NEW x, x \in Shr(Poly(Append(s, b)), 1) PROVE x \in a \/ x \in r
      <4>1. PICK i \in Poly(Append(s, b)) : i >= 1 /\ x = i - 1
        BY <2>1, <3>1
      <4>2. CASE \E y \in Poly(s) : i = y + 8
        BY <2>3, <2>4, <4>1, <4>2
      <4>3. CASE \E y \in r : i = y + 1
        BY <2>5, <4>1, <4>3
      <4>4. i # 0
        BY <4>1
      <4> QED BY <2>2, <4>2, <4>3, <4>4
    <3>2. ASSUME NEW x, x \in a PROVE x \in Shr(Poly(Append(s, b)), 1)
      <4>1. PICK y \in Poly(s) : x = y + 7
        BY <2>3, <3>2
      <4> QED BY <2>1, <2>2, <2>4, <4>1
    <3>3. ASSUME NEW x, x \in r PROVE x \in Shr(Poly(Append(s, b)), 1)
      <4>1. x + 1 >= 1 /\ (x + 1) - 1 = x
        BY <2>5, <3>3
      <4>2. x + 1 \in Poly(Append(s, b))
        BY <2>2, <3>3
      <4> QED BY <2>1, <4>1, <4>2
    <3> QED BY <3>1, <3>2, <3>3
  <2>7. \A x : ~(x \in a /\ x \in r)
    <3>1. \A x \in a : x >= 7
      BY <2>3, <2>4
    <3>2. \A x \in r : ~(x >= 7)
      OBVIOUS
    <3> QED BY <3>1, <3>2
  <2> QED BY <2>6, <2>7 DEF Xor
<1>7. Remainder(Xor(a, r), G7, 7, n + 1) = {}
  BY <1>1, <1>2, <1>3, G7Facts, Completed
<1>8. n + 1 = 8 * (Len(s) + 1)
  BY <1>1, SumFacts
<1> QED BY <1>3, <1>4, <1>6, <1>7, <1>8

LEMMA CmdInit == CrcInit => CmdInv
<1> SUFFICES ASSUME CrcInit PROVE CmdInv
  OBVIOUS
<1>1. data = <<>> /\ crc = {} /\ Len(data) = 0 /\ Len(data) < MSG_BYTES
  BY DEF CrcInit, MSG_BYTES
<1>2. crc = Shl(SumOf(<<>>), 1)
  BY <1>1, SumStarts
<1> QED BY <1>1, <1>2 DEF CmdInv, Accepted, MSG_BYTES

LEMMA CmdAgain == NextMessage => CmdInv'
<1>1. CrcInit' => CmdInv'
  BY CmdInit, PTL
<1> QED BY <1>1, StartsOver

LEMMA CmdStep == CmdInv /\ [CrcNext]_crcVars => CmdInv'
<1> SUFFICES ASSUME CmdInv, [CrcNext]_crcVars PROVE CmdInv'
  OBVIOUS
<1>0. data \in Seq(SUBSET (0..7)) /\ Len(data) \in Nat /\ Len(data) <= MSG_BYTES
  BY LenProperties DEF CmdInv
<1>1. CASE NextByte
  <2>1. PICK b \in SUBSET (0..7) : crc' = crc7_table[Xor(crc, b)] /\ data' = Append(data, b)
    BY <1>1 DEF NextByte, Word
  <2>2. Len(data) < MSG_BYTES - 1
    BY <1>1 DEF NextByte
  <2>3. crc = Shl(SumOf(data), 1)
    BY <1>0, <2>2 DEF CmdInv, MSG_BYTES
  <2>4. Xor(crc, b) \in SUBSET (0..7)
    <3>1. crc \subseteq 0..7
      BY <1>0, <2>3, SumFacts DEF Shl
    <3> QED BY <3>1 DEF Xor
  <2>5. crc' = crc7_byte(Xor(crc, b))
    BY <2>1, <2>4 DEF crc7_table
  <2>6. crc' = Shl(SumOf(data'), 1)
    BY <1>0, <2>1, <2>3, <2>5, SumGrows
  <2>7. data' \in Seq(SUBSET (0..7)) /\ Len(data') = Len(data) + 1
    BY <1>0, <2>1, AppendProperties
  <2>8. Len(data') < MSG_BYTES
    BY <1>0, <2>2, <2>7 DEF MSG_BYTES
  <2>9. Len(data') <= MSG_BYTES /\ Len(data') # MSG_BYTES
    BY <1>0, <2>7, <2>8 DEF MSG_BYTES
  <2> QED BY <2>6, <2>7, <2>9 DEF CmdInv, Accepted
<1>2. CASE add_crc7
  <2>1. Len(data) = MSG_BYTES - 1 /\ data' = Append(data, crc \cup {0})
    BY <1>2 DEF add_crc7
  <2>2. crc = Shl(SumOf(data), 1)
    BY <1>0, <2>1 DEF CmdInv, MSG_BYTES
  <2>3. crc \cup {0} \in SUBSET (0..7)
    BY <1>0, <2>2, SumCompletes
  <2>4. /\ data' \in Seq(SUBSET (0..7)) /\ Len(data') = Len(data) + 1
        /\ data'[Len(data) + 1] = crc \cup {0}
    BY <1>0, <2>1, <2>3, AppendProperties
  <2>5. Len(data') = MSG_BYTES /\ Len(data) + 1 = MSG_BYTES
    BY <2>1, <2>4 DEF MSG_BYTES
  <2>6. Remainder(Shr(Poly(data'), 1), G7, 7, 8 * (Len(data) + 1)) = {}
    BY <1>0, <2>1, <2>2, SumCompletes
  <2>7. Accepted'
    BY <2>4, <2>5, <2>6 DEF Accepted
  <2>8. Len(data') <= MSG_BYTES /\ ~(Len(data') < MSG_BYTES)
    BY <2>5 DEF MSG_BYTES
  <2> QED BY <2>4, <2>7, <2>8 DEF CmdInv
<1>3. CASE StartBlock
  <2>1. crc' = {} /\ data' = <<>> /\ Len(data') = 0
    BY <1>3 DEF StartBlock
  <2>2. crc' = Shl(SumOf(data'), 1)
    BY <2>1, SumStarts
  <2> QED BY <2>1, <2>2 DEF CmdInv, Accepted, MSG_BYTES
<1>4. CASE UNCHANGED <<crc, data>>
  BY <1>4 DEF CmdInv, Accepted
<1>5. CASE SendData \/ SendCrc \/ UNCHANGED crcVars
  BY <1>4, <1>5 DEF SendData, SendCrc, cmdVars, crcVars
<1>6. CASE NextMessage
  BY <1>6, CmdAgain
<1> QED BY <1>1, <1>2, <1>3, <1>5, <1>6 DEF CrcNext

\* crc7_data, add_crc7: whatever bytes a command is made of, its last one makes
\* the message divide by the polynomial and ends with the stop bit.
THEOREM CommandsDivide == CrcSpec => []Accepted
<1>1. CmdInv => Accepted
  BY DEF CmdInv
<1> QED BY <1>1, CmdInit, CmdStep, PTL DEF CrcSpec

-----------------------------------------------------------------------------
(* The fields of a command.                                                *)

LEMMA FieldIs ==
  ASSUME NEW v \in Nat
  PROVE  /\ Field(v, 0, 1) = v % 2          /\ Field(v, 1, 1) = (v \div 2) % 2
         /\ Field(v, 2, 1) = (v \div 4) % 2  /\ Field(v, 3, 1) = (v \div 8) % 2
         /\ Field(v, 4, 1) = (v \div 16) % 2 /\ Field(v, 5, 1) = (v \div 32) % 2
         /\ Field(v, 6, 1) = (v \div 64) % 2 /\ Field(v, 7, 1) = (v \div 128) % 2
         /\ Field(v, 0, 2) = v % 4   /\ Field(v, 0, 3) = v % 8   /\ Field(v, 0, 6) = v % 64
         /\ Field(v, 0, 7) = v % 128 /\ Field(v, 0, 8) = v % 256
         /\ Field(v, 1, 7) = (v \div 2) % 128   /\ Field(v, 4, 3) = (v \div 16) % 8
         /\ Field(v, 7, 8) = (v \div 128) % 256 /\ Field(v, 8, 1) = (v \div 256) % 2
         /\ Field(v, 15, 2) = (v \div 32768) % 4
BY SMT DEF Field

LEMMA FieldInt ==
  ASSUME NEW v \in Nat
  PROVE  Field(v, 1, 7) \in Int /\ \A k \in 0..7 : Field(v, k, 1) \in Int
<1>1. /\ Field(v, 0, 1) \in Int /\ Field(v, 1, 1) \in Int /\ Field(v, 2, 1) \in Int
      /\ Field(v, 3, 1) \in Int /\ Field(v, 4, 1) \in Int /\ Field(v, 5, 1) \in Int
      /\ Field(v, 6, 1) \in Int /\ Field(v, 7, 1) \in Int /\ Field(v, 1, 7) \in Int
  BY SMT DEF Field
<1>2. \A k \in 0..7 : k \in {0, 1, 2, 3, 4, 5, 6, 7}
  OBVIOUS
<1> QED BY <1>1, <1>2

\* The bits of a byte, and its fields by its bits.
Sum(b7, b6, b5, b4, b3, b2, b1, b0) ==
  128 * b7 + 64 * b6 + 32 * b5 + 16 * b4 + 8 * b3 + 4 * b2 + 2 * b1 + b0

ByteBits(b, b7, b6, b5, b4, b3, b2, b1, b0) ==
  /\ b = Sum(b7, b6, b5, b4, b3, b2, b1, b0)
  /\ Field(b, 7, 1) = b7 /\ Field(b, 6, 1) = b6 /\ Field(b, 5, 1) = b5
  /\ Field(b, 4, 1) = b4 /\ Field(b, 3, 1) = b3 /\ Field(b, 2, 1) = b2
  /\ Field(b, 1, 1) = b1 /\ Field(b, 0, 1) = b0
  /\ Field(b, 0, 6) = Sum(0, 0, b5, b4, b3, b2, b1, b0)
  /\ Field(b, 4, 3) = Sum(0, 0, 0, 0, 0, b6, b5, b4)
  /\ Field(b, 0, 2) = Sum(0, 0, 0, 0, 0, 0, b1, b0)
  /\ Field(b, 1, 7) = Sum(0, b7, b6, b5, b4, b3, b2, b1)

LEMMA BitsOfByte ==
  ASSUME NEW b \in Byte
  PROVE  \E b7, b6, b5, b4, b3, b2, b1, b0 \in 0..1 :
      ByteBits(b, b7, b6, b5, b4, b3, b2, b1, b0)
<1>1. b \in Nat /\ b <= 255
  BY DEF Byte
<1>2. PICK q1 \in 0..127, b0 \in 0..1 : b = 2 * q1 + b0
  <2>1. (b \div 2) \in 0..127 /\ (b % 2) \in 0..1 /\ b = 2 * (b \div 2) + (b % 2)
    BY <1>1
  <2> QED BY <2>1
<1>3. PICK q2 \in 0..63, b1 \in 0..1 : q1 = 2 * q2 + b1
  <2>1. (q1 \div 2) \in 0..63 /\ (q1 % 2) \in 0..1 /\ q1 = 2 * (q1 \div 2) + (q1 % 2)
    OBVIOUS
  <2> QED BY <2>1
<1>4. PICK q3 \in 0..31, b2 \in 0..1 : q2 = 2 * q3 + b2
  <2>1. (q2 \div 2) \in 0..31 /\ (q2 % 2) \in 0..1 /\ q2 = 2 * (q2 \div 2) + (q2 % 2)
    OBVIOUS
  <2> QED BY <2>1
<1>5. PICK q4 \in 0..15, b3 \in 0..1 : q3 = 2 * q4 + b3
  <2>1. (q3 \div 2) \in 0..15 /\ (q3 % 2) \in 0..1 /\ q3 = 2 * (q3 \div 2) + (q3 % 2)
    OBVIOUS
  <2> QED BY <2>1
<1>6. PICK q5 \in 0..7, b4 \in 0..1 : q4 = 2 * q5 + b4
  <2>1. (q4 \div 2) \in 0..7 /\ (q4 % 2) \in 0..1 /\ q4 = 2 * (q4 \div 2) + (q4 % 2)
    OBVIOUS
  <2> QED BY <2>1
<1>7. PICK q6 \in 0..3, b5 \in 0..1 : q5 = 2 * q6 + b5
  <2>1. (q5 \div 2) \in 0..3 /\ (q5 % 2) \in 0..1 /\ q5 = 2 * (q5 \div 2) + (q5 % 2)
    OBVIOUS
  <2> QED BY <2>1
<1>8. PICK b7 \in 0..1, b6 \in 0..1 : q6 = 2 * b7 + b6
  <2>1. (q6 \div 2) \in 0..1 /\ (q6 % 2) \in 0..1 /\ q6 = 2 * (q6 \div 2) + (q6 % 2)
    OBVIOUS
  <2> QED BY <2>1
<1>9. /\ b % 2 = b0 /\ b \div 2 = q1 /\ b \div 4 = q2 /\ b \div 8 = q3 /\ b \div 16 = q4
      /\ b \div 32 = q5 /\ b \div 64 = q6 /\ b \div 128 = b7
  BY <1>2, <1>3, <1>4, <1>5, <1>6, <1>7, <1>8
<1>10. /\ q1 % 2 = b1 /\ q2 % 2 = b2 /\ q3 % 2 = b3 /\ q4 % 2 = b4 /\ q5 % 2 = b5 /\ q6 % 2 = b6
       /\ b7 % 2 = b7
  BY <1>3, <1>4, <1>5, <1>6, <1>7, <1>8
<1>11. b = Sum(b7, b6, b5, b4, b3, b2, b1, b0)
  BY <1>2, <1>3, <1>4, <1>5, <1>6, <1>7, <1>8 DEF Sum
<1>12. /\ b % 64 = Sum(0, 0, b5, b4, b3, b2, b1, b0)
       /\ q4 % 8 = Sum(0, 0, 0, 0, 0, b6, b5, b4)
       /\ b % 4 = Sum(0, 0, 0, 0, 0, 0, b1, b0)
       /\ q1 % 128 = Sum(0, b7, b6, b5, b4, b3, b2, b1)
  BY <1>2, <1>3, <1>4, <1>5, <1>6, <1>7, <1>8 DEF Sum
<1>13. /\ Field(b, 7, 1) = b7 /\ Field(b, 6, 1) = b6 /\ Field(b, 5, 1) = b5
       /\ Field(b, 4, 1) = b4 /\ Field(b, 3, 1) = b3 /\ Field(b, 2, 1) = b2
       /\ Field(b, 1, 1) = b1 /\ Field(b, 0, 1) = b0
       /\ Field(b, 0, 6) = b % 64 /\ Field(b, 4, 3) = q4 % 8
       /\ Field(b, 0, 2) = b % 4 /\ Field(b, 1, 7) = q1 % 128
  <2>1. /\ Field(b, 0, 1) = b % 2          /\ Field(b, 1, 1) = (b \div 2) % 2
        /\ Field(b, 2, 1) = (b \div 4) % 2  /\ Field(b, 3, 1) = (b \div 8) % 2
        /\ Field(b, 4, 1) = (b \div 16) % 2 /\ Field(b, 5, 1) = (b \div 32) % 2
        /\ Field(b, 6, 1) = (b \div 64) % 2 /\ Field(b, 7, 1) = (b \div 128) % 2
        /\ Field(b, 0, 2) = b % 4 /\ Field(b, 0, 6) = b % 64
        /\ Field(b, 1, 7) = (b \div 2) % 128   /\ Field(b, 4, 3) = (b \div 16) % 8
    BY <1>1, FieldIs
  <2> QED BY <2>1, <1>9, <1>10, Zenon
<1> WITNESS b7 \in 0..1, b6 \in 0..1, b5 \in 0..1, b4 \in 0..1,
            b3 \in 0..1, b2 \in 0..1, b1 \in 0..1, b0 \in 0..1
<1> QED BY <1>11, <1>12, <1>13 DEF ByteBits

\* The byte of a word.
LEMMA ByteOfWord ==
  ASSUME NEW b \in Byte
  PROVE  Word(b) \in SUBSET (0..7) /\ ByteOf[Word(b)] = b
<1>1. Word(b) \in SUBSET (0..7)
  BY DEF Word
<1>2. ASSUME NEW v \in 0..255, Word(v) = Word(b) PROVE v = b
  <2>1. \A i \in 0..7 : Field(v, i, 1) = 1 <=> Field(b, i, 1) = 1
    BY <1>2 DEF Word
  <2>2. PICK b7, b6, b5, b4, b3, b2, b1, b0 \in 0..1 :
      ByteBits(b, b7, b6, b5, b4, b3, b2, b1, b0)
    BY BitsOfByte
  <2>3. PICK v7, v6, v5, v4, v3, v2, v1, v0 \in 0..1 :
      ByteBits(v, v7, v6, v5, v4, v3, v2, v1, v0)
    <3>1. v \in Byte
      BY DEF Byte
    <3> QED BY <3>1, BitsOfByte
  <2>4. 0 \in 0..7 /\ 1 \in 0..7 /\ 2 \in 0..7 /\ 3 \in 0..7
        /\ 4 \in 0..7 /\ 5 \in 0..7 /\ 6 \in 0..7 /\ 7 \in 0..7
    OBVIOUS
  <2>5. /\ v7 = b7 /\ v6 = b6 /\ v5 = b5 /\ v4 = b4
        /\ v3 = b3 /\ v2 = b2 /\ v1 = b1 /\ v0 = b0
    BY <2>1, <2>2, <2>3, <2>4 DEF ByteBits
  <2> QED BY <2>2, <2>3, <2>5 DEF ByteBits
<1>3. \E v \in 0..255 : Word(v) = Word(b)
  BY DEF Byte
<1>4. (CHOOSE v \in 0..255 : Word(v) = Word(b)) = b
  BY <1>2, <1>3
<1> QED BY <1>1, <1>4 DEF ByteOf

\* What the chip reads in the bits f to l.
Message(m) == \A i \in 1..5 : m[i] \in Byte

LEMMA BitIs ==
  ASSUME NEW m, NEW i \in 1..5, NEW k \in 0..7
  PROVE  BitOf(m, 8 * i - k) = Field(m[i], k, 1)
<1>1. (8 * i - k + 7) \div 8 = i
  OBVIOUS
<1>2. 7 - ((8 * i - k - 1) % 8) = k
  OBVIOUS
<1> QED BY <1>1, <1>2 DEF BitOf

LEMMA AtTurns ==
  ASSUME NEW m, Message(m), NEW f \in 1..40, NEW l \in f..40
  PROVE  \E v : /\ v[f - 1] = 0
                /\ \A i \in f..l : v[i] = 2 * v[i - 1] + BitOf(m, i)
                /\ At(m, f, l) = v[l]
<1> DEFINE N      == l - f + 1
           step   == [i \in 1..N |-> [x \in Int |-> 2 * x + BitOf(m, f - 1 + i)]]
           Def(h) == [i \in f-1..l |-> IF i < f THEN 0 ELSE 2 * h[i - 1] + BitOf(m, i)]
<1>1. ASSUME NEW i \in 1..40 PROVE BitOf(m, i) \in Int
  <2>1. PICK b \in 1..5, k \in 0..7 : i = 8 * b - k
    <3>1. ((i + 7) \div 8) \in 1..5 /\ 8 * ((i + 7) \div 8) - i \in 0..7
      OBVIOUS
    <3>2. i = 8 * ((i + 7) \div 8) - (8 * ((i + 7) \div 8) - i)
      OBVIOUS
    <3> QED BY <3>1, <3>2
  <2>2. PICK x \in Byte : x = m[b]
    BY DEF Message
  <2>3. Field(x, k, 1) \in Int
    <3>1. x \in Nat
      BY DEF Byte
    <3> QED BY <3>1, FieldInt
  <2> QED BY <2>1, <2>2, <2>3, BitIs
<1>2. step \in [1..N -> [Int -> Int]] /\ N \in Nat /\ 0 \in Int
  <2>1. \A i \in 1..N : f - 1 + i \in 1..40
    OBVIOUS
  <2> QED BY <1>1, <2>1
<1>3. PICK s \in [0..N -> Int] : Steps(s, 0, step, N)
  <2> HIDE DEF N, step
  <2> QED BY <1>2, StepsExist
<1> DEFINE v == [i \in f-1..l |-> s[i - (f - 1)]]
<1>4. v[f - 1] = 0
  <2>1. f - 1 \in f-1..l /\ (f - 1) - (f - 1) = 0
    OBVIOUS
  <2> QED BY <1>3, <2>1 DEF Steps
<1>5. ASSUME NEW i \in f..l PROVE v[i] = 2 * v[i - 1] + BitOf(m, i)
  <2>1. PICK j \in 1..N : j = i - (f - 1) /\ j - 1 = (i - 1) - (f - 1) /\ f - 1 + j = i
                          /\ j - 1 \in 0..N
    OBVIOUS
  <2>2. s[j] = step[j][s[j - 1]] /\ s[j - 1] \in Int
    BY <1>3, <2>1 DEF Steps
  <2>3. s[j] = 2 * s[j - 1] + BitOf(m, i)
    BY <2>1, <2>2
  <2>4. v[i] = s[j] /\ v[i - 1] = s[j - 1]
    BY <2>1
  <2> QED BY <2>3, <2>4
<1>6. v = Def(v)
  <2>1. ASSUME NEW i \in f-1..l
        PROVE  v[i] = IF i < f THEN 0 ELSE 2 * v[i - 1] + BitOf(m, i)
    <3>1. CASE i < f
      <4>1. i = f - 1
        BY <3>1
      <4> HIDE DEF v
      <4> QED BY <1>4, <3>1, <4>1
    <3>2. CASE ~(i < f)
      <4>1. i \in f..l
        BY <3>2
      <4> HIDE DEF v
      <4> QED BY <1>5, <3>2, <4>1
    <3> QED BY <3>1, <3>2
  <2> QED BY <2>1
<1>7. ASSUME NEW h, h = Def(h) PROVE h = v
  <2> DEFINE S == {n \in Nat : n <= N => h[f - 1 + n] = v[f - 1 + n]}
  <2>1. 0 \in S
    <3>1. f - 1 + 0 = f - 1 /\ f - 1 \in f-1..l /\ f - 1 < f
      OBVIOUS
    <3>2. h[f - 1] = 0
      BY <1>7, <3>1
    <3> HIDE DEF v
    <3> QED BY <1>4, <3>1, <3>2
  <2>2. ASSUME NEW n \in 0..N-1, n \in S PROVE n + 1 \in S
    <3>1. PICK i \in f..l : i = f - 1 + (n + 1) /\ i - 1 = f - 1 + n
      OBVIOUS
    <3>2. h[i - 1] = v[i - 1]
      <4>1. n <= N /\ n \in S
        BY <2>2
      <4>2. h[f - 1 + n] = v[f - 1 + n]
        BY <4>1
      <4> HIDE DEF v
      <4> QED BY <3>1, <4>2
    <3>3. h[i] = 2 * h[i - 1] + BitOf(m, i)
      <4>1. i \in f-1..l /\ ~(i < f)
        OBVIOUS
      <4> QED BY <1>7, <4>1
    <3>4. v[i] = 2 * v[i - 1] + BitOf(m, i)
      BY <1>5
    <3> HIDE DEF v
    <3> QED BY <3>1, <3>2, <3>3, <3>4
  <2>3. \A n \in 0..N : n \in S
    <3>1. N \in Nat
      OBVIOUS
    <3> HIDE DEF S, N
    <3> QED BY <2>1, <2>2, <3>1, Upward
  <2>4. ASSUME NEW i \in f-1..l PROVE h[i] = v[i]
    <3>1. i - (f - 1) \in 0..N /\ f - 1 + (i - (f - 1)) = i
      OBVIOUS
    <3>2. i - (f - 1) \in S
      BY <2>3, <3>1
    <3> HIDE DEF v
    <3> QED BY <3>1, <3>2
  <2> HIDE DEF v
  <2> QED BY <1>6, <1>7, <2>4
<1>8. (CHOOSE h : h = Def(h)) = v
  <2> HIDE DEF Def, v
  <2> QED BY <1>6, <1>7
<1>9. At(m, f, l) = (CHOOSE h : h = Def(h))[l]
  BY DEF At
<1> HIDE DEF v, Def
<1> QED BY <1>4, <1>5, <1>8, <1>9

\* The bits of a message's byte, where the chip reads them.
MessageBits(m, i, b7, b6, b5, b4, b3, b2, b1, b0) ==
  /\ ByteBits(m[i], b7, b6, b5, b4, b3, b2, b1, b0)
  /\ BitOf(m, 8 * i - 7) = b7 /\ BitOf(m, 8 * i - 6) = b6 /\ BitOf(m, 8 * i - 5) = b5
  /\ BitOf(m, 8 * i - 4) = b4 /\ BitOf(m, 8 * i - 3) = b3 /\ BitOf(m, 8 * i - 2) = b2
  /\ BitOf(m, 8 * i - 1) = b1 /\ BitOf(m, 8 * i) = b0

LEMMA BitsOfMessage ==
  ASSUME NEW m, Message(m), NEW i \in 1..5
  PROVE  \E b7, b6, b5, b4, b3, b2, b1, b0 \in 0..1 :
      MessageBits(m, i, b7, b6, b5, b4, b3, b2, b1, b0)
<1>1. PICK b \in Byte : b = m[i]
  BY DEF Message
<1>2. PICK b7, b6, b5, b4, b3, b2, b1, b0 \in 0..1 :
      ByteBits(b, b7, b6, b5, b4, b3, b2, b1, b0)
  BY BitsOfByte
<1>3. \A k \in 0..7 : BitOf(m, 8 * i - k) = Field(b, k, 1)
  BY <1>1, BitIs
<1>4. /\ BitOf(m, 8 * i - 7) = b7 /\ BitOf(m, 8 * i - 6) = b6 /\ BitOf(m, 8 * i - 5) = b5
      /\ BitOf(m, 8 * i - 4) = b4 /\ BitOf(m, 8 * i - 3) = b3 /\ BitOf(m, 8 * i - 2) = b2
      /\ BitOf(m, 8 * i - 1) = b1 /\ BitOf(m, 8 * i) = b0
  <2>1. 0 \in 0..7 /\ 1 \in 0..7 /\ 2 \in 0..7 /\ 3 \in 0..7
        /\ 4 \in 0..7 /\ 5 \in 0..7 /\ 6 \in 0..7 /\ 7 \in 0..7 /\ 8 * i - 0 = 8 * i
    OBVIOUS
  <2>2. BitOf(m, 8 * i) = b0
    <3>1. BitOf(m, 8 * i - 0) = b0
      BY <1>2, <1>3, <2>1 DEF ByteBits
    <3> QED BY <3>1, <2>1
  <2> QED BY <1>2, <1>3, <2>1, <2>2 DEF ByteBits
<1> WITNESS b7 \in 0..1, b6 \in 0..1, b5 \in 0..1, b4 \in 0..1,
            b3 \in 0..1, b2 \in 0..1, b1 \in 0..1, b0 \in 0..1
<1> QED BY <1>1, <1>2, <1>4 DEF MessageBits

\* The turns through one byte.
LEMMA TurnsOfByte ==
  ASSUME NEW m, Message(m), NEW i \in 1..5, NEW v, NEW x \in Int, v[8 * i - 8] = x,
         \A j \in 8 * i - 7 .. 8 * i - 1 : v[j] = 2 * v[j - 1] + BitOf(m, j)
  PROVE  /\ v[8 * i - 1] = 128 * x + Field(m[i], 1, 7)
         /\ v[8 * i] = 2 * v[8 * i - 1] + BitOf(m, 8 * i) => v[8 * i] = 256 * x + m[i]
<1>1. PICK b7, b6, b5, b4, b3, b2, b1, b0 \in 0..1 :
      MessageBits(m, i, b7, b6, b5, b4, b3, b2, b1, b0)
  BY BitsOfMessage
<1>2. ASSUME NEW k \in 1..7 PROVE v[8 * i - k] = 2 * v[8 * i - (k + 1)] + BitOf(m, 8 * i - k)
  <2>1. 8 * i - k \in 8 * i - 7 .. 8 * i - 1 /\ (8 * i - k) - 1 = 8 * i - (k + 1)
    OBVIOUS
  <2> QED BY <2>1
<1>3. /\ v[8 * i - 7] = 2 * v[8 * i - 8] + b7 /\ v[8 * i - 6] = 2 * v[8 * i - 7] + b6
      /\ v[8 * i - 5] = 2 * v[8 * i - 6] + b5 /\ v[8 * i - 4] = 2 * v[8 * i - 5] + b4
      /\ v[8 * i - 3] = 2 * v[8 * i - 4] + b3 /\ v[8 * i - 2] = 2 * v[8 * i - 3] + b2
      /\ v[8 * i - 1] = 2 * v[8 * i - 2] + b1
  <2>1. 1 \in 1..7 /\ 2 \in 1..7 /\ 3 \in 1..7 /\ 4 \in 1..7 /\ 5 \in 1..7 /\ 6 \in 1..7
        /\ 7 \in 1..7 /\ 1 + 1 = 2 /\ 2 + 1 = 3 /\ 3 + 1 = 4 /\ 4 + 1 = 5 /\ 5 + 1 = 6
        /\ 6 + 1 = 7 /\ 7 + 1 = 8
    OBVIOUS
  <2> QED BY <1>1, <1>2, <2>1 DEF MessageBits
<1>4. v[8 * i - 1] = 128 * x + Sum(0, b7, b6, b5, b4, b3, b2, b1)
  BY <1>3 DEF Sum
<1>5. 2 * v[8 * i - 1] + b0 = 256 * x + Sum(b7, b6, b5, b4, b3, b2, b1, b0)
  BY <1>4 DEF Sum
<1> QED BY <1>1, <1>4, <1>5 DEF MessageBits, ByteBits

LEMMA AtByte ==
  ASSUME NEW m, Message(m), NEW i \in 1..5
  PROVE  At(m, 8 * i - 7, 8 * i) = m[i]
<1>1. PICK f \in 1..40 : f = 8 * i - 7
  OBVIOUS
<1>2. PICK l \in f..40 : l = 8 * i
  BY <1>1
<1>3. PICK v : /\ v[f - 1] = 0
               /\ \A j \in f..l : v[j] = 2 * v[j - 1] + BitOf(m, j)
               /\ At(m, f, l) = v[l]
  BY AtTurns
<1>4. v[8 * i - 8] = 0
  <2>1. f - 1 = 8 * i - 8
    BY <1>1
  <2> QED BY <1>3, <2>1
<1>5. \A j \in 8 * i - 7 .. 8 * i - 1 : v[j] = 2 * v[j - 1] + BitOf(m, j)
  <2>1. \A j \in 8 * i - 7 .. 8 * i - 1 : j \in f..l
    BY <1>1, <1>2
  <2> QED BY <1>3, <2>1
<1>6. v[8 * i] = 2 * v[8 * i - 1] + BitOf(m, 8 * i)
  <2>1. l \in f..l /\ l - 1 = 8 * i - 1
    BY <1>2
  <2> QED BY <1>2, <1>3, <2>1
<1>7. PICK x \in Int : x = 0
  OBVIOUS
<1>8. v[8 * i] = 256 * x + m[i]
  BY <1>4, <1>5, <1>6, <1>7, TurnsOfByte
<1>9. m[i] \in Int
  BY DEF Message, Byte
<1> QED BY <1>1, <1>2, <1>3, <1>7, <1>8, <1>9

\* The number of a command, and the flags in its second byte.
LEMMA AtNumber ==
  ASSUME NEW m, Message(m)
  PROVE  At(m, 3, 8) = Field(m[1], 0, 6)
<1>1. PICK v : /\ v[3 - 1] = 0
               /\ \A j \in 3..8 : v[j] = 2 * v[j - 1] + BitOf(m, j)
               /\ At(m, 3, 8) = v[8]
  <2>1. 3 \in 1..40 /\ 8 \in 3..40
    OBVIOUS
  <2> QED BY <2>1, AtTurns
<1>2. PICK i \in 1..5 : i = 1
  OBVIOUS
<1>3. PICK b7, b6, b5, b4, b3, b2, b1, b0 \in 0..1 :
      MessageBits(m, i, b7, b6, b5, b4, b3, b2, b1, b0)
  BY BitsOfMessage
<1>4. /\ BitOf(m, 3) = b5 /\ BitOf(m, 4) = b4 /\ BitOf(m, 5) = b3
      /\ BitOf(m, 6) = b2 /\ BitOf(m, 7) = b1 /\ BitOf(m, 8) = b0
  <2>1. 8 * i - 5 = 3 /\ 8 * i - 4 = 4 /\ 8 * i - 3 = 5 /\ 8 * i - 2 = 6 /\ 8 * i - 1 = 7
        /\ 8 * i = 8
    BY <1>2
  <2> QED BY <1>3, <2>1 DEF MessageBits
<1>5. /\ v[2] = 0 /\ v[3] = 2 * v[2] + b5 /\ v[4] = 2 * v[3] + b4 /\ v[5] = 2 * v[4] + b3
      /\ v[6] = 2 * v[5] + b2 /\ v[7] = 2 * v[6] + b1 /\ v[8] = 2 * v[7] + b0
  BY <1>1, <1>4
<1>6. v[8] = Sum(0, 0, b5, b4, b3, b2, b1, b0)
  BY <1>5 DEF Sum
<1> QED BY <1>1, <1>2, <1>3, <1>6 DEF MessageBits, ByteBits

LEMMA AtFlags ==
  ASSUME NEW m, Message(m)
  PROVE  /\ At(m, 9, 9) = Field(m[2], 7, 1)
         /\ At(m, 10, 12) = Field(m[2], 4, 3)
         /\ At(m, 13, 13) = Field(m[2], 3, 1)
<1>1. PICK i \in 1..5 : i = 2
  OBVIOUS
<1>2. PICK b7, b6, b5, b4, b3, b2, b1, b0 \in 0..1 :
      MessageBits(m, i, b7, b6, b5, b4, b3, b2, b1, b0)
  BY BitsOfMessage
<1>3. /\ BitOf(m, 9) = b7 /\ BitOf(m, 10) = b6 /\ BitOf(m, 11) = b5
      /\ BitOf(m, 12) = b4 /\ BitOf(m, 13) = b3
  <2>1. 8 * i - 7 = 9 /\ 8 * i - 6 = 10 /\ 8 * i - 5 = 11 /\ 8 * i - 4 = 12 /\ 8 * i - 3 = 13
    BY <1>1
  <2> QED BY <1>2, <2>1 DEF MessageBits
<1>4. At(m, 9, 9) = b7
  <2>1. PICK v : /\ v[9 - 1] = 0
                 /\ \A j \in 9..9 : v[j] = 2 * v[j - 1] + BitOf(m, j)
                 /\ At(m, 9, 9) = v[9]
    <3>1. 9 \in 1..40 /\ 9 \in 9..40
      OBVIOUS
    <3> QED BY <3>1, AtTurns
  <2>2. v[8] = 0 /\ v[9] = 2 * v[8] + b7
    BY <2>1, <1>3
  <2> QED BY <2>1, <2>2
<1>5. At(m, 10, 12) = Sum(0, 0, 0, 0, 0, b6, b5, b4)
  <2>1. PICK v : /\ v[10 - 1] = 0
                 /\ \A j \in 10..12 : v[j] = 2 * v[j - 1] + BitOf(m, j)
                 /\ At(m, 10, 12) = v[12]
    <3>1. 10 \in 1..40 /\ 12 \in 10..40
      OBVIOUS
    <3> QED BY <3>1, AtTurns
  <2>2. v[9] = 0 /\ v[10] = 2 * v[9] + b6 /\ v[11] = 2 * v[10] + b5 /\ v[12] = 2 * v[11] + b4
    BY <2>1, <1>3
  <2> QED BY <2>1, <2>2 DEF Sum
<1>6. At(m, 13, 13) = b3
  <2>1. PICK v : /\ v[13 - 1] = 0
                 /\ \A j \in 13..13 : v[j] = 2 * v[j - 1] + BitOf(m, j)
                 /\ At(m, 13, 13) = v[13]
    <3>1. 13 \in 1..40 /\ 13 \in 13..40
      OBVIOUS
    <3> QED BY <3>1, AtTurns
  <2>2. v[12] = 0 /\ v[13] = 2 * v[12] + b3
    BY <2>1, <1>3
  <2> QED BY <2>1, <2>2
<1> QED BY <1>1, <1>2, <1>4, <1>5, <1>6 DEF MessageBits, ByteBits

\* The 17 bits of an address, and the nine of a length.
LEMMA AtAddress ==
  ASSUME NEW m, Message(m)
  PROVE  At(m, 15, 31) = 2^15 * Field(m[2], 0, 2) + 2^7 * m[3] + Field(m[4], 1, 7)
<1>1. PICK v : /\ v[15 - 1] = 0
               /\ \A j \in 15..31 : v[j] = 2 * v[j - 1] + BitOf(m, j)
               /\ At(m, 15, 31) = v[31]
  <2>1. 15 \in 1..40 /\ 31 \in 15..40
    OBVIOUS
  <2> QED BY <2>1, AtTurns
<1>2. PICK i \in 1..5 : i = 2
  OBVIOUS
<1>3. PICK b7, b6, b5, b4, b3, b2, b1, b0 \in 0..1 :
      MessageBits(m, i, b7, b6, b5, b4, b3, b2, b1, b0)
  BY BitsOfMessage
<1>4. BitOf(m, 15) = b1 /\ BitOf(m, 16) = b0
  <2>1. 8 * i - 1 = 15 /\ 8 * i = 16
    BY <1>2
  <2> QED BY <1>3, <2>1 DEF MessageBits
<1>5. v[14] = 0 /\ v[15] = 2 * v[14] + b1 /\ v[16] = 2 * v[15] + b0
  BY <1>1, <1>4
<1>6. PICK x \in Int : x = v[16] /\ x = Field(m[2], 0, 2)
  <2>1. Sum(0, 0, 0, 0, 0, 0, b1, b0) = 2 * b1 + b0
    BY DEF Sum
  <2>2. v[16] = 2 * b1 + b0 /\ 2 * b1 + b0 \in Int
    BY <1>5
  <2> QED BY <1>2, <1>3, <2>1, <2>2 DEF MessageBits, ByteBits
<1>7. PICK y \in Int : y = v[24] /\ y = 256 * x + m[3]
  <2>1. PICK k \in 1..5 : k = 3
    OBVIOUS
  <2>2. v[8 * k - 8] = x /\ \A j \in 8 * k - 7 .. 8 * k - 1 : v[j] = 2 * v[j - 1] + BitOf(m, j)
    <3>1. 8 * k - 8 = 16 /\ \A j \in 8 * k - 7 .. 8 * k - 1 : j \in 15..31
      BY <2>1
    <3> QED BY <1>1, <1>6, <3>1
  <2>3. v[8 * k] = 2 * v[8 * k - 1] + BitOf(m, 8 * k)
    <3>1. 8 * k \in 15..31
      BY <2>1
    <3> QED BY <1>1, <3>1
  <2>4. v[8 * k] = 256 * x + m[k]
    BY <2>2, <2>3, TurnsOfByte
  <2>5. 8 * k = 24 /\ m[3] \in Int
    BY <2>1 DEF Message, Byte
  <2> QED BY <2>1, <2>4, <2>5
<1>8. v[31] = 128 * y + Field(m[4], 1, 7)
  <2>1. PICK k \in 1..5 : k = 4
    OBVIOUS
  <2>2. v[8 * k - 8] = y /\ \A j \in 8 * k - 7 .. 8 * k - 1 : v[j] = 2 * v[j - 1] + BitOf(m, j)
    <3>1. 8 * k - 8 = 24 /\ \A j \in 8 * k - 7 .. 8 * k - 1 : j \in 15..31
      BY <2>1
    <3> QED BY <1>1, <1>7, <3>1
  <2>3. v[8 * k - 1] = 128 * y + Field(m[k], 1, 7)
    BY <2>2, TurnsOfByte
  <2>4. 8 * k - 1 = 31
    BY <2>1
  <2> QED BY <2>1, <2>3, <2>4
<1>9. m[3] \in Int
  BY DEF Message, Byte
<1>10. Field(m[4], 1, 7) \in Int
  <2>1. PICK z \in Nat : z = m[4]
    BY DEF Message, Byte
  <2>2. Field(z, 1, 7) \in Int
    BY FieldInt
  <2> QED BY <2>1, <2>2
<1>11. 128 * y = 2^15 * x + 2^7 * m[3]
  BY <1>7, <1>9
<1> QED BY <1>1, <1>6, <1>8, <1>9, <1>10, <1>11

LEMMA AtLength ==
  ASSUME NEW m, Message(m)
  PROVE  At(m, 32, 40) = 256 * Field(m[4], 0, 1) + m[5]
<1>1. PICK v : /\ v[32 - 1] = 0
               /\ \A j \in 32..40 : v[j] = 2 * v[j - 1] + BitOf(m, j)
               /\ At(m, 32, 40) = v[40]
  <2>1. 32 \in 1..40 /\ 40 \in 32..40
    OBVIOUS
  <2> QED BY <2>1, AtTurns
<1>2. BitOf(m, 32) = Field(m[4], 0, 1)
  <2>1. PICK i \in 1..5, k \in 0..7 : i = 4 /\ k = 0 /\ 8 * i - k = 32
    OBVIOUS
  <2> QED BY <2>1, BitIs
<1>3. PICK x \in Int : x = Field(m[4], 0, 1)
  <2>1. PICK z \in Nat : z = m[4]
    BY DEF Message, Byte
  <2>2. Field(z, 0, 1) \in Int
    BY FieldInt
  <2> QED BY <2>1, <2>2
<1>4. v[32] = x
  <2>1. v[31] = 0 /\ v[32] = 2 * v[31] + x
    BY <1>1, <1>2, <1>3
  <2> QED BY <2>1
<1>5. PICK k \in 1..5 : k = 5
  OBVIOUS
<1>6. v[8 * k - 8] = x /\ \A j \in 8 * k - 7 .. 8 * k - 1 : v[j] = 2 * v[j - 1] + BitOf(m, j)
  <2>1. 8 * k - 8 = 32 /\ \A j \in 8 * k - 7 .. 8 * k - 1 : j \in 32..40
    BY <1>5
  <2> QED BY <1>1, <1>4, <2>1
<1>7. v[8 * k] = 2 * v[8 * k - 1] + BitOf(m, 8 * k)
  <2>1. 8 * k \in 32..40
    BY <1>5
  <2> QED BY <1>1, <2>1
<1>8. v[8 * k] = 256 * x + m[k]
  BY <1>6, <1>7, TurnsOfByte
<1>9. 8 * k = 40
  BY <1>5
<1> QED BY <1>1, <1>3, <1>5, <1>8, <1>9

-----------------------------------------------------------------------------
(* The fields the host puts together.                                      *)

LEMMA NumberField ==
  ASSUME NEW num \in 0..63
  PROVE  FirstByte(num) \in Byte /\ Field(FirstByte(num), 0, 6) = num
<1>1. Field(num, 0, 6) = num
  BY SMT DEF Field
<1>2. (64 + num) % 64 = num /\ 64 + num \in Byte /\ 64 + num \in Nat
  BY DEF Byte
<1>3. Field(64 + num, 0, 6) = (64 + num) % 64
  BY <1>2 DEF Field
<1> QED BY <1>1, <1>2, <1>3 DEF FirstByte

LEMMA FlagFields ==
  ASSUME NEW wr \in 0..1, NEW func \in 0..7, NEW blk \in 0..1, NEW inc \in 0..1,
         NEW addr \in Nat
  PROVE  /\ Flags(wr, func, blk, inc, addr) \in Byte
         /\ Field(Flags(wr, func, blk, inc, addr), 7, 1) = wr
         /\ Field(Flags(wr, func, blk, inc, addr), 4, 3) = func
         /\ Field(Flags(wr, func, blk, inc, addr), 3, 1) = blk
         /\ Field(Flags(wr, func, blk, inc, addr), 0, 2) = Field(addr, 15, 2)
<1>1. PICK a \in 0..3 : a = Field(addr, 15, 2)
  <2>1. Field(addr, 15, 2) = (addr \div 32768) % 4
    BY FieldIs
  <2>2. (addr \div 32768) % 4 \in 0..3
    OBVIOUS
  <2> QED BY <2>1, <2>2
<1>2. Field(func, 0, 3) = func
  BY SMT DEF Field
<1>3. PICK b \in Byte : /\ b = Flags(wr, func, blk, inc, addr)
                       /\ b = 128 * wr + 16 * func + 8 * blk + 4 * inc + a
  <2>1. 128 * wr + 16 * func + 8 * blk + 4 * inc + a \in Byte
    BY DEF Byte
  <2> QED BY <1>1, <1>2, <2>1 DEF Flags
<1>4. /\ b \div 128 = wr /\ b \div 16 = 8 * wr + func /\ b \div 8 = 16 * wr + 2 * func + blk
  BY <1>3 DEF Byte
<1>5. /\ wr % 2 = wr /\ (8 * wr + func) % 8 = func /\ (16 * wr + 2 * func + blk) % 2 = blk
      /\ b % 4 = a
  BY <1>3 DEF Byte
<1>6. /\ Field(b, 7, 1) = (b \div 128) % 2 /\ Field(b, 4, 3) = (b \div 16) % 8
      /\ Field(b, 3, 1) = (b \div 8) % 2   /\ Field(b, 0, 2) = b % 4
  <2>1. b \in Nat
    BY DEF Byte
  <2> QED BY <2>1 DEF Field
<1> QED BY <1>1, <1>3, <1>4, <1>5, <1>6

\* The fourth byte: seven bits of the address, and one of the length.
LEMMA LowFields ==
  ASSUME NEW addr \in Nat, NEW n \in 0..1
  PROVE  /\ 2 * Field(addr, 0, 7) + n \in Byte
         /\ Field(2 * Field(addr, 0, 7) + n, 1, 7) = Field(addr, 0, 7)
         /\ Field(2 * Field(addr, 0, 7) + n, 0, 1) = n
<1>1. PICK a \in 0..127 : a = Field(addr, 0, 7)
  <2>1. Field(addr, 0, 7) = addr % 128
    BY SMT DEF Field
  <2>2. addr % 128 \in 0..127
    OBVIOUS
  <2> QED BY <2>1, <2>2
<1>2. PICK b \in Byte : b = 2 * a + n
  BY DEF Byte
<1>3. (b \div 2) % 128 = a /\ b % 2 = n
  BY <1>2 DEF Byte
<1>4. Field(b, 1, 7) = (b \div 2) % 128 /\ Field(b, 0, 1) = b % 2
  <2>1. b \in Nat
    BY DEF Byte
  <2> QED BY <2>1, SMT DEF Field
<1> QED BY <1>1, <1>2, <1>3, <1>4

\* The address in three pieces, and what the chip makes of one that is whole.
LEMMA AddressFields ==
  ASSUME NEW addr \in Nat
  PROVE  /\ Field(addr, 7, 8) \in Byte
         /\ addr < 2^17 =>
              2^15 * Field(addr, 15, 2) + 2^7 * Field(addr, 7, 8) + Field(addr, 0, 7) = addr
         /\ Field(addr, 15, 2) = 1 =>
              2^15 * Field(addr, 15, 2) + 2^7 * Field(addr, 7, 8) + Field(addr, 0, 7)
                = SB_32BIT_WIN + OffsetIn(addr)
<1>1. /\ Field(addr, 15, 2) = (addr \div 32768) % 4 /\ Field(addr, 7, 8) = (addr \div 128) % 256
      /\ Field(addr, 0, 7) = addr % 128
  BY SMT DEF Field
<1>2. PICK q \in Nat, r \in 0..127 : addr = 128 * q + r /\ q = addr \div 128 /\ r = addr % 128
  OBVIOUS
<1>3. PICK p \in Nat, t \in 0..255 : q = 256 * p + t /\ t = q % 256
  <2>1. (q \div 256) \in Nat /\ (q % 256) \in 0..255 /\ q = 256 * (q \div 256) + (q % 256)
    OBVIOUS
  <2> QED BY <2>1
<1>4. addr \div 32768 = p
  BY <1>2, <1>3
<1>5. addr % 32768 = 128 * t + r
  BY <1>2, <1>3
<1>6. t \in Byte
  BY DEF Byte
<1>7. addr < 2^17 => p % 4 = p
  BY <1>4
<1> QED BY <1>1, <1>2, <1>3, <1>4, <1>5, <1>6, <1>7 DEF OffsetIn, SB_WIN_SIZE, SB_32BIT_WIN

LEMMA LengthFields ==
  ASSUME NEW len \in 1..512
  PROVE  /\ Field(len, 0, 8) \in Byte /\ Field(len, 8, 1) \in 0..1
         /\ 256 * Field(len, 8, 1) + Field(len, 0, 8) = IF len = 512 THEN 0 ELSE len
<1>1. Field(len, 0, 8) = len % 256 /\ Field(len, 8, 1) = (len \div 256) % 2
  BY SMT DEF Field
<1>2. /\ len % 256 \in Byte /\ (len \div 256) % 2 \in 0..1
      /\ 256 * ((len \div 256) % 2) + (len % 256) = IF len = 512 THEN 0 ELSE len
  <2>1. PICK q \in 0..2, r \in 0..255 : len = 256 * q + r /\ q = len \div 256 /\ r = len % 256
    OBVIOUS
  <2>2. q % 2 = (IF q = 2 THEN 0 ELSE q) /\ (q = 2 => r = 0)
    BY <2>1
  <2>3. 256 * (q % 2) + r = IF len = 512 THEN 0 ELSE len
    BY <2>1, <2>2
  <2> QED BY <2>1, <2>2, <2>3 DEF Byte
<1> QED BY <1>1, <1>2

-----------------------------------------------------------------------------
(* What the host says and what the chip reads.                             *)

\* m holds the bytes of the command c.
Carries(m, c) == \A i \in 1..5 : m[i] = Encode(c)[i]

LEMMA Encoded52 ==
  ASSUME NEW c \in Calls52
  PROVE  /\ Encode(c)[1] = FirstByte(52)
         /\ Encode(c)[2] = Flags(c.wr, c.func, c.raw, 0, c.addr)
         /\ Encode(c)[3] = Field(c.addr, 7, 8)
         /\ Encode(c)[4] = 2 * Field(c.addr, 0, 7) + 0
         /\ Encode(c)[5] = c.data
         /\ \A i \in 1..5 : Encode(c)[i] \in Byte
<1>1. /\ c.num = 52 /\ c.func \in 0..7 /\ c.addr \in Nat /\ c.data \in Byte
      /\ c.wr \in 0..1 /\ c.raw \in 0..1 /\ 0 \in 0..1 /\ 52 \in 0..63
  <2>1. \A a \in 0..2^17-1 : a \in Nat
    OBVIOUS
  <2>2. /\ c.num = 52 /\ c.func \in 0..7 /\ c.addr \in 0..2^17-1 /\ c.data \in Byte
        /\ c.wr \in 0..1 /\ c.raw \in 0..1
    BY Zenon DEF Calls52
  <2>3. c.addr \in Nat
    BY <2>1, <2>2, Zenon
  <2> QED BY <2>2, <2>3
<1>2. Encode(c) = EncodeCmd52(c.func, c.addr, c.data, c.wr, c.raw)
  BY <1>1 DEF Encode
<1>3. Field(c.data, 0, 8) = c.data
  <2>1. PICK b \in Nat : b = c.data /\ b % 256 = b
    BY <1>1 DEF Byte
  <2>2. Field(b, 0, 8) = b % 256
    BY SMT DEF Field
  <2> QED BY <2>1, <2>2
<1>4. PICK b \in Byte : b = 2 * Field(c.addr, 0, 7) + 0 /\ b = 2 * Field(c.addr, 0, 7)
  <2>1. PICK z \in 0..1 : z = 0
    OBVIOUS
  <2>2. 2 * Field(c.addr, 0, 7) + z \in Byte
    BY <1>1, LowFields
  <2>3. 2 * Field(c.addr, 0, 7) \in Int
    BY <1>1, SMT DEF Field
  <2> QED BY <2>1, <2>2, <2>3
<1>5. /\ Encode(c)[1] = FirstByte(52)
      /\ Encode(c)[2] = Flags(c.wr, c.func, c.raw, 0, c.addr)
      /\ Encode(c)[3] = Field(c.addr, 7, 8)
      /\ Encode(c)[4] = b
      /\ Encode(c)[5] = c.data
  BY <1>2, <1>3, <1>4 DEF EncodeCmd52
<1>6. /\ FirstByte(52) \in Byte /\ Field(c.addr, 7, 8) \in Byte
      /\ Flags(c.wr, c.func, c.raw, 0, c.addr) \in Byte
  BY <1>1, NumberField, FlagFields, AddressFields
<1>7. \A i \in 1..5 : i \in {1, 2, 3, 4, 5}
  OBVIOUS
<1> QED BY <1>1, <1>4, <1>5, <1>6, <1>7

LEMMA Encoded53 ==
  ASSUME NEW c \in Calls53
  PROVE  /\ Encode(c)[1] = FirstByte(53)
         /\ Encode(c)[2] = Flags(c.wr, c.func, c.blk, 1, c.addr)
         /\ Encode(c)[3] = Field(c.addr, 7, 8)
         /\ Encode(c)[4] = 2 * Field(c.addr, 0, 7) + Field(c.len, 8, 1)
         /\ Encode(c)[5] = Field(c.len, 0, 8)
         /\ \A i \in 1..5 : Encode(c)[i] \in Byte
<1>1. /\ c.num = 53 /\ c.func \in 0..7 /\ c.addr \in Nat /\ c.len \in 1..512
      /\ c.wr \in 0..1 /\ c.blk \in 0..1 /\ 1 \in 0..1 /\ 53 \in 0..63
  BY DEF Calls53
<1>2. Encode(c) = EncodeCmd53(c.func, c.addr, c.len, c.wr, c.blk)
  BY <1>1 DEF Encode
<1>3. /\ Encode(c)[1] = FirstByte(53)
      /\ Encode(c)[2] = Flags(c.wr, c.func, c.blk, 1, c.addr)
      /\ Encode(c)[3] = Field(c.addr, 7, 8)
      /\ Encode(c)[4] = 2 * Field(c.addr, 0, 7) + Field(c.len, 8, 1)
      /\ Encode(c)[5] = Field(c.len, 0, 8)
  BY <1>2 DEF EncodeCmd53
<1>4. Field(c.len, 0, 8) \in Byte /\ Field(c.len, 8, 1) \in 0..1
  BY <1>1, LengthFields
<1>5. 2 * Field(c.addr, 0, 7) + Field(c.len, 8, 1) \in Byte
  BY <1>1, <1>4, LowFields
<1>6. /\ FirstByte(53) \in Byte /\ Field(c.addr, 7, 8) \in Byte
      /\ Flags(c.wr, c.func, c.blk, 1, c.addr) \in Byte
  BY <1>1, NumberField, FlagFields, AddressFields
<1>7. \A i \in 1..5 : i \in {1, 2, 3, 4, 5}
  OBVIOUS
<1> QED BY <1>3, <1>4, <1>5, <1>6, <1>7

LEMMA EncodedRca ==
  ASSUME NEW c \in RcaCalls
  PROVE  /\ Encode(c)[1] = FirstByte(7)
         /\ Encode(c)[2] = c.rca[2] /\ Encode(c)[3] = c.rca[1]
         /\ \A i \in 1..5 : Encode(c)[i] \in Byte
<1>1. c.num = 7 /\ c.rca \in Byte \X Byte /\ 7 \in 0..63
  BY DEF RcaCalls
<1>2. Encode(c) = <<FirstByte(7)>> \o Swap(c.rca) \o <<0, 0>>
  BY <1>1 DEF Encode, EncodeCmd7
<1>3. PICK x, y \in Byte : c.rca = <<x, y>>
  BY <1>1
<1>4. Swap(<<x, y>>) = <<y, x>>
  BY DEF Swap
<1>5. PICK p \in Byte : p = FirstByte(7)
  BY <1>1, NumberField
<1>6. Encode(c)[1] = p /\ Encode(c)[2] = y /\ Encode(c)[3] = x
      /\ Encode(c)[4] = 0 /\ Encode(c)[5] = 0
  <2>1. /\ <<p>> \in Seq(Byte) /\ <<y, x>> \in Seq(Byte) /\ <<0, 0>> \in Seq(Byte)
    <3>1. 0 \in Byte
      BY DEF Byte
    <3> QED BY <3>1
  <2>2. PICK t \in Seq(Byte) : t = <<p>> \o <<y, x>>
    BY <2>1, ConcatProperties
  <2>3. PICK e \in Seq(Byte) : e = t \o <<0, 0>>
    BY <2>1, ConcatProperties
  <2>4. Len(t) = 3 /\ t[1] = p /\ t[2] = y /\ t[3] = x
    <3>1. /\ Len(t) = Len(<<p>>) + Len(<<y, x>>)
          /\ \A i \in 1 .. Len(<<p>>) + Len(<<y, x>>) :
               t[i] = IF i <= Len(<<p>>) THEN <<p>>[i] ELSE <<y, x>>[i - Len(<<p>>)]
      BY <2>1, <2>2, ConcatProperties
    <3>2. Len(<<p>>) = 1 /\ Len(<<y, x>>) = 2
      OBVIOUS
    <3>3. Len(t) = 3 /\ \A i \in 1..3 : t[i] = IF i <= 1 THEN <<p>>[i] ELSE <<y, x>>[i - 1]
      BY <3>1, <3>2
    <3> QED BY <3>3
  <2>5. e[1] = p /\ e[2] = y /\ e[3] = x /\ e[4] = 0 /\ e[5] = 0
    <3>1. \A i \in 1 .. Len(t) + Len(<<0, 0>>) :
            e[i] = IF i <= Len(t) THEN t[i] ELSE <<0, 0>>[i - Len(t)]
      BY <2>1, <2>3, ConcatProperties
    <3>2. Len(<<0, 0>>) = 2
      OBVIOUS
    <3>3. \A i \in 1..5 : e[i] = IF i <= 3 THEN t[i] ELSE <<0, 0>>[i - 3]
      BY <3>1, <3>2, <2>4
    <3> QED BY <3>3, <2>4
  <2> QED BY <1>2, <1>3, <1>4, <1>5, <2>2, <2>3, <2>5
<1>7. 0 \in Byte
  BY DEF Byte
<1>8. \A i \in 1..5 : i \in {1, 2, 3, 4, 5}
  OBVIOUS
<1> QED BY <1>3, <1>5, <1>6, <1>7, <1>8

LEMMA EncodedArg ==
  ASSUME NEW c \in ArgCalls
  PROVE  /\ Encode(c)[1] = FirstByte(c.num)
         /\ Encode(c)[2] = c.arg[4] /\ Encode(c)[3] = c.arg[3]
         /\ Encode(c)[4] = c.arg[2] /\ Encode(c)[5] = c.arg[1]
         /\ \A i \in 1..5 : Encode(c)[i] \in Byte
<1>1. /\ c.num \in 0..63 /\ c.num # 7 /\ c.num # 52 /\ c.num # 53
      /\ c.arg \in Byte \X Byte \X Byte \X Byte
  BY DEF ArgCalls
<1>2. Encode(c) = <<FirstByte(c.num)>> \o Swap(c.arg)
  BY <1>1 DEF Encode, EncodeCmd
<1>3. PICK x, y, z, t \in Byte : c.arg = <<x, y, z, t>>
  BY <1>1
<1>4. Swap(<<x, y, z, t>>) = <<t, z, y, x>>
  BY DEF Swap
<1>5. PICK p \in Byte : p = FirstByte(c.num)
  BY <1>1, NumberField
<1>6. Encode(c)[1] = p /\ Encode(c)[2] = t /\ Encode(c)[3] = z
      /\ Encode(c)[4] = y /\ Encode(c)[5] = x
  <2>1. <<p>> \in Seq(Byte) /\ <<t, z, y, x>> \in Seq(Byte)
    OBVIOUS
  <2>2. PICK e \in Seq(Byte) : e = <<p>> \o <<t, z, y, x>>
    BY <2>1, ConcatProperties
  <2>3. e[1] = p /\ e[2] = t /\ e[3] = z /\ e[4] = y /\ e[5] = x
    <3>1. \A i \in 1 .. Len(<<p>>) + Len(<<t, z, y, x>>) :
            e[i] = IF i <= Len(<<p>>) THEN <<p>>[i] ELSE <<t, z, y, x>>[i - Len(<<p>>)]
      BY <2>1, <2>2, ConcatProperties
    <3>2. Len(<<p>>) = 1 /\ Len(<<t, z, y, x>>) = 4
      OBVIOUS
    <3>3. \A i \in 1..5 : e[i] = IF i <= 1 THEN <<p>>[i] ELSE <<t, z, y, x>>[i - 1]
      BY <3>1, <3>2
    <3> QED BY <3>3
  <2> QED BY <1>2, <1>3, <1>4, <1>5, <2>2, <2>3
<1>7. \A i \in 1..5 : i \in {1, 2, 3, 4, 5}
  OBVIOUS
<1> QED BY <1>3, <1>5, <1>6, <1>7

\* REG_ADDR adds the pieces in another order.
LEMMA AddressSum ==
  ASSUME NEW m, Message(m)
  PROVE  Field(m[4], 1, 7) + 2^7 * m[3] + 2^15 * Field(m[2], 0, 2)
           = 2^15 * Field(m[2], 0, 2) + 2^7 * m[3] + Field(m[4], 1, 7)
<1>1. m[2] \in Nat /\ m[3] \in Int /\ m[4] \in Nat
  BY DEF Message, Byte
<1>2. Field(m[4], 1, 7) \in Int
  BY <1>1, FieldInt
<1>3. Field(m[2], 0, 2) \in Int
  BY <1>1, SMT DEF Field
<1> QED BY <1>1, <1>2, <1>3

LEMMA Read52 ==
  ASSUME NEW c \in Calls52, NEW m, Carries(m, c)
  PROVE  Understood(m) = Meant(c) /\ Logged52(m) = Understood(m)
<1>1. /\ c.num = 52 /\ c.func \in 0..7 /\ c.addr \in Nat /\ c.addr < 2^17
      /\ c.wr \in 0..1 /\ c.raw \in 0..1 /\ 0 \in 0..1 /\ 52 \in 0..63
  <2>1. \A a \in 0..2^17-1 : a \in Nat /\ a < 2^17
    OBVIOUS
  <2>2. /\ c.num = 52 /\ c.func \in 0..7 /\ c.addr \in 0..2^17-1
        /\ c.wr \in 0..1 /\ c.raw \in 0..1
    BY Zenon DEF Calls52
  <2>3. c.addr \in Nat /\ c.addr < 2^17
    BY <2>1, <2>2, Zenon
  <2> QED BY <2>2, <2>3
<1>2. 1 \in 1..5 /\ 2 \in 1..5 /\ 3 \in 1..5 /\ 4 \in 1..5 /\ 5 \in 1..5
  OBVIOUS
<1>3. /\ m[1] = FirstByte(52) /\ m[2] = Flags(c.wr, c.func, c.raw, 0, c.addr)
      /\ m[3] = Field(c.addr, 7, 8) /\ m[4] = 2 * Field(c.addr, 0, 7) + 0
      /\ m[5] = c.data
  BY <1>2, Encoded52, Zenon DEF Carries
<1>4. Message(m)
  BY Encoded52, Zenon DEF Carries, Message
<1>5. At(m, 3, 8) = 52
  <2>1. Field(FirstByte(52), 0, 6) = 52
    BY <1>1, NumberField
  <2>2. At(m, 3, 8) = Field(m[1], 0, 6)
    BY <1>4, AtNumber
  <2> QED BY <1>3, <2>1, <2>2
<1>6. /\ Field(m[2], 7, 1) = c.wr /\ Field(m[2], 4, 3) = c.func
      /\ Field(m[2], 3, 1) = c.raw /\ Field(m[2], 0, 2) = Field(c.addr, 15, 2)
  <2>1. PICK f : f = Flags(c.wr, c.func, c.raw, 0, c.addr)
    OBVIOUS
  <2>2. /\ Field(f, 7, 1) = c.wr /\ Field(f, 4, 3) = c.func
        /\ Field(f, 3, 1) = c.raw /\ Field(f, 0, 2) = Field(c.addr, 15, 2)
    BY <1>1, <2>1, FlagFields
  <2> QED BY <1>3, <2>1, <2>2
<1>7. Field(m[4], 1, 7) = Field(c.addr, 0, 7)
  <2>1. PICK z \in 0..1 : z = 0
    OBVIOUS
  <2>2. Field(2 * Field(c.addr, 0, 7) + z, 1, 7) = Field(c.addr, 0, 7)
    BY <1>1, LowFields
  <2> QED BY <1>3, <2>1, <2>2
<1>8. 2^15 * Field(m[2], 0, 2) + 2^7 * m[3] + Field(m[4], 1, 7) = c.addr
  BY <1>1, <1>3, <1>6, <1>7, AddressFields, Zenon
<1>9. /\ At(m, 9, 9) = c.wr /\ At(m, 10, 12) = c.func /\ At(m, 13, 13) = c.raw
      /\ At(m, 15, 31) = c.addr
  BY <1>4, <1>6, <1>8, AtFlags, AtAddress, Zenon
<1>10. At(m, 33, 40) = c.data
  <2>1. PICK i \in 1..5 : i = 5 /\ 8 * i - 7 = 33 /\ 8 * i = 40
    OBVIOUS
  <2>2. At(m, 8 * i - 7, 8 * i) = m[i]
    BY <1>4, AtByte
  <2> QED BY <1>3, <2>1, <2>2
<1>11. Understood(m) = [num |-> 52, wr |-> c.wr, func |-> c.func, raw |-> c.raw,
                        addr |-> c.addr, data |-> c.data]
  BY <1>5, <1>9, <1>10 DEF Understood
<1>12. RegAddr(m) = c.addr
  BY <1>4, <1>8, AddressSum DEF RegAddr
<1>13. Logged52(m) = Understood(m)
  BY <1>3, <1>6, <1>11, <1>12 DEF Logged52
<1>14. Meant(c) = c
  BY <1>1 DEF Meant
<1>15. c = [num |-> 52, wr |-> c.wr, func |-> c.func, raw |-> c.raw,
            addr |-> c.addr, data |-> c.data]
  BY <1>1 DEF Calls52
<1> QED BY <1>11, <1>13, <1>14, <1>15

LEMMA Read53 ==
  ASSUME NEW c \in Calls53, NEW m, Carries(m, c)
  PROVE  Understood(m) = Meant(c) /\ Logged53(m) = Understood(m)
<1>1. /\ c.num = 53 /\ c.func \in 0..7 /\ c.addr \in Nat /\ c.len \in 1..512
      /\ c.wr \in 0..1 /\ c.blk \in 0..1 /\ 1 \in 0..1 /\ 53 \in 0..63
      /\ (c.addr >= 2^17 => Field(c.addr, 15, 2) = 1) /\ (c.len = 512 => c.blk = 0)
  BY DEF Calls53
<1>2. 1 \in 1..5 /\ 2 \in 1..5 /\ 3 \in 1..5 /\ 4 \in 1..5 /\ 5 \in 1..5
  OBVIOUS
<1>3. /\ m[1] = FirstByte(53) /\ m[2] = Flags(c.wr, c.func, c.blk, 1, c.addr)
      /\ m[3] = Field(c.addr, 7, 8) /\ m[4] = 2 * Field(c.addr, 0, 7) + Field(c.len, 8, 1)
      /\ m[5] = Field(c.len, 0, 8)
  BY <1>2, Encoded53, Zenon DEF Carries
<1>4. Message(m)
  BY Encoded53, Zenon DEF Carries, Message
<1>5. At(m, 3, 8) = 53
  <2>1. Field(FirstByte(53), 0, 6) = 53
    BY <1>1, NumberField
  <2>2. At(m, 3, 8) = Field(m[1], 0, 6)
    BY <1>4, AtNumber
  <2> QED BY <1>3, <2>1, <2>2
<1>6. /\ Field(m[2], 7, 1) = c.wr /\ Field(m[2], 4, 3) = c.func
      /\ Field(m[2], 3, 1) = c.blk /\ Field(m[2], 0, 2) = Field(c.addr, 15, 2)
  <2>1. PICK f : f = Flags(c.wr, c.func, c.blk, 1, c.addr)
    OBVIOUS
  <2>2. /\ Field(f, 7, 1) = c.wr /\ Field(f, 4, 3) = c.func
        /\ Field(f, 3, 1) = c.blk /\ Field(f, 0, 2) = Field(c.addr, 15, 2)
    BY <1>1, <2>1, FlagFields
  <2> QED BY <1>3, <2>1, <2>2
<1>7. Field(m[4], 1, 7) = Field(c.addr, 0, 7) /\ Field(m[4], 0, 1) = Field(c.len, 8, 1)
  <2>1. PICK n \in 0..1 : n = Field(c.len, 8, 1)
    BY <1>1, LengthFields
  <2>2. /\ Field(2 * Field(c.addr, 0, 7) + n, 1, 7) = Field(c.addr, 0, 7)
        /\ Field(2 * Field(c.addr, 0, 7) + n, 0, 1) = n
    BY <1>1, LowFields
  <2> QED BY <1>3, <2>1, <2>2
<1> DEFINE addr == IF c.addr >= 2^17 THEN SB_32BIT_WIN + OffsetIn(c.addr) ELSE c.addr
           len  == IF c.len = 512 THEN 0 ELSE c.len
<1>8. 2^15 * Field(m[2], 0, 2) + 2^7 * m[3] + Field(m[4], 1, 7) = addr
  <2>1. CASE c.addr >= 2^17
    <3>1. addr = SB_32BIT_WIN + OffsetIn(c.addr)
      BY <2>1
    <3> QED BY <1>1, <2>1, <3>1, <1>3, <1>6, <1>7, AddressFields, Zenon
  <2>2. CASE ~(c.addr >= 2^17)
    <3>1. addr = c.addr /\ c.addr < 2^17
      BY <1>1, <2>2
    <3> QED BY <1>1, <3>1, <1>3, <1>6, <1>7, AddressFields, Zenon
  <2> QED BY <2>1, <2>2
<1>9. /\ At(m, 9, 9) = c.wr /\ At(m, 10, 12) = c.func /\ At(m, 13, 13) = c.blk
      /\ At(m, 15, 31) = addr
  BY <1>4, <1>6, <1>8, AtFlags, AtAddress, Zenon
<1>10. 256 * Field(m[4], 0, 1) + m[5] = len
  BY <1>1, <1>3, <1>7, LengthFields
<1>11. At(m, 32, 40) = len
  BY <1>4, <1>10, AtLength, Zenon
<1>12. Understood(m) = [num |-> 53, wr |-> c.wr, func |-> c.func, blk |-> c.blk,
                        addr |-> addr, len |-> c.len]
  <2>1. Understood(m) = [num |-> 53, wr |-> c.wr, func |-> c.func, blk |-> c.blk,
                         addr |-> addr,
                         len |-> IF len = 0 THEN IF c.blk = 1 THEN Endless ELSE 512 ELSE len]
    <3> HIDE DEF addr, len
    <3> QED BY <1>5, <1>9, <1>11 DEF Understood
  <2>2. (IF len = 0 THEN IF c.blk = 1 THEN Endless ELSE 512 ELSE len) = c.len
    BY <1>1
  <2> HIDE DEF addr, len
  <2> QED BY <2>1, <2>2
<1>13. LoggedLen(m) = c.len
  <2>1. m[5] \in Int /\ Field(m[4], 0, 1) \in Int
    <3>1. m[5] \in Byte /\ Field(m[4], 0, 1) \in 0..1
      <4>1. Field(c.len, 0, 8) \in Byte /\ Field(c.len, 8, 1) \in 0..1
        BY <1>1, LengthFields
      <4> QED BY <1>3, <1>7, <4>1
    <3> QED BY <3>1 DEF Byte
  <2>2. m[5] + 256 * Field(m[4], 0, 1) = len
    BY <1>10, <2>1
  <2> QED BY <1>1, <2>2 DEF LoggedLen
<1>14. RegAddr(m) = addr
  <2> HIDE DEF addr
  <2> QED BY <1>4, <1>8, AddressSum DEF RegAddr
<1>15. Logged53(m) = Understood(m)
  <2> HIDE DEF addr
  <2> QED BY <1>6, <1>12, <1>13, <1>14 DEF Logged53
<1>16. c = [num |-> 53, wr |-> c.wr, func |-> c.func, blk |-> c.blk,
            addr |-> c.addr, len |-> c.len]
  BY <1>1 DEF Calls53
<1>17. Meant(c) = [num |-> 53, wr |-> c.wr, func |-> c.func, blk |-> c.blk,
                   addr |-> addr, len |-> c.len]
  <2>1. CASE c.addr >= 2^17
    <3>1. Meant(c) = [c EXCEPT !.addr = SB_32BIT_WIN + OffsetIn(c.addr)]
      BY <1>1, <2>1 DEF Meant
    <3> QED BY <1>16, <2>1, <3>1
  <2>2. CASE ~(c.addr >= 2^17)
    <3>1. Meant(c) = c
      BY <2>2 DEF Meant
    <3> QED BY <1>16, <2>2, <3>1
  <2> QED BY <2>1, <2>2
<1> HIDE DEF addr
<1> QED BY <1>12, <1>15, <1>17

LEMMA ReadRca ==
  ASSUME NEW c \in RcaCalls, NEW m, Carries(m, c)
  PROVE  Understood(m) = Meant(c)
<1>1. c.num = 7 /\ c.rca \in Byte \X Byte /\ 7 \in 0..63
  BY DEF RcaCalls
<1>2. 1 \in 1..5 /\ 2 \in 1..5 /\ 3 \in 1..5
  OBVIOUS
<1>3. m[1] = FirstByte(7) /\ m[2] = c.rca[2] /\ m[3] = c.rca[1]
  <2>1. Encode(c)[1] = FirstByte(7) /\ Encode(c)[2] = c.rca[2] /\ Encode(c)[3] = c.rca[1]
    BY EncodedRca
  <2> QED BY <1>2, <2>1 DEF Carries
<1>4. Message(m)
  BY EncodedRca, Zenon DEF Carries, Message
<1>5. At(m, 3, 8) = 7
  <2>1. Field(FirstByte(7), 0, 6) = 7
    BY <1>1, NumberField
  <2>2. At(m, 3, 8) = Field(m[1], 0, 6)
    BY <1>4, AtNumber
  <2> QED BY <1>3, <2>1, <2>2
<1>6. At(m, 17, 24) = m[3] /\ At(m, 9, 16) = m[2]
  <2>1. PICK i \in 1..5, k \in 1..5 : /\ i = 3 /\ 8 * i - 7 = 17 /\ 8 * i = 24
                                      /\ k = 2 /\ 8 * k - 7 = 9 /\ 8 * k = 16
    OBVIOUS
  <2>2. At(m, 8 * i - 7, 8 * i) = m[i] /\ At(m, 8 * k - 7, 8 * k) = m[k]
    BY <1>4, AtByte
  <2> QED BY <2>1, <2>2
<1>7. Understood(m) = [num |-> 7, rca |-> <<c.rca[1], c.rca[2]>>]
  BY <1>3, <1>5, <1>6 DEF Understood
<1>8. c.rca = <<c.rca[1], c.rca[2]>>
  BY <1>1
<1>9. c = [num |-> 7, rca |-> c.rca]
  BY <1>1 DEF RcaCalls
<1>10. Meant(c) = c
  BY <1>1 DEF Meant
<1> QED BY <1>7, <1>8, <1>9, <1>10

LEMMA ReadArg ==
  ASSUME NEW c \in ArgCalls, NEW m, Carries(m, c)
  PROVE  Understood(m) = Meant(c)
<1>1. /\ c.num \in 0..63 /\ c.num # 7 /\ c.num # 52 /\ c.num # 53
      /\ c.arg \in Byte \X Byte \X Byte \X Byte
  BY DEF ArgCalls
<1>2. 1 \in 1..5 /\ 2 \in 1..5 /\ 3 \in 1..5 /\ 4 \in 1..5 /\ 5 \in 1..5
  OBVIOUS
<1>3. /\ m[1] = FirstByte(c.num) /\ m[2] = c.arg[4] /\ m[3] = c.arg[3]
      /\ m[4] = c.arg[2] /\ m[5] = c.arg[1]
  <2>1. /\ Encode(c)[1] = FirstByte(c.num) /\ Encode(c)[2] = c.arg[4]
        /\ Encode(c)[3] = c.arg[3] /\ Encode(c)[4] = c.arg[2] /\ Encode(c)[5] = c.arg[1]
    BY EncodedArg
  <2> QED BY <1>2, <2>1 DEF Carries
<1>4. Message(m)
  BY EncodedArg, Zenon DEF Carries, Message
<1>5. At(m, 3, 8) = c.num
  BY <1>1, <1>3, <1>4, AtNumber, NumberField, Zenon
<1>6. /\ At(m, 33, 40) = m[5] /\ At(m, 25, 32) = m[4]
      /\ At(m, 17, 24) = m[3] /\ At(m, 9, 16) = m[2]
  <2>1. PICK i \in 1..5, k \in 1..5 : /\ i = 3 /\ 8 * i - 7 = 17 /\ 8 * i = 24
                                      /\ k = 2 /\ 8 * k - 7 = 9 /\ 8 * k = 16
    OBVIOUS
  <2>2. PICK a \in 1..5, b \in 1..5 : /\ a = 5 /\ 8 * a - 7 = 33 /\ 8 * a = 40
                                      /\ b = 4 /\ 8 * b - 7 = 25 /\ 8 * b = 32
    OBVIOUS
  <2>3. /\ At(m, 8 * i - 7, 8 * i) = m[i] /\ At(m, 8 * k - 7, 8 * k) = m[k]
        /\ At(m, 8 * a - 7, 8 * a) = m[a] /\ At(m, 8 * b - 7, 8 * b) = m[b]
    BY <1>4, AtByte
  <2> QED BY <2>1, <2>2, <2>3
<1>7. Understood(m) = [num |-> c.num, arg |-> <<c.arg[1], c.arg[2], c.arg[3], c.arg[4]>>]
  BY <1>1, <1>3, <1>5, <1>6 DEF Understood
<1>8. c.arg = <<c.arg[1], c.arg[2], c.arg[3], c.arg[4]>>
  BY <1>1
<1>9. c = [num |-> c.num, arg |-> c.arg]
  BY <1>1 DEF ArgCalls
<1>10. Meant(c) = c
  BY <1>1 DEF Meant
<1> QED BY <1>7, <1>8, <1>9, <1>10

-----------------------------------------------------------------------------
(* The bytes taken so far are those of the command.                        *)

MsgInv ==
  /\ data # <<>> => cmd \in Calls
  /\ \A i \in 1..Len(data) : i < MSG_BYTES => data[i] = Word(Encode(cmd)[i])

LEMMA MsgInit == CrcInit => MsgInv
BY DEF CrcInit, MsgInv

LEMMA MsgAgain == NextMessage => MsgInv'
<1>1. CrcInit' => MsgInv'
  BY MsgInit, PTL
<1> QED BY <1>1, StartsOver

LEMMA MsgStep == CmdInv /\ MsgInv /\ [CrcNext]_crcVars => MsgInv'
<1> SUFFICES ASSUME CmdInv, MsgInv, [CrcNext]_crcVars PROVE MsgInv'
  OBVIOUS
<1>0. data \in Seq(SUBSET (0..7)) /\ Len(data) \in Nat
  BY LenProperties DEF CmdInv
<1>1. CASE NextByte
  <2>1. PICK b \in SUBSET (0..7) : /\ b = Word(Encode(cmd')[Len(data) + 1])
                                   /\ data' = Append(data, b)
    BY <1>1 DEF NextByte, Word
  <2>2. cmd' \in Calls /\ (data # <<>> => cmd' = cmd)
    BY <1>1 DEF NextByte, MsgInv
  <2>3. /\ Len(data') = Len(data) + 1 /\ data'[Len(data) + 1] = b
        /\ \A i \in 1..Len(data) : data'[i] = data[i]
    BY <1>0, <2>1, AppendProperties
  <2>4. ASSUME NEW i \in 1..Len(data'), i < MSG_BYTES
        PROVE  data'[i] = Word(Encode(cmd')[i])
    <3>1. CASE i = Len(data) + 1
      BY <2>1, <2>3, <3>1
    <3>2. CASE i # Len(data) + 1
      <4>1. i \in 1..Len(data)
        BY <1>0, <2>3, <3>2
      <4>2. data # <<>>
        BY <4>1
      <4> QED BY <2>2, <2>3, <2>4, <4>1, <4>2 DEF MsgInv
    <3> QED BY <3>1, <3>2
  <2> QED BY <2>2, <2>4 DEF MsgInv
<1>2. CASE add_crc7
  <2>1. /\ Len(data) = MSG_BYTES - 1 /\ cmd' = cmd
        /\ data' = Append(data, crc \cup {0}) /\ crc \cup {0} \in SUBSET (0..7)
    <3>1. Len(data) = MSG_BYTES - 1 /\ cmd' = cmd /\ data' = Append(data, crc \cup {0})
      BY <1>2 DEF add_crc7
    <3>2. crc = Shl(SumOf(data), 1)
      BY <1>0, <3>1 DEF CmdInv, MSG_BYTES
    <3> QED BY <1>0, <3>1, <3>2, SumCompletes
  <2>2. Len(data') = Len(data) + 1 /\ \A i \in 1..Len(data) : data'[i] = data[i]
    BY <1>0, <2>1, AppendProperties
  <2>3. \A i \in 1..Len(data') : i < MSG_BYTES => i \in 1..Len(data)
    BY <1>0, <2>1, <2>2 DEF MSG_BYTES
  <2>4. data # <<>>
    BY <2>1 DEF MSG_BYTES
  <2> QED BY <2>1, <2>2, <2>3, <2>4 DEF MsgInv
<1>3. CASE StartBlock
  BY <1>3 DEF StartBlock, MsgInv
<1>4. CASE UNCHANGED <<cmd, data>>
  BY <1>4 DEF MsgInv
<1>5. CASE SendData \/ SendCrc \/ UNCHANGED crcVars
  BY <1>4, <1>5 DEF SendData, SendCrc, cmdVars, crcVars
<1>6. CASE NextMessage
  BY <1>6, MsgAgain
<1> QED BY <1>1, <1>2, <1>3, <1>5, <1>6 DEF CrcNext

LEMMA MsgCarries ==
  ASSUME CmdInv, MsgInv, Len(data) = MSG_BYTES
  PROVE  cmd \in Calls /\ Carries(Values(data), cmd)
<1>1. data \in Seq(SUBSET (0..7)) /\ DOMAIN data = 1..6
  BY DEF CmdInv, MSG_BYTES
<1>2. cmd \in Calls
  <2>1. data # <<>>
    BY DEF MSG_BYTES
  <2> QED BY <2>1 DEF MsgInv
<1>3. ASSUME NEW i \in 1..5 PROVE Values(data)[i] = Encode(cmd)[i]
  <2>1. i \in 1..Len(data) /\ i < MSG_BYTES /\ i \in 1..6
    BY DEF MSG_BYTES
  <2>2. PICK b \in Byte : b = Encode(cmd)[i]
    BY <1>2, SdioCrcAssumption, Encoded52, Encoded53, EncodedRca, EncodedArg
  <2>3. data[i] = Word(b)
    BY <2>1, <2>2 DEF MsgInv
  <2>4. Values(data)[i] = ByteOf[data[i]]
    BY <1>1, <2>1 DEF Values
  <2> QED BY <2>2, <2>3, <2>4, ByteOfWord
<1> QED BY <1>2, <1>3 DEF Carries

\* sdio_cmd, sdio_cmd7, sdio_cmd52, sdio_cmd53_read, sdio_cmd53_write and
\* sdio_write_blocks: the chip reads in a complete message the command its caller
\* asked for.
THEOREM CommandsRead == CrcSpec => []ChipUnderstands
<1>1. CmdInv /\ MsgInv => ChipUnderstands
  <2> SUFFICES ASSUME CmdInv, MsgInv, Len(data) = MSG_BYTES
               PROVE  Understood(Values(data)) = Meant(cmd)
    BY DEF ChipUnderstands
  <2>1. cmd \in Calls /\ Carries(Values(data), cmd)
    BY MsgCarries
  <2> QED BY <2>1, SdioCrcAssumption, Read52, Read53, ReadRca, ReadArg
<1> QED BY <1>1, CmdInit, CmdStep, MsgInit, MsgStep, PTL DEF CrcSpec

\* disp_cmd52 and disp_cmd53: the log shows a transfer as the chip takes it.
THEOREM LogsRead == CrcSpec => []LogAgrees
<1>1. CmdInv /\ MsgInv => LogAgrees
  <2> SUFFICES ASSUME CmdInv, MsgInv, Len(data) = MSG_BYTES
               PROVE  /\ cmd.num = 52 => Logged52(Values(data)) = Understood(Values(data))
                      /\ cmd.num = 53 => Logged53(Values(data)) = Understood(Values(data))
    BY DEF LogAgrees
  <2>1. cmd \in Calls /\ Carries(Values(data), cmd)
    BY MsgCarries
  <2>2. /\ cmd \in ArgCalls \union RcaCalls => cmd.num # 52 /\ cmd.num # 53
        /\ cmd \in Calls52 => cmd.num = 52
        /\ cmd \in Calls53 => cmd.num = 53
    <3>1. cmd \in ArgCalls => cmd.num # 52 /\ cmd.num # 53
      BY DEF ArgCalls
    <3>2. cmd \in RcaCalls => cmd.num = 7
      BY DEF RcaCalls
    <3>3. cmd \in Calls52 => cmd.num = 52
      BY Zenon DEF Calls52
    <3>4. cmd \in Calls53 => cmd.num = 53
      BY DEF Calls53
    <3> QED BY <3>1, <3>2, <3>3, <3>4
  <2>3. cmd.num = 52 => cmd \in Calls52
    BY <2>1, <2>2, SdioCrcAssumption
  <2>4. cmd.num = 53 => cmd \in Calls53
    BY <2>1, <2>2, SdioCrcAssumption
  <2> QED BY <2>1, <2>3, <2>4, Read52, Read53
<1> QED BY <1>1, CmdInit, CmdStep, MsgInit, MsgStep, PTL DEF CrcSpec
==============================================================================
