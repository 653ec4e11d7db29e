--------------------------- MODULE GetEventProofs ---------------------------
(***************************************************************************)
(* Proofs about GetEvent and MainLoop, for every size of header, buffer,   *)
(* block, frame and decoded structure and any number of lost reads.        *)
(***************************************************************************)
EXTENDS MainLoop, TLAPS

\* The lengths of blocks: at least 1, within the buffer, within a block.
LEMMA CopyLenFacts ==
  ASSUME MaxLen \in Nat, MaxBlk \in Nat \ {0}, HdrLen \in Nat,
         n \in Nat, hplen \in Nat, dlen = hplen - HdrLen, n < dlen, n < MaxLen
  PROVE  /\ CopyLen \in Nat \ {0}
         /\ CopyLen <= MaxLen - n /\ CopyLen <= hplen - n /\ CopyLen <= MaxBlk
         /\ CopyLen = MaxLen - n \/ CopyLen = hplen - n \/ CopyLen = MaxBlk
  BY DEF CopyLen, Smaller

LEMMA ConsumeFacts ==
  ASSUME flen \in FrameLens \union {0}, pos \in Nat, NEW len \in Nat \ {0},
         Consume(len)
  PROVE  /\ flen' \in FrameLens \union {0}
         /\ pos' \in Nat
         /\ IF flen' = 0 THEN pos' = 0 ELSE pos' < flen'
  BY GetEventAssumption DEF Consume

-----------------------------------------------------------------------------
(* Type correctness, and what relates the counters of a call.              *)

Counters ==
  /\ pc \in {"copy", "drain"} => dlen = hplen - HdrLen /\ dlen > 0
  /\ pc \in {"header", "copy"} => n <= MaxLen
  /\ pc \in {"header", "copy", "drain"} => top <= MaxLen
  /\ pc \in {"copy", "drain"} => top <= n
  /\ pc = "header" => n = 0 /\ top = 0
  /\ top <= MaxLen

TInv == TypeOK /\ Counters

LEMMA TInit == Init => TInv
<1> SUFFICES ASSUME Init PROVE TInv
  OBVIOUS
<1>1. data \in [0..MaxLen-1 -> Int]
  BY DEF Init, Junk
<1>2. /\ flen \in FrameLens \union {0} /\ pos \in Nat
      /\ IF flen = 0 THEN pos = 0 ELSE pos < flen
  <2>1. CASE flen = 0 /\ pos = 0
    BY <2>1
  <2>2. CASE flen \in FrameLens /\ pos \in 0..flen-1
    <3>1. flen \in Nat \ {0}
      BY <2>2, GetEventAssumption
    <3> QED BY <2>2, <3>1
  <2> QED BY <2>1, <2>2 DEF Init
<1>3. /\ hplen \in Nat /\ dlen \in Nat /\ n \in Nat /\ top \in Nat
      /\ ret \in 0..MaxLen /\ faults \in 0..MaxFaults
  BY GetEventAssumption DEF Init
<1>4. TypeOK
  <2>1. aligned \in BOOLEAN
    BY DEF Init
  <2> QED BY <1>1, <1>2, <1>3, <2>1 DEF Init, TypeOK
<1>5. Counters
  BY GetEventAssumption DEF Init, Counters
<1> QED BY <1>4, <1>5 DEF TInv

LEMMA TStep == TInv /\ [Next]_vars => TInv'
<1> SUFFICES ASSUME TInv, [Next]_vars PROVE TInv'
  OBVIOUS
<1> USE GetEventAssumption DEF TInv
<1>1. CASE Call
  BY <1>1 DEF Call, TypeOK, Counters
<1>2. CASE GoodHeader
  <2>1. PICK h \in Nat : hplen' = h /\ h > HdrLen /\ dlen' = h - HdrLen
    BY <1>2 DEF GoodHeader, HeaderLens, TypeOK
  <2>2. /\ flen' \in FrameLens \union {0} /\ pos' \in Nat
        /\ IF flen' = 0 THEN pos' = 0 ELSE pos' < flen'
    BY <1>2, ConsumeFacts DEF GoodHeader, Served, TypeOK
  <2>3. h - HdrLen \in Nat /\ h - HdrLen > 0
    BY <2>1
  <2>4. UNCHANGED <<n, data, top, ret, faults>> /\ pc = "header" /\ pc' = "copy"
        /\ aligned' \in BOOLEAN
    BY <1>2 DEF GoodHeader, Served
  <2>5. TypeOK'
    BY <2>1, <2>2, <2>3, <2>4 DEF TypeOK
  <2>6. Counters'
    <3>1. n = 0 /\ top = 0 /\ MaxLen \in Nat
      BY <2>4 DEF Counters
    <3> QED BY <2>1, <2>3, <2>4, <3>1 DEF Counters
  <2> QED BY <2>5, <2>6
<1>3. CASE BadHeader
  <2>1. /\ flen' \in FrameLens \union {0} /\ pos' \in Nat
        /\ IF flen' = 0 THEN pos' = 0 ELSE pos' < flen'
        /\ faults' \in 0..MaxFaults
    BY <1>3, ConsumeFacts DEF BadHeader, Served, Lost, TypeOK
  <2> QED BY <1>3, <2>1 DEF BadHeader, TypeOK, Counters
<1>4. CASE CopyBlock
  <2>1. /\ CopyLen \in Nat \ {0}
        /\ CopyLen <= MaxLen - n /\ CopyLen <= hplen - n
    BY <1>4, CopyLenFacts DEF CopyBlock, TypeOK, Counters
  <2> DEFINE b == CopyLen
  <2> HIDE DEF b
  <2>2. /\ n' = n + b /\ b \in Nat \ {0} /\ b <= MaxLen - n
        /\ top' = IF top < n' THEN n' ELSE top
    BY <1>4, <2>1 DEF CopyBlock, b
  <2>3. /\ flen' \in FrameLens \union {0} /\ pos' \in Nat
        /\ IF flen' = 0 THEN pos' = 0 ELSE pos' < flen'
        /\ faults' \in 0..MaxFaults
    BY <1>4, <2>1, ConsumeFacts DEF CopyBlock, Served, Lost, TypeOK
  <2>4. data' \in [0..MaxLen-1 -> Int]
    <3>1. CASE data' = [data EXCEPT ![n] = Junk]
      <4>1. Junk \in Int /\ data \in [0..MaxLen-1 -> Int]
        BY DEF TypeOK, Junk
      <4> QED BY <3>1, <4>1
    <3>2. CASE data' = [i \in DOMAIN data |->
                         IF i \in n..n'-1
                         THEN IF pos + (i - n) < flen THEN pos + (i - n) - HdrLen
                                                      ELSE Junk
                         ELSE data[i]]
      <4>1. DOMAIN data = 0..MaxLen-1
        BY DEF TypeOK
      <4>2. \A i \in 0..MaxLen-1 : pos + (i - n) - HdrLen \in Int /\ data[i] \in Int
        BY DEF TypeOK
      <4> QED BY <3>2, <4>1, <4>2 DEF Junk
    <3> QED BY <1>4, <3>1, <3>2 DEF CopyBlock
  <2>5. UNCHANGED <<pc, hplen, dlen, ret, aligned>> /\ pc = "copy"
    BY <1>4 DEF CopyBlock
  <2>6. TypeOK'
    BY <2>2, <2>3, <2>4, <2>5 DEF TypeOK
  <2>7. Counters'
    BY <2>2, <2>5 DEF TypeOK, Counters
  <2> QED BY <2>6, <2>7
<1>5. CASE CopyEnd
  BY <1>5 DEF CopyEnd, TypeOK, Counters
<1>6. CASE DrainBlock
  <2>1. PICK b \in Nat \ {0} :
          /\ n' = n + b
          /\ Served(b) \/ Lost(b)
    BY <1>6 DEF DrainBlock, TypeOK, Counters, Smaller
  <2>2. /\ flen' \in FrameLens \union {0} /\ pos' \in Nat
        /\ IF flen' = 0 THEN pos' = 0 ELSE pos' < flen'
        /\ faults' \in 0..MaxFaults
    BY <2>1, ConsumeFacts DEF Served, Lost, TypeOK
  <2> QED BY <1>6, <2>1, <2>2 DEF DrainBlock, TypeOK, Counters
<1>7. CASE Return
  BY <1>7 DEF Return, TypeOK, Counters, Smaller
<1>8. CASE ChipFrame
  BY <1>8 DEF ChipFrame, hostVars, TypeOK, Counters
<1>9. CASE UNCHANGED vars
  BY <1>9 DEF vars, hostVars, TypeOK, Counters
<1> QED
  BY <1>1, <1>2, <1>3, <1>4, <1>5, <1>6, <1>7, <1>8, <1>9 DEF Next, Host

\* Every variable keeps its type: in particular a call never reports more
\* data than the caller's buffer holds.
THEOREM TypeCorrect == Spec => []TypeOK
<1>1. TInv => TypeOK
  BY DEF TInv
<1> QED BY TInit, TStep, <1>1, PTL DEF Spec

\* No frame, however long and whatever its header says, is stored beyond the
\* end of the caller's buffer.
THEOREM StaysInBuffer == Spec => []NoOverrun
<1>1. TInv => NoOverrun
  BY DEF TInv, Counters, NoOverrun
<1> QED BY TInit, TStep, <1>1, PTL DEF Spec
-----------------------------------------------------------------------------
(* Whole frames.  While no read has been lost, the position in the frame is *)
(* the header plus the bytes dealt with until the frame is used up, and    *)
(* what has been stored of the payload is in place.                        *)

InStep ==
  faults = 0 /\ aligned /\ pc \in {"copy", "drain"} =>
    /\ pc = "drain" => n >= dlen \/ n >= MaxLen
    /\ \A i \in 0..MaxLen-1 : i < n /\ i < dlen => data[i] = i
    /\ IF n < dlen THEN flen = hplen /\ pos = HdrLen + n ELSE pos = 0

\* A block of b bytes, read in step and served, leaves the frame in step.
LEMMA ServedInStep ==
  ASSUME TInv, NEW b \in Nat \ {0}, pc \in {"copy", "drain"}, n < dlen,
         flen = hplen, pos = HdrLen + n, Consume(b)
  PROVE  IF n + b < dlen THEN flen' = hplen /\ pos' = HdrLen + (n + b)
                         ELSE pos' = 0
<1>1. dlen = hplen - HdrLen /\ n \in Nat /\ hplen \in Nat /\ HdrLen \in Nat
  BY GetEventAssumption DEF TInv, TypeOK, Counters
<1>2. n + b < dlen <=> pos + b < flen
  BY <1>1
<1> QED BY <1>1, <1>2 DEF Consume

LEMMA WholeStep ==
  ASSUME TInv, InStep, [Next]_vars
  PROVE  InStep'
<1> SUFFICES ASSUME faults' = 0, aligned', pc' \in {"copy", "drain"} PROVE InStep'
  BY DEF InStep
<1> USE GetEventAssumption
<1>1. CASE Call
  BY <1>1 DEF Call
<1>2. CASE GoodHeader
  <2>1. pos = 0 /\ hplen' = flen /\ flen > HdrLen /\ n = 0
    BY <1>2 DEF GoodHeader, HeaderLens, TInv, Counters
  <2>2. flen \in Nat /\ 0 + HdrLen < flen /\ HdrLen + 0 = HdrLen /\ HdrLen \in Nat
    BY <2>1 DEF TInv, TypeOK
  <2>3. flen' = flen /\ pos' = HdrLen
    BY <1>2, <2>1, <2>2 DEF GoodHeader, Served, Consume
  <2>4. dlen' = flen - HdrLen /\ n' = 0 /\ pc' = "copy"
    BY <1>2, <2>1 DEF GoodHeader
  <2>5. 0 < dlen'
    BY <2>2, <2>4
  <2> QED BY <2>1, <2>2, <2>3, <2>4, <2>5 DEF InStep
<1>3. CASE BadHeader
  BY <1>3 DEF BadHeader
<1>4. CASE CopyBlock
  <2>a. aligned
    BY <1>4, Zenon DEF CopyBlock
  <2>0. /\ faults = 0 /\ pc = "copy" /\ pc' = "copy" /\ n < dlen /\ n < MaxLen
        /\ UNCHANGED <<hplen, dlen>> /\ n \in Nat /\ dlen \in Nat
    BY <1>4 DEF CopyBlock, Lost, Served, TInv, TypeOK
  <2>1. flen = hplen /\ pos = HdrLen + n
    BY <2>0, <2>a DEF InStep
  <2>2. CopyLen \in Nat \ {0} /\ CopyLen <= MaxLen - n
    BY <2>0, CopyLenFacts DEF TInv, TypeOK, Counters
  <2>3. /\ Consume(CopyLen) /\ n' = n + CopyLen
        /\ data' = [i \in DOMAIN data |->
                      IF i \in n..n'-1
                      THEN IF pos + (i - n) < flen THEN pos + (i - n) - HdrLen
                                                   ELSE Junk
                      ELSE data[i]]
    BY <1>4, <2>0 DEF CopyBlock, Served, Lost, TInv, TypeOK
  <2> DEFINE b == CopyLen
  <2>4. b \in Nat \ {0} /\ n' = n + b
    BY <2>2, <2>3
  <2> HIDE DEF b
  <2>5. IF n' < dlen' THEN flen' = hplen' /\ pos' = HdrLen + n' ELSE pos' = 0
    BY <2>0, <2>1, <2>3, <2>4, ServedInStep DEF b
  <2>6. ASSUME NEW i \in 0..MaxLen-1, i < n', i < dlen'
        PROVE  data'[i] = i
    <3>1. i \in DOMAIN data
      BY DEF TInv, TypeOK
    <3>2. CASE i < n
      <4>1. i \notin n..n'-1
        BY <2>0, <2>4, <3>2
      <4>2. data[i] = i
        BY <2>0, <2>a, <2>6, <3>2 DEF InStep
      <4> QED BY <2>3, <3>1, <4>1, <4>2
    <3>3. CASE ~(i < n)
      <4>1. i \in n..n'-1
        BY <2>0, <2>4, <2>6, <3>3
      <4>2. hplen = dlen + HdrLen /\ hplen \in Nat /\ HdrLen \in Nat
        BY <2>0 DEF TInv, TypeOK, Counters
      <4>3. pos + (i - n) < flen /\ pos + (i - n) - HdrLen = i
        BY <2>0, <2>1, <2>6, <4>2
      <4> QED BY <2>3, <3>1, <4>1, <4>3
    <3> QED BY <3>2, <3>3
  <2> QED BY <2>0, <2>5, <2>6 DEF InStep
<1>5. CASE CopyEnd
  <2>a. aligned
    BY <1>5, Zenon DEF CopyEnd
  <2>1. /\ pc = "copy" /\ ~(n < dlen /\ n < MaxLen)
        /\ UNCHANGED <<hplen, dlen, n, data, flen, pos, faults>>
    BY <1>5 DEF CopyEnd
  <2>2. n >= dlen \/ n >= MaxLen
    BY <2>1 DEF TInv, TypeOK
  <2> QED BY <2>a, <2>1, <2>2 DEF InStep
<1>6. CASE DrainBlock
  <2>a. aligned
    BY <1>6, Zenon DEF DrainBlock
  <2>0. /\ faults = 0 /\ pc = "drain" /\ pc' = "drain" /\ n < dlen
        /\ UNCHANGED <<hplen, dlen, data>> /\ n \in Nat /\ dlen \in Nat
    BY <1>6 DEF DrainBlock, Lost, Served, TInv, TypeOK
  <2>1. flen = hplen /\ pos = HdrLen + n /\ n >= MaxLen
    BY <2>0, <2>a DEF InStep
  <2>2. PICK b \in Nat \ {0} :
          /\ n' = n + b
          /\ Served(b) \/ Lost(b)
    BY <1>6 DEF DrainBlock, TInv, TypeOK, Counters, Smaller
  <2>3. Consume(b)
    BY <2>0, <2>2 DEF Served, Lost, TInv, TypeOK
  <2>4. IF n' < dlen' THEN flen' = hplen' /\ pos' = HdrLen + n' ELSE pos' = 0
    BY <2>0, <2>1, <2>2, <2>3, ServedInStep
  <2>5. n' >= MaxLen
    BY <2>0, <2>1, <2>2
  <2>6. ASSUME NEW i \in 0..MaxLen-1, i < n', i < dlen'
        PROVE  data'[i] = i
    <3>1. i < n
      BY <2>0, <2>1
    <3> QED BY <2>0, <2>a, <2>6, <3>1 DEF InStep
  <2> QED BY <2>0, <2>4, <2>5, <2>6 DEF InStep
<1>7. CASE Return
  BY <1>7 DEF Return
<1>8. CASE ChipFrame
  <2>a. aligned
    BY <1>8, Zenon DEF ChipFrame
  <2>1. /\ flen = 0 /\ UNCHANGED <<pc, hplen, dlen, n, data, pos, faults>>
    BY <1>8 DEF ChipFrame, hostVars
  <2>2. ~(n < dlen)
    BY <2>a, <2>1 DEF InStep, TInv, TypeOK, Counters
  <2> QED BY <2>a, <2>1, <2>2 DEF InStep
<1>9. CASE UNCHANGED vars
  BY <1>9 DEF vars, hostVars, InStep
<1> QED
  BY <1>1, <1>2, <1>3, <1>4, <1>5, <1>6, <1>7, <1>8, <1>9 DEF Next, Host

\* As long as no read is lost, every call that begins at the start of a frame
\* and returns data has stored the payload in place and used the frame up.
THEOREM WholeFrames == Spec => []FrameWhole
<1>1. Init => InStep
  BY DEF Init, InStep
<1>2. TInv /\ InStep /\ [Next]_vars => InStep'
  BY WholeStep
<1>3. TInv /\ InStep => FrameWhole
  BY GetEventAssumption DEF TInv, TypeOK, InStep, FrameWhole, Smaller
<1> QED BY TInit, TStep, <1>1, <1>2, <1>3, PTL DEF Spec

-----------------------------------------------------------------------------
(* The loop of main.  Every step of it is a step of the frame reader or    *)
(* leaves it alone, so that what is shown above holds here; what is new is *)
(* that the bytes of a call are still in the buffer, and all written in    *)
(* that call, when they are decoded.                                       *)

LEMMA LoopIsHost == [LoopNext]_mainVars => [Next]_vars
  BY DEF LoopNext, Loop, Blink, Ask, Fetch, Show, mainVars, loopVars, Next, Host

\* What is in the buffer was stored by the call that returned it.
Held ==
  faults = 0 /\ aligned => \A i \in 0..ret-1 : i < top /\ data[i] = i

\* What the call keeps of the part of the buffer it has written.
Filled ==
  /\ pc = "copy" => top = n
  /\ pc = "drain" => top >= Smaller(dlen, MaxLen)

LoopInv ==
  /\ lpc \in {"wait", "fetch", "show"}
  /\ lpc = "fetch" <=> pc # "idle"
  /\ Filled
  /\ lpc = "show" => Held
  /\ lpc = "wait" /\ shown => LongEnough /\ Held

LEMMA FilledStep == ASSUME TInv, Filled, [Next]_vars PROVE Filled'
<1> USE GetEventAssumption
<1>1. CASE Call
  BY <1>1 DEF Call, Filled
<1>2. CASE GoodHeader
  BY <1>2 DEF GoodHeader, Filled, TInv, Counters
<1>3. CASE BadHeader
  BY <1>3 DEF BadHeader, Filled
<1>4. CASE CopyBlock
  <2>1. pc = "copy" /\ pc' = "copy" /\ n < dlen /\ n < MaxLen /\ top = n
        /\ n' = n + CopyLen /\ top' = IF top < n' THEN n' ELSE top
    BY <1>4 DEF CopyBlock, Filled
  <2>2. CopyLen \in Nat \ {0}
    BY <2>1, CopyLenFacts DEF TInv, TypeOK, Counters
  <2>3. n < n + CopyLen
    BY <2>2 DEF TInv, TypeOK
  <2> QED BY <2>1, <2>3 DEF Filled
<1>5. CASE CopyEnd
  <2>1. pc = "copy" /\ pc' = "drain" /\ top = n /\ ~(n < dlen /\ n < MaxLen)
        /\ UNCHANGED <<top, dlen>>
    BY <1>5 DEF CopyEnd, Filled
  <2>2. top >= Smaller(dlen, MaxLen)
    BY <2>1 DEF Smaller, TInv, TypeOK
  <2> QED BY <2>1, <2>2 DEF Filled, Smaller
<1>6. CASE DrainBlock
  BY <1>6 DEF DrainBlock, Filled, Smaller
<1>7. CASE Return
  BY <1>7 DEF Return, Filled
<1>8. CASE ChipFrame
  BY <1>8 DEF ChipFrame, hostVars, Filled, Smaller
<1>9. CASE UNCHANGED vars
  BY <1>9 DEF vars, hostVars, Filled, Smaller
<1> QED
  BY <1>1, <1>2, <1>3, <1>4, <1>5, <1>6, <1>7, <1>8, <1>9 DEF Next, Host

\* A call that returns has stored what it returns.
LEMMA ReturnHolds == ASSUME TInv, InStep, Filled, Return PROVE Held'
<1> SUFFICES ASSUME faults' = 0, aligned' PROVE \A i \in 0..ret'-1 : i < top' /\ data'[i] = i
  BY DEF Held
<1>a. aligned
  BY Zenon DEF Return
<1>1. /\ pc = "drain" /\ n >= dlen /\ ret' = Smaller(dlen, MaxLen)
      /\ UNCHANGED <<top, data>> /\ faults = 0
  BY DEF Return
<1>2. top >= ret'
  BY <1>1 DEF Filled
<1>3. dlen \in Nat /\ n \in Nat /\ top \in Nat /\ MaxLen \in Nat
  BY GetEventAssumption DEF TInv, TypeOK
<1>4. ret' \in Nat /\ ret' <= dlen /\ ret' <= MaxLen
  BY <1>1, <1>3 DEF Smaller
<1>5. ASSUME NEW i \in 0..ret'-1 PROVE i < top /\ data[i] = i
  <2>1. i \in 0..MaxLen-1 /\ i < n /\ i < dlen /\ i < top
    BY <1>1, <1>2, <1>3, <1>4
  <2> QED BY <1>1, <1>a, <2>1 DEF InStep
<1> QED BY <1>1, <1>5

LEMMA LoopStep ==
  ASSUME TInv, InStep, LoopInv, [LoopNext]_mainVars
  PROVE  LoopInv'
<1>1. Filled'
  BY FilledStep, LoopIsHost DEF LoopInv, Filled
<1>2. CASE Blink
  <2>1. lpc = "wait" /\ lpc' = "wait" /\ pc' = pc /\ ret' = ret /\ shown' = shown
        /\ pc = "idle"
    BY <1>2 DEF Blink, vars, hostVars, LoopInv
  <2>2. Held => Held'
    BY <1>2 DEF Blink, vars, hostVars, Held
  <2> QED BY <1>1, <2>1, <2>2 DEF LoopInv, LongEnough, Filled
<1>3. CASE Ask
  BY <1>1, <1>3 DEF Ask, Call, LoopInv, Filled
<1>4. CASE Fetch
  <2>1. lpc = "fetch" /\ pc # "idle" /\ lpc' = IF pc' = "idle" THEN "show" ELSE "fetch"
    BY <1>4 DEF Fetch, LoopInv
  <2>2. ASSUME pc' = "idle" PROVE Held'
    <3>1. CASE BadHeader
      BY <3>1 DEF BadHeader, Held
    <3>2. CASE Return
      BY <3>2, ReturnHolds DEF LoopInv, Filled
    <3> QED
      BY <1>4, <2>1, <2>2, <3>1, <3>2
         DEF Fetch, GoodHeader, CopyBlock, CopyEnd, DrainBlock
  <2> QED BY <1>1, <2>1, <2>2 DEF LoopInv, Filled
<1>5. CASE Show
  <2>1. lpc = "show" /\ lpc' = "wait" /\ pc' = pc /\ pc = "idle" /\ Held
        /\ shown' = LongEnough /\ ret' = ret
    BY <1>5 DEF Show, vars, hostVars, LoopInv
  <2>2. Held'
    BY <1>5, <2>1 DEF Show, vars, hostVars, Held
  <2>3. shown' => LongEnough'
    BY <2>1 DEF LongEnough
  <2> QED BY <1>1, <2>1, <2>2, <2>3 DEF LoopInv, Filled
<1>6. CASE (ChipFrame /\ UNCHANGED loopVars) \/ UNCHANGED mainVars
  <2>1. UNCHANGED <<lpc, shown, pc, ret>>
    BY <1>6 DEF ChipFrame, mainVars, vars, hostVars, loopVars
  <2>2. Held => Held'
    BY <1>6 DEF ChipFrame, mainVars, vars, hostVars, Held
  <2> QED BY <1>1, <2>1, <2>2 DEF LoopInv, LongEnough, Filled
<1> QED BY <1>2, <1>3, <1>4, <1>5, <1>6 DEF LoopNext, Loop

\* When the structure is no longer than what a decoded frame must have, as in
\* zscan.c, everything decoded is of the frame that was fetched.
THEOREM DecodesTheFrame ==
  ASSUME Decoded <= ShowMin + 1
  PROVE  LoopSpec => []DecodesOwn
<1>1. LoopInit => TInv /\ InStep /\ LoopInv
  <2>1. LoopInit => TInv
    BY TInit DEF LoopInit
  <2> QED BY <2>1 DEF LoopInit, Init, InStep, LoopInv, Filled
<1>2. TInv /\ InStep /\ LoopInv /\ [LoopNext]_mainVars => (TInv /\ InStep /\ LoopInv)'
  BY TStep, WholeStep, LoopStep, LoopIsHost
<1>3. TInv /\ LoopInv => DecodesOwn
  <2> SUFFICES ASSUME TInv, LoopInv, shown, lpc = "wait", faults = 0, aligned,
                      NEW i \in 0..Decoded-1
               PROVE  i < top /\ data[i] = i
    BY DEF DecodesOwn
  <2>1. LongEnough /\ Held
    BY DEF LoopInv
  <2>2. ret \in Nat /\ i \in 0..ret-1
    BY <2>1, GetEventAssumption, MainLoopAssumption DEF LongEnough, TInv, TypeOK
  <2> QED BY <2>1, <2>2 DEF Held
<1> QED BY <1>1, <1>2, <1>3, PTL DEF LoopSpec
=============================================================================
