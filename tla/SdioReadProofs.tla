--------------------------- MODULE SdioReadProofs ---------------------------
(***************************************************************************)
(* Proofs about SdioRead, for every length of response, wait and block and *)
(* whenever the chip sends.                                                *)
(***************************************************************************)
EXTENDS SdioRead, SequenceTheorems, TLAPS

\* The index of the byte being filled follows from the bits received.
Tracks ==
  /\ dbits % 4 = 0
  /\ dp = CASE ~keep                            -> 0
            [] keep /\ dbits \div 8 < nbytes    -> dbits \div 8
            [] keep /\ ~(dbits \div 8 < nbytes) -> nbytes - 1

\* How many cycles each part of the call has taken at most.
Timing ==
  /\ pc = "wait" => wt + cycle = RSP_WAIT + 1 /\ wt > 0 /\ rbits = 1 /\ ~din
  /\ pc = "bits" /\ rbits < MSG_BITS => cycle <= RSP_WAIT + rbits
  /\ pc = "bits" /\ rbits = MSG_BITS /\ din =>
       \/ dbits \div 8 < nbytes + 8 /\ cycle <= RSP_WAIT + MSG_BITS + (dbits \div 4)
       \/ cycle <= RSP_WAIT + MSG_BITS
  /\ ReturnsInTime

IInv == TypeOK /\ Tracks /\ Timing

LEMMA NbytesType ==
  ASSUME block \in Blocks
  PROVE  nbytes \in Nat \ {0} /\ \A i \in 1..nbytes : block[i] \in 0..255
<1>1. block \in Seq(0..255) /\ Len(block) > 0
  BY SdioReadAssumption
<1>2. Len(block) \in Nat /\ \A i \in 1..Len(block) : block[i] \in 0..255
  BY <1>1, LenProperties, ElementOfSeq
<1> QED BY <1>1, <1>2 DEF nbytes

LEMMA LinesType ==
  ASSUME block \in Blocks, cycle \in Nat, dataAt \in Nat
  PROVE  DataLines \in Int
<1> DEFINE i == cycle - dataAt - 1
<1>1. nbytes \in Nat /\ \A j \in 1..nbytes : block[j] \in 0..255
  BY NbytesType
<1>2. i \in Int
  OBVIOUS
<1>3. ASSUME i \in 0 .. 2 * nbytes - 1 PROVE Nibble(i) \in Int
  <2>1. i \div 2 + 1 \in 1..nbytes
    BY <1>1, <1>2, <1>3
  <2>2. block[i \div 2 + 1] \in 0..255
    BY <1>1, <2>1
  <2> QED BY <2>2 DEF Nibble
<1> QED BY <1>2, <1>3 DEF DataLines, CrcNibble, Idle

LEMMA ByteOf ==
  ASSUME NEW a \in 0..255, NEW d \in Int
  PROVE  (a * 16 + d) % 256 \in 0..255
OBVIOUS

LEMMA Cleared ==
  ASSUME NEW n \in Nat, NEW f \in [0..n-1 -> 0..255], NEW k \in 0..n-1
  PROVE  [f EXCEPT ![k] = 0] \in [0..n-1 -> 0..255]
OBVIOUS

LEMMA InitIInv == Init => IInv
<1> SUFFICES ASSUME Init PROVE IInv
  OBVIOUS
<1>1. nbytes \in Nat \ {0}
  BY NbytesType DEF Init
<1>2. TypeOK
  BY <1>1, SdioReadAssumption DEF Init, TypeOK
<1>3. Tracks
  BY <1>1 DEF Init, Tracks
<1>4. Timing
  BY <1>1, SdioReadAssumption DEF Init, Timing, ReturnsInTime
<1> QED BY <1>2, <1>3, <1>4 DEF IInv

LEMMA WaitStep ==
  ASSUME IInv, WaitRsp
  PROVE  IInv'
<1>1. nbytes \in Nat \ {0} /\ nbytes' = nbytes
  BY NbytesType DEF IInv, TypeOK, WaitRsp, chip, nbytes
<1> DEFINE T == wt \in 0..RSP_WAIT /\ cycle \in Nat \ {0} /\ rbits \in 1..MSG_BITS
<1>t. T /\ RSP_WAIT \in Nat \ {0} /\ MSG_BITS \in Nat \ {0}
  BY SdioReadAssumption DEF IInv, TypeOK
<1>w. /\ wt' = wt - 1 /\ cycle' = cycle + 1 /\ rbits' = rbits /\ din' = din
      /\ wt + cycle = RSP_WAIT + 1 /\ wt > 0 /\ rbits = 1 /\ ~din
  BY DEF IInv, Timing, WaitRsp
<1>p. pc' \in {"wait", "bits", "done"} /\ (pc' = "wait" => wt > 1)
  <2>1. CASE CmdLine = 0
    BY <2>1 DEF WaitRsp
  <2>2. CASE CmdLine # 0 /\ wt > 1
    BY <2>2 DEF WaitRsp
  <2>3. CASE CmdLine # 0 /\ ~(wt > 1)
    BY <2>3 DEF WaitRsp
  <2> QED BY <2>1, <2>2, <2>3
<1>2. TypeOK'
  <2>1. T'
    BY <1>t, <1>w
  <2> HIDE DEF T
  <2>2. wt' \in 0..RSP_WAIT /\ cycle' \in Nat \ {0} /\ rbits' \in 1..MSG_BITS
    BY <2>1 DEF T
  <2> QED BY <1>1, <1>p, <2>2 DEF IInv, TypeOK, WaitRsp, chip
<1>3. Tracks'
  BY <1>1 DEF IInv, Tracks, WaitRsp, chip
<1>4. Timing'
  <2>1. cycle' <= RSP_WAIT + 1 /\ (pc' = "wait" => wt' > 0)
    BY <1>t, <1>w, <1>p
  <2>2. wt' + cycle' = RSP_WAIT + 1
    BY <1>t, <1>w
  <2>3. ReturnsInTime'
    BY <1>1, <1>t, <1>w, <2>1 DEF ReturnsInTime
  <2> QED BY <1>t, <1>w, <2>1, <2>2, <2>3 DEF Timing
<1> QED BY <1>2, <1>3, <1>4 DEF IInv

\* What a nibble of the block does to index and buffer.
LEMMA NibbleStep ==
  ASSUME IInv, TakeNibble, UNCHANGED <<block, keep>>
  PROVE  /\ dbits' = dbits + 4
         /\ din' = (dbits' \div 8 < nbytes + 8)
         /\ Tracks'
         /\ dp' \in 0..nbytes-1
         /\ buf' \in [0..nbytes-1 -> 0..255]
<1>1. /\ nbytes \in Nat \ {0} /\ nbytes' = nbytes
      /\ dbits \in Nat /\ keep \in BOOLEAN /\ keep' = keep
      /\ buf \in [0..nbytes-1 -> 0..255]
      /\ DataLines \in Int
  BY NbytesType, LinesType, SdioReadAssumption DEF IInv, TypeOK, nbytes
<1>2. dbits' = dbits + 4 /\ din' = (dbits' \div 8 < nbytes + 8)
  BY SdioReadAssumption DEF TakeNibble
<1>3. dp \in 0..nbytes-1
  BY <1>1 DEF IInv, Tracks
<1> DEFINE stored == IF keep /\ dbits \div 8 < nbytes
                     THEN [buf EXCEPT ![dp] = (@ * 16 + DataLines) % 256] ELSE buf
           advance == keep /\ din' /\ dbits' \div 8 < nbytes /\ dbits' % 8 = 0
<1>4. (buf[dp] * 16 + DataLines) % 256 \in 0..255
  <2>1. buf[dp] \in 0..255
    BY <1>1, <1>3
  <2> QED BY <2>1, <1>1, ByteOf
<1>5. stored \in [0..nbytes-1 -> 0..255]
  BY <1>1, <1>3, <1>4
<1>6. IF advance THEN dp' = dp + 1 /\ buf' = [stored EXCEPT ![dp + 1] = 0]
                 ELSE dp' = dp /\ buf' = stored
  BY DEF TakeNibble
<1> HIDE DEF stored
<1>7. dbits % 4 = 0
  BY DEF IInv, Tracks
<1>8. CASE advance
  <2>1. keep /\ dbits \div 8 < nbytes /\ dbits' \div 8 = dbits \div 8 + 1
        /\ dbits' \div 8 < nbytes /\ dbits' % 4 = 0
    BY <1>1, <1>2, <1>7, <1>8
  <2>2. dp' = dbits' \div 8
    BY <1>1, <1>6, <1>8, <2>1 DEF IInv, Tracks
  <2>3. dp' \in 0..nbytes-1
    BY <1>1, <1>2, <2>1, <2>2
  <2>4. buf' \in [0..nbytes-1 -> 0..255]
    <3>1. buf' = [stored EXCEPT ![dp + 1] = 0]
      BY <1>6, <1>8
    <3>2. dp + 1 \in 0..nbytes-1
      BY <1>6, <1>8, <2>3
    <3> QED BY <1>1, <1>5, <3>1, <3>2, Cleared
  <2>5. Tracks'
    BY <1>1, <2>1, <2>2 DEF Tracks
  <2> QED BY <1>2, <2>3, <2>4, <2>5
<1>9. CASE ~advance
  <2>1. dp' = dp /\ buf' = stored
    BY <1>6, <1>9
  <2>2. dbits' % 4 = 0
    BY <1>1, <1>2, <1>7
  <2>3. ASSUME keep PROVE dp = IF dbits' \div 8 < nbytes THEN dbits' \div 8 ELSE nbytes - 1
    <3>1. dp = IF dbits \div 8 < nbytes THEN dbits \div 8 ELSE nbytes - 1
      BY <1>1, <2>3 DEF IInv, Tracks
    <3>2. ~(din' /\ dbits' \div 8 < nbytes /\ dbits' % 8 = 0)
      BY <1>9, <2>3
    <3>3. dbits' % 8 # 0 => dbits' \div 8 = dbits \div 8
      BY <1>1, <1>2, <1>7
    <3>4. dbits' % 8 = 0 => dbits' \div 8 = dbits \div 8 + 1
      BY <1>1, <1>2, <1>7
    <3>5. dbits' \div 8 < nbytes => din'
      <4>1. dbits' \div 8 < nbytes => dbits' \div 8 < nbytes + 8
        BY <1>1, <1>2
      <4> QED BY <1>2, <4>1, Zenon
    <3>6. dbits \div 8 \in Nat
      BY <1>1
    <3> QED BY <1>1, <3>1, <3>2, <3>3, <3>4, <3>5, <3>6
  <2>4. ~keep => dp = 0
    BY <1>1 DEF IInv, Tracks
  <2>5. Tracks'
    BY <1>1, <2>1, <2>2, <2>3, <2>4 DEF Tracks
  <2> QED BY <1>2, <1>3, <1>5, <2>1, <2>5
<1> QED BY <1>8, <1>9

LEMMA ReadBitStep ==
  ASSUME IInv, ReadBit
  PROVE  IInv'
<1>1. /\ nbytes \in Nat \ {0} /\ nbytes' = nbytes /\ dbits \in Nat
      /\ MSG_BITS \in Nat \ {0} /\ RSP_WAIT \in Nat \ {0} /\ rbits \in 1..MSG_BITS
      /\ cycle \in Nat \ {0} /\ din \in BOOLEAN
  BY NbytesType, SdioReadAssumption DEF IInv, TypeOK, ReadBit, chip, nbytes
<1>2. /\ pc = "bits" /\ pc' = "bits" /\ cycle' = cycle + 1
      /\ rbits < MSG_BITS \/ din
      /\ rbits' = IF rbits < MSG_BITS THEN rbits + 1 ELSE rbits
  BY DEF ReadBit, More
<1>3. rbits' \in 1..MSG_BITS /\ cycle' \in Nat \ {0}
  BY <1>1, <1>2
<1>4. CASE NoData
  <2>1. TypeOK'
    BY <1>1, <1>3, <1>4 DEF IInv, TypeOK, ReadBit, NoData, chip
  <2>2. Tracks'
    BY <1>1, <1>4 DEF IInv, Tracks, ReadBit, NoData, chip
  <2>3. Timing'
    BY <1>1, <1>2, <1>4 DEF IInv, Timing, ReturnsInTime, NoData
  <2> QED BY <2>1, <2>2, <2>3 DEF IInv
<1>5. CASE TakeNibble
  <2>1. /\ dbits' = dbits + 4 /\ din' = (dbits' \div 8 < nbytes + 8)
        /\ Tracks'
        /\ dp' \in 0..nbytes-1
        /\ buf' \in [0..nbytes-1 -> 0..255]
    BY <1>5, NibbleStep DEF ReadBit, chip
  <2>2. TypeOK'
    BY <1>1, <1>3, <2>1 DEF IInv, TypeOK, ReadBit, chip
  <2>3. Timing'
    <3>1. din /\ dbits % 4 = 0
      BY <1>5 DEF TakeNibble, IInv, Tracks
    <3>2. CASE rbits < MSG_BITS
      BY <1>1, <1>2, <2>1, <3>1, <3>2 DEF IInv, Timing, ReturnsInTime
    <3>3. CASE rbits = MSG_BITS
      <4>1. \/ dbits \div 8 < nbytes + 8 /\ cycle <= RSP_WAIT + MSG_BITS + (dbits \div 4)
            \/ cycle <= RSP_WAIT + MSG_BITS
        BY <1>2, <3>1, <3>3 DEF IInv, Timing
      <4>2. dbits' \div 4 = dbits \div 4 + 1 /\ dbits' \div 4 >= 1
        BY <1>1, <2>1
      <4>3. dbits \div 8 < nbytes + 8 => dbits \div 4 < 2 * nbytes + 16
        BY <1>1
      <4>4. cycle' <= RSP_WAIT + MSG_BITS + 2 * nbytes + 16
        BY <1>1, <1>2, <4>1, <4>3
      <4>5. cycle' <= RSP_WAIT + MSG_BITS + (dbits' \div 4)
        BY <1>1, <1>2, <4>1, <4>2
      <4>6. din' => dbits' \div 8 < nbytes' + 8
        BY <1>1, <2>1, Zenon
      <4>7. pc' # "wait" /\ rbits' = MSG_BITS /\ ReturnsInTime'
        BY <1>1, <1>2, <3>3, <4>4 DEF ReturnsInTime
      <4> QED BY <1>1, <4>5, <4>6, <4>7 DEF Timing
    <3> QED BY <1>1, <3>2, <3>3
  <2> QED BY <2>1, <2>2, <2>3 DEF IInv
<1> QED BY <1>4, <1>5 DEF ReadBit

LEMMA ReturnStep ==
  ASSUME IInv, Return
  PROVE  IInv'
<1>1. nbytes' = nbytes
  BY DEF Return, chip, nbytes
<1> QED BY <1>1 DEF IInv, TypeOK, Tracks, Timing, ReturnsInTime, Return, chip

\* The invariant holds in every reachable state.
THEOREM Invariance == Spec => []IInv
<1>1. IInv /\ [Next]_vars => IInv'
  <2> SUFFICES ASSUME IInv, [Next]_vars PROVE IInv'
    OBVIOUS
  <2>1. CASE UNCHANGED vars
    BY <2>1 DEF vars, IInv, TypeOK, Tracks, Timing, ReturnsInTime, nbytes
  <2> QED BY <2>1, WaitStep, ReadBitStep, ReturnStep DEF Next
<1> QED BY InitIInv, <1>1, PTL DEF Spec

\* Every counter of the read stays in range, the bits of the response included.
THEOREM TypeCorrect == Spec => []TypeOK
<1>1. IInv => TypeOK
  BY DEF IInv
<1> QED BY Invariance, <1>1, PTL

\* sdio_rsp_block_read fills no byte beyond the caller's buffer.
THEOREM StaysInBuffer == Spec => []InBuffer
<1>1. IInv => InBuffer
  <2> SUFFICES ASSUME IInv PROVE InBuffer
    OBVIOUS
  <2>1. nbytes \in Nat \ {0} /\ dbits \in Nat
    BY NbytesType DEF IInv, TypeOK
  <2> QED BY <2>1 DEF IInv, Tracks, InBuffer
<1> QED BY Invariance, <1>1, PTL

\* sdio_rsp_block_read returns within the cycles of the wait, the response and
\* one block.
THEOREM Returns == Spec => []ReturnsInTime
<1>1. IInv => ReturnsInTime
  BY DEF IInv, Timing
<1> QED BY Invariance, <1>1, PTL

-----------------------------------------------------------------------------
(* The block that is returned.                                             *)

\* The bits of the block that are in are in the buffer: whole bytes in their
\* places, and the upper half of one that is not whole.
Filled ==
  keep => \A j \in 0..nbytes-1 :
            /\ j < dbits \div 8 => buf[j] = block[j + 1]
            /\ j = dbits \div 8 => buf[j] = IF dbits % 8 = 0 THEN 0 ELSE block[j + 1] \div 16

\* The block has not started yet, is under way, or is over.
Ahead == ~din /\ dbits = 0 /\ cycle <= dataAt
Amid  == din /\ cycle > dataAt /\ dbits = 4 * (cycle - dataAt - 1)
         /\ dbits \div 8 < nbytes + 8
Over  == ~din /\ cycle > dataAt + 2 * nbytes + 16 /\ dbits = 8 * (nbytes + 8)

\* While the response is read, cycles are its bits.
Bits == /\ rbits < MSG_BITS => cycle = rspAt + rbits
        /\ rbits = MSG_BITS => cycle >= rspAt + MSG_BITS

\* The block, when it starts after the response has.
Course ==
  /\ Bits /\ Filled
  /\ Ahead \/ ((Amid \/ Over) /\ dataAt < rspAt + MSG_BITS)

ReadInv ==
  /\ pc = "wait" => cycle <= rspAt /\ dbits = 0 /\ Filled
  /\ pc = "bits" => Answered /\ (dataAt > rspAt => Course)
  /\ ExactBlock

LEMMA ReadFacts ==
  ASSUME IInv
  PROVE  /\ nbytes \in Nat \ {0} /\ dbits \in Nat /\ dbits % 4 = 0
         /\ keep \in BOOLEAN /\ din \in BOOLEAN /\ buf \in [0..nbytes-1 -> 0..255]
         /\ cycle \in Nat \ {0} /\ rspAt \in Nat \ {0} /\ dataAt \in Nat \ {0}
         /\ rbits \in 1..MSG_BITS /\ MSG_BITS \in Nat \ {0}
         /\ \A j \in 0..nbytes-1 : block[j + 1] \in 0..255
<1>1. nbytes \in Nat \ {0} /\ \A i \in 1..nbytes : block[i] \in 0..255
  BY NbytesType DEF IInv, TypeOK
<1>2. \A j \in 0..nbytes-1 : block[j + 1] \in 0..255
  BY <1>1
<1> QED BY <1>1, <1>2, SdioReadAssumption DEF IInv, TypeOK, Tracks

\* The next nibble of the block, by the bits that are in.
LEMMA NextNibble ==
  ASSUME IInv, Amid, dbits \div 8 < nbytes
  PROVE  DataLines = IF dbits % 8 = 0 THEN block[(dbits \div 8) + 1] \div 16
                                      ELSE block[(dbits \div 8) + 1] % 16
<1>1. PICK i \in Nat : i = cycle - dataAt - 1 /\ dbits = 4 * i
  BY ReadFacts DEF Amid
<1>2. PICK q \in Nat, r \in 0..1 : q = i \div 2 /\ r = i % 2 /\ i = 2 * q + r
  BY <1>1
<1>3. dbits \div 8 = q /\ (dbits % 8 = 0 <=> r = 0)
  BY <1>1, <1>2
<1>4. PICK n \in Nat : n = nbytes
  BY ReadFacts
<1>5. i \in 0 .. 2 * n - 1 /\ i \notin 2 * n .. 2 * n + 15 /\ i # -1
  <2>1. q < n
    BY <1>3, <1>4
  <2> QED BY <1>2, <1>4, <2>1
<1>6. DataLines = CASE i = -1                  -> 0
                    [] i \in 0 .. 2 * n - 1    -> Nibble(i)
                    [] i \in 2 * n .. 2 * n + 15 -> CrcNibble
                    [] OTHER                   -> Idle
  BY <1>1, <1>4 DEF DataLines
<1>7. DataLines = Nibble(i)
  BY <1>5, <1>6
<1> QED BY <1>2, <1>3, <1>7 DEF Nibble

\* Storing it.
LEMMA FilledStep ==
  ASSUME IInv, TakeNibble, UNCHANGED <<block, keep>>, Amid, Filled
  PROVE  Filled'
<1>1. /\ nbytes \in Nat \ {0} /\ dbits \in Nat /\ dbits % 4 = 0 /\ nbytes' = nbytes
      /\ buf \in [0..nbytes-1 -> 0..255]
      /\ \A j \in 0..nbytes-1 : block[j + 1] \in 0..255
  BY ReadFacts DEF nbytes
<1>2. dbits' = dbits + 4 /\ din' = (dbits' \div 8 < nbytes + 8)
  BY NibbleStep
<1> SUFFICES ASSUME keep, NEW j \in 0..nbytes-1
             PROVE  /\ j < dbits' \div 8 => buf'[j] = block[j + 1]
                    /\ j = dbits' \div 8 =>
                         buf'[j] = IF dbits' % 8 = 0 THEN 0 ELSE block[j + 1] \div 16
  BY <1>1 DEF Filled
<1>3. PICK q \in Nat, r \in {0, 4} : q = dbits \div 8 /\ r = dbits % 8
  <2>1. PICK x \in Nat, y \in 0..7 : x = dbits \div 8 /\ y = dbits % 8 /\ dbits = 8 * x + y
    BY <1>1
  <2>2. (8 * x + y) % 4 = 0
    BY <1>1, <2>1
  <2>3. y = 0 \/ y = 4
    BY <2>1, <2>2
  <2> QED BY <2>1, <2>3
<1>4. /\ dbits' \div 8 = IF r = 0 THEN q ELSE q + 1
      /\ dbits' % 8 = IF r = 0 THEN 4 ELSE 0
  BY <1>1, <1>2, <1>3
<1>5. /\ j < q => buf[j] = block[j + 1]
      /\ j = q => buf[j] = IF r = 0 THEN 0 ELSE block[j + 1] \div 16
  BY <1>3 DEF Filled
<1> DEFINE stored  == IF keep /\ dbits \div 8 < nbytes
                      THEN [buf EXCEPT ![dp] = (@ * 16 + DataLines) % 256] ELSE buf
           advance == keep /\ din' /\ dbits' \div 8 < nbytes /\ dbits' % 8 = 0
<1>6. IF advance THEN dp' = dp + 1 /\ buf' = [stored EXCEPT ![dp + 1] = 0]
                 ELSE dp' = dp /\ buf' = stored
  BY DEF TakeNibble
<1>7. CASE q < nbytes
  <2>1. dp = q /\ q \in 0..nbytes-1
    BY <1>1, <1>3, <1>7 DEF IInv, Tracks
  <2>2. DataLines = IF r = 0 THEN block[q + 1] \div 16 ELSE block[q + 1] % 16
    BY <1>3, <1>7, NextNibble
  <2>3. PICK b \in 0..255 : b = block[q + 1]
    BY <1>1, <2>1
  <2>4. /\ buf[q] = IF r = 0 THEN 0 ELSE b \div 16
        /\ \A x \in 0..nbytes-1 : x < q => buf[x] = block[x + 1]
    BY <1>3, <2>1, <2>3 DEF Filled
  <2>5. (buf[q] * 16 + DataLines) % 256 = IF r = 0 THEN b \div 16 ELSE b
    <3>1. CASE r = 0
      <4>1. PICK h \in 0..15 : h = b \div 16
        BY <2>3
      <4>2. (0 * 16 + h) % 256 = h
        OBVIOUS
      <4> QED BY <2>2, <2>3, <2>4, <3>1, <4>1, <4>2
    <3>2. CASE r # 0
      <4>1. ((b \div 16) * 16 + (b % 16)) % 256 = b
        OBVIOUS
      <4> QED BY <2>2, <2>3, <2>4, <3>2, <4>1
    <3> QED BY <3>1, <3>2
  <2>6. stored = [buf EXCEPT ![q] = IF r = 0 THEN b \div 16 ELSE b]
    BY <1>3, <1>7, <2>1, <2>5
  <2> HIDE DEF stored
  <2>7. CASE r = 0
    <3>1. buf' = [buf EXCEPT ![q] = b \div 16]
      BY <1>4, <1>6, <2>6, <2>7
    <3> QED BY <1>1, <1>4, <1>5, <2>1, <2>3, <2>7, <3>1
  <2>8. CASE r # 0
    <3>1. stored = [buf EXCEPT ![q] = b]
      BY <2>6, <2>8
    <3>2. q + 1 < nbytes => buf' = [stored EXCEPT ![q + 1] = 0]
      <4>1. q + 1 < nbytes => q + 1 < nbytes + 8
        BY <1>1
      <4>2. q + 1 < nbytes => din'
        BY <1>2, <1>4, <2>8, <4>1
      <4> QED BY <1>4, <1>6, <2>1, <2>8, <4>2
    <3>3. ~(q + 1 < nbytes) => buf' = stored
      BY <1>4, <1>6, <2>8
    <3>4. j <= q => buf'[j] = block[j + 1]
      <4>1. j <= q => stored[j] = block[j + 1]
        BY <1>1, <1>5, <2>1, <2>3, <3>1
      <4>2. j <= q => buf'[j] = stored[j]
        BY <1>1, <1>3, <3>1, <3>2, <3>3
      <4> QED BY <4>1, <4>2
    <3>5. j = q + 1 => buf'[j] = 0
      BY <1>1, <1>3, <3>1, <3>2
    <3> QED BY <1>3, <1>4, <2>8, <3>4, <3>5
  <2> QED BY <2>7, <2>8
<1>8. CASE ~(q < nbytes)
  <2>1. buf' = buf
    BY <1>1, <1>3, <1>4, <1>6, <1>8
  <2>2. j < q
    BY <1>1, <1>3, <1>8
  <2> QED BY <1>3, <1>4, <1>5, <2>1, <2>2
<1> QED BY <1>7, <1>8

\* The lines before the block, at its start, and after it.
LEMMA LinesAround ==
  ASSUME IInv
  PROVE  /\ cycle < dataAt \/ cycle > dataAt + 2 * nbytes + 16 => DataLines # 0
         /\ cycle = dataAt => DataLines = 0
<1>1. PICK i \in Int, n \in Nat : i = cycle - dataAt - 1 /\ n = nbytes
  BY ReadFacts
<1>2. DataLines = CASE i = -1                  -> 0
                    [] i \in 0 .. 2 * n - 1    -> Nibble(i)
                    [] i \in 2 * n .. 2 * n + 15 -> CrcNibble
                    [] OTHER                   -> Idle
  BY <1>1 DEF DataLines
<1>3. CASE cycle < dataAt \/ cycle > dataAt + 2 * nbytes + 16
  <2>1. i # -1 /\ i \notin 0 .. 2 * n - 1 /\ i \notin 2 * n .. 2 * n + 15
    BY <1>1, <1>3, ReadFacts
  <2>2. DataLines = Idle
    BY <1>2, <2>1
  <2> QED BY <1>3, <2>2, ReadFacts DEF Idle
<1>4. CASE cycle = dataAt
  <2>1. i = -1 /\ i \notin 0 .. 2 * n - 1 /\ i \notin 2 * n .. 2 * n + 15
    BY <1>1, <1>4, ReadFacts
  <2>2. DataLines = 0
    BY <1>2, <2>1
  <2> QED BY <1>4, <2>2, ReadFacts
<1> QED BY <1>3, <1>4

LEMMA ReadStart == Init => ReadInv
<1> SUFFICES ASSUME Init PROVE ReadInv
  OBVIOUS
<1>1. IInv
  BY InitIInv
<1>2. /\ nbytes \in Nat \ {0} /\ rspAt >= 1
  BY <1>1, ReadFacts
<1>3. pc = "wait" /\ cycle = 1 /\ dbits = 0
      /\ buf = [i \in 0..nbytes-1 |-> IF keep /\ i = 0 THEN 0 ELSE 255]
  BY DEF Init
<1>4. Filled
  BY <1>2, <1>3 DEF Filled
<1> QED BY <1>2, <1>3, <1>4 DEF ReadInv, ExactBlock

\* A cycle of the wait: the response starts in it, or not.
LEMMA WaitCourse ==
  ASSUME IInv, ReadInv, WaitRsp
  PROVE  ReadInv'
<1>1. /\ wt + cycle = RSP_WAIT + 1 /\ wt > 0 /\ wt \in 0..RSP_WAIT /\ rbits = 1 /\ ~din
      /\ RSP_WAIT \in Nat \ {0}
  BY SdioReadAssumption DEF IInv, TypeOK, Timing, WaitRsp
<1>2. /\ cycle <= rspAt /\ dbits = 0 /\ Filled
  BY DEF ReadInv, WaitRsp
<1>3. /\ cycle' = cycle + 1 /\ UNCHANGED <<rbits, dbits, din, buf, keep, block, rspAt, dataAt>>
  BY DEF WaitRsp, chip
<1>4. nbytes' = nbytes /\ Filled' /\ Answered' = Answered
  BY <1>2, <1>3 DEF nbytes, Filled, Answered
<1>5. /\ cycle \in Nat \ {0} /\ rspAt \in Nat \ {0} /\ dataAt \in Nat \ {0}
      /\ MSG_BITS \in Nat \ {0}
  BY ReadFacts
<1>6. CASE CmdLine = 0
  <2>1. cycle = rspAt /\ pc' = "bits"
    BY <1>6 DEF WaitRsp, CmdLine
  <2>2. Answered
    BY <1>1, <1>5, <2>1 DEF Answered
  <2>3. Bits'
    BY <1>1, <1>3, <1>5, <2>1 DEF Bits
  <2>4. dataAt > rspAt => Ahead'
    BY <1>1, <1>2, <1>3, <1>5, <2>1 DEF Ahead
  <2> QED BY <1>3, <1>4, <2>1, <2>2, <2>3, <2>4 DEF ReadInv, Course, ExactBlock
<1>7. CASE CmdLine # 0
  <2>1. cycle < rspAt
    BY <1>2, <1>5, <1>7 DEF CmdLine
  <2>2. CASE wt > 1
    <3>1. pc' = "wait"
      BY <1>7, <2>2 DEF WaitRsp
    <3>2. cycle' <= rspAt'
      BY <1>3, <1>5, <2>1
    <3> QED BY <1>2, <1>3, <1>4, <3>1, <3>2 DEF ReadInv, ExactBlock
  <2>3. CASE ~(wt > 1)
    <3>1. pc' = "done"
      BY <1>7, <2>3 DEF WaitRsp
    <3>2. ~Answered
      BY <1>1, <1>5, <2>1, <2>3 DEF Answered
    <3>3. Result' = 0
      BY <1>2, <1>3, SdioReadAssumption DEF Result
    <3> QED BY <1>4, <3>1, <3>2, <3>3 DEF ReadInv, ExactBlock
  <2> QED BY <2>2, <2>3
<1> QED BY <1>6, <1>7

\* A cycle of the loop: the block goes from one part of its course to the next.
LEMMA ReadBitCourse ==
  ASSUME IInv, ReadInv, ReadBit
  PROVE  ReadInv'
<1>1. /\ pc = "bits" /\ pc' = "bits" /\ cycle' = cycle + 1 /\ More
      /\ rbits' = IF rbits < MSG_BITS THEN rbits + 1 ELSE rbits
      /\ UNCHANGED <<keep, block, rspAt, dataAt>>
  BY DEF ReadBit, chip
<1>2. nbytes' = nbytes /\ Answered' = Answered /\ Answered
  BY <1>1 DEF nbytes, Answered, ReadInv
<1> SUFFICES ASSUME dataAt > rspAt PROVE Course'
  BY <1>1, <1>2 DEF ReadInv, ExactBlock
<1>3. Course
  BY <1>1 DEF ReadInv
<1>4. /\ nbytes \in Nat \ {0} /\ dbits \in Nat /\ dbits % 4 = 0
      /\ cycle \in Nat \ {0} /\ rspAt \in Nat \ {0} /\ dataAt \in Nat \ {0}
      /\ rbits \in 1..MSG_BITS /\ MSG_BITS \in Nat \ {0}
  BY ReadFacts
<1>5. Bits'
  BY <1>1, <1>3, <1>4 DEF Course, Bits
<1>6. CASE NoData
  <2>1. dbits' = dbits /\ buf' = buf /\ ~din /\ din' = (DataLines = 0)
    BY <1>6 DEF NoData
  <2>2. Filled'
    BY <1>1, <1>2, <1>3, <2>1 DEF Course, Filled
  <2>3. CASE Ahead /\ cycle < dataAt
    <3>1. ~din'
      BY <2>1, <2>3, LinesAround
    <3>2. Ahead'
      BY <1>1, <1>4, <2>1, <2>3, <3>1 DEF Ahead
    <3> QED BY <1>5, <2>2, <3>2 DEF Course
  <2>4. CASE Ahead /\ ~(cycle < dataAt)
    <3>1. cycle = dataAt
      BY <1>4, <2>4 DEF Ahead
    <3>2. din'
      BY <2>1, <3>1, LinesAround
    <3>3. Amid'
      <4>1. cycle' > dataAt' /\ dbits' = 4 * (cycle' - dataAt' - 1)
        BY <1>1, <1>4, <2>1, <2>4, <3>1 DEF Ahead
      <4>2. dbits' \div 8 < nbytes' + 8
        BY <1>2, <1>4, <2>1, <2>4 DEF Ahead
      <4> QED BY <3>2, <4>1, <4>2 DEF Amid
    <3>4. dataAt < rspAt + MSG_BITS
      <4>1. rbits < MSG_BITS /\ cycle = rspAt + rbits
        BY <1>1, <1>3, <2>1 DEF More, Course, Bits
      <4> QED BY <1>4, <3>1, <4>1
    <3> QED BY <1>1, <1>5, <2>2, <3>3, <3>4 DEF Course
  <2>5. CASE Over
    <3>1. ~din'
      BY <2>1, <2>5, LinesAround DEF Over
    <3>2. Over'
      BY <1>1, <1>2, <1>4, <2>1, <2>5, <3>1 DEF Over
    <3>3. dataAt < rspAt + MSG_BITS
      BY <1>3, <1>4, <2>5 DEF Course, Ahead, Over
    <3> QED BY <1>1, <1>5, <2>2, <3>2, <3>3 DEF Course
  <2> QED BY <1>3, <2>1, <2>3, <2>4, <2>5 DEF Course, Amid
<1>7. CASE TakeNibble
  <2>1. Amid /\ dataAt < rspAt + MSG_BITS
    BY <1>3, <1>7 DEF Course, TakeNibble, Ahead, Over
  <2>2. dbits' = dbits + 4 /\ din' = (dbits' \div 8 < nbytes + 8)
    BY <1>1, <1>7, NibbleStep
  <2>3. Filled'
    BY <1>1, <1>3, <1>7, <2>1, FilledStep DEF Course
  <2>4. PICK i \in Nat : i = cycle - dataAt - 1 /\ dbits = 4 * i
    BY <1>4, <2>1 DEF Amid
  <2>5. cycle' = dataAt + i + 2 /\ dbits' = 4 * (i + 1) /\ cycle' > dataAt'
    BY <1>1, <1>4, <2>2, <2>4
  <2>6. cycle' - dataAt' - 1 = i + 1
    BY <1>1, <1>4, <2>5
  <2>7. CASE dbits' \div 8 < nbytes + 8
    <3>1. Amid'
      BY <1>2, <2>2, <2>5, <2>6, <2>7 DEF Amid
    <3> QED BY <1>1, <1>5, <2>1, <2>3, <3>1 DEF Course
  <2>8. CASE ~(dbits' \div 8 < nbytes + 8)
    <3>1. ~din'
      BY <2>2, <2>8
    <3>2. dbits' = 8 * (nbytes + 8)
      <4>1. dbits \div 8 < nbytes + 8
        BY <2>1 DEF Amid
      <4> QED BY <1>4, <2>2, <2>8, <4>1
    <3>3. cycle' > dataAt' + 2 * nbytes' + 16
      BY <1>1, <1>2, <1>4, <2>5, <3>2
    <3>4. Over'
      BY <1>2, <3>1, <3>2, <3>3 DEF Over
    <3> QED BY <1>1, <1>5, <2>1, <2>3, <3>4 DEF Course
  <2> QED BY <2>7, <2>8
<1> QED BY <1>6, <1>7 DEF ReadBit

\* What is returned.
LEMMA ReturnCourse ==
  ASSUME IInv, ReadInv, Return
  PROVE  ReadInv'
<1>1. /\ pc = "bits" /\ pc' = "done" /\ ~More
      /\ UNCHANGED <<dbits, buf, keep, block, rspAt, dataAt>>
  BY DEF Return, chip
<1>2. nbytes' = nbytes /\ Answered' = Answered /\ Answered /\ Result' = Result
  BY <1>1 DEF nbytes, Answered, ReadInv, Result
<1> SUFFICES ASSUME dataAt > rspAt PROVE ExactBlock'
  BY <1>1, <1>2 DEF ReadInv, ExactBlock
<1>3. Course
  BY <1>1 DEF ReadInv
<1>4. /\ nbytes \in Nat \ {0} /\ dbits \in Nat
      /\ cycle \in Nat \ {0} /\ rspAt \in Nat \ {0} /\ dataAt \in Nat \ {0}
      /\ rbits \in 1..MSG_BITS /\ MSG_BITS \in Nat \ {0}
  BY ReadFacts
<1>5. ~din /\ rbits = MSG_BITS /\ cycle >= rspAt + MSG_BITS
  BY <1>1, <1>3, <1>4 DEF More, Course, Bits
<1>6. CASE Ahead
  <2>1. ~(dataAt < rspAt + MSG_BITS)
    BY <1>4, <1>5, <1>6 DEF Ahead
  <2>2. Result = 0
    BY <1>6, SdioReadAssumption DEF Ahead, Result
  <2> QED BY <1>1, <1>2, <2>1, <2>2 DEF ExactBlock
<1>7. CASE Over /\ dataAt < rspAt + MSG_BITS
  <2>1. dbits - 4 * 2 * 8 = 8 * nbytes /\ dbits \div 8 = nbytes + 8
    BY <1>4, <1>7 DEF Over
  <2>2. Result = nbytes
    <3>1. SD_DATA_PINS * 2 * 8 = 4 * 2 * 8
      BY SdioReadAssumption
    <3>2. Result = IF 8 * nbytes > 0 THEN (8 * nbytes) \div 8 ELSE 0
      BY <2>1, <3>1 DEF Result
    <3> QED BY <1>4, <3>2
  <2>3. keep => \A i \in 0..nbytes-1 : buf[i] = block[i + 1]
    <3>1. \A i \in 0..nbytes-1 : i < dbits \div 8
      BY <1>4, <2>1
    <3> QED BY <1>3, <3>1 DEF Course, Filled
  <2> QED BY <1>1, <1>2, <1>7, <2>2, <2>3 DEF ExactBlock
<1> QED BY <1>3, <1>5, <1>6, <1>7 DEF Course, Amid

\* sdio_rsp_block_read: for every length of response, wait and block, a block
\* that starts after the response has started and before it has ended is read
\* whole and its length returned, and 0 is returned for one that is missed.
THEOREM ReadsWhole == Spec => []ExactBlock
<1>1. IInv /\ ReadInv /\ [Next]_vars => ReadInv'
  <2> SUFFICES ASSUME IInv, ReadInv, [Next]_vars PROVE ReadInv'
    OBVIOUS
  <2>1. CASE UNCHANGED vars
    BY <2>1 DEF vars, ReadInv, Course, Bits, Filled, Ahead, Amid, Over, Answered,
                ExactBlock, Result, nbytes
  <2> QED BY <2>1, WaitCourse, ReadBitCourse, ReturnCourse DEF Next
<1>2. ReadInv => ExactBlock
  BY DEF ReadInv
<1> QED BY ReadStart, Invariance, <1>1, <1>2, PTL DEF Spec
=============================================================================
