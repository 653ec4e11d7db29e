-------------------------- MODULE SdioWriteProofs ---------------------------
(***************************************************************************)
(* Proofs about SdioWrite, for blocks of any number and length and for any *)
(* waits that the chip's busy times fit in.                                *)
(***************************************************************************)
EXTENDS SdioWrite, SequenceTheorems, TLAPS

\* A chip that is busy for so long is ready when the next block starts: the
\* earliest start is after the bits of an acknowledgement that begins with the
\* token, or after a wait for one that is not seen.
ReadyInTime == MaxBusy <= BLOCK_ACK_BITS - 2 /\ MaxBusy <= RSP_WAIT - 4

\* The chip waits for a start, or will after at most so many cycles.
ReadyIn(cycles) ==
  cst = "ready" \/ (cst = "after" /\ cnt \in 0..7 + busy /\ 8 + busy - cnt <= cycles)

\* It has taken the first m blocks ...
Took(m) == /\ m <= nblocks
           /\ got \in Seq(Seq(0..15)) /\ Len(got) = m
           /\ \A i \in 1..m : got[i] = Blocks[i]

\* ... and the first m nibbles of the next one and its CRC.
Takes(m) == /\ cst = "data" /\ cur \in Seq(0..15) /\ Len(cur) = m
            /\ \A i \in 1..m : i <= BlkNibbles => cur[i] = Blocks[n + 1][i]

\* Host and chip at every point of the host's program.
Together ==
  /\ pc = "rsp"   => n = 0 /\ Took(0) /\ cst = "ready" /\ ~own
  /\ pc = "pre"   => n = 0 /\ Took(0) /\ cst = "ready" /\ ~own
  /\ pc = "lead"  => n < nblocks /\ Took(n) /\ ReadyIn(1) /\ (own => latch = 15)
  /\ pc = "start" => n < nblocks /\ Took(n) /\ cst = "ready" /\ own
  /\ pc = "data"  => n < nblocks /\ Took(n) /\ own
                     /\ k \in 1..BlkNibbles /\ Takes(BlkNibbles - k)
  /\ pc = "crc"   => n < nblocks /\ Took(n) /\ own
                     /\ k \in 1..CrcNibbles /\ Takes(BlkNibbles + CrcNibbles - k)
  /\ pc = "end"   => n < nblocks /\ Took(n + 1) /\ own /\ cst = "after" /\ cnt = 0
  /\ pc = "ack"   => Took(n) /\ own /\ latch = 15 /\ k \in 1..RSP_WAIT /\ ReadyIn(k + 3)
  /\ pc = "bits"  => Took(n) /\ own /\ latch = 15 /\ k \in Nat \ {0} /\ ReadyIn(k + 3)
  /\ pc = "gap"   => Took(n) /\ own /\ latch = 15 /\ k \in 1..2 /\ ReadyIn(k + 1)
  /\ pc \in {"tail", "done"} => Took(n) /\ cst # "data"

WriteType ==
  /\ pc \in {"rsp", "pre", "lead", "start", "data", "crc", "end",
             "ack", "bits", "gap", "tail", "done"}
  /\ n \in Nat /\ blk \in BOOLEAN /\ latch \in 0..15 /\ own \in BOOLEAN
  /\ cst \in {"ready", "data", "after"}
  /\ cst = "after" => busy \in 0..MaxBusy /\ cnt \in 0..7 + busy

WriteInv == WriteType /\ Together

-----------------------------------------------------------------------------
(* Blocks and sequences.                                                   *)

LEMMA BlockFacts ==
  ASSUME blk \in BOOLEAN
  PROVE  /\ BlkNibbles \in Nat \ {0} /\ nblocks \in Nat /\ nblocks <= Len(Blocks)
         /\ Blocks \in Seq(Seq(0..15)) /\ Len(Blocks) \in Nat
         /\ \A i \in 1..nblocks : /\ Blocks[i] \in Seq(0..15) /\ Len(Blocks[i]) = BlkNibbles
                                  /\ \A j \in 1..BlkNibbles : Blocks[i][j] \in 0..15
<1>1. Blocks \in Seq(Seq(0..15)) /\ Len(Blocks) > 0
  BY SdioWriteAssumption
<1>2. /\ Len(Blocks) \in Nat /\ DOMAIN Blocks = 1..Len(Blocks)
      /\ \A i \in 1..Len(Blocks) : Blocks[i] \in Seq(0..15)
  BY <1>1, LenProperties, ElementOfSeq
<1>3. \A i \in 1..Len(Blocks) : /\ Len(Blocks[i]) = BlkNibbles
                                /\ BlkNibbles > 0
  BY <1>1, <1>2, SdioWriteAssumption DEF BlkNibbles
<1>4. BlkNibbles \in Nat \ {0}
  <2>1. 1 \in 1..Len(Blocks)
    BY <1>1, <1>2
  <2>2. Len(Blocks[1]) \in Nat
    BY <1>2, <2>1, LenProperties
  <2> QED BY <1>3, <2>1, <2>2 DEF BlkNibbles
<1>5. nblocks \in Nat /\ nblocks <= Len(Blocks)
  BY <1>1, <1>2 DEF nblocks
<1>6. ASSUME NEW i \in 1..nblocks
      PROVE  /\ Blocks[i] \in Seq(0..15) /\ Len(Blocks[i]) = BlkNibbles
             /\ \A j \in 1..BlkNibbles : Blocks[i][j] \in 0..15
  <2>1. i \in 1..Len(Blocks)
    BY <1>2, <1>5
  <2>2. Blocks[i] \in Seq(0..15) /\ Len(Blocks[i]) = BlkNibbles
    BY <1>2, <1>3, <2>1
  <2> QED BY <2>2, ElementOfSeq
<1> QED BY <1>1, <1>2, <1>4, <1>5, <1>6

\* A sequence that begins with another one.
LEMMA Begins ==
  ASSUME NEW S, NEW s \in Seq(S), NEW t \in Seq(S), NEW m \in Nat,
         m = Len(t), m <= Len(s), \A i \in 1..m : s[i] = t[i]
  PROVE  SubSeq(s, 1, m) = t
<1>1. Len(s) \in Nat /\ \A i \in 1..Len(s) : s[i] \in S
  BY LenProperties, ElementOfSeq
<1>2. /\ SubSeq(s, 1, m) \in Seq(S)
      /\ Len(SubSeq(s, 1, m)) = IF 1 <= m THEN m - 1 + 1 ELSE 0
      /\ \A i \in 1 .. m - 1 + 1 : SubSeq(s, 1, m)[i] = s[1 + i - 1]
  <2>1. \A i \in 1..m : s[i] \in S
    BY <1>1
  <2> QED BY <2>1, SubSeqProperties
<1> DEFINE u == SubSeq(s, 1, m)
<1>3. u \in Seq(S) /\ Len(u) = m
  BY <1>2
<1>4. \A i \in 1..m : u[i] = t[i]
  <2> TAKE i \in 1..m
  <2>1. i \in 1 .. m - 1 + 1 /\ 1 + i - 1 = i
    OBVIOUS
  <2> QED BY <1>2, <2>1
<1> HIDE DEF u
<1>5. u = t
  BY <1>3, <1>4, SeqEqual
<1> QED BY <1>5 DEF u

-----------------------------------------------------------------------------
(* The chip.                                                               *)

\* While the lines are not all low it takes no start, and is ready, or nearer
\* to it, after a cycle.
LEMMA ChipWaits ==
  ASSUME NEW m \in Nat, ReadyIn(m + 1), cst = "after" => busy \in 0..MaxBusy,
         NEW lines, lines # 0, ChipCycle(lines)
  PROVE  /\ got' = got
         /\ \/ cst' = "ready"
            \/ /\ cst = "after" /\ cst' = "after" /\ busy' = busy /\ cnt' = cnt + 1
               /\ cnt' \in 0..7 + busy /\ 8 + busy - cnt' <= m
<1>1. CASE cst = "ready"
  BY <1>1 DEF ChipCycle
<1>2. CASE cst # "ready"
  <2>1. cst = "after" /\ cnt \in 0..7 + busy /\ 8 + busy - cnt <= m + 1 /\ busy \in 0..MaxBusy
    BY <1>2 DEF ReadyIn
  <2>2. /\ IF cnt < 7 + busy THEN cnt' = cnt + 1 /\ UNCHANGED cst
                             ELSE cnt' = 0 /\ cst' = "ready"
        /\ UNCHANGED <<busy, got>>
    BY <2>1 DEF ChipCycle
  <2>3. busy \in Nat
    BY <2>1, SdioWriteAssumption
  <2> QED BY <2>1, <2>2, <2>3
<1> QED BY <1>1, <1>2

\* When it is not about to take a block it does not begin one.
LEMMA ChipIdles ==
  ASSUME cst \in {"ready", "after"}, cst = "after" => busy \in 0..MaxBusy /\ cnt \in 0..7 + busy,
         NEW lines, lines # 0, ChipCycle(lines)
  PROVE  /\ got' = got /\ cst' \in {"ready", "after"}
         /\ cst = "ready" => cst' = "ready"
         /\ cst' = "after" => busy' \in 0..MaxBusy /\ cnt' \in 0..7 + busy'
<1>1. CASE cst = "ready"
  BY <1>1 DEF ChipCycle
<1>2. CASE cst = "after"
  <2>1. /\ IF cnt < 7 + busy THEN cnt' = cnt + 1 /\ UNCHANGED cst
                             ELSE cnt' = 0 /\ cst' = "ready"
        /\ UNCHANGED <<busy, got>>
    BY <1>2 DEF ChipCycle
  <2>2. busy \in Nat
    BY <1>2, SdioWriteAssumption
  <2> QED BY <1>2, <2>1, <2>2
<1> QED BY <1>1, <1>2

\* The cycles in which it takes a nibble, but for the last one.
LEMMA ChipTakes ==
  ASSUME blk \in BOOLEAN, n \in Nat, n < nblocks, NEW m \in Nat, Takes(m),
         m + 1 < BlkNibbles + CrcNibbles,
         NEW lines \in 0..15, m < BlkNibbles => lines = Blocks[n + 1][m + 1],
         ChipCycle(lines), n' = n
  PROVE  Takes(m + 1)' /\ got' = got /\ cst' = "data"
<1>1. cst = "data" /\ cur \in Seq(0..15) /\ Len(cur) = m
      /\ \A i \in 1..m : i <= BlkNibbles => cur[i] = Blocks[n + 1][i]
  BY DEF Takes
<1>2. BlkNibbles \in Nat \ {0}
  BY BlockFacts
<1>3. cur' = Append(cur, lines)
  BY <1>1 DEF ChipCycle
<1>4. /\ cur' \in Seq(0..15) /\ Len(cur') = m + 1
      /\ \A i \in 1..m : cur'[i] = cur[i]
      /\ cur'[m + 1] = lines
  BY <1>1, <1>3, AppendProperties
<1>5. Len(cur') # BlkNibbles + CrcNibbles
  BY <1>2, <1>4 DEF CrcNibbles
<1>6. cst' = "data" /\ got' = got
  BY <1>1, <1>5 DEF ChipCycle
<1>7. \A i \in 1..m + 1 : i <= BlkNibbles => cur'[i] = Blocks[n + 1][i]
  <2> TAKE i \in 1..m + 1
  <2>1. CASE i \in 1..m
    BY <1>1, <1>4, <2>1
  <2>2. CASE i = m + 1
    BY <1>2, <1>4, <2>2
  <2> QED BY <2>1, <2>2
<1>8. BlkNibbles' = BlkNibbles
  BY DEF BlkNibbles
<1> QED BY <1>4, <1>6, <1>7, <1>8 DEF Takes

\* The last one completes the block.
LEMMA ChipCompletes ==
  ASSUME blk \in BOOLEAN, n \in Nat, n < nblocks, Took(n),
         Takes(BlkNibbles + CrcNibbles - 1),
         NEW lines \in 0..15, ChipCycle(lines), n' = n, blk' = blk
  PROVE  /\ Took(n + 1)'
         /\ cst' = "after" /\ cnt' = 0 /\ busy' \in 0..MaxBusy
<1>1. PICK b \in Nat \ {0} : b = BlkNibbles
  BY BlockFacts
<1>2. /\ cst = "data" /\ cur \in Seq(0..15) /\ Len(cur) = b + 15
      /\ \A i \in 1..b : cur[i] = Blocks[n + 1][i]
  BY <1>1 DEF Takes, CrcNibbles
<1>3. cur' = Append(cur, lines)
  BY <1>2 DEF ChipCycle
<1>4. /\ cur' \in Seq(0..15) /\ Len(cur') = b + 16
      /\ \A i \in 1..b : cur'[i] = Blocks[n + 1][i]
  <2>1. cur' \in Seq(0..15) /\ Len(cur') = Len(cur) + 1 /\ \A i \in 1..Len(cur) : cur'[i] = cur[i]
    BY <1>2, <1>3, AppendProperties
  <2> QED BY <1>1, <1>2, <2>1
<1>5. /\ cst' = "after" /\ cnt' = 0 /\ busy' \in 0..MaxBusy
      /\ got' = Append(got, SubSeq(cur', 1, BlkNibbles))
  BY <1>1, <1>2, <1>4 DEF ChipCycle, CrcNibbles
<1>6. n + 1 \in 1..nblocks
  BY BlockFacts
<1>7. SubSeq(cur', 1, b) = Blocks[n + 1]
  <2>1. Blocks[n + 1] \in Seq(0..15) /\ Len(Blocks[n + 1]) = b
    BY <1>1, <1>6, BlockFacts
  <2>2. b <= b + 16
    BY <1>1
  <2> QED BY <1>1, <1>4, <2>1, <2>2, Begins
<1>8. got' = Append(got, Blocks[n + 1])
  BY <1>1, <1>5, <1>7
<1>9. /\ got' \in Seq(Seq(0..15)) /\ Len(got') = n + 1
      /\ \A i \in 1..n : got'[i] = Blocks[i]
      /\ got'[n + 1] = Blocks[n + 1]
  <2>1. Blocks[n + 1] \in Seq(0..15)
    BY <1>6, BlockFacts
  <2> QED BY <1>8, <2>1, AppendProperties DEF Took
<1>10. \A i \in 1..n + 1 : got'[i] = Blocks[i]
  BY <1>9
<1>11. n + 1 <= nblocks /\ nblocks' = nblocks
  BY <1>6, BlockFacts DEF nblocks
<1> QED BY <1>5, <1>9, <1>10, <1>11 DEF Took

-----------------------------------------------------------------------------
(* The host.                                                               *)

LEMMA WriteStart == Init => WriteInv
<1> SUFFICES ASSUME Init PROVE WriteInv
  OBVIOUS
<1>1. WriteType
  <2>1. latch \in 0..15
    BY DEF Init
  <2> QED BY <2>1 DEF Init, WriteType
<1>2. Took(0)
  <2>1. nblocks \in Nat
    BY BlockFacts DEF Init
  <2> QED BY <2>1, EmptySeq DEF Init, Took
<1> QED BY <1>1, <1>2 DEF Init, WriteInv, Together

\* What the lines carry in a cycle.
LEMMA Lines ==
  ASSUME latch' \in 0..15, own' \in BOOLEAN, Cycle
  PROVE  \E lines \in 0..15 : /\ ChipCycle(lines)
                              /\ lines = IF own' THEN latch' ELSE 15
BY DEF Cycle

\* Before the first block, and between blocks.
LEMMA LeadStep ==
  ASSUME WriteInv, Lead
  PROVE  WriteInv'
<1>1. /\ pc = "lead" /\ n < nblocks /\ Took(n) /\ ReadyIn(1)
      /\ pc' = "start" /\ n' = n /\ blk' = blk
      /\ n \in Nat /\ blk \in BOOLEAN /\ latch \in 0..15 /\ own \in BOOLEAN
  BY DEF Lead, Then, WriteInv, WriteType, Together
<1>2. latch' = 15 /\ own' = TRUE
  BY DEF Lead, WriteInv, Together
<1>3. PICK lines \in 0..15 : ChipCycle(lines) /\ lines = 15
  BY <1>2, Lines DEF Lead
<1>4. got' = got /\ cst' = "ready"
  <2>1. ReadyIn(0 + 1) /\ lines # 0 /\ (cst = "after" => busy \in 0..MaxBusy)
    BY <1>1, <1>3 DEF WriteInv, WriteType
  <2>2. PICK m \in {0} : TRUE
    OBVIOUS
  <2>3. /\ got' = got
        /\ \/ cst' = "ready"
           \/ /\ cst = "after" /\ cst' = "after" /\ busy' = busy /\ cnt' = cnt + 1
              /\ cnt' \in 0..7 + busy /\ 8 + busy - cnt' <= 0
    BY <1>3, <2>1, ChipWaits
  <2>4. ~(cst' = "after" /\ cst = "after" /\ cnt' \in 0..7 + busy /\ 8 + busy - cnt' <= 0)
    BY <2>1, SdioWriteAssumption
  <2> QED BY <2>3, <2>4
<1>5. Took(n)' /\ n' < nblocks'
  BY <1>1, <1>4 DEF Took, nblocks
<1> QED BY <1>1, <1>2, <1>4, <1>5 DEF WriteInv, WriteType, Together

\* The start of a block.
LEMMA StartStep ==
  ASSUME WriteInv, Start
  PROVE  WriteInv'
<1>1. /\ pc = "start" /\ n < nblocks /\ Took(n) /\ cst = "ready" /\ own
      /\ pc' = "data" /\ k' = BlkNibbles /\ n' = n /\ blk' = blk /\ own' = own /\ latch' = 0
      /\ n \in Nat /\ blk \in BOOLEAN
  BY DEF Start, Then, WriteInv, WriteType, Together
<1>2. PICK lines \in 0..15 : ChipCycle(lines) /\ lines = 0
  BY <1>1, Lines DEF Start, WriteInv, WriteType
<1>3. cst' = "data" /\ cur' = <<>> /\ got' = got
  BY <1>1, <1>2 DEF ChipCycle
<1>4. Took(n)' /\ n' < nblocks' /\ BlkNibbles' = BlkNibbles /\ BlkNibbles \in Nat \ {0}
  BY <1>1, <1>3, BlockFacts DEF Took, nblocks, BlkNibbles
<1>5. Takes(BlkNibbles - k)'
  <2>1. cur' \in Seq(0..15) /\ Len(cur') = 0
    BY <1>3, EmptySeq
  <2> QED BY <1>1, <1>3, <1>4, <2>1 DEF Takes
<1> QED BY <1>1, <1>3, <1>4, <1>5 DEF WriteInv, WriteType, Together

\* A nibble of it.
LEMMA DataStep ==
  ASSUME WriteInv, SendData
  PROVE  WriteInv'
<1>1. /\ pc = "data" /\ n < nblocks /\ Took(n) /\ own
      /\ k \in 1..BlkNibbles /\ Takes(BlkNibbles - k)
      /\ n' = n /\ blk' = blk /\ own' = own
      /\ latch' = Blocks[n + 1][BlkNibbles - k + 1]
      /\ n \in Nat /\ blk \in BOOLEAN
  BY DEF SendData, WriteInv, WriteType, Together
<1>2. PICK b \in Nat \ {0} : b = BlkNibbles
  BY <1>1, BlockFacts
<1>3. PICK m \in 0..b-1 : m = b - k /\ k = b - m
  BY <1>1, <1>2
<1>4. latch' = Blocks[n + 1][m + 1] /\ latch' \in 0..15
  <2>1. n + 1 \in 1..nblocks /\ m + 1 \in 1..BlkNibbles
    BY <1>1, <1>2, <1>3, BlockFacts
  <2>2. BlkNibbles - k + 1 = m + 1
    BY <1>2, <1>3
  <2> QED BY <1>1, <2>1, <2>2, BlockFacts
<1>5. PICK lines \in 0..15 : ChipCycle(lines) /\ lines = Blocks[n + 1][m + 1]
  BY <1>1, <1>4, Lines DEF SendData
<1>6. Takes(m + 1)' /\ got' = got /\ cst' = "data"
  <2>1. m + 1 < BlkNibbles + CrcNibbles /\ Takes(m) /\ m \in Nat
    BY <1>1, <1>2, <1>3 DEF CrcNibbles
  <2> QED BY <1>1, <1>5, <2>1, ChipTakes
<1>7. Took(n)' /\ n' < nblocks' /\ BlkNibbles' = b
  BY <1>1, <1>2, <1>6 DEF Took, nblocks, BlkNibbles
<1>8. CASE k > 1
  <2>1. pc' = "data" /\ k' = k - 1
    BY <1>8 DEF SendData, Then
  <2>2. k' \in 1..b /\ b - k' = m + 1
    BY <1>3, <1>8, <2>1
  <2>3. Takes(BlkNibbles - k)'
    BY <1>6, <1>7, <2>2 DEF Takes
  <2> QED BY <1>1, <1>4, <1>6, <1>7, <2>1, <2>2, <2>3 DEF WriteInv, WriteType, Together
<1>9. CASE ~(k > 1)
  <2>1. pc' = "crc" /\ k' = CrcNibbles
    BY <1>9 DEF SendData, Then
  <2>2. m + 1 = b /\ b + CrcNibbles - CrcNibbles = b
    BY <1>3, <1>9 DEF CrcNibbles
  <2>3. k' \in 1..CrcNibbles /\ Takes(BlkNibbles + CrcNibbles - k)'
    BY <1>6, <1>7, <2>1, <2>2 DEF Takes, CrcNibbles
  <2> QED BY <1>1, <1>4, <1>6, <1>7, <2>1, <2>3 DEF WriteInv, WriteType, Together
<1> QED BY <1>8, <1>9

\* Its CRC.
LEMMA CrcStep ==
  ASSUME WriteInv, SendCrc
  PROVE  WriteInv'
<1>1. /\ pc = "crc" /\ n < nblocks /\ Took(n) /\ own
      /\ k \in 1..CrcNibbles /\ Takes(BlkNibbles + CrcNibbles - k)
      /\ n' = n /\ blk' = blk /\ own' = own /\ latch' = 9
      /\ n \in Nat /\ blk \in BOOLEAN
  BY DEF SendCrc, WriteInv, WriteType, Together, CrcNibble
<1>2. PICK b \in Nat \ {0} : b = BlkNibbles
  BY <1>1, BlockFacts
<1>3. PICK m \in b .. b + 15 : m = b + 16 - k /\ k = b + 16 - m
  BY <1>1, <1>2 DEF CrcNibbles
<1>4. PICK lines \in 0..15 : ChipCycle(lines)
  BY <1>1, Lines DEF SendCrc
<1>5. CASE k > 1
  <2>1. pc' = "crc" /\ k' = k - 1
    BY <1>5 DEF SendCrc, Then
  <2>2. m + 1 < BlkNibbles + CrcNibbles /\ Takes(m) /\ m \in Nat /\ ~(m < BlkNibbles)
    BY <1>1, <1>2, <1>3, <1>5 DEF CrcNibbles
  <2>3. Takes(m + 1)' /\ got' = got /\ cst' = "data"
    BY <1>1, <1>4, <2>2, ChipTakes
  <2>4. Took(n)' /\ n' < nblocks' /\ BlkNibbles' = b
    BY <1>1, <1>2, <2>3 DEF Took, nblocks, BlkNibbles
  <2>5. k' \in 1..16 /\ b + 16 - k' = m + 1
    BY <1>1, <1>3, <1>5, <2>1 DEF CrcNibbles
  <2>6. k' \in 1..CrcNibbles /\ Takes(BlkNibbles + CrcNibbles - k)'
    BY <2>3, <2>4, <2>5 DEF Takes, CrcNibbles
  <2> QED BY <1>1, <2>1, <2>3, <2>4, <2>6 DEF WriteInv, WriteType, Together
<1>6. CASE ~(k > 1)
  <2>1. pc' = "end"
    BY <1>6 DEF SendCrc, Then
  <2>2. k = 1
    BY <1>1, <1>6 DEF CrcNibbles
  <2>3. Takes(BlkNibbles + CrcNibbles - 1)
    BY <1>1, <2>2
  <2>4. Took(n + 1)' /\ cst' = "after" /\ cnt' = 0 /\ busy' \in 0..MaxBusy
    BY <1>1, <1>4, <2>3, ChipCompletes
  <2>5. cnt' \in 0..7 + busy' /\ n' < nblocks'
    <3>1. PICK y \in Nat : y = busy'
      BY <2>4, SdioWriteAssumption
    <3>2. 0 \in 0..7 + y
      OBVIOUS
    <3> QED BY <1>1, <2>4, <3>1, <3>2 DEF nblocks
  <2>6. WriteType'
    <3>1. n' \in Nat /\ blk' \in BOOLEAN /\ latch' \in 0..15 /\ own' \in BOOLEAN
      BY <1>1 DEF WriteInv, WriteType
    <3> QED BY <2>1, <2>4, <2>5, <3>1 DEF WriteType
  <2>7. Together'
    BY <1>1, <2>1, <2>4, <2>5 DEF Together
  <2> QED BY <2>6, <2>7 DEF WriteInv
<1> QED BY <1>5, <1>6

\* The end of it.
LEMMA EndStep ==
  ASSUME ReadyInTime, WriteInv, End
  PROVE  WriteInv'
<1>1. /\ pc = "end" /\ n < nblocks /\ Took(n + 1) /\ own /\ cst = "after" /\ cnt = 0
      /\ n' = n + 1 /\ blk' = blk /\ own' = own /\ latch' = 15
      /\ n \in Nat /\ blk \in BOOLEAN /\ own \in BOOLEAN /\ busy \in 0..MaxBusy
  BY DEF End, WriteInv, WriteType, Together
<1>2. PICK lines \in 0..15 : ChipCycle(lines)
  BY <1>1, Lines DEF End
<1>3. PICK y \in 0..MaxBusy : y = busy
  BY <1>1
<1>4. y \in Nat /\ y <= RSP_WAIT - 4 /\ RSP_WAIT \in Nat \ {0}
  BY <1>3, SdioWriteAssumption DEF ReadyInTime
<1>5. got' = got /\ cst' = "after" /\ busy' = y /\ cnt' = 1
  <2>1. 0 < 7 + y
    BY <1>4
  <2> QED BY <1>1, <1>2, <1>3, <2>1 DEF ChipCycle
<1>6. Took(n)'
  BY <1>1, <1>5 DEF Took, nblocks
<1>7. cnt' \in 0..7 + busy'
  <2>1. 1 \in 0..7 + y
    BY <1>4
  <2> QED BY <1>5, <2>1
<1>8. WriteType'
  <2>1. pc' \in {"ack", "tail"}
    BY DEF End, Then
  <2> QED BY <1>1, <1>3, <1>5, <1>7, <2>1 DEF WriteType
<1>9. CASE blk
  <2>1. pc' = "ack" /\ k' = RSP_WAIT
    BY <1>9 DEF End, Then
  <2>2. ReadyIn(k + 3)'
    <3>1. 8 + y - 1 <= RSP_WAIT + 3
      BY <1>4
    <3> QED BY <1>5, <1>7, <2>1, <3>1 DEF ReadyIn
  <2>3. k' \in 1..RSP_WAIT
    BY <1>4, <2>1
  <2> QED BY <1>1, <1>6, <1>8, <2>1, <2>2, <2>3 DEF WriteInv, Together
<1>10. CASE ~blk
  <2>1. pc' = "tail"
    BY <1>10 DEF End, Then
  <2> QED BY <1>5, <1>6, <1>8, <2>1 DEF WriteInv, Together
<1> QED BY <1>1, <1>9, <1>10

\* The host's own level is high while it listens, so that what pulls D0 down
\* is a token, three cycles after the block at the earliest, or busy.
LEMMA Heard ==
  ASSUME own, latch = 15, 0 \in D0
  PROVE  cst = "after" /\ (cnt \in 3..7 \/ cnt > 7)
BY DEF D0, ChipD0

\* A cycle in which the chip may go on being busy.
LEMMA Listening ==
  ASSUME WriteInv, own, latch = 15, pc \in {"ack", "bits", "gap"}, NEW m \in Nat,
         ReadyIn(m + 1), UNCHANGED <<n, blk, latch, own>>, Cycle,
         pc' \in {"lead", "ack", "bits", "gap", "tail"}
  PROVE  /\ Took(n)' /\ WriteType' /\ cst' # "data"
         /\ cst' = "ready" \/ (cst' = "after" /\ cnt' \in 0..7 + busy'
                               /\ 8 + busy' - cnt' <= m)
         /\ cst = "after" /\ cst' = "after" => cnt' = cnt + 1 /\ busy' = busy
<1>1. /\ Took(n) /\ n \in Nat /\ blk \in BOOLEAN
      /\ cst = "after" => busy \in 0..MaxBusy /\ cnt \in 0..7 + busy
  BY DEF WriteInv, WriteType, Together
<1>2. PICK lines \in 0..15 : ChipCycle(lines) /\ lines = 15
  BY Lines
<1>3. /\ got' = got
      /\ \/ cst' = "ready"
         \/ /\ cst = "after" /\ cst' = "after" /\ busy' = busy /\ cnt' = cnt + 1
            /\ cnt' \in 0..7 + busy /\ 8 + busy - cnt' <= m
  BY <1>1, <1>2, ChipWaits
<1>4. Took(n)'
  BY <1>1, <1>3 DEF Took, nblocks
<1>5. WriteType'
  BY <1>1, <1>3 DEF WriteInv, WriteType
<1> QED BY <1>3, <1>4, <1>5

LEMMA HearStep ==
  ASSUME ReadyInTime, WriteInv, Hear
  PROVE  WriteInv'
<1>1. /\ pc = "ack" /\ own /\ latch = 15 /\ k \in 1..RSP_WAIT /\ ReadyIn(k + 3)
      /\ UNCHANGED <<n, blk, latch, own>> /\ Cycle
  BY DEF Hear, WriteInv, Together
<1>2. PICK v \in D0 : CASE v = 0           -> Then("bits", BLOCK_ACK_BITS - 1)
                        [] v # 0 /\ k > 1  -> Then("ack", k - 1)
                        [] v # 0 /\ k <= 1 -> Then("gap", 2)
  BY DEF Hear
<1>3. PICK x \in Nat \ {0} : x = k /\ x <= RSP_WAIT
  BY <1>1, SdioWriteAssumption
<1>4. PICK m \in Nat : m = x + 2 /\ ReadyIn(m + 1)
  <2>1. x + 2 \in Nat /\ (x + 2) + 1 = x + 3
    OBVIOUS
  <2> QED BY <1>1, <1>3, <2>1
<1>5. v = 0 \/ (v # 0 /\ k > 1) \/ (v # 0 /\ k <= 1)
  BY <1>3
<1>6. \/ v = 0 /\ pc' = "bits" /\ k' = BLOCK_ACK_BITS - 1
      \/ k > 1 /\ pc' = "ack" /\ k' = k - 1
      \/ k <= 1 /\ pc' = "gap" /\ k' = 2
  BY <1>2, <1>5 DEF Then
<1>7. /\ Took(n)' /\ WriteType' /\ cst' # "data"
      /\ cst' = "ready" \/ (cst' = "after" /\ cnt' \in 0..7 + busy'
                            /\ 8 + busy' - cnt' <= m)
      /\ cst = "after" /\ cst' = "after" => cnt' = cnt + 1 /\ busy' = busy
  <2>1. pc' \in {"lead", "ack", "bits", "gap", "tail"} /\ pc \in {"ack", "bits", "gap"}
    BY <1>1, <1>6
  <2> QED BY <1>1, <1>4, <2>1, Listening
<1>8. own' /\ latch' = 15
  BY <1>1
<1>9. CASE v = 0 /\ pc' = "bits" /\ k' = BLOCK_ACK_BITS - 1
  <2>1. cst = "after" /\ (cnt \in 3..7 \/ cnt > 7)
    BY <1>1, <1>9, Heard
  <2>2. MaxBusy \in Nat /\ BLOCK_ACK_BITS \in Nat \ {0} /\ MaxBusy <= BLOCK_ACK_BITS - 2
    BY SdioWriteAssumption DEF ReadyInTime
  <2>3. k' \in Nat \ {0}
    BY <1>9, <2>2
  <2>4. ReadyIn(k + 3)'
    <3>1. CASE cst' = "ready"
      BY <3>1 DEF ReadyIn
    <3>2. CASE cst' = "after"
      <4>1. cnt' = cnt + 1 /\ busy' = busy /\ busy \in 0..MaxBusy /\ cnt \in 0..7 + busy
            /\ cnt' \in 0..7 + busy'
        BY <1>7, <2>1, <3>2 DEF WriteInv, WriteType
      <4>2. PICK y \in 0..MaxBusy : y = busy
        BY <4>1
      <4>3. PICK c \in Nat : c = cnt /\ c >= 3
        BY <2>1, <2>2, <4>1, <4>2
      <4>4. 8 + y - (c + 1) <= (BLOCK_ACK_BITS - 1) + 3
        BY <2>2, <4>2, <4>3
      <4> QED BY <1>9, <3>2, <4>1, <4>2, <4>3, <4>4 DEF ReadyIn
    <3> QED BY <1>7, <3>1, <3>2
  <2> QED BY <1>7, <1>8, <1>9, <2>3, <2>4 DEF WriteInv, Together
<1>10. CASE k > 1 /\ pc' = "ack" /\ k' = k - 1
  <2>1. k' \in 1..RSP_WAIT /\ k' + 3 = m
    <3>1. RSP_WAIT \in Nat
      BY SdioWriteAssumption
    <3> QED BY <1>3, <1>4, <1>10, <3>1
  <2>2. ReadyIn(k + 3)'
    BY <1>7, <2>1 DEF ReadyIn
  <2> QED BY <1>7, <1>8, <1>10, <2>1, <2>2 DEF WriteInv, Together
<1>11. CASE k <= 1 /\ pc' = "gap" /\ k' = 2
  <2>1. k' \in 1..2 /\ k' + 1 = m
    BY <1>3, <1>4, <1>11
  <2>2. ReadyIn(k + 1)'
    BY <1>7, <2>1 DEF ReadyIn
  <2> QED BY <1>7, <1>8, <1>11, <2>1, <2>2 DEF WriteInv, Together
<1> QED BY <1>6, <1>9, <1>10, <1>11

LEMMA BitsStep ==
  ASSUME WriteInv, HearBits
  PROVE  WriteInv'
<1>1. /\ pc = "bits" /\ own /\ latch = 15 /\ k \in Nat \ {0} /\ ReadyIn(k + 3)
      /\ UNCHANGED <<n, blk, latch, own>> /\ Cycle
      /\ IF k > 1 THEN pc' = "bits" /\ k' = k - 1 ELSE pc' = "gap" /\ k' = 2
  BY DEF HearBits, Then, WriteInv, Together
<1>2. PICK m \in Nat : m = k + 2 /\ ReadyIn(m + 1)
  <2>1. k + 2 \in Nat /\ (k + 2) + 1 = k + 3
    BY <1>1
  <2> QED BY <1>1, <2>1
<1>3. /\ Took(n)' /\ WriteType' /\ cst' # "data"
      /\ cst' = "ready" \/ (cst' = "after" /\ cnt' \in 0..7 + busy'
                            /\ 8 + busy' - cnt' <= m)
  <2>1. pc' \in {"lead", "ack", "bits", "gap", "tail"} /\ pc \in {"ack", "bits", "gap"}
    BY <1>1
  <2> QED BY <1>1, <1>2, <2>1, Listening
<1>4. own' /\ latch' = 15
  BY <1>1
<1>5. CASE k > 1
  <2>1. pc' = "bits" /\ k' \in Nat \ {0} /\ k' + 3 = m
    BY <1>1, <1>2, <1>5
  <2>2. ReadyIn(k + 3)'
    BY <1>3, <2>1 DEF ReadyIn
  <2> QED BY <1>3, <1>4, <2>1, <2>2 DEF WriteInv, Together
<1>6. CASE ~(k > 1)
  <2>1. pc' = "gap" /\ k' \in 1..2 /\ k' + 1 = m
    BY <1>1, <1>2, <1>6
  <2>2. ReadyIn(k + 1)'
    BY <1>3, <2>1 DEF ReadyIn
  <2> QED BY <1>3, <1>4, <2>1, <2>2 DEF WriteInv, Together
<1> QED BY <1>5, <1>6

LEMMA GapStep ==
  ASSUME WriteInv, Gap
  PROVE  WriteInv'
<1>1. /\ pc = "gap" /\ own /\ latch = 15 /\ k \in 1..2 /\ ReadyIn(k + 1)
      /\ UNCHANGED <<n, blk, latch, own>> /\ Cycle
      /\ n \in Nat /\ blk \in BOOLEAN
  BY DEF Gap, WriteInv, WriteType, Together
<1>2. \/ k > 1 /\ pc' = "gap" /\ k' = k - 1
      \/ k = 1 /\ n < nblocks /\ pc' = "lead"
      \/ k = 1 /\ n >= nblocks /\ pc' = "tail"
  <2>1. k > 1 \/ (k = 1 /\ n < nblocks) \/ (k = 1 /\ n >= nblocks)
    BY <1>1, BlockFacts
  <2> QED BY <2>1 DEF Gap, Then
<1>3. PICK m \in 1..2 : m = k
  BY <1>1
<1>4. /\ Took(n)' /\ WriteType' /\ cst' # "data"
      /\ cst' = "ready" \/ (cst' = "after" /\ cnt' \in 0..7 + busy'
                            /\ 8 + busy' - cnt' <= m)
  <2>1. pc' \in {"lead", "ack", "bits", "gap", "tail"} /\ pc \in {"ack", "bits", "gap"}
    BY <1>1, <1>2
  <2>2. m \in Nat /\ ReadyIn(m + 1)
    BY <1>1, <1>3
  <2> QED BY <1>1, <2>1, <2>2, Listening
<1>5. own' /\ latch' = 15
  BY <1>1
<1>6. CASE k > 1 /\ pc' = "gap" /\ k' = k - 1
  <2>1. k' \in 1..2 /\ k' + 1 = m
    BY <1>3, <1>6
  <2>2. ReadyIn(k + 1)'
    BY <1>4, <2>1 DEF ReadyIn
  <2> QED BY <1>4, <1>5, <1>6, <2>1, <2>2 DEF WriteInv, Together
<1>7. CASE k = 1 /\ n < nblocks /\ pc' = "lead"
  <2>1. ReadyIn(1)' /\ n' < nblocks'
    BY <1>1, <1>3, <1>4, <1>7 DEF ReadyIn, nblocks
  <2> QED BY <1>4, <1>5, <1>7, <2>1 DEF WriteInv, Together
<1>8. CASE k = 1 /\ n >= nblocks /\ pc' = "tail"
  BY <1>4, <1>8 DEF WriteInv, Together
<1> QED BY <1>2, <1>6, <1>7, <1>8

LEMMA OtherStep ==
  ASSUME WriteInv, Response \/ NoResponse \/ Pre \/ Finish
  PROVE  WriteInv'
<1>1. n \in Nat /\ blk \in BOOLEAN
  BY DEF WriteInv, WriteType
<1>2. CASE Response
  <2>1. nblocks \in Nat \ {0} /\ nblocks' = nblocks
    BY <1>1, <1>2, SdioWriteAssumption, LenProperties DEF Response, nblocks
  <2>2. pc = "rsp" /\ pc' \in {"lead", "pre"} /\ UNCHANGED <<n, blk, latch, own, chip>>
    BY <1>2 DEF Response, Then
  <2>3. n' = 0 /\ Took(n)' /\ Took(0)' /\ cst' = "ready" /\ ~own'
    BY <2>1, <2>2 DEF WriteInv, Together, Took, chip
  <2>4. WriteType'
    BY <2>2 DEF WriteInv, WriteType, chip
  <2> QED BY <2>1, <2>2, <2>3, <2>4 DEF WriteInv, Together, ReadyIn
<1>3. CASE NoResponse
  <2>1. pc = "rsp" /\ pc' = "tail" /\ UNCHANGED <<n, blk, latch, own, chip>>
    BY <1>3 DEF NoResponse, Then
  <2>2. Took(n)' /\ cst' = "ready"
    BY <2>1 DEF WriteInv, Together, Took, chip, nblocks
  <2>3. WriteType'
    BY <2>1 DEF WriteInv, WriteType, chip
  <2> QED BY <2>1, <2>2, <2>3 DEF WriteInv, Together
<1>4. CASE Pre
  <2>1. /\ pc = "pre" /\ pc' = "lead" /\ UNCHANGED <<n, blk, latch, own>>
        /\ n = 0 /\ Took(0) /\ cst = "ready" /\ ~own /\ Cycle
    BY <1>4 DEF Pre, Then, WriteInv, Together
  <2>2. PICK lines \in 0..15 : ChipCycle(lines) /\ lines = 15
    BY <2>1, Lines DEF WriteInv, WriteType
  <2>3. got' = got /\ cst' = "ready"
    BY <2>1, <2>2, ChipIdles
  <2>4. nblocks \in Nat \ {0} /\ nblocks' = nblocks
    BY <1>1, <2>1, SdioWriteAssumption, LenProperties DEF nblocks
  <2>5. n' = 0 /\ Took(n)'
    BY <2>1, <2>3, <2>4 DEF Took
  <2>6. WriteType'
    BY <2>1, <2>3 DEF WriteInv, WriteType
  <2> QED BY <2>1, <2>3, <2>4, <2>5, <2>6 DEF WriteInv, Together, ReadyIn
<1>5. CASE Finish
  <2>1. /\ pc = "tail" /\ pc' \in {"tail", "done"} /\ UNCHANGED <<n, blk, latch>>
        /\ own' = FALSE /\ Cycle /\ Took(n) /\ cst \in {"ready", "after"}
        /\ cst = "after" => busy \in 0..MaxBusy /\ cnt \in 0..7 + busy
    BY <1>5 DEF Finish, Then, WriteInv, WriteType, Together
  <2>2. PICK lines \in 0..15 : ChipCycle(lines) /\ lines = 15
    BY <2>1, Lines DEF WriteInv, WriteType
  <2>3. /\ got' = got /\ cst' \in {"ready", "after"}
        /\ cst' = "after" => busy' \in 0..MaxBusy /\ cnt' \in 0..7 + busy'
    BY <2>1, <2>2, ChipIdles
  <2>4. Took(n)'
    BY <2>1, <2>3 DEF Took, nblocks
  <2>5. WriteType'
    BY <2>1, <2>3 DEF WriteInv, WriteType
  <2> QED BY <2>1, <2>3, <2>4, <2>5 DEF WriteInv, Together
<1> QED BY <1>2, <1>3, <1>4, <1>5

-----------------------------------------------------------------------------
(* Theorem.                                                                *)

LEMMA WriteAlways == ASSUME ReadyInTime PROVE Spec => []WriteInv
<1>1. WriteInv /\ [Next]_vars => WriteInv'
  <2> SUFFICES ASSUME WriteInv, [Next]_vars PROVE WriteInv'
    OBVIOUS
  <2>1. CASE UNCHANGED vars
    BY <2>1 DEF vars, WriteInv, WriteType, Together, Took, Takes, ReadyIn, nblocks, BlkNibbles
  <2> QED BY <2>1, ReadyInTime, LeadStep, StartStep, DataStep, CrcStep, EndStep, HearStep,
             BitsStep, GapStep, OtherStep DEF Next
<1> QED BY <1>1, WriteStart, PTL DEF Spec

\* sdio_write_blocks, sdio_rsp_block_write, sdio_block_out: for blocks of any
\* number and length, a chip that is never busy for longer than the program
\* happens to wait takes the blocks whole, in order and in step with the host.
THEOREM BlocksInStep == ASSUME ReadyInTime PROVE Spec => []InStep
<1>1. WriteInv => InStep
  <2> SUFFICES ASSUME WriteInv PROVE InStep
    OBVIOUS
  <2>1. PICK m \in Nat : Took(m) /\ (pc \in {"ack", "bits", "gap", "tail", "done"} => m = n)
    BY DEF WriteInv, WriteType, Together
  <2>2. SubSeq(Blocks, 1, m) = got
    <3>1. Blocks \in Seq(Seq(0..15)) /\ m <= Len(Blocks)
      BY <2>1, BlockFacts DEF WriteInv, WriteType, Took
    <3> QED BY <2>1, <3>1, Begins DEF Took
  <2> QED BY <2>1, <2>2 DEF InStep, Took
<1> QED BY <1>1, WriteAlways, ReadyInTime, PTL
=============================================================================
