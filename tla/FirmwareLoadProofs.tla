------------------------- MODULE FirmwareLoadProofs -------------------------
(***************************************************************************)
(* Proofs about FirmwareLoad, for every size of the images and the window. *)
(*                                                                         *)
(* A burst must not run over the end of a window.  None does when txbuffer *)
(* goes into a window a whole number of times, and the theorems about what *)
(* is loaded assume that.                                                  *)
(***************************************************************************)
EXTENDS FirmwareLoad, TLAPS

BurstsFit == \E m \in Nat : WinUnits = m * Burst

-----------------------------------------------------------------------------
(* Division by a positive number.                                          *)

LEMMA DivMod ==
  ASSUME NEW L \in Nat \ {0}, NEW q \in Nat, NEW r \in 0..L-1
  PROVE  (L * q + r) \div L = q /\ (L * q + r) % L = r
OBVIOUS

LEMMA Split ==
  ASSUME NEW L \in Nat \ {0}, NEW n \in Nat
  PROVE  n \div L \in Nat /\ n % L \in 0..L-1 /\ n = L * (n \div L) + (n % L)
OBVIOUS

\* Three bytes hold a window number, whatever the values of a byte.
LEMMA ThreeBytes ==
  ASSUME NEW b \in Nat \ {0}, NEW w \in Nat
  PROVE  (w % 2) + 2 * ((w \div 2) % b) + 2 * b * (w \div (2 * b)) = w
<1>1. PICK v \in Nat, r \in 0..1 : v = w \div 2 /\ r = w % 2 /\ w = 2 * v + r
  OBVIOUS
<1>2. PICK q \in Nat, s \in 0..b-1 : q = v \div b /\ s = v % b /\ v = b * q + s
  BY Split
<1>3. 2 * b \in Nat \ {0} /\ 2 * s + r \in 0 .. (2 * b) - 1
  BY <1>1, <1>2
<1>4. w = (2 * b) * q + (2 * s + r)
  <2>1. PICK m \in Nat : m = b * q
    OBVIOUS
  <2>2. w = 2 * m + (2 * s + r)
    BY <1>1, <1>2, <2>1
  <2>3. 2 * m = (2 * b) * q
    BY <2>1
  <2> QED BY <2>2, <2>3
<1>5. w \div (2 * b) = q
  <2> DEFINE B == 2 * b
             t == 2 * s + r
  <2>1. B \in Nat \ {0} /\ t \in 0 .. B - 1 /\ w = B * q + t
    BY <1>3, <1>4
  <2> HIDE DEF B, t
  <2>2. w \div B = q
    BY <1>2, <2>1, DivMod
  <2> QED BY <2>2 DEF B
<1> QED BY <1>1, <1>2, <1>4, <1>5

\* The window of a unit, and its offset in it.
LEMMA WindowOf ==
  ASSUME NEW k \in Nat
  PROVE  /\ k \div WinUnits \in Nat /\ k % WinUnits \in 0..WinUnits-1
         /\ k = WinUnits * (k \div WinUnits) + (k % WinUnits)
BY Split, FirmwareLoadAssumption

\* The units below the NVRAM's window are in windows below it.
LEMMA LowWindow ==
  ASSUME NEW k \in 0..Blocks
  PROVE  k \div WinUnits \in 0..NvWin-1
<1>1. k \in Nat /\ k < NvWin * WinUnits /\ NvWin \in Nat /\ WinUnits \in Nat \ {0}
  BY FirmwareLoadAssumption
<1>2. PICK q \in Nat, r \in 0..WinUnits-1 : q = k \div WinUnits /\ k = WinUnits * q + r
  BY <1>1, WindowOf
<1>3. ASSUME q >= NvWin PROVE FALSE
  <2>1. PICK d \in Nat : q = NvWin + d
    <3>1. q - NvWin \in Nat /\ q = NvWin + (q - NvWin)
      BY <1>1, <1>2, <1>3
    <3> QED BY <3>1
  <2>2. WinUnits * q = NvWin * WinUnits + WinUnits * d /\ WinUnits * d >= 0
    BY <1>1, <2>1
  <2>3. PICK x \in Nat, y \in Nat : x = NvWin * WinUnits /\ y = WinUnits * d
    BY <1>1, <2>1
  <2> QED BY <1>1, <1>2, <2>2, <2>3
<1> QED BY <1>1, <1>2, <1>3

\* A burst that starts on a multiple of its size ends inside the window.
LEMMA BurstFits ==
  ASSUME BurstsFit, NEW q \in Nat
  PROVE  ((q * Burst) % WinUnits) + Burst <= WinUnits
<1>1. Burst \in Nat \ {0} /\ WinUnits \in Nat \ {0}
  BY FirmwareLoadAssumption
<1>2. PICK m \in Nat \ {0} : WinUnits = m * Burst
  BY <1>1 DEF BurstsFit
<1>3. PICK a \in Nat, b \in 0..m-1 : q = m * a + b
  BY Split
<1>4. b * Burst + Burst <= WinUnits
  <2>1. PICK d \in Nat : m = b + 1 + d
    <3>1. m - (b + 1) \in Nat /\ m = b + 1 + (m - (b + 1))
      BY <1>2, <1>3
    <3> QED BY <3>1
  <2>2. m * Burst = b * Burst + Burst + d * Burst /\ d * Burst >= 0 /\ b * Burst \in Nat
    BY <1>1, <1>3, <2>1
  <2> QED BY <1>1, <1>2, <2>2
<1>5. q * Burst = WinUnits * a + b * Burst
  <2>1. q * Burst = (m * a) * Burst + b * Burst
    BY <1>1, <1>2, <1>3
  <2>2. (m * a) * Burst = (m * Burst) * a
    BY <1>1, <1>2, <1>3
  <2> QED BY <1>2, <2>1, <2>2
<1>6. PICK r \in 0..WinUnits-1 : r = b * Burst
  BY <1>1, <1>3, <1>4
<1>7. (q * Burst) % WinUnits = r
  BY <1>1, <1>3, <1>5, <1>6, DivMod
<1> QED BY <1>4, <1>6, <1>7

\* Where a command that stays inside its window stores what it writes.
LEMMA Stores ==
  ASSUME NEW image, NEW k \in Nat, NEW w \in 0..NvWin, NEW off \in 0..WinUnits-1,
         NEW len \in Nat, off + len <= WinUnits, chipwin' = w,
         Store(image, k, off, len)
  PROVE  \A u \in Units :
           ram'[u] = IF u \in WinUnits * w + off .. WinUnits * w + off + len - 1
                     THEN <<image, k + (u - (WinUnits * w + off))>> ELSE ram[u]
<1> SUFFICES ASSUME NEW u \in Units
             PROVE  ram'[u] = IF u \in WinUnits * w + off .. WinUnits * w + off + len - 1
                              THEN <<image, k + (u - (WinUnits * w + off))>> ELSE ram[u]
  OBVIOUS
<1>1. WinUnits \in Nat \ {0} /\ NvWin \in Nat /\ u \in Nat
  BY FirmwareLoadAssumption DEF Units
<1>2. PICK q \in Nat, r \in 0..WinUnits-1 :
         q = u \div WinUnits /\ r = u % WinUnits /\ u = WinUnits * q + r
  BY <1>1, WindowOf
<1>3. PICK i \in Nat : i = (r + WinUnits - off) % WinUnits
  BY <1>1
<1>4. i = IF r >= off THEN r - off ELSE r + WinUnits - off
  <2>1. r >= off => r + WinUnits - off = WinUnits * 1 + (r - off)
    BY <1>1
  <2>2. r < off => r + WinUnits - off = WinUnits * 0 + (r + WinUnits - off)
    BY <1>1
  <2>3. CASE r >= off
    BY <1>1, <1>3, <2>1, <2>3
  <2>4. CASE r < off
    BY <1>1, <1>3, <2>2, <2>4
  <2> QED BY <2>3, <2>4
<1>5. ram'[u] = IF q = w /\ i < len THEN <<image, k + i>> ELSE ram[u]
  BY <1>2, <1>3 DEF Store
<1>6. PICK x \in Nat, y \in Nat : x = WinUnits * w /\ y = WinUnits * q
  BY <1>1
<1>7. q = w => x = y
  BY <1>6
<1>8. q < w => y + WinUnits <= x
  <2>1. SUFFICES ASSUME q < w PROVE y + WinUnits <= x
    OBVIOUS
  <2>2. PICK d \in Nat : w = q + 1 + d
    <3>1. w - (q + 1) \in Nat /\ w = q + 1 + (w - (q + 1))
      BY <1>1, <2>1
    <3> QED BY <3>1
  <2>3. WinUnits * w = WinUnits * q + WinUnits + WinUnits * d /\ WinUnits * d \in Nat
    BY <1>1, <2>2
  <2> QED BY <1>1, <1>6, <2>3
<1>9. q > w => x + WinUnits <= y
  <2>1. SUFFICES ASSUME q > w PROVE x + WinUnits <= y
    OBVIOUS
  <2>2. PICK d \in Nat : q = w + 1 + d
    <3>1. q - (w + 1) \in Nat /\ q = w + 1 + (q - (w + 1))
      BY <1>1, <2>1
    <3> QED BY <3>1
  <2>3. WinUnits * q = WinUnits * w + WinUnits + WinUnits * d /\ WinUnits * d \in Nat
    BY <1>1, <2>2
  <2> QED BY <1>1, <1>6, <2>3
<1>10. u = y + r
  BY <1>2, <1>6
<1>11. q = w /\ i < len => u \in x + off .. x + off + len - 1 /\ i = u - (x + off)
  BY <1>1, <1>4, <1>7, <1>10
<1>12. u \in x + off .. x + off + len - 1 => q = w /\ i < len
  BY <1>1, <1>4, <1>7, <1>8, <1>9, <1>10
<1> QED BY <1>5, <1>6, <1>11, <1>12

-----------------------------------------------------------------------------
(* The inductive invariant.                                                *)

\* What the counters say in each phase of the loading.
Counting ==
  /\ pc = "firmware" => /\ source = nbytes /\ nbytes <= Blocks
                        /\ fwlen = -1 /\ "command" \notin lost
  /\ pc # "firmware" => fwlen \in 0..Blocks + 1
  /\ pc \in {"nvram", "released"} => nbytes <= NvUnits
  /\ pc = "released" => nbytes = NvUnits

CountInv == TypeOK /\ Counting

LEMMA BurstLenFacts ==
  ASSUME CountInv, pc = "firmware"
  PROVE  /\ nbytes \in 0..Blocks /\ source = nbytes
         /\ BurstLen \in 0..Burst /\ nbytes + BurstLen <= Blocks
         /\ BurstLen = 0 => nbytes = Blocks
         /\ BurstLen = Burst \/ nbytes + BurstLen = Blocks
BY FirmwareLoadAssumption DEF CountInv, TypeOK, Counting, BurstLen, Smaller

LEMMA NvLenFacts ==
  ASSUME CountInv, pc = "nvram"
  PROVE  /\ nbytes \in 0..NvUnits
         /\ NvLen \in 0..NvUnits /\ nbytes + NvLen <= NvUnits
         /\ NvLen = 0 => nbytes = NvUnits
BY FirmwareLoadAssumption DEF CountInv, TypeOK, Counting, NvLen, Smaller

Contents == {Empty} \union {Fw(k) : k \in 0..Blocks} \union {Nv(k) : k \in 0..NvUnits-1}

\* Wherever the window is, only units of the images are stored.
LEMMA StoreType ==
  ASSUME ram \in [Units -> Contents], NEW image, NEW k \in Nat, NEW off \in Nat,
         NEW len \in Nat, \A i \in 0..len-1 : <<image, k + i>> \in Contents,
         off <= WinUnits, Store(image, k, off, len)
  PROVE  ram' \in [Units -> Contents]
<1>1. ASSUME NEW u \in Units
      PROVE  ((u % WinUnits) + WinUnits - off) % WinUnits \in Nat
  <2>1. WinUnits \in Nat \ {0} /\ u \in Nat
    BY FirmwareLoadAssumption DEF Units
  <2>2. PICK r \in 0..WinUnits-1 : r = u % WinUnits
    BY <2>1
  <2> QED BY <2>1, <2>2
<1> QED BY <1>1 DEF Store

LEMMA WindowNumber ==
  /\ \A k \in 0..Blocks : k \div WinUnits \in 0..NvWin
  /\ (NvWin * WinUnits) \div WinUnits = NvWin
<1>1. \A k \in 0..Blocks : k \div WinUnits \in 0..NvWin
  BY LowWindow, FirmwareLoadAssumption
<1>2. NvWin * WinUnits = WinUnits * NvWin + 0 /\ 0 \in 0..WinUnits-1
  BY FirmwareLoadAssumption
<1> QED BY <1>1, <1>2, DivMod, FirmwareLoadAssumption

LEMMA AccountType ==
  ASSUME lost \in SUBSET Kinds, NEW kinds \in SUBSET Kinds, Account(kinds)
  PROVE  lost' \in SUBSET Kinds
BY DEF Account, Kinds

LEMMA CountInit == Init => CountInv
BY FirmwareLoadAssumption DEF Init, firm_open_read, CountInv, TypeOK, Counting, Kinds

LEMMA BurstCount ==
  ASSUME CountInv, WriteBurst
  PROVE  CountInv'
<1> DEFINE n == BurstLen
<1>0. ram \in [Units -> Contents]
  BY DEF CountInv, TypeOK, Contents
<1>1. /\ nbytes \in 0..Blocks /\ source = nbytes /\ n \in 1..Burst /\ nbytes + n <= Blocks
      /\ fwlen = -1 /\ "command" \notin lost /\ Blocks \in Nat /\ Burst \in Nat
      /\ WinUnits \in Nat \ {0}
  BY BurstLenFacts, FirmwareLoadAssumption DEF WriteBurst, CountInv, Counting
<1>2. lastaddr' \in 0..NvWin /\ source' = nbytes + n
  BY <1>1, WindowNumber DEF WriteBurst, SetWindow, BW!sdio_bak_window, firm_read
<1> HIDE DEF n
<1>3. CASE /\ (StoreBurst /\ Account({})) \/ (UNCHANGED ram /\ Account({"block"}))
           /\ nbytes' = nbytes + n /\ UNCHANGED <<pc, fwlen>>
  <2>1. lost' \in SUBSET Kinds /\ "command" \notin lost'
    BY <1>1, <1>3 DEF Account, CountInv, TypeOK, Kinds
  <2>2. ram' \in [Units -> Contents]
    <3>1. CASE StoreBurst
      <4>1. \A i \in 0..n-1 : <<"firmware", nbytes + i>> \in Contents
        BY <1>1 DEF Contents, Fw
      <4>2. PICK off \in 0..WinUnits-1 : off = nbytes % WinUnits
        BY <1>1
      <4>3. Store("firmware", nbytes, off, n)
        BY <1>1, <3>1, <4>2 DEF StoreBurst, n
      <4>4. n \in Nat /\ nbytes \in Nat /\ off \in Nat /\ off <= WinUnits
        BY <1>1
      <4> QED BY <1>0, <4>1, <4>3, <4>4, StoreType
    <3>2. CASE UNCHANGED ram
      BY <1>0, <3>2
    <3> QED BY <1>3, <3>1, <3>2
  <2>3. pc' = "firmware" /\ fwlen' = -1
    BY <1>1, <1>3 DEF WriteBurst
  <2>4. nbytes' \in 0..Blocks /\ source' = nbytes'
    BY <1>1, <1>2, <1>3
  <2> QED BY <1>1, <1>2, <2>1, <2>2, <2>3, <2>4, FirmwareLoadAssumption
          DEF CountInv, TypeOK, Counting, Contents
<1>4. CASE /\ UNCHANGED ram /\ Account({"command"})
           /\ fwlen' = nbytes /\ pc' = "verify" /\ UNCHANGED nbytes
  <2>1. lost' \in SUBSET Kinds
    BY <1>4, AccountType DEF CountInv, TypeOK, Kinds
  <2>2. source' \in 0..Blocks + 1 /\ fwlen' \in 0..Blocks + 1
    BY <1>1, <1>2, <1>4
  <2> QED BY <1>1, <1>2, <1>4, <2>1, <2>2 DEF CountInv, TypeOK, Counting
<1> QED BY <1>3, <1>4 DEF WriteBurst, n

LEMMA RestCount ==
  ASSUME CountInv, WriteRest
  PROVE  CountInv'
<1>0. ram \in [Units -> Contents]
  BY DEF CountInv, TypeOK, Contents
<1>1. /\ nbytes = Blocks /\ source = Blocks /\ Blocks \in Nat /\ WinUnits \in Nat \ {0}
      /\ NvUnits \in Nat
  BY BurstLenFacts, FirmwareLoadAssumption DEF WriteRest
<1>2. lastaddr' \in 0..NvWin /\ source' = Blocks + 1 /\ fwlen' = Blocks + 1
  BY <1>1, WindowNumber DEF WriteRest, SetWindow, BW!sdio_bak_window, firm_read
<1>3. pc' = "verify" /\ nbytes' = Blocks
  BY <1>1 DEF WriteRest
<1>4. lost' \in SUBSET Kinds
  BY AccountType DEF WriteRest, CountInv, TypeOK, Kinds
<1>5. ram' \in [Units -> Contents]
  <2>1. CASE Store("firmware", source, nbytes % WinUnits, 1)
    <3>1. \A i \in 0..1-1 : <<"firmware", Blocks + i>> \in Contents
      BY <1>1 DEF Contents, Fw
    <3>2. PICK off \in 0..WinUnits-1 : off = nbytes % WinUnits
      BY <1>1
    <3>3. Store("firmware", Blocks, off, 1)
      BY <1>1, <2>1, <3>2
    <3>4. Blocks \in Nat /\ off \in Nat /\ off <= WinUnits /\ 1 \in Nat
      BY <1>1
    <3> QED BY <1>0, <3>1, <3>3, <3>4, StoreType
  <2>2. CASE UNCHANGED ram
    BY <1>0, <2>2
  <2> QED BY <2>1, <2>2 DEF WriteRest
<1> QED BY <1>1, <1>2, <1>3, <1>4, <1>5 DEF CountInv, TypeOK, Counting, Contents

LEMMA NvCount ==
  ASSUME CountInv, WriteNvram
  PROVE  CountInv'
<1> DEFINE n == NvLen
<1>0. ram \in [Units -> Contents]
  BY DEF CountInv, TypeOK, Contents
<1>1. /\ nbytes \in 0..NvUnits /\ n \in 1..NvUnits /\ nbytes + n <= NvUnits
      /\ WinUnits \in Nat \ {0} /\ NvWin \in Nat /\ NvOff \in Nat /\ Blocks \in Nat
      /\ NvUnits \in Nat /\ NvOff + NvUnits <= WinUnits
  BY NvLenFacts, FirmwareLoadAssumption DEF WriteNvram
<1>2. lastaddr' \in 0..NvWin
  BY <1>1, WindowNumber
     DEF WriteNvram, SetWindow, BW!sdio_bak_window, window, CountInv, TypeOK
<1> HIDE DEF n
<1>3. nbytes' = nbytes + n /\ pc' = "nvram" /\ UNCHANGED <<source, fwlen>>
  BY DEF WriteNvram, n
<1>4. lost' \in SUBSET Kinds
  BY AccountType DEF WriteNvram, CountInv, TypeOK, Kinds
<1>5. ram' \in [Units -> Contents]
  <2>1. CASE Store("nvram", nbytes, NvOff + nbytes, n)
    <3>1. \A i \in 0..n-1 : <<"nvram", nbytes + i>> \in Contents
      BY <1>1 DEF Contents, Nv
    <3>2. NvOff + nbytes \in Nat /\ NvOff + nbytes <= WinUnits
      BY <1>1
    <3>3. n \in Nat /\ nbytes \in Nat
      BY <1>1
    <3> QED BY <1>0, <2>1, <3>1, <3>2, <3>3, StoreType
  <2>2. CASE UNCHANGED ram
    BY <1>0, <2>2
  <2> QED BY <2>1, <2>2 DEF WriteNvram, n
<1>6. nbytes' \in 0..NvUnits /\ nbytes' \in 0..Blocks + NvUnits
  BY <1>1, <1>3
<1>7. pc = "nvram"
  BY DEF WriteNvram
<1> QED BY <1>2, <1>3, <1>4, <1>5, <1>6, <1>7 DEF CountInv, TypeOK, Counting, Contents

LEMMA CountStep == CountInv /\ [Next]_vars => CountInv'
<1> SUFFICES ASSUME CountInv, [Next]_vars PROVE CountInv'
  OBVIOUS
<1>1. CASE WriteBurst
  BY <1>1, BurstCount
<1>2. CASE WriteRest
  BY <1>2, RestCount
<1>3. CASE ReadBack
  <2>1. lastaddr' \in 0..NvWin
    BY <1>3, WindowNumber, FirmwareLoadAssumption DEF ReadBack, SetWindow, BW!sdio_bak_window
  <2>2. lost' \in SUBSET Kinds
    BY <1>3, AccountType DEF ReadBack, CountInv, TypeOK, Kinds
  <2> QED BY <1>3, <2>1, <2>2, FirmwareLoadAssumption
          DEF ReadBack, CountInv, TypeOK, Counting
<1>4. CASE WriteNvram
  BY <1>4, NvCount
<1>5. CASE Release
  BY <1>5, NvLenFacts DEF Release, window, CountInv, TypeOK, Counting
<1>6. CASE UNCHANGED vars
  BY <1>6 DEF vars, window, CountInv, TypeOK, Counting
<1> QED BY <1>1, <1>2, <1>3, <1>4, <1>5, <1>6 DEF Next

-----------------------------------------------------------------------------
(* What is in the RAM.                                                     *)

\* The window the chip is at is the one remembered, as long as nothing of a
\* setting was lost; it is the NVRAM's while that is written.
WindowKnown ==
  /\ "window" \notin lost => chipwin = lastaddr
  /\ pc = "nvram" /\ nbytes > 0 => lastaddr = NvWin

\* Bursts begin at a multiple of their size, until the image ends.
Aligned == pc = "firmware" => nbytes = Blocks \/ \E q \in Nat : nbytes = q * Burst

NvBase  == NvWin * WinUnits + NvOff
NvDone  == IF pc \in {"nvram", "released"} THEN nbytes ELSE 0
NvRange == NvBase .. NvBase + NvDone - 1

\* The first n units of the firmware are loaded.
Prefix(n) == \A u \in 0..Blocks : ram[u] = IF u < n THEN Fw(u) ELSE Empty

\* How many they are, by what the program counts.
Counted(n) ==
  /\ pc = "firmware" => n = nbytes
  /\ pc # "firmware" => n <= fwlen
  /\ pc # "firmware" /\ lost = {} => n = Blocks + 1

\* Outside the firmware there is at most what has been written of the NVRAM
\* image, and all of it if nothing was lost.
Others ==
  \A u \in Units : u > Blocks =>
    ram[u] = Empty \/ (u \in NvRange /\ ram[u] = Nv(u - NvBase))

NvLoaded == lost = {} => \A u \in NvRange : ram[u] = Nv(u - NvBase)

Placed ==
  lost \subseteq {"command"} =>
    Others /\ NvLoaded /\ \E n \in 0..Blocks + 1 : Prefix(n) /\ Counted(n)

LoadInv == CountInv /\ WindowKnown /\ Aligned /\ Placed

LEMMA Sizes ==
  /\ WinUnits \in Nat \ {0} /\ Burst \in Nat \ {0} /\ Blocks \in Nat /\ NvWin \in Nat
  /\ NvOff \in Nat /\ NvUnits \in Nat /\ NvOff + NvUnits <= WinUnits
  /\ NvBase \in Nat /\ NvBase > Blocks /\ NvBase = WinUnits * NvWin + NvOff
  /\ Units = 0 .. WinUnits * NvWin + WinUnits - 1
<1>1. /\ WinUnits \in Nat \ {0} /\ Burst \in Nat \ {0} /\ Blocks \in Nat /\ NvWin \in Nat
      /\ NvOff \in Nat /\ NvUnits \in Nat /\ NvOff + NvUnits <= WinUnits
      /\ Blocks < NvWin * WinUnits
  BY FirmwareLoadAssumption
<1>2. PICK b \in Nat : b = NvWin * WinUnits
  BY <1>1
<1>3. b = WinUnits * NvWin
  BY <1>1, <1>2
<1>4. (NvWin + 1) * WinUnits = b + WinUnits
  BY <1>1, <1>2
<1> QED BY <1>1, <1>2, <1>3, <1>4 DEF NvBase, Units

\* A setting of the window that is not lost leaves the chip at that window, be
\* it skipped or not.
LEMMA Setting ==
  ASSUME NEW w \in Nat, BW!sdio_bak_window(w), NEW kinds, Account(kinds), WindowKnown
  PROVE  /\ lastaddr' = w /\ lost \subseteq lost' /\ kinds \subseteq lost'
         /\ "window" \notin lost' => chipwin' = w
<1>1. lastaddr' = w /\ lost \subseteq lost' /\ kinds \subseteq lost'
  BY DEF BW!sdio_bak_window, Account
<1>2. ASSUME "window" \notin lost' PROVE chipwin' = w
  <2>1. missed' = {} /\ chipwin = lastaddr
    BY <1>1, <1>2 DEF Account, WindowKnown
  <2>2. CASE w = lastaddr
    BY <2>1, <2>2 DEF BW!sdio_bak_window
  <2>3. CASE w # lastaddr
    <3>1. BW!WriteBytes(w, {})
      BY <2>1, <2>3 DEF BW!sdio_bak_window
    <3>2. chipwin' = BW!FromBytes([i \in 1..3 |-> BW!Bytes(w)[i]])
      BY <3>1 DEF BW!WriteBytes
    <3>3. [i \in 1..3 |-> BW!Bytes(w)[i]] = BW!Bytes(w)
      BY DEF BW!Bytes
    <3>4. BW!FromBytes(BW!Bytes(w)) = w
      BY ThreeBytes, FirmwareLoadAssumption DEF BW!FromBytes, BW!Bytes
    <3> QED BY <3>2, <3>3, <3>4
  <2> QED BY <2>2, <2>3
<1> QED BY <1>1, <1>2

LEMMA LoadStart == Init => LoadInv
<1> SUFFICES ASSUME Init PROVE LoadInv
  OBVIOUS
<1>1. CountInv
  BY CountInit
<1>2. WindowKnown
  BY DEF Init, WindowKnown
<1>3. Aligned
  <2>1. 0 = 0 * Burst
    BY Sizes
  <2> QED BY <2>1 DEF Init, Aligned
<1>4. \A u \in Units : ram[u] = Empty
  BY DEF Init
<1>5. Others /\ NvLoaded
  BY <1>4, Sizes DEF Init, Others, NvLoaded, NvRange, NvDone
<1>6. Prefix(0) /\ Counted(0)
  <2>1. 0..Blocks \subseteq Units
    BY Sizes DEF NvBase
  <2>2. \A u \in 0..Blocks : ~(u < 0)
    BY Sizes
  <2> QED BY <1>4, <2>1, <2>2 DEF Init, Prefix, Counted
<1>7. 0 \in 0..Blocks + 1
  BY Sizes
<1> QED BY <1>1, <1>2, <1>3, <1>5, <1>6, <1>7 DEF LoadInv, Placed

\* A burst extends what is loaded by its length, or ends the loading.
LEMMA BurstPlaced ==
  ASSUME BurstsFit, LoadInv, WriteBurst
  PROVE  WindowKnown' /\ Aligned' /\ Placed'
<1> DEFINE n == BurstLen
           q == nbytes \div WinUnits
           off == nbytes % WinUnits
<1>1. /\ pc = "firmware" /\ nbytes \in 0..Blocks /\ source = nbytes
      /\ n \in 1..Burst /\ nbytes + n <= Blocks
      /\ n = Burst \/ nbytes + n = Blocks
      /\ fwlen = -1 /\ "command" \notin lost
  BY BurstLenFacts, Sizes DEF WriteBurst, LoadInv, CountInv, Counting
<1>2. /\ q \in 0..NvWin /\ off \in 0..WinUnits-1
      /\ WinUnits * q + off = nbytes /\ q \in Nat
  <2>1. nbytes \in Nat /\ nbytes \in 0..Blocks
    BY <1>1, Sizes
  <2>2. q \in 0..NvWin
    BY <2>1, WindowNumber
  <2> QED BY <2>1, <2>2, WindowOf, Sizes
<1>3. BW!sdio_bak_window(q)
  BY DEF WriteBurst, SetWindow
<1>4. PICK m \in Nat : nbytes = m * Burst
  BY <1>1 DEF LoadInv, Aligned
<1>5. off + n <= WinUnits
  <2>1. off + Burst <= WinUnits
    BY <1>4, BurstFits
  <2> HIDE DEF off, n
  <2> QED BY <1>1, <1>2, <2>1, Sizes
<1>6. pc' = "firmware" \/ pc' = "verify"
  BY <1>1 DEF WriteBurst
<1>7. CASE /\ (StoreBurst /\ Account({})) \/ (UNCHANGED ram /\ Account({"block"}))
           /\ nbytes' = nbytes + n /\ UNCHANGED <<pc, fwlen>>
  <2>1. Aligned'
    <3>1. CASE n = Burst
      <4>1. nbytes' = (m + 1) * Burst /\ m + 1 \in Nat
        <5> HIDE DEF n
        <5> QED BY <1>4, <1>7, <3>1, Sizes
      <4> QED BY <4>1 DEF Aligned
    <3>2. CASE nbytes + n = Blocks
      BY <1>7, <3>2 DEF Aligned
    <3> QED BY <1>1, <3>1, <3>2
  <2>2. WindowKnown'
    <3>1. lastaddr' = q /\ ("window" \notin lost' => chipwin' = q)
      BY <1>2, <1>3, <1>7, Setting DEF LoadInv
    <3> QED BY <1>1, <1>7, <3>1 DEF WindowKnown
  <2>3. ASSUME lost' \subseteq {"command"} PROVE Placed'
    <3>1. lost \subseteq lost' /\ lost' = {} /\ chipwin' = q
      <4>1. lost \subseteq lost' /\ ("window" \notin lost' => chipwin' = q)
        BY <1>2, <1>3, <1>7, Setting DEF LoadInv
      <4>2. "command" \notin lost'
        BY <1>1, <1>7 DEF Account
      <4> QED BY <2>3, <4>1, <4>2
    <3>2. StoreBurst
      <4>1. ~Account({"block"})
        BY <3>1 DEF Account
      <4> QED BY <1>7, <4>1
    <3>3. Store("firmware", nbytes, off, n)
      BY <1>1, <3>2 DEF StoreBurst
    <3>4. Prefix(nbytes) /\ Others
      BY <1>1, <3>1 DEF LoadInv, Placed, Counted
    <3> HIDE DEF q, off, n
    <3>5. n \in Nat /\ nbytes \in Nat
      BY <1>1, Sizes
    <3>6. \A u \in Units :
             ram'[u] = IF u \in WinUnits * q + off .. WinUnits * q + off + n - 1
                       THEN <<"firmware", nbytes + (u - (WinUnits * q + off))>> ELSE ram[u]
      BY <1>2, <1>5, <3>1, <3>3, <3>5, Stores
    <3>7. \A u \in Units : ram'[u] = IF u \in nbytes .. nbytes + n - 1 THEN Fw(u) ELSE ram[u]
      <4>1. \A u \in Units : nbytes + (u - nbytes) = u
        BY <1>1, Sizes
      <4> QED BY <1>2, <3>6, <4>1 DEF Fw
    <3>8. 0..Blocks \subseteq Units
      BY Sizes
    <3> PICK k \in 0..Blocks : k = nbytes + n
      BY <1>1, Sizes DEF n
    <3>9. Prefix(k)'
      <4> SUFFICES ASSUME NEW u \in 0..Blocks
                   PROVE  ram'[u] = IF u < k THEN Fw(u) ELSE Empty
        BY DEF Prefix, Fw, Empty
      <4>1. ram'[u] = IF u \in nbytes .. nbytes + n - 1 THEN Fw(u) ELSE ram[u]
        BY <3>7, <3>8
      <4>2. ram[u] = IF u < nbytes THEN Fw(u) ELSE Empty
        BY <3>4 DEF Prefix
      <4> QED BY <3>5, <4>1, <4>2
    <3>10. Others' /\ NvLoaded'
      <4>1. NvRange = {} /\ NvRange' = {}
        BY <1>1, <1>7, Sizes DEF NvRange, NvDone
      <4>2. \A u \in Units : u > Blocks => ram'[u] = Empty
        <5> SUFFICES ASSUME NEW u \in Units, u > Blocks PROVE ram'[u] = Empty
          OBVIOUS
        <5>1. u \notin nbytes .. nbytes + n - 1
          BY <1>1, Sizes
        <5> QED BY <3>4, <3>7, <4>1, <5>1 DEF Others
      <4> QED BY <4>1, <4>2 DEF Others, NvLoaded
    <3>11. k \in 0..Blocks + 1 /\ Counted(k)'
      BY <1>1, <1>7, Sizes DEF Counted, n
    <3> QED BY <3>9, <3>10, <3>11 DEF Placed
  <2> QED BY <2>1, <2>2, <2>3 DEF Placed
<1>8. CASE /\ UNCHANGED ram /\ Account({"command"})
           /\ fwlen' = nbytes /\ pc' = "verify" /\ UNCHANGED nbytes
  <2>1. lastaddr' = q /\ lost \subseteq lost' /\ "command" \in lost'
        /\ ("window" \notin lost' => chipwin' = q)
    BY <1>2, <1>3, <1>8, Setting DEF LoadInv
  <2>2. WindowKnown' /\ Aligned'
    BY <1>8, <2>1 DEF WindowKnown, Aligned
  <2>3. ASSUME lost' \subseteq {"command"} PROVE Placed'
    <3>1. Prefix(nbytes) /\ Others /\ lost' # {}
      BY <1>1, <2>1, <2>3 DEF LoadInv, Placed, Counted
    <3>2. NvRange = {} /\ NvRange' = {}
      BY <1>1, <1>8, Sizes DEF NvRange, NvDone
    <3>3. Others' /\ NvLoaded'
      BY <1>8, <3>1, <3>2 DEF Others, NvLoaded
    <3> PICK k \in 0..Blocks + 1 : k = nbytes
      BY <1>1, Sizes
    <3>4. Prefix(k)' /\ Counted(k)'
      BY <1>1, <1>8, <3>1, Sizes DEF Prefix, Counted
    <3> QED BY <3>3, <3>4 DEF Placed
  <2> QED BY <2>2, <2>3 DEF Placed
<1> QED BY <1>7, <1>8 DEF WriteBurst

\* The bytes after the last whole block complete the firmware.
LEMMA RestPlaced ==
  ASSUME LoadInv, WriteRest
  PROVE  WindowKnown' /\ Aligned' /\ Placed'
<1> DEFINE q == nbytes \div WinUnits
           off == nbytes % WinUnits
<1>1. /\ pc = "firmware" /\ nbytes = Blocks /\ source = nbytes /\ "command" \notin lost
      /\ pc' = "verify" /\ fwlen' = nbytes + 1 /\ nbytes' = nbytes
  BY BurstLenFacts DEF WriteRest, LoadInv, CountInv, Counting
<1>2. /\ q \in 0..NvWin /\ off \in 0..WinUnits-1
      /\ WinUnits * q + off = nbytes /\ q \in Nat
  <2>1. nbytes \in Nat /\ nbytes \in 0..Blocks
    BY <1>1, Sizes
  <2>2. q \in 0..NvWin
    BY <2>1, WindowNumber
  <2> QED BY <2>1, <2>2, WindowOf, Sizes
<1>3. BW!sdio_bak_window(q)
  BY DEF WriteRest, SetWindow
<1>4. PICK kinds \in {{}, {"command"}} :
         /\ Account(kinds)
         /\ kinds = {} => Store("firmware", nbytes, off, 1)
         /\ kinds # {} => UNCHANGED ram
  BY <1>1 DEF WriteRest
<1> HIDE DEF q, off
<1>5. lastaddr' = q /\ lost \subseteq lost' /\ kinds \subseteq lost'
      /\ ("window" \notin lost' => chipwin' = q)
  BY <1>2, <1>3, <1>4, Setting DEF LoadInv
<1>6. WindowKnown' /\ Aligned'
  BY <1>1, <1>5 DEF WindowKnown, Aligned
<1>7. ASSUME lost' \subseteq {"command"} PROVE Placed'
  <2>1. Prefix(Blocks) /\ Others /\ chipwin' = q
    BY <1>1, <1>5, <1>7 DEF LoadInv, Placed, Counted
  <2>2. NvRange = {} /\ NvRange' = {}
    BY <1>1, Sizes DEF NvRange, NvDone
  <2>3. CASE kinds = {}
    <3>1. \A u \in Units :
             ram'[u] = IF u \in WinUnits * q + off .. WinUnits * q + off + 1 - 1
                       THEN <<"firmware", nbytes + (u - (WinUnits * q + off))>> ELSE ram[u]
      <4>1. off + 1 <= WinUnits /\ nbytes \in Nat /\ 1 \in Nat
        BY <1>1, <1>2, Sizes
      <4>2. Store("firmware", nbytes, off, 1)
        BY <1>4, <2>3
      <4> QED BY <1>2, <2>1, <4>1, <4>2, Stores
    <3>2. \A u \in Units : ram'[u] = IF u = Blocks THEN Fw(u) ELSE ram[u]
      <4>1. \A u \in Units : Blocks + (u - Blocks) = u
                             /\ (u \in Blocks .. Blocks + 1 - 1 <=> u = Blocks)
        BY Sizes
      <4> QED BY <1>1, <1>2, <3>1, <4>1 DEF Fw
    <3>3. 0..Blocks \subseteq Units
      BY Sizes
    <3>4. Prefix(Blocks + 1)'
      <4> SUFFICES ASSUME NEW u \in 0..Blocks
                   PROVE  ram'[u] = IF u < Blocks + 1 THEN Fw(u) ELSE Empty
        BY DEF Prefix, Fw, Empty
      <4>1. ram'[u] = IF u = Blocks THEN Fw(u) ELSE ram[u]
        BY <3>2, <3>3
      <4>2. ram[u] = IF u < Blocks THEN Fw(u) ELSE Empty
        BY <2>1 DEF Prefix
      <4> QED BY <4>1, <4>2, Sizes
    <3>5. Others' /\ NvLoaded'
      <4>1. \A u \in Units : u > Blocks => ram'[u] = Empty
        BY <2>1, <2>2, <3>2, Sizes DEF Others
      <4> QED BY <2>2, <4>1 DEF Others, NvLoaded
    <3>6. Blocks + 1 \in 0..Blocks + 1 /\ Counted(Blocks + 1)'
      BY <1>1, Sizes DEF Counted
    <3> QED BY <3>4, <3>5, <3>6 DEF Placed
  <2>4. CASE kinds # {}
    <3>1. lost' # {} /\ UNCHANGED ram
      BY <1>4, <1>5, <2>4
    <3>2. Others' /\ NvLoaded'
      BY <2>1, <2>2, <3>1 DEF Others, NvLoaded
    <3>3. Blocks \in 0..Blocks + 1 /\ Prefix(Blocks)' /\ Counted(Blocks)'
      BY <1>1, <2>1, <3>1, Sizes DEF Prefix, Counted
    <3> QED BY <3>2, <3>3 DEF Placed
  <2> QED BY <2>3, <2>4
<1> QED BY <1>6, <1>7 DEF Placed

\* A command extends what is loaded of the NVRAM image, or leaves a gap.
LEMMA NvPlaced ==
  ASSUME LoadInv, WriteNvram
  PROVE  WindowKnown' /\ Aligned' /\ Placed'
<1> DEFINE n == NvLen
<1>1. /\ pc = "nvram" /\ nbytes \in 0..NvUnits /\ n \in 1..NvUnits /\ nbytes + n <= NvUnits
      /\ pc' = pc /\ fwlen' = fwlen /\ nbytes' = nbytes + n
  BY NvLenFacts, Sizes DEF WriteNvram, LoadInv, CountInv
<1>2. PICK kinds \in {{}, {"command"}} :
         /\ Account(kinds)
         /\ kinds = {} => Store("nvram", nbytes, NvOff + nbytes, n)
         /\ kinds # {} => UNCHANGED ram
  BY DEF WriteNvram
<1>3. lastaddr' = NvWin /\ lost \subseteq lost' /\ kinds \subseteq lost'
      /\ ("window" \notin lost' => chipwin' = NvWin)
  <2>1. CASE nbytes = 0
    <3>1. BW!sdio_bak_window(NvWin)
      BY <2>1, WindowNumber DEF WriteNvram, SetWindow
    <3> QED BY <1>2, <3>1, Sizes, Setting DEF LoadInv
  <2>2. CASE nbytes # 0
    <3>1. lastaddr = NvWin /\ UNCHANGED <<lastaddr, chipwin>>
      BY <1>1, <2>2, Sizes DEF WriteNvram, window, LoadInv, WindowKnown
    <3> QED BY <1>2, <3>1 DEF Account, LoadInv, WindowKnown
  <2> QED BY <2>1, <2>2
<1> HIDE DEF n
<1>4. WindowKnown' /\ Aligned'
  BY <1>1, <1>3 DEF WindowKnown, Aligned
<1>5. ASSUME lost' \subseteq {"command"} PROVE Placed'
  <2>1. PICK k \in 0..Blocks + 1 : Prefix(k) /\ Counted(k)
    BY <1>3, <1>5 DEF LoadInv, Placed
  <2>2. Others /\ NvLoaded /\ chipwin' = NvWin
    BY <1>3, <1>5 DEF LoadInv, Placed
  <2>3. NvRange = NvBase .. NvBase + nbytes - 1 /\ NvRange' = NvBase .. NvBase + nbytes + n - 1
    <3>1. NvBase + (nbytes + n) - 1 = NvBase + nbytes + n - 1
      BY <1>1, Sizes
    <3>2. NvDone = nbytes /\ NvDone' = nbytes + n /\ NvBase' = NvBase
      BY <1>1 DEF NvDone, NvBase
    <3> QED BY <3>1, <3>2 DEF NvRange
  <2>4. Counted(k)'
    BY <1>1, <1>3, <2>1 DEF Counted
  <2>5. CASE kinds = {}
    <3>1. \A u \in Units :
             ram'[u] = IF u \in NvBase + nbytes .. NvBase + nbytes + n - 1
                       THEN Nv(u - NvBase) ELSE ram[u]
      <4> DEFINE b == WinUnits * NvWin
                 off == NvOff + nbytes
      <4>1. /\ off \in 0..WinUnits-1 /\ off + n <= WinUnits
            /\ n \in Nat /\ nbytes \in Nat /\ NvWin \in 0..NvWin
        BY <1>1, Sizes
      <4>2. Store("nvram", nbytes, off, n)
        BY <1>2, <2>5
      <4> HIDE DEF off
      <4>3. \A u \in Units :
               ram'[u] = IF u \in b + off .. b + off + n - 1
                         THEN <<"nvram", nbytes + (u - (b + off))>> ELSE ram[u]
        BY <2>2, <4>1, <4>2, Stores
      <4>4. b \in Nat /\ NvBase = b + NvOff
        BY Sizes
      <4> HIDE DEF b
      <4>5. b + off = NvBase + nbytes
        BY <1>1, <4>4, Sizes DEF off
      <4>6. \A u \in Units : nbytes + (u - (b + off)) = u - NvBase
        BY <1>1, <4>5, Sizes
      <4> QED BY <4>3, <4>5, <4>6 DEF Nv
    <3>2. Prefix(k)'
      <4>1. \A u \in 0..Blocks : u \in Units /\ u \notin NvBase + nbytes .. NvBase + nbytes + n - 1
        BY <1>1, Sizes
      <4>2. \A u \in 0..Blocks : ram'[u] = ram[u]
        BY <3>1, <4>1
      <4> QED BY <2>1, <4>2 DEF Prefix
    <3>3. \A u \in NvRange' : u \in NvRange \/ u \in NvBase + nbytes .. NvBase + nbytes + n - 1
      BY <1>1, <2>3, Sizes
    <3>4. NvRange \subseteq NvRange' /\ NvRange' \subseteq Units
          /\ NvBase + nbytes .. NvBase + nbytes + n - 1 \subseteq NvRange'
          /\ NvRange \cap (NvBase + nbytes .. NvBase + nbytes + n - 1) = {}
      BY <1>1, <2>3, Sizes
    <3>5. Others'
      <4> SUFFICES ASSUME NEW u \in Units, u > Blocks
                   PROVE  ram'[u] = Empty \/ (u \in NvRange' /\ ram'[u] = Nv(u - NvBase))
        BY DEF Others, Empty, Nv, NvBase
      <4> QED BY <2>2, <3>1, <3>4 DEF Others
    <3>6. NvLoaded'
      <4> SUFFICES ASSUME lost' = {}, NEW u \in NvRange' PROVE ram'[u] = Nv(u - NvBase)
        BY DEF NvLoaded, Nv, NvBase
      <4>1. lost = {}
        BY <1>3
      <4> QED BY <2>2, <3>1, <3>3, <3>4, <4>1 DEF NvLoaded
    <3> QED BY <2>1, <2>4, <3>2, <3>5, <3>6 DEF Placed
  <2>6. CASE kinds # {}
    <3>1. lost' # {} /\ UNCHANGED ram
      BY <1>2, <1>3, <2>6
    <3>2. NvRange \subseteq NvRange'
      BY <1>1, <2>3, Sizes
    <3>3. Others' /\ NvLoaded' /\ Prefix(k)'
      <4>1. NvBase' = NvBase
        BY DEF NvBase
      <4> QED BY <2>1, <2>2, <3>1, <3>2, <4>1 DEF Others, NvLoaded, Prefix
    <3> QED BY <2>1, <2>4, <3>3 DEF Placed
  <2> QED BY <2>5, <2>6
<1> QED BY <1>4, <1>5 DEF Placed

LEMMA LoadStep ==
  ASSUME BurstsFit, LoadInv, [Next]_vars
  PROVE  LoadInv'
<1>1. CountInv'
  BY CountStep DEF LoadInv
<1>2. WindowKnown' /\ Aligned' /\ Placed'
  <2>1. CASE WriteBurst
    BY <2>1, BurstPlaced
  <2>2. CASE WriteRest
    BY <2>2, RestPlaced
  <2>3. CASE ReadBack
    <3>1. /\ pc = "verify" /\ pc' = "nvram" /\ nbytes' = 0 /\ ram' = ram /\ fwlen' = fwlen
          /\ Account({})
      BY <2>3 DEF ReadBack
    <3>2. PICK w \in Nat : BW!sdio_bak_window(w)
      BY <2>3, LowWindow, Sizes DEF ReadBack, SetWindow
    <3>3. lastaddr' = w /\ lost \subseteq lost' /\ ("window" \notin lost' => chipwin' = w)
      BY <3>1, <3>2, Setting DEF LoadInv
    <3>4. WindowKnown' /\ Aligned'
      BY <3>1, <3>3 DEF WindowKnown, Aligned
    <3>5. ASSUME lost' \subseteq {"command"} PROVE Placed'
      <4>1. PICK k \in 0..Blocks + 1 : Prefix(k) /\ Counted(k)
        BY <3>3, <3>5 DEF LoadInv, Placed
      <4>2. Others /\ NvLoaded
        BY <3>3, <3>5 DEF LoadInv, Placed
      <4>3. NvRange = {} /\ NvRange' = {}
        BY <3>1, Sizes DEF NvRange, NvDone
      <4>4. Others' /\ NvLoaded'
        BY <3>1, <4>2, <4>3 DEF Others, NvLoaded
      <4>5. Prefix(k)' /\ Counted(k)'
        BY <3>1, <3>3, <4>1 DEF Prefix, Counted
      <4> QED BY <4>4, <4>5 DEF Placed
    <3> QED BY <3>4, <3>5 DEF Placed
  <2>4. CASE WriteNvram
    BY <2>4, NvPlaced
  <2>5. CASE Release
    <3>1. /\ pc = "nvram" /\ pc' = "released"
          /\ UNCHANGED <<nbytes, fwlen, ram, lost, lastaddr, chipwin>>
      BY <2>5 DEF Release, window
    <3>2. WindowKnown' /\ Aligned'
      BY <3>1 DEF LoadInv, WindowKnown, Aligned
    <3>3. NvRange' = NvRange
      BY <3>1 DEF NvRange, NvDone, NvBase
    <3>4. \A k : Prefix(k) /\ Counted(k) => Prefix(k)' /\ Counted(k)'
      BY <3>1 DEF Prefix, Counted
    <3>5. (Others => Others') /\ (NvLoaded => NvLoaded')
      BY <3>1, <3>3 DEF Others, NvLoaded, NvBase
    <3> QED BY <3>1, <3>2, <3>4, <3>5 DEF LoadInv, Placed
  <2>6. CASE UNCHANGED vars
    BY <2>6 DEF vars, window, LoadInv, WindowKnown, Aligned, Placed, Prefix, Counted, Others,
                NvLoaded, NvRange, NvDone, NvBase
  <2> QED BY <2>1, <2>2, <2>3, <2>4, <2>5, <2>6 DEF Next
<1> QED BY <1>1, <1>2 DEF LoadInv

-----------------------------------------------------------------------------
(* Theorems.                                                               *)

\* write_firmware, write_nvram: whatever is lost, and wherever the window may be
\* because of it, the counters keep their ranges and only units of the two
\* images get into the RAM.
THEOREM TypeCorrect == Spec => []TypeOK
<1>1. CountInv => TypeOK
  BY DEF CountInv
<1> QED BY <1>1, CountInit, CountStep, PTL DEF Spec

\* The inductive invariant of the loading.
LEMMA LoadAlways == ASSUME BurstsFit PROVE Spec => []LoadInv
<1>1. LoadInv /\ [Next]_vars => LoadInv'
  BY BurstsFit, LoadStep
<1> QED BY <1>1, LoadStart, PTL DEF Spec

\* sdio_init: for images and windows of any size, when nothing is lost the ARM
\* core is started with both images complete and in place.
THEOREM ImagesWhole == ASSUME BurstsFit PROVE Spec => []WholeImages
<1>1. LoadInv => WholeImages
  <2> SUFFICES ASSUME LoadInv, pc = "released", lost = {}
               PROVE  ram = [u \in Units |->
                         IF u <= Blocks THEN Fw(u)
                         ELSE IF u - NvWin * WinUnits - NvOff \in 0..NvUnits-1
                              THEN Nv(u - NvWin * WinUnits - NvOff)
                              ELSE Empty]
    BY DEF WholeImages
  <2>1. Prefix(Blocks + 1) /\ Others /\ NvLoaded
    BY DEF LoadInv, Placed, Counted
  <2>2. NvRange = NvBase .. NvBase + NvUnits - 1
    BY DEF LoadInv, CountInv, Counting, NvRange, NvDone
  <2>3. ASSUME NEW u \in Units
        PROVE  /\ u - NvWin * WinUnits - NvOff = u - NvBase
               /\ u \in NvRange <=> u - NvBase \in 0..NvUnits-1
    <3>1. PICK b \in Nat : b = NvWin * WinUnits
      BY Sizes
    <3>2. u \in Nat /\ NvBase = b + NvOff
      BY <3>1, Sizes DEF NvBase
    <3> QED BY <2>2, <3>1, <3>2, Sizes
  <2>4. ASSUME NEW u \in Units
        PROVE  ram[u] = IF u <= Blocks THEN Fw(u)
                        ELSE IF u \in NvRange THEN Nv(u - NvBase) ELSE Empty
    <3>1. CASE u <= Blocks
      <4>1. u \in 0..Blocks /\ u < Blocks + 1
        BY <3>1, Sizes
      <4> QED BY <2>1, <3>1, <4>1 DEF Prefix
    <3>2. CASE u > Blocks
      <4>1. ~(u <= Blocks)
        BY <3>2, Sizes
      <4> QED BY <2>1, <3>2, <4>1 DEF Others, NvLoaded
    <3>3. u <= Blocks \/ u > Blocks
      BY Sizes
    <3> QED BY <3>1, <3>2, <3>3
  <2>5. ram = [u \in Units |-> ram[u]]
    BY DEF LoadInv, CountInv, TypeOK
  <2> QED BY <2>3, <2>4, <2>5
<1> QED BY <1>1, LoadAlways, BurstsFit, PTL

\* sdio_init goes on whatever write_firmware returns: for images and windows of
\* any size, when only whole commands are lost a gapless beginning of the
\* firmware is loaded, and the result covers it.
THEOREM PrefixLoaded == ASSUME BurstsFit PROVE Spec => []LoadedPrefix
<1>1. LoadInv => LoadedPrefix
  <2> SUFFICES ASSUME LoadInv, lost \subseteq {"command"}
               PROVE  /\ \A u \in Units :
                           ram[u] \in {Empty, Fw(u), Nv(u - NvWin * WinUnits - NvOff)}
                      /\ \A u \in 1..Blocks : ram[u] = Fw(u) => ram[u-1] = Fw(u-1)
                      /\ \A u \in 0..Blocks : ram[u] = Fw(u) /\ fwlen >= 0 => u < fwlen
    BY DEF LoadedPrefix
  <2>1. PICK k \in 0..Blocks + 1 : Prefix(k) /\ Counted(k)
    BY DEF LoadInv, Placed
  <2>2. Others
    BY DEF LoadInv, Placed
  <2>3. \A u \in 0..Blocks : ram[u] = Fw(u) <=> u < k
    <3>1. \A u : Fw(u) # Empty
      BY DEF Fw, Empty
    <3> QED BY <2>1, <3>1 DEF Prefix
  <2>4. ASSUME NEW u \in Units
        PROVE  ram[u] \in {Empty, Fw(u), Nv(u - NvWin * WinUnits - NvOff)}
    <3>1. CASE u <= Blocks
      <4>1. u \in 0..Blocks
        BY <3>1, Sizes
      <4> QED BY <2>1, <4>1 DEF Prefix
    <3>2. CASE u > Blocks
      <4>1. u - NvWin * WinUnits - NvOff = u - NvBase
        <5>1. PICK b \in Nat : b = NvWin * WinUnits
          BY Sizes
        <5>2. u \in Nat /\ NvBase = b + NvOff
          BY <5>1, Sizes DEF NvBase
        <5> QED BY <5>1, <5>2, Sizes
      <4> QED BY <2>2, <3>2, <4>1 DEF Others
    <3>3. u <= Blocks \/ u > Blocks
      BY Sizes
    <3> QED BY <3>1, <3>2, <3>3
  <2>5. \A u \in 1..Blocks : u - 1 \in 0..Blocks /\ u \in 0..Blocks /\ (u < k => u - 1 < k)
    BY Sizes
  <2>6. fwlen >= 0 => k <= fwlen
    BY <2>1 DEF LoadInv, CountInv, Counting, Counted
  <2>7. \A u \in 0..Blocks : ram[u] = Fw(u) /\ fwlen >= 0 => u < fwlen
    <3>1. fwlen \in Int
      BY Sizes DEF LoadInv, CountInv, TypeOK
    <3> QED BY <2>3, <2>6, <3>1
  <2> QED BY <2>3, <2>4, <2>5, <2>7
<1> QED BY <1>1, LoadAlways, BurstsFit, PTL
=============================================================================
