---------------------------- MODULE BringUpProofs ----------------------------
(***************************************************************************)
(* Proofs about BakWindow and about BringUp, which takes its actions.      *)
(*                                                                         *)
(* The address decoder looks at the second bit of a window number: that it *)
(* is 0 in the windows of the 32-bit accesses is assumed by the theorems   *)
(* that say where an access goes.                                          *)
(*                                                                         *)
(* The script of the bring-up is taken apart first: KeptRegs and KeptCores *)
(* are written, and anything is checked, by some forty of its 92 steps     *)
(* only, which are named by their place (CommandsAt to LoadsAt); the       *)
(* others are plain (PlainSteps).  What each action does is then said by   *)
(* the place of its step, and the invariants are kept by those lemmas.     *)
(***************************************************************************)
EXTENDS BringUp, FiniteSetTheorems, SequenceTheorems, TLAPS

\* No 32-bit access is for a window that would select the function's own
\* registers.
InWindow == \A w \in DirectWins : TopBit(w) = 0

\* Before the first setting nothing is remembered, so that it is not skipped;
\* after it, the chip has the window remembered if the setting lost nothing.
Remembered == IF Started THEN missed = {} => chipwin = lastaddr ELSE lastaddr = 0

WinInv == Remembered /\ RightAddress

-----------------------------------------------------------------------------
(* The window.                                                             *)

\* Division by a positive number.
LEMMA DivMod ==
  ASSUME NEW L \in Nat \ {0}, NEW q \in Nat, NEW r \in 0..L-1
  PROVE  (L * q + r) \div L = q /\ (L * q + r) % L = r
OBVIOUS

LEMMA Split ==
  ASSUME NEW L \in Nat \ {0}, NEW n \in Nat
  PROVE  n \div L \in Nat /\ n % L \in 0..L-1 /\ n = L * (n \div L) + (n % L)
OBVIOUS

\* Three bytes hold a window number, whatever the values of a byte.
LEMMA ThreeBytes ==
  ASSUME NEW b \in Nat \ {0}, NEW w \in Nat
  PROVE  (w % 2) + 2 * ((w \div 2) % b) + 2 * b * (w \div (2 * b)) = w
<1>1. PICK v \in Nat, r \in 0..1 : v = w \div 2 /\ r = w % 2 /\ w = 2 * v + r
  OBVIOUS
<1>2. PICK q \in Nat, s \in 0..b-1 : q = v \div b /\ s = v % b /\ v = b * q + s
  BY Split
<1>3. 2 * b \in Nat \ {0} /\ 2 * s + r \in 0 .. (2 * b) - 1
  BY <1>1, <1>2
<1>4. w = (2 * b) * q + (2 * s + r)
  <2>1. PICK m \in Nat : m = b * q
    OBVIOUS
  <2>2. w = 2 * m + (2 * s + r)
    BY <1>1, <1>2, <2>1
  <2>3. 2 * m = (2 * b) * q
    BY <2>1
  <2> QED BY <2>2, <2>3
<1>5. w \div (2 * b) = q
  <2> DEFINE B == 2 * b
             t == 2 * s + r
  <2>1. B \in Nat \ {0} /\ t \in 0 .. B - 1 /\ w = B * q + t
    BY <1>3, <1>4
  <2> HIDE DEF B, t
  <2>2. w \div B = q
    BY <1>2, <2>1, DivMod
  <2> QED BY <2>2 DEF B
<1> QED BY <1>1, <1>2, <1>4, <1>5

LEMMA BytesHold ==
  ASSUME NEW w \in Nat
  PROVE  FromBytes(Bytes(w)) = w
BY ThreeBytes, BakWindowAssumption DEF FromBytes, Bytes

\* A setting that loses nothing leaves the chip at that window, be it skipped
\* or not.
LEMMA SettingSets ==
  ASSUME NEW w \in Nat, sdio_bak_window(w),
         lastaddr = w => Started, Remembered, missed' = {}
  PROVE  chipwin' = w
<1>1. CASE skipped'
  <2>1. w = lastaddr /\ chipwin' = chipwin /\ missed' = missed
    BY <1>1 DEF sdio_bak_window
  <2> QED BY <2>1 DEF Remembered
<1>2. CASE ~skipped'
  <2>1. WriteBytes(w, {})
    BY <1>2 DEF sdio_bak_window
  <2>2. chipwin' = FromBytes([i \in 1..3 |-> Bytes(w)[i]])
    BY <2>1 DEF WriteBytes
  <2>3. [i \in 1..3 |-> Bytes(w)[i]] = Bytes(w)
    BY DEF Bytes
  <2> QED BY <2>2, <2>3, BytesHold
<1> QED BY <1>1, <1>2

LEMMA WinInit == Init => WinInv
BY DEF Init, WinInv, Remembered, RightAddress, Started

LEMMA WinStep ==
  ASSUME InWindow, WinInv, [Next]_vars
  PROVE  WinInv'
<1> USE BakWindowAssumption
<1>1. ASSUME NEW w \in Wins, OpenWindow(w)
      PROVE  WinInv'
  <2>1. w \in Nat /\ sdio_bak_window(w) /\ lastaddr' = w
    BY <1>1 DEF OpenWindow, sdio_bak_window
  <2>2. want' = At(w, 0) /\ hit' = At(chipwin', 0)
    BY <1>1 DEF OpenWindow, Reach
  <2>3. Started'
    BY <2>2 DEF Started, At
  <2>4. lastaddr = w => Started
    BY <1>1 DEF OpenWindow, WinInv, Remembered
  <2>5. missed' = {} => chipwin' = w
    BY <2>1, <2>4, SettingSets DEF WinInv
  <2> QED BY <2>1, <2>2, <2>3, <2>5 DEF WinInv, Remembered, RightAddress
<1>2. ASSUME NEW off \in Offsets, ResidualAccess(off)
      PROVE  WinInv'
  <2>1. Started /\ want' = At(lastaddr, off) /\ hit' = At(chipwin, off)
        /\ UNCHANGED <<lastaddr, chipwin, missed>>
    BY <1>2 DEF ResidualAccess
  <2>2. Started'
    BY <2>1 DEF Started, At
  <2> QED BY <2>1, <2>2 DEF WinInv, Remembered, RightAddress
<1>3. ASSUME NEW off \in Offsets, NEW w \in DirectWins, DirectAccess(w, off)
      PROVE  WinInv'
  <2>1. w \in Nat /\ sdio_bak_window(w) /\ lastaddr' = w /\ Started
    BY <1>3 DEF DirectAccess, sdio_bak_window
  <2>2. want' = At(w, off) /\ hit' = At(chipwin', off)
    BY <1>3 DEF DirectAccess, Reach, InWindow
  <2>3. Started'
    BY <2>2 DEF Started, At
  <2>4. missed' = {} => chipwin' = w
    BY <2>1, SettingSets DEF WinInv
  <2> QED BY <2>1, <2>2, <2>3, <2>4 DEF WinInv, Remembered, RightAddress
<1>4. CASE UNCHANGED vars
  BY <1>4 DEF vars, WinInv, Remembered, RightAddress, Started
<1> QED BY <1>1, <1>2, <1>3, <1>4 DEF Next

-----------------------------------------------------------------------------
(* The bring-up.                                                           *)

\* Each step of sdio_init is one of BakWindow's, or none.
LEMMA UpStep ==
  ASSUME [UpNext]_upVars
  PROVE  [Next]_vars
<1>1. CASE UNCHANGED upVars
  BY <1>1 DEF upVars, winVars, vars
<1>2. CASE UpNext
  <2>1. at \in DOMAIN Script
    BY <1>2 DEF UpNext, Done
  <2>2. /\ Step.op = "open" => Step.win \in Wins
        /\ Step.op = "load" => Step.wins \subseteq Wins
        /\ Step.op = "residual" => Step.off \in Offsets
        /\ Step.op \in {"bak_write32", "bak_read32", "bak_check"} =>
             Step.addr.win \in DirectWins /\ Step.addr.off \in Offsets
    BY <2>1, ScriptAssumption DEF Step
  <2>4. CASE CardCommand \/ RegisterWrite \/ RegisterRead \/ RegisterCheck
    BY <2>4 DEF CardCommand, RegisterWrite, RegisterRead, RegisterCheck, winVars, vars
  <2>5. CASE WindowOpen
    BY <2>2, <2>5 DEF WindowOpen, Next
  <2>6. CASE WindowUse
    BY <2>2, <2>6 DEF WindowUse, Next
  <2>7. CASE CoreWrite \/ CoreRead \/ CoreCheck
    <3>1. Step.op \in {"bak_write32", "bak_read32", "bak_check"} /\ Access(Step.addr)
      BY <2>7 DEF CoreWrite, CoreRead, CoreCheck
    <3> QED BY <2>2, <3>1 DEF Access, Next
  <2>8. CASE LoadImage
    BY <2>2, <2>8 DEF LoadImage, Next
  <2> QED BY <1>2, <2>4, <2>5, <2>6, <2>7, <2>8 DEF UpNext
<1> QED BY <1>1, <1>2

\* What sdio_init does with the window is what BakWindow allows.
THEOREM UsesWindow == UpSpec => Spec
<1>1. UpInit => Init
  BY DEF UpInit
<1> QED BY <1>1, UpStep, PTL DEF UpSpec, Spec

-----------------------------------------------------------------------------
(* Theorems of the window.                                                 *)

\* Whatever windows and offsets a program uses, and whatever settings of the
\* window have lost before: if the last one lost nothing, every access by way
\* of sdio_bak_window goes to the backplane address it is meant for.
THEOREM WindowRight == ASSUME InWindow PROVE Spec => []RightAddress
<1>1. WinInv => RightAddress
  BY DEF WinInv
<1> QED BY WinInit, WinStep, InWindow, <1>1, PTL DEF Spec

\* So it does throughout the bring-up, for any losses of its commands.
THEOREM BringUpRight == ASSUME InWindow PROVE UpSpec => []RightAddress
BY UsesWindow, WindowRight, InWindow, PTL

-----------------------------------------------------------------------------
(* The steps of sdio_init, by their place.                                 *)

Places == [where : {"backplane"}, win : Nat, off : Nat]

Steps ==
  [op : {"command"}, num : Nat, arg : Nat]
    \union [op : {"write", "check"}, func : {BUS, BAK}, reg : Nat, val : Nat]
    \union [op : {"read"}, func : {BUS, BAK}, reg : Nat]
    \union [op : {"open"}, win : Nat] \union [op : {"residual"}, off : Nat]
    \union [op : {"bak_write32", "bak_check"}, addr : Places, val : Nat]
    \union [op : {"bak_read32"}, addr : Places]
    \union [op : {"load"}, image : {"firmware", "nvram"}, wins : SUBSET Nat]
    \union [op : {"radio"}]

\* A part of the script and its length.
Part(s, n) == s \in Seq(Steps) /\ Len(s) = n

\* u is s followed by t, of m and n steps.
Joint(u, s, m, t, n, k) ==
  /\ Part(u, k)
  /\ \A i \in 1..m : u[i] = s[i]
  /\ \A i \in m + 1 .. k : u[i] = t[i - m]

LEMMA Joined ==
  ASSUME NEW m \in Nat, NEW n \in Nat, NEW k \in Nat, k = m + n,
         NEW s, NEW t, Part(s, m), Part(t, n)
  PROVE  Joint(s \o t, s, m, t, n, k) /\ Part(s \o t, k)
<1>1. /\ s \o t \in Seq(Steps) /\ Len(s \o t) = k
      /\ \A i \in 1..k : (s \o t)[i] = IF i <= m THEN s[i] ELSE t[i - m]
  BY ConcatProperties DEF Part
<1> QED BY <1>1 DEF Part, Joint

LEMMA AddrMade ==
  ASSUME NEW a \in Nat
  PROVE  Addr(a) \in Places
<1>1. Window(a) \in Nat /\ OffsetIn(a) \in Nat
  BY DEF Window, OffsetIn, SB_WIN_SIZE
<1> QED BY <1>1 DEF Addr, At, Places

LEMMA StepsMade ==
  ASSUME NEW a \in Nat, NEW v \in Nat, NEW f \in {BUS, BAK}
  PROVE  /\ Cmd(a, v) \in Steps /\ Write(f, a, v) \in Steps
         /\ Check(f, a, v) \in Steps /\ Read(f, a) \in Steps
         /\ Open(a) \in Steps /\ Residual(a) \in Steps
         /\ BakWrite(a, v) \in Steps /\ BakCheck(a, v) \in Steps
         /\ BakRead(a) \in Steps /\ Radio \in Steps
<1>1. Window(a) \in Nat /\ OffsetIn(a) \in Nat /\ Addr(a) \in Places
  BY AddrMade DEF Window, OffsetIn, SB_WIN_SIZE
<1>2. Cmd(a, v) \in Steps /\ Write(f, a, v) \in Steps
  BY DEF Cmd, Write, Steps
<1>3. Check(f, a, v) \in Steps /\ Read(f, a) \in Steps
  BY DEF Check, Read, Steps
<1>4. Open(a) \in Steps /\ Residual(a) \in Steps /\ Radio \in Steps
  BY <1>1 DEF Open, Residual, Radio, Steps
<1>5. BakWrite(a, v) \in Steps /\ BakCheck(a, v) \in Steps /\ BakRead(a) \in Steps
  BY <1>1 DEF BakWrite, BakCheck, BakRead, Steps
<1> QED BY <1>2, <1>3, <1>4, <1>5
LEMMA BackplaneRegs ==
  /\ MAC_IOCTRL_REG = \h18101408 /\ MAC_RESETCTRL_REG = \h18101800
  /\ SB_INT_STATUS_REG = \h18002020 /\ SB_INT_HOST_MASK_REG = \h18002024
  /\ SB_TO_SB_MBOX_REG = \h18002040 /\ SB_TO_SB_MBOX_DATA_REG = \h18002048
  /\ SB_TO_HOST_MBOX_DATA_REG = \h1800204c
  /\ ARM_IOCTRL_REG = \h18103408 /\ ARM_RESETCTRL_REG = \h18103800
  /\ SRAM_BASE_ADDR = \h18004000 /\ SRAM_BANKX_IDX_REG = \h18004010
  /\ SRAM_UNKNOWN_REG = \h18004040 /\ SRAM_BANKX_PDA_REG = \h18004044
  /\ SRAM_IOCTRL_REG = \h18104408 /\ SRAM_RESETCTRL_REG = \h18104800
  /\ SR_CONTROL1 = \h18000508 /\ BAK_BASE_ADDR = \h18000000
BY DEF MAC_IOCTRL_REG, MAC_RESETCTRL_REG, MAC_BASE_WRAP, MAC_BASE_ADDR,
       SB_INT_STATUS_REG, SB_INT_HOST_MASK_REG, SB_TO_SB_MBOX_REG,
       SB_TO_SB_MBOX_DATA_REG, SB_TO_HOST_MBOX_DATA_REG, SB_BASE_ADDR,
       ARM_IOCTRL_REG, ARM_RESETCTRL_REG, ARM_BASE_WRAP, ARM_BASE_ADDR,
       SRAM_BASE_ADDR, SRAM_BANKX_IDX_REG, SRAM_UNKNOWN_REG, SRAM_BANKX_PDA_REG,
       SRAM_IOCTRL_REG, SRAM_RESETCTRL_REG, SRAM_BASE_WRAP, SR_CONTROL1, BAK_BASE_ADDR

LEMMA BusRegs ==
  /\ BUS_IOEN_REG = 2 /\ BUS_IORDY_REG = 3 /\ BUS_INTEN_REG = 4 /\ BUS_INTPEND_REG = 5
  /\ BUS_BI_CTRL_REG = 7 /\ BUS_SPEED_CTRL_REG = 19 /\ BUS_BRCM_CARDCAP = 240
  /\ BUS_BAK_BLKSIZE_REG = 272 /\ BUS_RAD_BLKSIZE_REG = 528
  /\ BAK_CHIP_CLOCK_CSR_REG = \h1000e /\ BAK_PULLUP_REG = \h1000f
  /\ BAK_WAKEUP_REG = \h1001e
  /\ Bit(BAK) = 2 /\ Bit(RAD) = 4 /\ BUS = 0 /\ BAK = 1
BY DEF BUS_IOEN_REG, BUS_IORDY_REG, BUS_INTEN_REG, BUS_INTPEND_REG, BUS_BI_CTRL_REG,
       BUS_SPEED_CTRL_REG, BUS_BRCM_CARDCAP, BUS_BAK_BLKSIZE_REG, BUS_RAD_BLKSIZE_REG,
       BAK_CHIP_CLOCK_CSR_REG, BAK_PULLUP_REG, BAK_WAKEUP_REG, Bit, BUS, BAK, RAD

LEMMA BusParts ==
  /\ Part(Identify, 8) /\ Part(BusModes, 6) /\ Part(EnableBackplane, 2)
  /\ Part(CardControl, 5) /\ Part(ClockCheck, 3) /\ Part(RadioStart, 3)
<1>1. Part(Identify, 8)
  BY StepsMade, BusRegs DEF Identify, Part
<1>2. Part(BusModes, 6)
  BY StepsMade, BusRegs DEF BusModes, Part
<1>3. Part(EnableBackplane, 2)
  BY StepsMade, BusRegs DEF EnableBackplane, Part
<1>4. Part(CardControl, 5)
  BY StepsMade, BusRegs DEF CardControl, Part
<1>5. Part(ClockCheck, 3)
  BY StepsMade, BusRegs DEF ClockCheck, Part
<1>6. Part(RadioStart, 3)
  BY StepsMade, BusRegs DEF RadioStart, Part
<1> QED BY <1>1, <1>2, <1>3, <1>4, <1>5, <1>6

LEMMA BackplaneParts ==
  /\ Part(WindowAndClock, 8) /\ Part(CoreReset, 12) /\ Part(Banks, 8)
  /\ Part(Images, 5) /\ Part(SramLook, 3) /\ Part(ArmRelease, 4)
  /\ Part(HighClock, 7) /\ Part(Interrupts, 18)
<1>1. Part(WindowAndClock, 8)
  BY StepsMade, BusRegs, BackplaneRegs DEF WindowAndClock, Part, SB_32BIT_WIN
<1>2. Part(CoreReset, 12)
  BY StepsMade, BackplaneRegs DEF CoreReset, Part
<1>3. Part(Banks, 8)
  BY StepsMade, BackplaneRegs DEF Banks, Part
<1>4. Part(Images, 5)
  <2>1. Load("firmware", 0..11) \in Steps /\ Load("nvram", {15}) \in Steps
    BY DEF Load, Steps
  <2> QED BY <2>1, StepsMade, BusRegs DEF Images, Part
<1>5. Part(SramLook, 3)
  BY StepsMade, BackplaneRegs DEF SramLook, Part
<1>6. Part(ArmRelease, 4)
  BY StepsMade, BackplaneRegs DEF ArmRelease, Part
<1>7. Part(HighClock, 7)
  BY StepsMade, BusRegs, BackplaneRegs DEF HighClock, Part
<1>8. Part(Interrupts, 18)
  BY StepsMade, BusRegs, BackplaneRegs DEF Interrupts, Part
<1> QED BY <1>1, <1>2, <1>3, <1>4, <1>5, <1>6, <1>7, <1>8
\* Where each part of the script stands in it.
LEMMA FirstHalf ==
  /\ Part(BeforeImages, 52)
  /\ \A i \in 1..8 : BeforeImages[i] = Identify[i]
  /\ \A i \in 9..14 : BeforeImages[i] = BusModes[i - 8]
  /\ \A i \in 15..16 : BeforeImages[i] = EnableBackplane[i - 14]
  /\ \A i \in 17..24 : BeforeImages[i] = WindowAndClock[i - 16]
  /\ \A i \in 25..36 : BeforeImages[i] = CoreReset[i - 24]
  /\ \A i \in 37..44 : BeforeImages[i] = Banks[i - 36]
  /\ \A i \in 45..49 : BeforeImages[i] = CardControl[i - 44]
  /\ \A i \in 50..52 : BeforeImages[i] = ClockCheck[i - 49]
<1> DEFINE A2 == Identify \o BusModes
           A3 == A2 \o EnableBackplane
           A4 == A3 \o WindowAndClock
           A5 == A4 \o CoreReset
           A6 == A5 \o Banks
           A7 == A6 \o CardControl
           A8 == A7 \o ClockCheck
<1>1. BeforeImages = A8
  BY DEF BeforeImages
<1>2. Joint(A2, Identify, 8, BusModes, 6, 14) /\ Part(A2, 14)
  BY Joined, BusParts
<1> HIDE DEF A2
<1>3. Joint(A3, A2, 14, EnableBackplane, 2, 16) /\ Part(A3, 16)
  BY <1>2, Joined, BusParts
<1> HIDE DEF A3
<1>4. Joint(A4, A3, 16, WindowAndClock, 8, 24) /\ Part(A4, 24)
  BY <1>3, Joined, BackplaneParts
<1> HIDE DEF A4
<1>5. Joint(A5, A4, 24, CoreReset, 12, 36) /\ Part(A5, 36)
  BY <1>4, Joined, BackplaneParts
<1> HIDE DEF A5
<1>6. Joint(A6, A5, 36, Banks, 8, 44) /\ Part(A6, 44)
  BY <1>5, Joined, BackplaneParts
<1> HIDE DEF A6
<1>7. Joint(A7, A6, 44, CardControl, 5, 49) /\ Part(A7, 49)
  BY <1>6, Joined, BusParts
<1> HIDE DEF A7
<1>8. Joint(A8, A7, 49, ClockCheck, 3, 52) /\ Part(A8, 52)
  BY <1>7, Joined, BusParts
<1> HIDE DEF A8
<1> QED BY <1>1, <1>2, <1>3, <1>4, <1>5, <1>6, <1>7, <1>8
       DEF Joint

LEMMA SecondHalf ==
  /\ Part(Script, 92)
  /\ \A i \in 1..52 : Script[i] = BeforeImages[i]
  /\ \A i \in 53..57 : Script[i] = Images[i - 52]
  /\ \A i \in 58..60 : Script[i] = SramLook[i - 57]
  /\ \A i \in 61..64 : Script[i] = ArmRelease[i - 60]
  /\ \A i \in 65..71 : Script[i] = HighClock[i - 64]
  /\ \A i \in 72..74 : Script[i] = RadioStart[i - 71]
  /\ \A i \in 75..92 : Script[i] = Interrupts[i - 74]
<1> DEFINE A2 == BeforeImages \o Images
           A3 == A2 \o SramLook
           A4 == A3 \o ArmRelease
           A5 == A4 \o HighClock
           A6 == A5 \o RadioStart
           A7 == A6 \o Interrupts
<1>1. Script = A7
  BY DEF Script
<1>2. Joint(A2, BeforeImages, 52, Images, 5, 57) /\ Part(A2, 57)
  <2>1. Part(BeforeImages, 52)
    BY FirstHalf
  <2> QED BY <2>1, Joined, BackplaneParts
<1> HIDE DEF A2
<1>3. Joint(A3, A2, 57, SramLook, 3, 60) /\ Part(A3, 60)
  BY <1>2, Joined, BackplaneParts
<1> HIDE DEF A3
<1>4. Joint(A4, A3, 60, ArmRelease, 4, 64) /\ Part(A4, 64)
  BY <1>3, Joined, BackplaneParts
<1> HIDE DEF A4
<1>5. Joint(A5, A4, 64, HighClock, 7, 71) /\ Part(A5, 71)
  BY <1>4, Joined, BackplaneParts
<1> HIDE DEF A5
<1>6. Joint(A6, A5, 71, RadioStart, 3, 74) /\ Part(A6, 74)
  BY <1>5, Joined, BusParts
<1> HIDE DEF A6
<1>7. Joint(A7, A6, 74, Interrupts, 18, 92) /\ Part(A7, 92)
  BY <1>6, Joined, BackplaneParts
<1> HIDE DEF A7
<1> QED BY <1>1, <1>2, <1>3, <1>4, <1>5, <1>6, <1>7
       DEF Joint
\* What the step at i may be: those that are not looked at by name below leave
\* alone all that the invariants speak of.
KeptOffsets == {\h3408, \h3800, \h4408, \h4800}

PlainStep(i, s) ==
  /\ s \in Steps
  /\ s.op = "command" => i \in 3..8
  /\ s.op = "write" /\ s.reg \in KeptRegs =>
       i \in {10, 11, 15, 19, 21, 49, 50, 51, 66, 67, 70, 72}
  /\ s.op = "check" => i \in {16, 45, 52, 69, 74}
  /\ s.op \in {"open", "residual"} => i > 16 /\ i \notin 67..69
  /\ s.op = "load" => i \in {53, 56}
  /\ s.op \in {"bak_write32", "bak_read32", "bak_check"} =>
       i > 24 /\ i \notin 50..53 /\ i \notin 65..70 /\ ImageOf(s.addr.win) = {}
  /\ s.op = "bak_write32" /\ s.addr.off \in KeptOffsets =>
       i \in {25, 29, 30, 31, 61, 62, 63}
  /\ s.op = "bak_check" => i \in {32, 35, 36}

LEMMA PlainMade ==
  ASSUME NEW i \in Nat, NEW a \in Nat, NEW v \in Nat, NEW f \in {BUS, BAK}
  PROVE  /\ i \in 3..8 => PlainStep(i, Cmd(a, v))
         /\ a \notin KeptRegs => PlainStep(i, Write(f, a, v))
         /\ PlainStep(i, Read(f, a)) /\ PlainStep(i, Radio)
         /\ i > 16 /\ i \notin 67..69 =>
              PlainStep(i, Open(a)) /\ PlainStep(i, Residual(a))
         /\ i > 24 /\ i \notin 50..53 /\ i \notin 65..70 /\ ImageOf(Window(a)) = {} =>
              /\ PlainStep(i, BakRead(a))
              /\ OffsetIn(a) \notin KeptOffsets => PlainStep(i, BakWrite(a, v))
<1>1. i \in 3..8 => PlainStep(i, Cmd(a, v))
  BY StepsMade DEF PlainStep, Cmd
<1>2. a \notin KeptRegs => PlainStep(i, Write(f, a, v))
  BY StepsMade DEF PlainStep, Write
<1>3. PlainStep(i, Read(f, a)) /\ PlainStep(i, Radio)
  BY StepsMade DEF PlainStep, Read, Radio
<1>4. i > 16 /\ i \notin 67..69 => PlainStep(i, Open(a)) /\ PlainStep(i, Residual(a))
  BY StepsMade DEF PlainStep, Open, Residual
<1>5. i > 24 /\ i \notin 50..53 /\ i \notin 65..70 /\ ImageOf(Window(a)) = {} =>
        /\ PlainStep(i, BakRead(a))
        /\ OffsetIn(a) \notin KeptOffsets => PlainStep(i, BakWrite(a, v))
  BY StepsMade DEF PlainStep, BakRead, BakWrite, Addr, At
<1> QED BY <1>1, <1>2, <1>3, <1>4, <1>5

LEMMA BackplanePlaces ==
  /\ \A a \in {MAC_IOCTRL_REG, MAC_RESETCTRL_REG, SB_INT_STATUS_REG, SB_INT_HOST_MASK_REG,
               SB_TO_SB_MBOX_REG, SB_TO_SB_MBOX_DATA_REG, SRAM_BANKX_IDX_REG,
               SRAM_BANKX_PDA_REG} :
       a \in Nat /\ ImageOf(Window(a)) = {} /\ OffsetIn(a) \notin KeptOffsets
  /\ \A a \in {SB_TO_HOST_MBOX_DATA_REG, SRAM_BASE_ADDR, SRAM_UNKNOWN_REG, SR_CONTROL1,
               ARM_IOCTRL_REG, SRAM_IOCTRL_REG, SRAM_RESETCTRL_REG, \h6fffc} :
       a \in Nat /\ ImageOf(Window(a)) = {}
BY BackplaneRegs, SMT DEF Window, OffsetIn, SB_WIN_SIZE, KeptOffsets, ImageOf

LEMMA KeptPlaces ==
  /\ Addr(ARM_IOCTRL_REG) = At(12320, \h3408)
  /\ Addr(ARM_RESETCTRL_REG) = At(12320, \h3800)
  /\ Addr(SRAM_IOCTRL_REG) = At(12320, \h4408)
  /\ Addr(SRAM_RESETCTRL_REG) = At(12320, \h4800)
BY BackplaneRegs, SMT DEF Addr, Window, OffsetIn, SB_WIN_SIZE

\* The steps that set or check what is kept of the chip.
LEMMA CommandsAt ==
  /\ Script[3] = Cmd(0, 0) /\ Script[4] = Cmd(8, \h1aa) /\ Script[5] = Cmd(5, 0)
  /\ \E v \in Nat \ {0} : Script[6] = Cmd(5, v)
  /\ Script[7] = Cmd(3, 0) /\ Script[8] = Cmd(7, 0)
<1>1. /\ Script[3] = Cmd(0, 0) /\ Script[4] = Cmd(8, \h1aa) /\ Script[5] = Cmd(5, 0)
      /\ Script[7] = Cmd(3, 0) /\ Script[8] = Cmd(7, 0)
  BY FirstHalf, SecondHalf, SMT DEF Identify
<1>2. Script[6] = Cmd(5, \h200000) /\ \h200000 \in Nat \ {0}
  BY FirstHalf, SecondHalf, SMT DEF Identify
<1> QED BY <1>1, <1>2, SMT

LEMMA BusWritesAt ==
  /\ Script[10] = Write(BUS, BUS_BI_CTRL_REG, \h42)
  /\ Script[11] = Write(BUS, BUS_BAK_BLKSIZE_REG, 64)
  /\ Script[15] = Write(BUS, BUS_IOEN_REG, 2) /\ Script[49] = Write(BUS, BUS_IOEN_REG, 2)
  /\ Script[72] = Write(BUS, BUS_IOEN_REG, 6)
<1>1. Script[10] = Write(BUS, BUS_BI_CTRL_REG, \h42)
  BY FirstHalf, SecondHalf, SMT DEF BusModes
<1>2. Script[11] = Write(BUS, BUS_BAK_BLKSIZE_REG, 64)
  BY FirstHalf, SecondHalf, SMT DEF BusModes
<1>3. Script[15] = Write(BUS, BUS_IOEN_REG, 2)
  BY FirstHalf, SecondHalf, BusRegs, SMT DEF EnableBackplane
<1>4. Script[49] = Write(BUS, BUS_IOEN_REG, 2)
  BY FirstHalf, SecondHalf, BusRegs, SMT DEF CardControl
<1>5. Script[72] = Write(BUS, BUS_IOEN_REG, 6)
  BY SecondHalf, BusRegs, SMT DEF RadioStart
<1> QED BY <1>1, <1>2, <1>3, <1>4, <1>5

LEMMA ClockWritesAt ==
  /\ Script[19] = Write(BAK, BAK_CHIP_CLOCK_CSR_REG, \h28)
  /\ Script[21] = Write(BAK, BAK_CHIP_CLOCK_CSR_REG, \h21)
  /\ Script[50] = Write(BAK, BAK_CHIP_CLOCK_CSR_REG, 0)
  /\ Script[51] = Write(BAK, BAK_CHIP_CLOCK_CSR_REG, 8)
  /\ Script[66] = Write(BAK, BAK_CHIP_CLOCK_CSR_REG, 0)
  /\ Script[67] = Write(BAK, BAK_CHIP_CLOCK_CSR_REG, \h10)
  /\ Script[70] = Write(BAK, BAK_CHIP_CLOCK_CSR_REG, \hd2)
<1>1. /\ Script[19] = Write(BAK, BAK_CHIP_CLOCK_CSR_REG, \h28)
      /\ Script[21] = Write(BAK, BAK_CHIP_CLOCK_CSR_REG, \h21)
  BY FirstHalf, SecondHalf, SMT DEF WindowAndClock
<1>2. /\ Script[50] = Write(BAK, BAK_CHIP_CLOCK_CSR_REG, 0)
      /\ Script[51] = Write(BAK, BAK_CHIP_CLOCK_CSR_REG, 8)
  BY FirstHalf, SecondHalf, SMT DEF ClockCheck
<1>3. /\ Script[66] = Write(BAK, BAK_CHIP_CLOCK_CSR_REG, 0)
      /\ Script[67] = Write(BAK, BAK_CHIP_CLOCK_CSR_REG, \h10)
      /\ Script[70] = Write(BAK, BAK_CHIP_CLOCK_CSR_REG, \hd2)
  BY SecondHalf, SMT DEF HighClock
<1> QED BY <1>1, <1>2, <1>3

LEMMA ChecksAt ==
  /\ Script[16] = Check(BUS, BUS_IORDY_REG, 2) /\ Script[45] = Check(BUS, \hf1, 1)
  /\ Script[52] = Check(BAK, BAK_CHIP_CLOCK_CSR_REG, \h48)
  /\ Script[69] = Check(BAK, BAK_CHIP_CLOCK_CSR_REG, \hd0)
  /\ Script[74] = Check(BUS, BUS_IORDY_REG, 6)
<1>1. Script[16] = Check(BUS, BUS_IORDY_REG, 2)
  BY FirstHalf, SecondHalf, SMT DEF EnableBackplane
<1>2. Script[45] = Check(BUS, \hf1, 1)
  BY FirstHalf, SecondHalf, SMT DEF CardControl
<1>3. Script[52] = Check(BAK, BAK_CHIP_CLOCK_CSR_REG, \h48)
  BY FirstHalf, SecondHalf, SMT DEF ClockCheck
<1>4. Script[69] = Check(BAK, BAK_CHIP_CLOCK_CSR_REG, \hd0)
  BY SecondHalf, SMT DEF HighClock
<1>5. Script[74] = Check(BUS, BUS_IORDY_REG, 6)
  BY SecondHalf, SMT DEF RadioStart
<1> QED BY <1>1, <1>2, <1>3, <1>4, <1>5

LEMMA CoreStepsAt ==
  /\ Script[25] = BakWrite(ARM_IOCTRL_REG, 3) /\ Script[29] = BakWrite(SRAM_IOCTRL_REG, 3)
  /\ Script[30] = BakWrite(SRAM_RESETCTRL_REG, 0) /\ Script[31] = BakWrite(SRAM_IOCTRL_REG, 1)
  /\ Script[32] = BakCheck(SRAM_IOCTRL_REG, 1) /\ Script[35] = BakCheck(SRAM_IOCTRL_REG, 1)
  /\ Script[36] = BakCheck(SRAM_RESETCTRL_REG, 0)
  /\ Script[61] = BakWrite(ARM_IOCTRL_REG, 3) /\ Script[62] = BakWrite(ARM_RESETCTRL_REG, 0)
  /\ Script[63] = BakWrite(ARM_IOCTRL_REG, 1)
<1>1. /\ Script[25] = BakWrite(ARM_IOCTRL_REG, 3) /\ Script[29] = BakWrite(SRAM_IOCTRL_REG, 3)
      /\ Script[30] = BakWrite(SRAM_RESETCTRL_REG, 0)
      /\ Script[31] = BakWrite(SRAM_IOCTRL_REG, 1)
  BY FirstHalf, SecondHalf, SMT DEF CoreReset
<1>2. /\ Script[32] = BakCheck(SRAM_IOCTRL_REG, 1) /\ Script[35] = BakCheck(SRAM_IOCTRL_REG, 1)
      /\ Script[36] = BakCheck(SRAM_RESETCTRL_REG, 0)
  BY FirstHalf, SecondHalf, SMT DEF CoreReset
<1>3. /\ Script[61] = BakWrite(ARM_IOCTRL_REG, 3) /\ Script[62] = BakWrite(ARM_RESETCTRL_REG, 0)
      /\ Script[63] = BakWrite(ARM_IOCTRL_REG, 1)
  BY SecondHalf, SMT DEF ArmRelease
<1> QED BY <1>1, <1>2, <1>3

LEMMA LoadsAt == Script[53] = Load("firmware", 0..11) /\ Script[56] = Load("nvram", {15})
BY SecondHalf, SMT DEF Images

\* A step that sets or checks one of the registers kept.
LEMMA PlainKeys ==
  ASSUME NEW i \in Nat, NEW v \in Nat
  PROVE  /\ \A f \in {BUS, BAK}, r \in Nat :
              /\ i \in {10, 11, 15, 19, 21, 49, 50, 51, 66, 67, 70, 72} =>
                   PlainStep(i, Write(f, r, v))
              /\ i \in {16, 45, 52, 69, 74} => PlainStep(i, Check(f, r, v))
         /\ \A a \in {ARM_IOCTRL_REG, ARM_RESETCTRL_REG, SRAM_IOCTRL_REG, SRAM_RESETCTRL_REG} :
              /\ i \in {25, 29, 30, 31, 61, 62, 63} => PlainStep(i, BakWrite(a, v))
              /\ i \in {32, 35, 36} => PlainStep(i, BakCheck(a, v))
         /\ i = 53 => PlainStep(i, Load("firmware", 0..11))
         /\ i = 56 => PlainStep(i, Load("nvram", {15}))
<1>1. ASSUME NEW f \in {BUS, BAK}, NEW r \in Nat
      PROVE  /\ i \in {10, 11, 15, 19, 21, 49, 50, 51, 66, 67, 70, 72} =>
                   PlainStep(i, Write(f, r, v))
             /\ i \in {16, 45, 52, 69, 74} => PlainStep(i, Check(f, r, v))
  BY StepsMade DEF PlainStep, Write, Check
<1>2. ASSUME NEW a \in {ARM_IOCTRL_REG, ARM_RESETCTRL_REG, SRAM_IOCTRL_REG, SRAM_RESETCTRL_REG}
      PROVE  /\ i \in {25, 29, 30, 31, 61, 62, 63} => PlainStep(i, BakWrite(a, v))
             /\ i \in {32, 35, 36} => PlainStep(i, BakCheck(a, v))
  <2>1. a \in Nat /\ ImageOf(Addr(a).win) = {}
    BY BackplaneRegs, KeptPlaces, SMT DEF At, ImageOf
  <2> QED BY <2>1, StepsMade DEF PlainStep, BakWrite, BakCheck
<1>3. i = 53 => PlainStep(i, Load("firmware", 0..11))
  BY DEF PlainStep, Load, Steps
<1>4. i = 56 => PlainStep(i, Load("nvram", {15}))
  BY DEF PlainStep, Load, Steps
<1> QED BY <1>1, <1>2, <1>3, <1>4

LEMMA PlainFirst == \A i \in 1..52 : PlainStep(i, Script[i])
<1>1. ASSUME NEW i \in 1..16
      PROVE  PlainStep(i, Script[i])
  <2>1. CASE i \in 1..8
    <3>1. Script[i] = Identify[i]
      BY <2>1, FirstHalf, SecondHalf
    <3>2. PlainStep(1, Identify[1]) /\ PlainStep(2, Identify[2])
      BY PlainMade, BusRegs, SMT DEF Identify, KeptRegs
    <3>3. \A j \in 3..8 : PlainStep(j, Identify[j])
      BY PlainMade, SMT DEF Identify
    <3> QED BY <2>1, <3>1, <3>2, <3>3
  <2>2. CASE i \in 9..14
    <3>1. Script[i] = BusModes[i - 8]
      BY <2>2, FirstHalf, SecondHalf
    <3>2. \A j \in {1, 4, 5, 6} : PlainStep(j + 8, BusModes[j])
      BY PlainMade, BusRegs, SMT DEF BusModes, KeptRegs
    <3>3. \A j \in {2, 3} : PlainStep(j + 8, BusModes[j])
      BY PlainKeys, BusRegs, SMT DEF BusModes
    <3>4. i - 8 \in 1..6 /\ i = (i - 8) + 8
      BY <2>2
    <3> QED BY <3>1, <3>2, <3>3, <3>4
  <2>3. CASE i \in 15..16
    <3>1. Script[i] = EnableBackplane[i - 14]
      BY <2>3, FirstHalf, SecondHalf
    <3>2. PlainStep(15, EnableBackplane[1]) /\ PlainStep(16, EnableBackplane[2])
      BY PlainKeys, BusRegs, SMT DEF EnableBackplane
    <3> QED BY <2>3, <3>1, <3>2
  <2> QED BY <2>1, <2>2, <2>3
<1>2. ASSUME NEW i \in 17..24
      PROVE  PlainStep(i, Script[i])
  <2>1. Script[i] = WindowAndClock[i - 16]
    BY FirstHalf, SecondHalf
  <2>2. \A j \in {1, 2, 4, 6, 7, 8} : PlainStep(j + 16, WindowAndClock[j])
    BY PlainMade, BusRegs, BackplaneRegs, SMT DEF WindowAndClock, SB_32BIT_WIN, KeptRegs
  <2>3. \A j \in {3, 5} : PlainStep(j + 16, WindowAndClock[j])
    BY PlainKeys, BusRegs, SMT DEF WindowAndClock
  <2>4. i - 16 \in 1..8 /\ i = (i - 16) + 16
    OBVIOUS
  <2> QED BY <2>1, <2>2, <2>3, <2>4
<1>3. ASSUME NEW i \in 25..36
      PROVE  PlainStep(i, Script[i])
  <2>1. Script[i] = CoreReset[i - 24]
    BY FirstHalf, SecondHalf
  <2>2. \A j \in {2, 3, 4, 9, 10} : PlainStep(j + 24, CoreReset[j])
    BY PlainMade, BusRegs, BackplanePlaces, SMT DEF CoreReset
  <2>3. \A j \in {1, 5, 6, 7, 8, 11, 12} : PlainStep(j + 24, CoreReset[j])
    BY PlainKeys, SMT DEF CoreReset
  <2>4. i - 24 \in 1..12 /\ i = (i - 24) + 24
    OBVIOUS
  <2> QED BY <2>1, <2>2, <2>3, <2>4
<1>4. ASSUME NEW i \in 37..44
      PROVE  PlainStep(i, Script[i])
  <2>1. Script[i] = Banks[i - 36]
    BY FirstHalf, SecondHalf
  <2>2. \A j \in 1..8 : PlainStep(j + 36, Banks[j])
    BY PlainMade, BusRegs, BackplanePlaces, SMT DEF Banks
  <2>3. i - 36 \in 1..8 /\ i = (i - 36) + 36
    OBVIOUS
  <2> QED BY <2>1, <2>2, <2>3
<1>5. ASSUME NEW i \in 45..52
      PROVE  PlainStep(i, Script[i])
  <2>1. CASE i \in 45..49
    <3>1. Script[i] = CardControl[i - 44]
      BY <2>1, FirstHalf, SecondHalf
    <3>2. \A j \in {2, 3, 4} : PlainStep(j + 44, CardControl[j])
      BY PlainMade, BusRegs, SMT DEF CardControl, KeptRegs
    <3>3. \A j \in {1, 5} : PlainStep(j + 44, CardControl[j])
      BY PlainKeys, BusRegs, SMT DEF CardControl
    <3>4. i - 44 \in 1..5 /\ i = (i - 44) + 44
      BY <2>1
    <3> QED BY <3>1, <3>2, <3>3, <3>4
  <2>2. CASE i \in 50..52
    <3>1. Script[i] = ClockCheck[i - 49]
      BY <2>2, FirstHalf, SecondHalf
    <3>2. \A j \in 1..3 : PlainStep(j + 49, ClockCheck[j])
      BY PlainKeys, BusRegs, SMT DEF ClockCheck
    <3>3. i - 49 \in 1..3 /\ i = (i - 49) + 49
      BY <2>2
    <3> QED BY <3>1, <3>2, <3>3
  <2> QED BY <2>1, <2>2
<1> QED BY <1>1, <1>2, <1>3, <1>4, <1>5

LEMMA PlainSecond == \A i \in 53..92 : PlainStep(i, Script[i])
<1>1. ASSUME NEW i \in 53..60
      PROVE  PlainStep(i, Script[i])
  <2>1. CASE i \in 53..57
    <3>1. Script[i] = Images[i - 52]
      BY <2>1, SecondHalf
    <3>2. \A j \in {2, 3, 5} : PlainStep(j + 52, Images[j])
      BY PlainMade, BusRegs, SMT DEF Images
    <3>3. \A j \in {1, 4} : PlainStep(j + 52, Images[j])
      BY PlainKeys, SMT DEF Images
    <3>4. i - 52 \in 1..5 /\ i = (i - 52) + 52
      BY <2>1
    <3> QED BY <3>1, <3>2, <3>3, <3>4
  <2>2. CASE i \in 58..60
    <3>1. Script[i] = SramLook[i - 57]
      BY <2>2, SecondHalf
    <3>2. \A j \in 1..3 : PlainStep(j + 57, SramLook[j])
      BY PlainMade, BusRegs, BackplanePlaces, SMT DEF SramLook
    <3>3. i - 57 \in 1..3 /\ i = (i - 57) + 57
      BY <2>2
    <3> QED BY <3>1, <3>2, <3>3
  <2> QED BY <2>1, <2>2
<1>2. ASSUME NEW i \in 61..64
      PROVE  PlainStep(i, Script[i])
  <2>1. Script[i] = ArmRelease[i - 60]
    BY SecondHalf
  <2>2. PlainStep(64, ArmRelease[4])
    BY PlainMade, BusRegs, BackplanePlaces, SMT DEF ArmRelease
  <2>3. \A j \in 1..3 : PlainStep(j + 60, ArmRelease[j])
    BY PlainKeys, SMT DEF ArmRelease
  <2>4. i - 60 \in 1..4 /\ i = (i - 60) + 60
    OBVIOUS
  <2> QED BY <2>1, <2>2, <2>3, <2>4
<1>3. ASSUME NEW i \in 65..71
      PROVE  PlainStep(i, Script[i])
  <2>1. Script[i] = HighClock[i - 64]
    BY SecondHalf
  <2>2. \A j \in {1, 4, 7} : PlainStep(j + 64, HighClock[j])
    BY PlainMade, BusRegs, BackplaneRegs, BackplanePlaces, SMT DEF HighClock
  <2>3. \A j \in {2, 3, 5, 6} : PlainStep(j + 64, HighClock[j])
    BY PlainKeys, BusRegs, SMT DEF HighClock
  <2>4. i - 64 \in 1..7 /\ i = (i - 64) + 64
    OBVIOUS
  <2> QED BY <2>1, <2>2, <2>3, <2>4
<1>4. ASSUME NEW i \in 72..74
      PROVE  PlainStep(i, Script[i])
  <2>1. Script[i] = RadioStart[i - 71]
    BY SecondHalf
  <2>2. PlainStep(73, RadioStart[2])
    BY PlainMade, BusRegs, SMT DEF RadioStart
  <2>3. PlainStep(72, RadioStart[1]) /\ PlainStep(74, RadioStart[3])
    BY PlainKeys, BusRegs, SMT DEF RadioStart
  <2> QED BY <2>1, <2>2, <2>3
<1>5. ASSUME NEW i \in 75..92
      PROVE  PlainStep(i, Script[i])
  <2>1. Script[i] = Interrupts[i - 74]
    BY SecondHalf
  <2>2. \A j \in 1..9 : PlainStep(j + 74, Interrupts[j])
    BY PlainMade, BusRegs, BackplaneRegs, BackplanePlaces, SMT DEF Interrupts, KeptRegs
  <2>3. \A j \in 10..18 : PlainStep(j + 74, Interrupts[j])
    BY PlainMade, BusRegs, BackplaneRegs, BackplanePlaces, SMT DEF Interrupts, KeptRegs
  <2>4. i - 74 \in 1..18 /\ i = (i - 74) + 74
    OBVIOUS
  <2> QED BY <2>1, <2>2, <2>3, <2>4
<1> QED BY <1>1, <1>2, <1>3, <1>4, <1>5

LEMMA PlainSteps == \A i \in 1..92 : PlainStep(i, Script[i])
BY PlainFirst, PlainSecond
-----------------------------------------------------------------------------
(* Types.                                                                  *)

\* Whatever is lost, the chip's register holds a number.
LEMMA WindowNumber ==
  ASSUME NEW w \in Nat, chipwin \in Nat, sdio_bak_window(w)
  PROVE  chipwin' \in Nat
<1> USE BakWindowAssumption
<1>1. ASSUME NEW f, f[1] \in Nat, f[2] \in Nat, f[3] \in Nat
      PROVE  FromBytes(f) \in Nat
  <2>1. PICK n \in Nat : n = 2 * ByteVals * f[3]
    BY <1>1
  <2> QED BY <1>1, <2>1 DEF FromBytes
<1>2. ASSUME NEW x \in Nat
      PROVE  Bytes(x)[1] \in Nat /\ Bytes(x)[2] \in Nat /\ Bytes(x)[3] \in Nat
  <2>1. x % 2 \in Nat /\ x \div 2 \in Nat
    OBVIOUS
  <2>2. (x \div 2) % ByteVals \in Nat
    BY <2>1, Split
  <2>3. 2 * ByteVals \in Nat \ {0}
    OBVIOUS
  <2>4. x \div (2 * ByteVals) \in Nat
    BY <2>3, Split
  <2> QED BY <2>1, <2>2, <2>4 DEF Bytes
<1>3. CASE skipped'
  BY <1>3 DEF sdio_bak_window
<1>4. CASE ~skipped'
  <2>1. PICK l \in SUBSET (1..3) : WriteBytes(w, l)
    BY <1>4 DEF sdio_bak_window
  <2> DEFINE f == [i \in 1..3 |-> IF i \in l THEN Bytes(chipwin)[i] ELSE Bytes(w)[i]]
  <2>2. f[1] \in Nat /\ f[2] \in Nat /\ f[3] \in Nat
    BY <1>2
  <2>3. chipwin' = FromBytes(f)
    BY <2>1 DEF WriteBytes
  <2> QED BY <1>1, <2>2, <2>3
<1> QED BY <1>3, <1>4

LEMMA WinTypeInit == Init => TypeOK
<1> SUFFICES ASSUME Init PROVE TypeOK
  OBVIOUS
<1>1. want.win = 0 /\ want.off = 0 /\ hit = want
  BY DEF Init
<1>2. lastaddr = 0 /\ chipwin \in Nat /\ missed \in SUBSET (1..3) /\ skipped \in BOOLEAN
  BY BakWindowAssumption DEF Init
<1> QED BY <1>1, <1>2 DEF TypeOK

LEMMA WinTypeStep ==
  ASSUME TypeOK, [Next]_vars
  PROVE  TypeOK'
<1> USE BakWindowAssumption DEF TypeOK
<1>1. ASSUME NEW w \in Wins, NEW off \in Offsets \union {0}, NEW top,
             sdio_bak_window(w), want' = At(w, off), hit' = Reach(top, off)
      PROVE  TypeOK'
  <2>1. chipwin' \in Nat
    BY <1>1, WindowNumber
  <2>2. lastaddr' \in Wins \union {0} /\ missed' \in SUBSET (1..3) /\ skipped' \in BOOLEAN
    BY <1>1 DEF sdio_bak_window
  <2>3. want'.win \in Nat /\ want'.off \in Offsets \union {0}
    BY <1>1 DEF At
  <2>4. hit'.win \in Nat /\ hit'.off \in Offsets \union {0}
    BY <1>1, <2>1 DEF Reach, Core, At
  <2> QED BY <2>1, <2>2, <2>3, <2>4
<1>2. ASSUME NEW w \in Wins, OpenWindow(w)
      PROVE  TypeOK'
  BY <1>1, <1>2 DEF OpenWindow
<1>3. ASSUME NEW off \in Offsets, ResidualAccess(off)
      PROVE  TypeOK'
  BY <1>3 DEF ResidualAccess, At
<1>4. ASSUME NEW off \in Offsets, NEW w \in DirectWins, DirectAccess(w, off)
      PROVE  TypeOK'
  BY <1>1, <1>4 DEF DirectAccess
<1>5. CASE UNCHANGED vars
  BY <1>5 DEF vars
<1> QED BY <1>2, <1>3, <1>4, <1>5 DEF Next

\* The registers of functions 0 and 1 are a function, so that writing one of
\* them leaves the others.
UpTyped == UpTypeOK /\ reg \in [KeptRegs -> Nat]

\* The number, place and contents of the next step.
LEMMA NextStep ==
  ASSUME UpTypeOK, UpNext
  PROVE  /\ at \in 1..92 /\ at' = at + 1
         /\ Step = Script[at] /\ PlainStep(at, Step)
<1>1. Len(Script) = 92 /\ Script \in Seq(Steps)
  BY SecondHalf DEF Part
<1>2. DOMAIN Script = 1..92
  BY <1>1, LenProperties
<1> QED BY <1>2, PlainSteps DEF UpNext, Done, Step

\* Registers change by a write that the card answers.
LEMMA RegChange ==
  ASSUME UpNext
  PROVE  \/ UNCHANGED reg
         \/ /\ Step.op = "write" /\ Step.reg \in KeptRegs
            /\ reg' = [reg EXCEPT ![Step.reg] = Step.val]
BY DEF UpNext, CardCommand, RegisterWrite, RegisterRead, RegisterCheck, WindowOpen,
       WindowUse, CoreWrite, CoreRead, CoreCheck, LoadImage

LEMMA CoreChange ==
  ASSUME UpNext
  PROVE  \/ UNCHANGED core
         \/ /\ Step.op = "bak_write32" /\ Access(Step.addr) /\ hit' \in KeptCores
            /\ core' = [core EXCEPT ![hit'] = Step.val]
BY DEF UpNext, CardCommand, RegisterWrite, RegisterRead, RegisterCheck, WindowOpen,
       WindowUse, CoreWrite, CoreRead, CoreCheck, LoadImage
\* When the registers kept are written, and with what.
LEMMA RegSteps ==
  ASSUME UpTypeOK, UpNext, Step.op = "write", Step.reg \in KeptRegs
  PROVE  \/ /\ Step.reg = BUS_IOEN_REG
            /\ <<at, Step.val>> \in {<<15, 2>>, <<49, 2>>, <<72, 6>>}
         \/ Step.reg = BUS_BI_CTRL_REG /\ at = 10 /\ Step.val = \h42
         \/ Step.reg = BUS_BAK_BLKSIZE_REG /\ at = 11 /\ Step.val = 64
         \/ /\ Step.reg = BAK_CHIP_CLOCK_CSR_REG
            /\ <<at, Step.val>> \in {<<19, \h28>>, <<21, \h21>>, <<50, 0>>, <<51, 8>>,
                                    <<66, 0>>, <<67, \h10>>, <<70, \hd2>>}
<1>1. at \in {10, 11, 15, 19, 21, 49, 50, 51, 66, 67, 70, 72} /\ Step = Script[at]
  BY NextStep, SMT DEF PlainStep
<1>2. CASE at \in {10, 11, 15, 49, 72}
  <2>1. at = 10 => Step.reg = BUS_BI_CTRL_REG /\ Step.val = \h42
    BY <1>1, BusWritesAt DEF Write
  <2>2. at = 11 => Step.reg = BUS_BAK_BLKSIZE_REG /\ Step.val = 64
    BY <1>1, BusWritesAt DEF Write
  <2>3. at \in {15, 49} => Step.reg = BUS_IOEN_REG /\ Step.val = 2
    BY <1>1, BusWritesAt DEF Write
  <2>4. at = 72 => Step.reg = BUS_IOEN_REG /\ Step.val = 6
    BY <1>1, BusWritesAt DEF Write
  <2> QED BY <1>2, <2>1, <2>2, <2>3, <2>4
<1>3. CASE at \in {19, 21, 50, 51, 66, 67, 70}
  <2>1. Step.reg = BAK_CHIP_CLOCK_CSR_REG
    BY <1>1, <1>3, ClockWritesAt DEF Write
  <2>2. (at = 19 => Step.val = \h28) /\ (at = 21 => Step.val = \h21)
    BY <1>1, ClockWritesAt DEF Write
  <2>3. (at = 50 => Step.val = 0) /\ (at = 51 => Step.val = 8)
    BY <1>1, ClockWritesAt DEF Write
  <2>4. (at = 66 => Step.val = 0) /\ (at = 67 => Step.val = \h10) /\ (at = 70 => Step.val = \hd2)
    BY <1>1, ClockWritesAt DEF Write
  <2> QED BY <1>3, <2>1, <2>2, <2>3, <2>4
<1> QED BY <1>1, <1>2, <1>3

\* When the cores kept are written, and with what.
LEMMA CoreSteps ==
  ASSUME UpTypeOK, UpNext, Step.op = "bak_write32", Step.addr.off \in KeptOffsets
  PROVE  \/ /\ Step.addr = Addr(ARM_IOCTRL_REG)
            /\ <<at, Step.val>> \in {<<25, 3>>, <<61, 3>>, <<63, 1>>}
         \/ Step.addr = Addr(ARM_RESETCTRL_REG) /\ at = 62 /\ Step.val = 0
         \/ /\ Step.addr = Addr(SRAM_IOCTRL_REG)
            /\ <<at, Step.val>> \in {<<29, 3>>, <<31, 1>>}
         \/ Step.addr = Addr(SRAM_RESETCTRL_REG) /\ at = 30 /\ Step.val = 0
<1>1. at \in {25, 29, 30, 31, 61, 62, 63} /\ Step = Script[at]
  BY NextStep DEF PlainStep
<1>2. at \in {25, 61} => Step.addr = Addr(ARM_IOCTRL_REG) /\ Step.val = 3
  BY <1>1, CoreStepsAt DEF BakWrite
<1>3. at = 63 => Step.addr = Addr(ARM_IOCTRL_REG) /\ Step.val = 1
  BY <1>1, CoreStepsAt DEF BakWrite
<1>4. at = 62 => Step.addr = Addr(ARM_RESETCTRL_REG) /\ Step.val = 0
  BY <1>1, CoreStepsAt DEF BakWrite
<1>5. at = 29 => Step.addr = Addr(SRAM_IOCTRL_REG) /\ Step.val = 3
  BY <1>1, CoreStepsAt DEF BakWrite
<1>6. at = 31 => Step.addr = Addr(SRAM_IOCTRL_REG) /\ Step.val = 1
  BY <1>1, CoreStepsAt DEF BakWrite
<1>7. at = 30 => Step.addr = Addr(SRAM_RESETCTRL_REG) /\ Step.val = 0
  BY <1>1, CoreStepsAt DEF BakWrite
<1> QED BY <1>1, <1>2, <1>3, <1>4, <1>5, <1>6, <1>7

\* An access is off by the window only.
LEMMA AccessPlace ==
  ASSUME UpTypeOK, UpNext, Step.op \in {"bak_write32", "bak_check"}, Access(Step.addr)
  PROVE  /\ hit'.off = Step.addr.off
         /\ hit' \in KeptCores => Step.addr.off \in KeptOffsets
<1>1. Step.addr \in Places
  BY NextStep DEF PlainStep, Steps
<1>2. hit'.off = Step.addr.off
  BY <1>1 DEF Access, DirectAccess, Reach, Core, At, Places
<1>3. hit' \in KeptCores => hit'.off \in KeptOffsets
  BY KeptPlaces DEF KeptCores, At, KeptOffsets
<1> QED BY <1>2, <1>3

LEMMA UpTypeInit == UpInit => UpTyped
<1> SUFFICES ASSUME UpInit PROVE UpTyped
  OBVIOUS
<1>1. TypeOK
  BY WinTypeInit DEF UpInit
<1>2. at \in 1 .. Len(Script) + 1
  BY SecondHalf DEF UpInit, Part
<1>3. reg \in [KeptRegs -> Nat] /\ \A r \in KeptRegs : reg[r] = 0
  BY DEF UpInit
<1>4. core \in [KeptCores -> {0, 1, 3}]
  BY DEF UpInit
<1>5. ram \in [{"firmware", "nvram"} -> {"none", "part", "whole"}]
  BY DEF UpInit
<1>6. nmissed \in 0..MaxMissed
  BY BringUpAssumption DEF UpInit
<1>7. /\ rca \in BOOLEAN /\ warned \in BOOLEAN
      /\ card \in {"idle", "ready", "standby", "selected"} /\ lost \subseteq Kinds
  BY DEF UpInit
<1> QED BY <1>1, <1>2, <1>3, <1>4, <1>5, <1>6, <1>7 DEF UpTyped, UpTypeOK, Clock, KeptRegs

LEMMA UpTypeStep ==
  ASSUME UpTyped, [UpNext]_upVars
  PROVE  UpTyped'
<1>1. TypeOK'
  BY UpStep, WinTypeStep DEF UpTyped, UpTypeOK
<1>2. CASE UNCHANGED upVars
  <2>1. UNCHANGED <<at, rca, warned, card, reg, core, ram, lost, nmissed>>
    BY <1>2 DEF upVars
  <2> QED BY <1>1, <2>1 DEF UpTyped, UpTypeOK, Clock
<1>3. CASE UpNext
  <2> USE <1>3
  <2>1. UpTypeOK
    BY DEF UpTyped
  <2>2. at' \in 1 .. Len(Script) + 1
    <3>1. Len(Script) = 92
      BY SecondHalf DEF Part
    <3>2. at \in 1..92 /\ at' = at + 1
      BY <2>1, NextStep
    <3> QED BY <3>1, <3>2
  <2>3. reg' \in [KeptRegs -> Nat]
    <3>1. Step.op = "write" => Step.val \in Nat
      BY <2>1, NextStep DEF PlainStep, Steps
    <3> QED BY <3>1, RegChange DEF UpTyped
  <2>4. /\ reg'[BUS_IOEN_REG] \in {0, Bit(BAK), Bit(BAK) + Bit(RAD)}
        /\ reg'[BUS_BI_CTRL_REG] \in {0, \h42}
        /\ reg'[BUS_BAK_BLKSIZE_REG] \in {0, 64}
        /\ Clock' \in {0, 8, \h10, \h21, \h28, \hd2}
    <3>1. CASE UNCHANGED reg
      BY <2>1, <3>1 DEF UpTypeOK, Clock
    <3>2. CASE /\ Step.op = "write" /\ Step.reg \in KeptRegs
               /\ reg' = [reg EXCEPT ![Step.reg] = Step.val]
      <4>1. \A r \in KeptRegs : reg'[r] = IF r = Step.reg THEN Step.val ELSE reg[r]
        BY <3>2 DEF UpTyped
      <4> QED BY <2>1, <3>2, <4>1, RegSteps, BusRegs DEF UpTypeOK, Clock, KeptRegs
    <3> QED BY <3>1, <3>2, RegChange
  <2>5. core' \in [KeptCores -> {0, 1, 3}]
    <3>1. core \in [KeptCores -> {0, 1, 3}]
      BY <2>1 DEF UpTypeOK
    <3>2. CASE /\ Step.op = "bak_write32" /\ Access(Step.addr) /\ hit' \in KeptCores
               /\ core' = [core EXCEPT ![hit'] = Step.val]
      <4>1. Step.val \in {0, 1, 3}
        BY <2>1, <3>2, AccessPlace, CoreSteps
      <4> QED BY <3>1, <3>2, <4>1
    <3> QED BY <3>1, <3>2, CoreChange
  <2>6. warned' \in BOOLEAN /\ rca' \in BOOLEAN
    BY <2>1 DEF UpTypeOK, UpNext, CardCommand, RegisterWrite, RegisterRead, RegisterCheck,
       WindowOpen, WindowUse, CoreWrite, CoreRead, CoreCheck, LoadImage
  <2>7. card' \in {"idle", "ready", "standby", "selected"}
    BY <2>1 DEF UpTypeOK, UpNext, CardCommand, RegisterWrite, RegisterRead, RegisterCheck,
       WindowOpen, WindowUse, CoreWrite, CoreRead, CoreCheck, LoadImage, Obeyed
  <2>8. lost' \subseteq Kinds
    <3>1. lost \subseteq Kinds
      BY <2>1 DEF UpTypeOK
    <3>2. MissedKind \subseteq Kinds
      BY DEF MissedKind, Kinds
    <3>3. /\ CardCommand \/ RegisterWrite \/ RegisterRead \/ RegisterCheck =>
               lost' \subseteq Kinds
          /\ WindowOpen \/ WindowUse \/ CoreRead => lost' \subseteq Kinds
      BY <3>1, <3>2 DEF CardCommand, RegisterWrite, RegisterRead, RegisterCheck, WindowOpen,
         WindowUse, CoreRead, Lose, Kinds
    <3>4. CoreWrite \/ CoreCheck => lost' \subseteq Kinds
      BY <3>1, <3>2 DEF CoreWrite, CoreCheck, Kinds
    <3>5. LoadImage => lost' \subseteq Kinds
      BY <3>1, <3>2 DEF LoadImage, Kinds
    <3> QED BY <3>3, <3>4, <3>5 DEF UpNext
  <2>9. ram' \in [{"firmware", "nvram"} -> {"none", "part", "whole"}]
    <3>1. ram \in [{"firmware", "nvram"} -> {"none", "part", "whole"}]
      BY <2>1 DEF UpTypeOK
    <3>2. CASE UNCHANGED ram
      BY <3>1, <3>2
    <3>3. CASE CoreWrite
      BY <3>1, <3>3 DEF CoreWrite
    <3>4. CASE LoadImage
      BY <3>1, <3>4 DEF LoadImage
    <3> QED BY <3>2, <3>3, <3>4 DEF UpNext, CardCommand, RegisterWrite, RegisterRead,
          RegisterCheck, WindowOpen, WindowUse, CoreRead, CoreCheck
  <2>10. nmissed' \in 0..MaxMissed
    <3>1. CASE UNCHANGED nmissed
      BY <2>1, <3>1 DEF UpTypeOK
    <3>2. CASE WindowBytes
      <4>1. missed' \in SUBSET (1..3)
        BY <1>1 DEF TypeOK
      <4>2. Cardinality(missed') \in Nat
        <5>1. 1 \in Int /\ 3 \in Int
          OBVIOUS
        <5>2. IsFiniteSet(1..3)
          BY <5>1, FS_Interval
        <5>3. IsFiniteSet(missed')
          BY <4>1, <5>2, FS_Subset
        <5> QED BY <5>3, FS_CardinalityType
      <4> QED BY <2>1, <3>2, <4>2, BringUpAssumption DEF UpTypeOK, WindowBytes
    <3> QED BY <3>1, <3>2 DEF UpNext, CardCommand, RegisterWrite, RegisterRead,
          RegisterCheck, WindowOpen, WindowUse, CoreWrite, CoreRead, CoreCheck, LoadImage
  <2> QED BY <1>1, <2>2, <2>3, <2>4, <2>5, <2>6, <2>7, <2>8, <2>9, <2>10
          DEF UpTyped, UpTypeOK, Clock
<1> QED BY <1>2, <1>3
-----------------------------------------------------------------------------
(* What a step does, by its place.                                         *)

LEMMA WarnedStays ==
  ASSUME UpTyped, UpNext
  PROVE  (warned => warned') /\ lost \subseteq lost'
<1>1. warned \in BOOLEAN
  BY DEF UpTyped, UpTypeOK
<1>2. warned => warned'
  BY <1>1 DEF UpNext, CardCommand, RegisterWrite, RegisterRead, RegisterCheck, WindowOpen,
              WindowUse, CoreWrite, CoreRead, CoreCheck, LoadImage
<1>3. lost \subseteq lost'
  BY DEF UpNext, CardCommand, RegisterWrite, RegisterRead, RegisterCheck, WindowOpen,
         WindowUse, CoreWrite, CoreRead, CoreCheck, LoadImage, Lose
<1> QED BY <1>2, <1>3

\* Each kind of step is taken by its action.
LEMMA ActionOf ==
  ASSUME UpNext
  PROVE  /\ Step.op = "command" => CardCommand
         /\ Step.op = "write" => RegisterWrite
         /\ Step.op = "check" => RegisterCheck
         /\ Step.op = "bak_write32" => CoreWrite
         /\ Step.op = "bak_check" => CoreCheck
         /\ Step.op = "load" => LoadImage
BY DEF UpNext, CardCommand, RegisterWrite, RegisterRead, RegisterCheck, WindowOpen,
       WindowUse, CoreWrite, CoreRead, CoreCheck, LoadImage

LEMMA BusAfter ==
  ASSUME UpTyped, UpNext
  PROVE  /\ at \notin {15, 49, 72} => reg'[BUS_IOEN_REG] = reg[BUS_IOEN_REG]
         /\ at \in {15, 49} => reg'[BUS_IOEN_REG] \in {reg[BUS_IOEN_REG], 2}
         /\ at = 72 => reg'[BUS_IOEN_REG] \in {reg[BUS_IOEN_REG], 6}
         /\ at # 10 => reg'[BUS_BI_CTRL_REG] = reg[BUS_BI_CTRL_REG]
         /\ at # 11 => reg'[BUS_BAK_BLKSIZE_REG] = reg[BUS_BAK_BLKSIZE_REG]
<1>1. CASE UNCHANGED reg
  BY <1>1
<1>2. CASE /\ Step.op = "write" /\ Step.reg \in KeptRegs
           /\ reg' = [reg EXCEPT ![Step.reg] = Step.val]
  <2>1. \A r \in KeptRegs : reg'[r] = IF r = Step.reg THEN Step.val ELSE reg[r]
    BY <1>2 DEF UpTyped
  <2>2. UpTypeOK
    BY DEF UpTyped
  <2> QED BY <1>2, <2>1, <2>2, RegSteps, BusRegs, SMT DEF KeptRegs
<1> QED BY <1>1, <1>2, RegChange

LEMMA ClockAfter ==
  ASSUME UpTyped, UpNext
  PROVE  /\ at \notin {19, 21, 50, 51, 66, 67, 70} => Clock' = Clock
         /\ at = 70 => Clock' \in {Clock, \hd2}
<1>1. CASE UNCHANGED reg
  BY <1>1 DEF Clock
<1>2. CASE /\ Step.op = "write" /\ Step.reg \in KeptRegs
           /\ reg' = [reg EXCEPT ![Step.reg] = Step.val]
  <2>1. \A r \in KeptRegs : reg'[r] = IF r = Step.reg THEN Step.val ELSE reg[r]
    BY <1>2 DEF UpTyped
  <2>2. UpTypeOK
    BY DEF UpTyped
  <2> QED BY <1>2, <2>1, <2>2, RegSteps, BusRegs, SMT DEF KeptRegs, Clock
<1> QED BY <1>1, <1>2, RegChange

-----------------------------------------------------------------------------
(* The clock.                                                              *)

\* The two checks of the clock register see what is asked for.
LEMMA ClockSeen ==
  ASSUME UpTyped, UpNext, ~warned'
  PROVE  /\ at = 52 => Clock = 8
         /\ at = 69 => Clock = \h10
<1> SUFFICES ASSUME at \in {52, 69} PROVE (at = 52 => Clock = 8) /\ (at = 69 => Clock = \h10)
  OBVIOUS
<1>1. UpTypeOK /\ Clock \in {0, 8, \h10, \h21, \h28, \hd2}
  BY DEF UpTyped, UpTypeOK
<1>2. /\ Step.op = "check" /\ Step.reg = BAK_CHIP_CLOCK_CSR_REG
      /\ Step.val = IF at = 52 THEN \h48 ELSE \hd0
  BY <1>1, NextStep, ChecksAt, SMT DEF Check
<1>3. \E v \in Shown(BAK_CHIP_CLOCK_CSR_REG) : v = Step.val
  BY <1>2, ActionOf DEF RegisterCheck
<1>4. Step.val = Clock + (IF Clock # 0 THEN \h40 ELSE 0) + (IF Clock = \h10 THEN \h80 ELSE 0)
  BY <1>3, BusRegs, SMT DEF Shown
<1> QED BY <1>1, <1>2, <1>4, SMT

\* The low power clock is on from its check until it is turned off for the
\* high one, and that one from its own check on.
ClockInv ==
  /\ at \in 53..66 => warned \/ Clock = 8
  /\ at > 69 => warned \/ Clock \in {\h10, \hd2}

LEMMA ClockStep ==
  ASSUME UpTyped, ClockInv, [UpNext]_upVars
  PROVE  ClockInv'
<1>1. CASE UNCHANGED upVars
  BY <1>1 DEF upVars, ClockInv, Clock
<1>2. CASE UpNext
  <2>1. at \in 1..92 /\ at' = at + 1
    BY <1>2, NextStep DEF UpTyped
  <2>2. warned => warned'
    BY <1>2, WarnedStays
  <2>3. CASE at \in 52..65
    BY <1>2, <2>1, <2>2, <2>3, ClockSeen, ClockAfter DEF ClockInv
  <2>4. CASE at \in 69..92
    BY <1>2, <2>1, <2>2, <2>4, ClockSeen, ClockAfter DEF ClockInv
  <2> QED BY <2>1, <2>3, <2>4 DEF ClockInv
<1> QED BY <1>1, <1>2

\* Between the two no access to the backplane is made.
LEMMA ClockedByInv ==
  ASSUME UpTyped, ClockInv
  PROVE  ClockedAccess
<1> SUFFICES ASSUME Loading, Step.op \in {"residual", "bak_write32", "bak_read32", "load"},
                    ~warned
             PROVE  Clock # 0
  BY DEF ClockedAccess
<1>1. at \in 53..92
  <2>1. Len(Script) = 92 /\ Len(BeforeImages) = 52 /\ Script \in Seq(Steps)
    BY FirstHalf, SecondHalf DEF Part
  <2>2. DOMAIN Script = 1..92
    BY <2>1, LenProperties
  <2>3. at \in 1..92 /\ at > 52
    BY <2>1, <2>2 DEF Loading, Done
  <2> QED BY <2>3
<1>2. PlainStep(at, Step)
  BY <1>1, PlainSteps DEF Step
<1>3. at \notin 67..69
  BY <1>1, <1>2 DEF PlainStep
<1> QED BY <1>1, <1>3 DEF ClockInv
-----------------------------------------------------------------------------
(* What a step does to the cores, the images and the window.               *)

\* The registers of the cores kept change by a write to them, and by no other
\* one: an access that is off is off by its window.
LEMMA CoreAt ==
  ASSUME UpTyped, UpNext, Step.op \in {"bak_write32", "bak_check"}, Access(Step.addr),
         hit' \in KeptCores, Step.addr.off \in KeptOffsets, Step.addr \in KeptCores
  PROVE  hit' = Step.addr
<1>1. hit'.off = Step.addr.off
  BY AccessPlace DEF UpTyped
<1>2. \A c \in KeptCores : \E o \in KeptOffsets : c = At(12320, o)
  BY KeptPlaces DEF KeptCores, KeptOffsets
<1> QED BY <1>1, <1>2 DEF At

LEMMA CoreAfter ==
  ASSUME UpTyped, UpNext
  PROVE  /\ at \notin {25, 61, 63} =>
              core'[Addr(ARM_IOCTRL_REG)] = core[Addr(ARM_IOCTRL_REG)]
         /\ at # 62 => core'[Addr(ARM_RESETCTRL_REG)] = core[Addr(ARM_RESETCTRL_REG)]
         /\ at \notin {29, 31} =>
              core'[Addr(SRAM_IOCTRL_REG)] = core[Addr(SRAM_IOCTRL_REG)]
         /\ at # 30 => core'[Addr(SRAM_RESETCTRL_REG)] = core[Addr(SRAM_RESETCTRL_REG)]
<1>1. CASE UNCHANGED core
  BY <1>1
<1>2. CASE /\ Step.op = "bak_write32" /\ Access(Step.addr) /\ hit' \in KeptCores
           /\ core' = [core EXCEPT ![hit'] = Step.val]
  <2>1. UpTypeOK /\ core \in [KeptCores -> {0, 1, 3}]
    BY DEF UpTyped, UpTypeOK
  <2>2. Step.addr.off \in KeptOffsets
    BY <1>2, <2>1, AccessPlace
  <2>3. Step.addr \in KeptCores
    BY <1>2, <2>1, <2>2, CoreSteps DEF KeptCores
  <2>4. hit' = Step.addr
    BY <1>2, <2>2, <2>3, CoreAt
  <2>5. \A c \in KeptCores : c # Step.addr => core'[c] = core[c]
    BY <1>2, <2>1, <2>4
  <2>6. \/ at \in {25, 61, 63} /\ Step.addr = Addr(ARM_IOCTRL_REG)
        \/ at = 62 /\ Step.addr = Addr(ARM_RESETCTRL_REG)
        \/ at \in {29, 31} /\ Step.addr = Addr(SRAM_IOCTRL_REG)
        \/ at = 30 /\ Step.addr = Addr(SRAM_RESETCTRL_REG)
    BY <1>2, <2>1, <2>2, CoreSteps
  <2>7. /\ Addr(ARM_IOCTRL_REG) # Addr(ARM_RESETCTRL_REG)
        /\ Addr(ARM_IOCTRL_REG) # Addr(SRAM_IOCTRL_REG)
        /\ Addr(ARM_IOCTRL_REG) # Addr(SRAM_RESETCTRL_REG)
        /\ Addr(ARM_RESETCTRL_REG) # Addr(SRAM_IOCTRL_REG)
        /\ Addr(ARM_RESETCTRL_REG) # Addr(SRAM_RESETCTRL_REG)
        /\ Addr(SRAM_IOCTRL_REG) # Addr(SRAM_RESETCTRL_REG)
    BY KeptPlaces, SMT DEF At
  <2>8. {Addr(ARM_IOCTRL_REG), Addr(ARM_RESETCTRL_REG), Addr(SRAM_IOCTRL_REG),
         Addr(SRAM_RESETCTRL_REG)} \subseteq KeptCores
    BY DEF KeptCores
  <2> QED BY <2>5, <2>6, <2>7, <2>8
<1> QED BY <1>1, <1>2, CoreChange

\* With the window right an access is where it is meant to be.
LEMMA AccessRight ==
  ASSUME UpTyped, UpNext, RightAddress', missed' = {},
         Step.op \in {"bak_write32", "bak_check"}, Access(Step.addr)
  PROVE  hit' = Step.addr /\ ImageOf(hit'.win) = {}
<1>1. PlainStep(at, Step)
  BY NextStep DEF UpTyped
<1>2. Step.addr \in Places /\ ImageOf(Step.addr.win) = {}
  BY <1>1 DEF PlainStep, Steps
<1>3. want' = At(Step.addr.win, Step.addr.off)
  BY DEF Access, DirectAccess
<1>4. want' = Step.addr
  BY <1>2, <1>3 DEF At, Places
<1>5. hit' = want'
  BY DEF RightAddress
<1> QED BY <1>2, <1>4, <1>5

\* Then no write spoils an image.
LEMMA ImagesKept ==
  ASSUME UpTyped, UpNext, RightAddress', missed' = {}
  PROVE  UNCHANGED ram \/ (Step.op = "load" /\ LoadImage)
<1>1. CASE CoreWrite
  <2>1. ImageOf(hit'.win) = {}
    BY <1>1, AccessRight DEF CoreWrite
  <2>2. ram \in [{"firmware", "nvram"} -> {"none", "part", "whole"}]
    BY DEF UpTyped, UpTypeOK
  <2>3. UNCHANGED ram
    BY <1>1, <2>1, <2>2 DEF CoreWrite
  <2> QED BY <2>3
<1>2. CASE LoadImage
  BY <1>2 DEF LoadImage
<1> QED BY <1>1, <1>2 DEF UpNext, CardCommand, RegisterWrite, RegisterRead, RegisterCheck,
           WindowOpen, WindowUse, CoreRead, CoreCheck

LEMMA LoadAfter ==
  ASSUME UpTyped, UpNext, RightAddress', missed' = {}, "image" \notin lost'
  PROVE  /\ at # 53 => ram'["firmware"] = ram["firmware"]
         /\ ram'["firmware"] \in {ram["firmware"], "whole"}
         /\ at # 56 => ram'["nvram"] = ram["nvram"]
         /\ at = 53 /\ Carried /\ reg[BUS_BAK_BLKSIZE_REG] = 64 => ram'["firmware"] = "whole"
         /\ at = 56 /\ Carried => ram'["nvram"] = "whole"
<1>1. UpTypeOK /\ ram \in [{"firmware", "nvram"} -> {"none", "part", "whole"}]
  BY DEF UpTyped, UpTypeOK
<1>2. at \in 1..92 /\ Step = Script[at] /\ PlainStep(at, Step)
  BY <1>1, NextStep
<1>3. CASE at = 53
  <2>1. Step.op = "load" /\ Step.image = "firmware"
    BY <1>2, <1>3, LoadsAt DEF Load
  <2>2. LoadImage
    BY <2>1, ActionOf
  <2>3. UNCHANGED ram \/ ram' = [ram EXCEPT !["firmware"] = "whole"]
    BY <2>1, <2>2 DEF LoadImage
  <2>4. Carried /\ reg[BUS_BAK_BLKSIZE_REG] = 64 => ram' = [ram EXCEPT !["firmware"] = "whole"]
    BY <2>1, <2>2 DEF LoadImage
  <2> QED BY <1>1, <1>3, <2>3, <2>4
<1>4. CASE at = 56
  <2>1. Step.op = "load" /\ Step.image = "nvram"
    BY <1>2, <1>4, LoadsAt DEF Load
  <2>2. LoadImage
    BY <2>1, ActionOf
  <2>3. UNCHANGED ram \/ ram' = [ram EXCEPT !["nvram"] = "whole"]
    BY <2>1, <2>2 DEF LoadImage
  <2>4. Carried => ram' = [ram EXCEPT !["nvram"] = "whole"]
    BY <2>1, <2>2 DEF LoadImage
  <2> QED BY <1>1, <1>4, <2>3, <2>4
<1>5. CASE at \notin {53, 56}
  <2>1. Step.op # "load"
    BY <1>2, <1>5 DEF PlainStep
  <2>2. UNCHANGED ram
    BY <2>1, ImagesKept
  <2> QED BY <1>5, <2>2
<1> QED BY <1>3, <1>4, <1>5

\* The window is set by the steps after the sixteenth only; when the backplane
\* function answers, what a setting loses is counted.
LEMMA MissedAfter ==
  ASSUME UpTyped, UpNext, at > 16 => Answers(BAK), "window" \notin lost', missed = {}
  PROVE  missed' = {}
<1>1. UpTypeOK /\ nmissed \in Nat
  BY BringUpAssumption DEF UpTyped, UpTypeOK
<1>2. PlainStep(at, Step) /\ at \in 1..92
  BY <1>1, NextStep
<1>3. ASSUME WindowBytes, MissedKind \subseteq lost', ~skipped', at > 16
      PROVE  missed' = {}
  <2>1. missed' \in SUBSET (1..3)
    <3>1. TypeOK'
      BY UpTypeStep DEF UpTyped, UpTypeOK
    <3> QED BY <3>1 DEF TypeOK
  <2>2. IsFiniteSet(missed') /\ Cardinality(missed') \in Nat
    <3>1. 1 \in Int /\ 3 \in Int
      OBVIOUS
    <3>2. IsFiniteSet(1..3)
      BY <3>1, FS_Interval
    <3>3. IsFiniteSet(missed')
      BY <2>1, <3>2, FS_Subset
    <3> QED BY <3>3, FS_CardinalityType
  <2>3. nmissed' = nmissed + Cardinality(missed')
    BY <1>3 DEF WindowBytes
  <2>4. nmissed' = nmissed
    BY <1>3 DEF MissedKind
  <2>5. Cardinality(missed') = 0
    BY <1>1, <2>2, <2>3, <2>4
  <2> QED BY <2>2, <2>5, FS_EmptySet
<1>4. ASSUME NEW w, sdio_bak_window(w), skipped'
      PROVE  missed' = {}
  BY <1>4 DEF sdio_bak_window
<1>5. CASE CardCommand \/ RegisterWrite \/ RegisterRead \/ RegisterCheck \/ WindowUse
  BY <1>5 DEF CardCommand, RegisterWrite, RegisterRead, RegisterCheck, WindowUse,
              ResidualAccess, winVars
<1>6. CASE WindowOpen
  <2>1. at > 16
    BY <1>2, <1>6 DEF WindowOpen, PlainStep
  <2> QED BY <1>3, <1>4, <1>6, <2>1 DEF WindowOpen, OpenWindow
<1>7. CASE CoreWrite \/ CoreRead \/ CoreCheck
  <2>1. /\ Step.op \in {"bak_write32", "bak_read32", "bak_check"}
        /\ Access(Step.addr) /\ WindowBytes /\ MissedKind \subseteq lost'
    BY <1>7 DEF CoreWrite, CoreRead, CoreCheck
  <2>2. at > 16
    BY <1>2, <2>1 DEF PlainStep
  <2> QED BY <1>3, <1>4, <2>1, <2>2 DEF Access, DirectAccess
<1>8. CASE LoadImage
  <2>1. Step.op = "load" /\ WindowBytes /\ (missed' = {} \/ MissedKind \subseteq lost')
    BY <1>8 DEF LoadImage
  <2>2. PICK w \in Step.wins : OpenWindow(w)
    BY <1>8 DEF LoadImage
  <2>3. at > 16
    BY <1>2, <2>1 DEF PlainStep
  <2> QED BY <1>3, <1>4, <2>1, <2>2, <2>3 DEF OpenWindow
<1> QED BY <1>5, <1>6, <1>7, <1>8 DEF UpNext
-----------------------------------------------------------------------------
(* The checks.                                                             *)

LEMMA Enables ==
  ASSUME UpTypeOK
  PROVE  /\ Enabled(BAK) <=> reg[BUS_IOEN_REG] # 0
         /\ Enabled(RAD) <=> reg[BUS_IOEN_REG] = 6
<1>1. reg[BUS_IOEN_REG] \in {0, 2, 6}
  BY BusRegs DEF UpTypeOK
<1>2. Bit(BAK) = 2 /\ Bit(RAD) = 4
  BY BusRegs
<1>3. CASE reg[BUS_IOEN_REG] = 0
  BY <1>2, <1>3, SMT DEF Enabled
<1>4. CASE reg[BUS_IOEN_REG] = 2
  BY <1>2, <1>4, SMT DEF Enabled
<1>5. CASE reg[BUS_IOEN_REG] = 6
  BY <1>2, <1>5, SMT DEF Enabled
<1> QED BY <1>1, <1>3, <1>4, <1>5

\* The card answers commands to function 1 when it is selected and that
\* function is enabled.
LEMMA AnswersIff ==
  ASSUME UpTypeOK
  PROVE  Answers(BAK) <=> card = "selected" /\ reg[BUS_IOEN_REG] # 0
BY Enables, BusRegs DEF Answers

LEMMA CardAfter ==
  ASSUME UpTyped, UpNext, at \notin 3..8
  PROVE  UNCHANGED <<card, rca>>
<1>1. Step.op # "command"
  BY NextStep DEF UpTyped, PlainStep
<1> QED BY <1>1 DEF UpNext, CardCommand, RegisterWrite, RegisterRead, RegisterCheck,
           WindowOpen, WindowUse, CoreWrite, CoreRead, CoreCheck, LoadImage

\* What the ready register shows: of the backplane function and of the radio.
LEMMA ReadyShown ==
  ASSUME UpTypeOK, NEW v \in Shown(BUS_IORDY_REG)
  PROVE  \E b \in RadioReady :
           v = (IF reg[BUS_IOEN_REG] # 0 THEN 2 ELSE 0) + (IF b THEN 4 ELSE 0)
<1>1. Bit(BAK) = 2 /\ Bit(RAD) = 4
  BY BusRegs
<1>2. \E b \in RadioReady :
        v = (IF Enabled(BAK) THEN Bit(BAK) ELSE 0) + (IF b THEN Bit(RAD) ELSE 0)
  <2>1. BUS_IORDY_REG # BAK_CHIP_CLOCK_CSR_REG
    BY BusRegs, SMT
  <2>2. Shown(BUS_IORDY_REG) =
          {(IF Enabled(BAK) THEN Bit(BAK) ELSE 0) + (IF b THEN Bit(RAD) ELSE 0) : b \in RadioReady}
    BY <2>1, Zenon DEF Shown
  <2> QED BY <2>2
<1> QED BY <1>1, <1>2, Enables

\* A check that does not warn has seen what it asks for.
LEMMA CheckPassed ==
  ASSUME UpTypeOK, UpNext, ~warned', at \in {16, 74}
  PROVE  /\ card = "selected" /\ reg[BUS_IOEN_REG] # 0
         /\ at = 74 => TRUE \in RadioReady
<1>1. Step = Script[at]
  BY NextStep
<1>2. /\ Step.op = "check" /\ Step.func = BUS /\ Step.reg = BUS_IORDY_REG
      /\ Step.val = IF at = 16 THEN 2 ELSE 6
  BY <1>1, ChecksAt DEF Check
<1>3. Answers(BUS) /\ Step.val \in Shown(BUS_IORDY_REG)
  BY <1>2, ActionOf DEF RegisterCheck
<1>4. PICK b \in RadioReady :
        Step.val = (IF reg[BUS_IOEN_REG] # 0 THEN 2 ELSE 0) + (IF b THEN 4 ELSE 0)
  BY <1>3, ReadyShown
<1>5. b \in BOOLEAN
  BY <1>4 DEF RadioReady
<1>6. reg[BUS_IOEN_REG] # 0 /\ (at = 74 => b = TRUE)
  BY <1>2, <1>4, <1>5
<1> QED BY <1>3, <1>4, <1>6 DEF Answers

LEMMA RadioRuns ==
  ASSUME UpTypeOK, TRUE \in RadioReady
  PROVE  /\ reg[BUS_IOEN_REG] = 6 /\ Runs(ARM_IOCTRL_REG, ARM_RESETCTRL_REG)
         /\ ram["firmware"] # "none"
BY Enables DEF RadioReady

LEMMA CorePassed ==
  ASSUME UpTyped, UpNext, ~warned', at \in {32, 35, 36}, RightAddress', missed' = {}
  PROVE  /\ Carried
         /\ at \in {32, 35} => core[Addr(SRAM_IOCTRL_REG)] = 1
         /\ at = 36 => core[Addr(SRAM_RESETCTRL_REG)] = 0
<1>1. UpTypeOK /\ Step = Script[at]
  BY NextStep DEF UpTyped
<1>2. /\ Step.op = "bak_check"
      /\ at \in {32, 35} => Step.addr = Addr(SRAM_IOCTRL_REG) /\ Step.val = 1
      /\ at = 36 => Step.addr = Addr(SRAM_RESETCTRL_REG) /\ Step.val = 0
  BY <1>1, CoreStepsAt DEF BakCheck
<1>3. CoreCheck
  BY <1>2, ActionOf
<1>4. hit' = Step.addr
  BY <1>2, <1>3, AccessRight DEF CoreCheck
<1>5. Step.addr \in KeptCores
  BY <1>2 DEF KeptCores
<1>6. Carried /\ core[Step.addr] = Step.val
  BY <1>3, <1>4, <1>5 DEF CoreCheck
<1> QED BY <1>2, <1>6
-----------------------------------------------------------------------------
(* What goes unnoticed.                                                    *)

\* No check has failed, and what has been lost is commands.
Quiet == ~warned /\ {"window", "image"} \cap lost = {}

\* What the checks so far have seen, and still holds.
Watched ==
  /\ missed = {}
  /\ at > 16 => card = "selected" /\ reg[BUS_IOEN_REG] # 0
  /\ at > 32 => reg[BUS_BI_CTRL_REG] = \h42 /\ core[Addr(SRAM_IOCTRL_REG)] = 1
  /\ at > 36 => core[Addr(SRAM_RESETCTRL_REG)] = 0
  /\ ram["firmware"] # "part"
  /\ at > 56 => ram["nvram"] = "whole"
  /\ at > 74 => /\ reg[BUS_IOEN_REG] = 6 /\ Runs(ARM_IOCTRL_REG, ARM_RESETCTRL_REG)
                /\ ram["firmware"] # "none"

WatchInv == Quiet => Watched

LEMMA WatchInit == UpInit => WatchInv
<1> SUFFICES ASSUME UpInit PROVE Watched
  BY DEF WatchInv
<1>1. at = 1 /\ missed = {} /\ ram["firmware"] = "none"
  BY DEF UpInit, Init
<1> QED BY <1>1 DEF Watched

LEMMA WatchStep ==
  ASSUME InWindow, WinInv, UpTyped, ClockInv, WatchInv, [UpNext]_upVars
  PROVE  WatchInv'
<1>1. CASE UNCHANGED upVars
  BY <1>1 DEF upVars, winVars, WatchInv, Quiet, Watched, Runs
<1>2. CASE UpNext
  <2> USE <1>2
  <2> SUFFICES ASSUME Quiet' PROVE Watched'
    BY DEF WatchInv
  <2>1. ~warned' /\ "window" \notin lost' /\ "image" \notin lost' /\ ~warned /\ Watched
    <3>1. ~warned' /\ "window" \notin lost' /\ "image" \notin lost'
      BY DEF Quiet
    <3>2. Quiet
      BY <3>1, WarnedStays DEF Quiet
    <3>3. ~warned
      BY <3>2 DEF Quiet
    <3> QED BY <3>1, <3>2, <3>3 DEF WatchInv
  <2>2. UpTypeOK /\ at \in 1..92 /\ at' = at + 1
    BY NextStep DEF UpTyped
  <2>3. missed' = {}
    BY <2>1, <2>2, MissedAfter, AnswersIff DEF Watched
  <2>4. RightAddress'
    BY UpStep, WinStep DEF WinInv
  <2>5. at' > 16 => card' = "selected" /\ reg'[BUS_IOEN_REG] # 0
    <3>1. at = 16 => card = "selected" /\ reg[BUS_IOEN_REG] # 0
      BY <2>1, <2>2, CheckPassed
    <3>2. at > 16 => card = "selected" /\ reg[BUS_IOEN_REG] # 0
      BY <2>1 DEF Watched
    <3> QED BY <2>2, <3>1, <3>2, CardAfter, BusAfter
  <2>6. at' > 32 => reg'[BUS_BI_CTRL_REG] = \h42 /\ core'[Addr(SRAM_IOCTRL_REG)] = 1
    <3>1. at > 31 => reg[BUS_BI_CTRL_REG] = \h42 /\ core[Addr(SRAM_IOCTRL_REG)] = 1
      BY <2>1, <2>2, <2>3, <2>4, CorePassed DEF Watched, Carried
    <3> QED BY <2>2, <3>1, CoreAfter, BusAfter
  <2>7. at' > 36 => core'[Addr(SRAM_RESETCTRL_REG)] = 0
    <3>1. at > 35 => core[Addr(SRAM_RESETCTRL_REG)] = 0
      BY <2>1, <2>2, <2>3, <2>4, CorePassed DEF Watched
    <3> QED BY <2>2, <3>1, CoreAfter
  <2>8. ram'["firmware"] # "part"
    BY <2>1, <2>3, <2>4, LoadAfter DEF Watched
  <2>9. at' > 56 => ram'["nvram"] = "whole"
    <3>1. CASE at = 56
      <4>1. Clock = 8
        BY <2>1, <3>1 DEF ClockInv
      <4>2. Carried
        BY <2>1, <2>2, <3>1, <4>1, AnswersIff DEF Watched, Carried
      <4> QED BY <2>1, <2>3, <2>4, <3>1, <4>2, LoadAfter
    <3>2. CASE at # 56
      BY <2>1, <2>2, <2>3, <2>4, <3>2, LoadAfter DEF Watched
    <3> QED BY <3>1, <3>2
  <2>10. at' > 74 => /\ reg'[BUS_IOEN_REG] = 6 /\ Runs(ARM_IOCTRL_REG, ARM_RESETCTRL_REG)'
                     /\ ram'["firmware"] # "none"
    <3>1. at = 74 => /\ reg[BUS_IOEN_REG] = 6 /\ Runs(ARM_IOCTRL_REG, ARM_RESETCTRL_REG)
                     /\ ram["firmware"] # "none"
      BY <2>1, <2>2, CheckPassed, RadioRuns
    <3>2. at > 74 => /\ reg[BUS_IOEN_REG] = 6 /\ Runs(ARM_IOCTRL_REG, ARM_RESETCTRL_REG)
                     /\ ram["firmware"] # "none"
      BY <2>1 DEF Watched
    <3>3. at > 73 => ram'["firmware"] = ram["firmware"]
      BY <2>1, <2>2, <2>3, <2>4, LoadAfter
    <3> QED BY <2>2, <3>1, <3>2, <3>3, CoreAfter, BusAfter DEF Runs
  <2> QED BY <2>3, <2>5, <2>6, <2>7, <2>8, <2>9, <2>10 DEF Watched
<1> QED BY <1>1, <1>2

LEMMA NoticedByInv ==
  ASSUME UpTyped, ClockInv, WatchInv
  PROVE  NoticedUnlessReady
<1> SUFFICES ASSUME Done, lost \subseteq {"command"}, ~warned
             PROVE  Ready
  BY DEF NoticedUnlessReady
<1>1. at = 93
  <2>1. Len(Script) = 92 /\ Script \in Seq(Steps)
    BY SecondHalf DEF Part
  <2>2. DOMAIN Script = 1..92
    BY <2>1, LenProperties
  <2>3. at \in 1 .. Len(Script) + 1
    BY DEF UpTyped, UpTypeOK
  <2> QED BY <2>1, <2>2, <2>3 DEF Done
<1>2. UpTypeOK /\ Watched
  BY DEF UpTyped, WatchInv, Quiet
<1>3. Clock \in {\h10, \hd2}
  BY <1>1 DEF ClockInv
<1>4. /\ card = "selected" /\ reg[BUS_IOEN_REG] = 6 /\ reg[BUS_BI_CTRL_REG] = \h42
      /\ Runs(SRAM_IOCTRL_REG, SRAM_RESETCTRL_REG) /\ Runs(ARM_IOCTRL_REG, ARM_RESETCTRL_REG)
      /\ ram["nvram"] = "whole" /\ ram["firmware"] \notin {"none", "part"}
  BY <1>1, <1>2 DEF Watched, Runs
<1>5. Whole
  <2>1. ram["firmware"] \in {"none", "part", "whole"}
    BY <1>2 DEF UpTypeOK
  <2> QED BY <1>4, <2>1 DEF Whole
<1>6. Carried /\ Enabled(RAD)
  BY <1>2, <1>3, <1>4, AnswersIff, Enables DEF Carried
<1> QED BY <1>3, <1>4, <1>5, <1>6 DEF Ready
-----------------------------------------------------------------------------
(* With nothing lost.                                                      *)

LEMMA CardSet ==
  ASSUME UpTyped, UpNext, lost' = {}
  PROVE  /\ at < 6 /\ card = "idle" => card' = "idle"
         /\ at = 6 /\ card = "idle" => card' = "ready"
         /\ at = 7 /\ card = "ready" => card' = "standby" /\ rca'
         /\ at = 8 /\ card = "standby" /\ rca => card' = "selected" /\ rca'
<1>1. at \in 1..92 /\ Step = Script[at] /\ rca \in BOOLEAN
  BY NextStep DEF UpTyped, UpTypeOK
<1>2. CASE at \in 3..8
  <2>1. /\ Step.op = "command"
        /\ at = 3 => Step.num = 0
        /\ at = 4 => Step.num = 8
        /\ at = 5 => Step.num = 5 /\ Step.arg = 0
        /\ at = 6 => Step.num = 5 /\ Step.arg # 0
        /\ at = 7 => Step.num = 3
        /\ at = 8 => Step.num = 7
    BY <1>1, <1>2, CommandsAt DEF Cmd
  <2>2. card' = Obeyed /\ rca' = (rca \/ (Step.num = 3 /\ card = "ready"))
    BY <2>1, ActionOf DEF CardCommand, Lose
  <2>3. at < 6 /\ card = "idle" => Obeyed = "idle"
    BY <1>2, <2>1 DEF Obeyed
  <2>4. at = 6 /\ card = "idle" => Obeyed = "ready"
    BY <2>1 DEF Obeyed
  <2>5. at = 7 /\ card = "ready" => Obeyed = "standby"
    BY <2>1 DEF Obeyed
  <2>6. at = 8 /\ card = "standby" /\ rca => Obeyed = "selected"
    BY <2>1 DEF Obeyed
  <2> QED BY <1>1, <2>1, <2>2, <2>3, <2>4, <2>5, <2>6
<1>3. CASE at \in 1..2
  BY <1>3, CardAfter
<1> QED BY <1>1, <1>2, <1>3

LEMMA RegSet ==
  ASSUME UpTyped, UpNext, lost' = {}, Step.op = "write", Answers(Step.func),
         Step.reg \in KeptRegs
  PROVE  reg'[Step.reg] = Step.val
<1>1. RegisterWrite
  BY ActionOf
<1>2. reg' = [reg EXCEPT ![Step.reg] = Step.val]
  BY <1>1 DEF RegisterWrite, Lose
<1> QED BY <1>2 DEF UpTyped

LEMMA BusSet ==
  ASSUME UpTyped, UpNext, lost' = {}, card = "selected"
  PROVE  /\ at = 10 => reg'[BUS_BI_CTRL_REG] = \h42
         /\ at = 11 => reg'[BUS_BAK_BLKSIZE_REG] = 64
         /\ at \in {15, 49} => reg'[BUS_IOEN_REG] = 2
         /\ at = 72 => reg'[BUS_IOEN_REG] = 6
<1> SUFFICES ASSUME at \in {10, 11, 15, 49, 72}
             PROVE  /\ at = 10 => reg'[BUS_BI_CTRL_REG] = \h42
                    /\ at = 11 => reg'[BUS_BAK_BLKSIZE_REG] = 64
                    /\ at \in {15, 49} => reg'[BUS_IOEN_REG] = 2
                    /\ at = 72 => reg'[BUS_IOEN_REG] = 6
  OBVIOUS
<1>1. Step = Script[at]
  BY NextStep DEF UpTyped
<1>2. Step.op = "write" /\ Step.func = BUS /\ Step.reg \in KeptRegs
  BY <1>1, BusWritesAt DEF Write, KeptRegs
<1>3. reg'[Step.reg] = Step.val
  BY <1>2, RegSet DEF Answers
<1> QED BY <1>1, <1>3, BusWritesAt DEF Write

LEMMA ClockSet ==
  ASSUME UpTyped, UpNext, lost' = {}, Answers(BAK)
  PROVE  /\ at = 19 => Clock' = \h28
         /\ at = 21 => Clock' = \h21
         /\ at = 51 => Clock' = 8
         /\ at = 67 => Clock' = \h10
         /\ at = 70 => Clock' = \hd2
<1> SUFFICES ASSUME at \in {19, 21, 51, 67, 70}
             PROVE  /\ at = 19 => Clock' = \h28
                    /\ at = 21 => Clock' = \h21
                    /\ at = 51 => Clock' = 8
                    /\ at = 67 => Clock' = \h10
                    /\ at = 70 => Clock' = \hd2
  OBVIOUS
<1>1. Step = Script[at]
  BY NextStep DEF UpTyped
<1>2. Step.op = "write" /\ Step.func = BAK /\ Step.reg = BAK_CHIP_CLOCK_CSR_REG
  BY <1>1, ClockWritesAt DEF Write
<1>3. reg'[Step.reg] = Step.val
  BY <1>2, RegSet DEF KeptRegs
<1> QED BY <1>1, <1>2, <1>3, ClockWritesAt DEF Write, Clock

LEMMA CoreSet ==
  ASSUME UpTyped, UpNext, lost' = {}, Carried, RightAddress', missed' = {}
  PROVE  /\ at = 30 => core'[Addr(SRAM_RESETCTRL_REG)] = 0
         /\ at = 31 => core'[Addr(SRAM_IOCTRL_REG)] = 1
         /\ at = 62 => core'[Addr(ARM_RESETCTRL_REG)] = 0
         /\ at = 63 => core'[Addr(ARM_IOCTRL_REG)] = 1
<1> SUFFICES ASSUME at \in {30, 31, 62, 63}
             PROVE  /\ at = 30 => core'[Addr(SRAM_RESETCTRL_REG)] = 0
                    /\ at = 31 => core'[Addr(SRAM_IOCTRL_REG)] = 1
                    /\ at = 62 => core'[Addr(ARM_RESETCTRL_REG)] = 0
                    /\ at = 63 => core'[Addr(ARM_IOCTRL_REG)] = 1
  OBVIOUS
<1>1. Step = Script[at]
  BY NextStep DEF UpTyped
<1>2. /\ Step.op = "bak_write32" /\ Step.addr \in KeptCores
      /\ at = 30 => Step.addr = Addr(SRAM_RESETCTRL_REG) /\ Step.val = 0
      /\ at = 31 => Step.addr = Addr(SRAM_IOCTRL_REG) /\ Step.val = 1
      /\ at = 62 => Step.addr = Addr(ARM_RESETCTRL_REG) /\ Step.val = 0
      /\ at = 63 => Step.addr = Addr(ARM_IOCTRL_REG) /\ Step.val = 1
  BY <1>1, CoreStepsAt DEF BakWrite, KeptCores
<1>3. CoreWrite
  BY <1>2, ActionOf
<1>4. hit' = Step.addr
  BY <1>2, <1>3, AccessRight DEF CoreWrite
<1>5. core' = [core EXCEPT ![Step.addr] = Step.val]
  BY <1>2, <1>3, <1>4 DEF CoreWrite
<1>6. core \in [KeptCores -> {0, 1, 3}]
  BY DEF UpTyped, UpTypeOK
<1>7. core'[Step.addr] = Step.val
  BY <1>2, <1>5, <1>6
<1> QED BY <1>2, <1>7

\* No check fails that sees what it asks for.
LEMMA NoWarning ==
  ASSUME UpTyped, UpNext, lost' = {}, ~warned, missed' = {}, RightAddress',
         at \in {16, 45, 52, 69, 74} =>
           Answers(Step.func) /\ Shown(Step.reg) \subseteq {Step.val},
         at \in {32, 35, 36} => Carried /\ core[Step.addr] = Step.val
  PROVE  ~warned'
<1>1. Step = Script[at] /\ PlainStep(at, Step)
  BY NextStep DEF UpTyped
<1>2. CASE RegisterCheck
  <2>1. at \in {16, 45, 52, 69, 74}
    BY <1>1, <1>2 DEF RegisterCheck, PlainStep
  <2> QED BY <1>2, <2>1 DEF RegisterCheck, Lose
<1>3. CASE CoreCheck
  <2>1. at \in {32, 35, 36} /\ Step.op = "bak_check" /\ Access(Step.addr)
    BY <1>1, <1>3 DEF CoreCheck, PlainStep
  <2>2. hit' = Step.addr
    BY <2>1, AccessRight
  <2>3. Step.addr \in KeptCores
    BY <1>1, <2>1, CoreStepsAt DEF BakCheck, KeptCores
  <2> QED BY <1>3, <2>1, <2>2, <2>3 DEF CoreCheck
<1> QED BY <1>2, <1>3 DEF UpNext, CardCommand, RegisterWrite, RegisterRead, WindowOpen,
           WindowUse, CoreWrite, CoreRead, LoadImage

\* How far the chip is at each step when nothing is lost.
Intact ==
  /\ ~warned /\ missed = {}
  /\ card = IF at < 7 THEN "idle" ELSE IF at = 7 THEN "ready"
            ELSE IF at = 8 THEN "standby" ELSE "selected"
  /\ at > 7 => rca
  /\ at > 15 => reg[BUS_IOEN_REG] = IF at < 73 THEN 2 ELSE 6
  /\ at > 10 => reg[BUS_BI_CTRL_REG] = \h42
  /\ at > 11 => reg[BUS_BAK_BLKSIZE_REG] = 64
  /\ at \in 20..50 => Clock # 0
  /\ at \in 52..66 => Clock = 8
  /\ at \in 68..70 => Clock = \h10
  /\ at > 30 => core[Addr(SRAM_RESETCTRL_REG)] = 0
  /\ at > 31 => core[Addr(SRAM_IOCTRL_REG)] = 1
  /\ at > 62 => core[Addr(ARM_RESETCTRL_REG)] = 0
  /\ at > 63 => core[Addr(ARM_IOCTRL_REG)] = 1
  /\ at > 53 => ram["firmware"] = "whole"
  /\ at > 56 => ram["nvram"] = "whole"

LosslessInv == lost = {} => Intact

LEMMA LosslessInit == UpInit => LosslessInv
<1> SUFFICES ASSUME UpInit PROVE Intact
  BY DEF LosslessInv
<1>1. at = 1 /\ ~warned /\ missed = {} /\ card = "idle"
  BY DEF UpInit, Init
<1> QED BY <1>1 DEF Intact

\* What the checks see.
LEMMA IntactShown ==
  ASSUME UpTyped, UpNext, Intact, at \in {16, 45, 52, 69, 74}
  PROVE  Answers(Step.func) /\ Shown(Step.reg) \subseteq {Step.val}
<1>1. UpTypeOK /\ Step = Script[at]
  BY NextStep DEF UpTyped
<1>2. card = "selected" /\ reg[BUS_IOEN_REG] = IF at < 73 THEN 2 ELSE 6
  BY DEF Intact
<1>3. Answers(BUS) /\ Answers(BAK)
  BY <1>1, <1>2, AnswersIff DEF Answers
<1>4. CASE at = 16
  <2>1. RadioReady = {FALSE}
    <3>1. ~Enabled(RAD)
      BY <1>1, <1>2, <1>4, Enables
    <3> QED BY <3>1 DEF RadioReady
  <2>2. \A v \in Shown(BUS_IORDY_REG) : v = 2
    BY <1>1, <1>2, <1>4, <2>1, ReadyShown
  <2>3. Step.func = BUS /\ Step.reg = BUS_IORDY_REG /\ Step.val = 2
    BY <1>1, <1>4, ChecksAt DEF Check
  <2> QED BY <1>3, <2>2, <2>3
<1>5. CASE at = 45
  <2>1. Step.func = BUS /\ Step.reg = \hf1 /\ Step.val = 1
    BY <1>1, <1>5, ChecksAt DEF Check
  <2>2. Step.reg # BUS_IORDY_REG /\ Step.reg # BAK_CHIP_CLOCK_CSR_REG
    BY <2>1, BusRegs, SMT
  <2>3. Shown(Step.reg) = {1}
    BY <2>2, Zenon DEF Shown
  <2> QED BY <1>3, <2>1, <2>3
<1>6. CASE at \in {52, 69}
  <2>1. /\ Step.func = BAK /\ Step.reg = BAK_CHIP_CLOCK_CSR_REG
        /\ Step.val = IF at = 52 THEN \h48 ELSE \hd0
    BY <1>1, <1>6, ChecksAt DEF Check
  <2>2. Clock = IF at = 52 THEN 8 ELSE \h10
    BY <1>6 DEF Intact
  <2>3. BUS_IORDY_REG # BAK_CHIP_CLOCK_CSR_REG
    BY BusRegs, SMT
  <2>4. Shown(BAK_CHIP_CLOCK_CSR_REG) =
          {Clock + (IF Clock # 0 THEN \h40 ELSE 0) + (IF Clock = \h10 THEN \h80 ELSE 0)}
    BY <2>3, SMT DEF Shown
  <2>5. Clock + (IF Clock # 0 THEN \h40 ELSE 0) + (IF Clock = \h10 THEN \h80 ELSE 0) = Step.val
    BY <1>6, <2>1, <2>2, SMT
  <2> QED BY <1>3, <2>1, <2>4, <2>5
<1>7. CASE at = 74
  <2>1. RadioReady = {TRUE}
    <3>1. Enabled(RAD)
      BY <1>1, <1>2, <1>7, Enables
    <3>2. Whole /\ ram["firmware"] # "none" /\ Runs(ARM_IOCTRL_REG, ARM_RESETCTRL_REG)
      BY <1>7 DEF Intact, Whole, Runs
    <3> QED BY <3>1, <3>2 DEF RadioReady
  <2>2. \A v \in Shown(BUS_IORDY_REG) : v = 6
    BY <1>1, <1>2, <1>7, <2>1, ReadyShown
  <2>3. Step.func = BUS /\ Step.reg = BUS_IORDY_REG /\ Step.val = 6
    BY <1>1, <1>7, ChecksAt DEF Check
  <2> QED BY <1>3, <2>2, <2>3
<1> QED BY <1>4, <1>5, <1>6, <1>7

LEMMA LosslessStep ==
  ASSUME InWindow, WinInv, UpTyped, LosslessInv, [UpNext]_upVars
  PROVE  LosslessInv'
<1>1. CASE UNCHANGED upVars
  BY <1>1 DEF upVars, winVars, LosslessInv, Intact, Clock
<1>2. CASE UpNext
  <2> USE <1>2
  <2> SUFFICES ASSUME lost' = {} PROVE Intact'
    BY DEF LosslessInv
  <2>1. Intact
    BY WarnedStays DEF LosslessInv
  <2>2. UpTypeOK /\ at \in 1..92 /\ at' = at + 1 /\ Step = Script[at]
    BY NextStep DEF UpTyped
  <2>3. at > 15 => Answers(BAK) /\ card = "selected"
    BY <2>1, <2>2, AnswersIff DEF Intact
  <2>4. missed' = {}
    <3>1. at > 16 => Answers(BAK)
      BY <2>2, <2>3
    <3>2. missed = {} /\ "window" \notin lost'
      BY <2>1 DEF Intact
    <3> QED BY <3>1, <3>2, MissedAfter
  <2>5. RightAddress'
    BY UpStep, WinStep DEF WinInv
  <2>6. at \in 20..50 \/ at \in 52..66 => Carried
    BY <2>1, <2>3 DEF Intact, Carried
  <2>7. ~warned'
    <3>1. at \in {32, 35, 36} => Carried /\ core[Step.addr] = Step.val
      <4>1. at \in {32, 35} => Step.addr = Addr(SRAM_IOCTRL_REG) /\ Step.val = 1
        BY <2>2, CoreStepsAt DEF BakCheck
      <4>2. at = 36 => Step.addr = Addr(SRAM_RESETCTRL_REG) /\ Step.val = 0
        BY <2>2, CoreStepsAt DEF BakCheck
      <4> QED BY <2>1, <2>6, <4>1, <4>2 DEF Intact
    <3>2. ~warned
      BY <2>1 DEF Intact
    <3> QED BY <2>1, <2>4, <2>5, <3>1, <3>2, IntactShown, NoWarning
  <2>8. /\ card' = IF at' < 7 THEN "idle" ELSE IF at' = 7 THEN "ready"
                   ELSE IF at' = 8 THEN "standby" ELSE "selected"
        /\ at' > 7 => rca'
    BY <2>1, <2>2, CardSet, CardAfter DEF Intact
  <2>9. /\ at' > 15 => reg'[BUS_IOEN_REG] = IF at' < 73 THEN 2 ELSE 6
        /\ at' > 10 => reg'[BUS_BI_CTRL_REG] = \h42
        /\ at' > 11 => reg'[BUS_BAK_BLKSIZE_REG] = 64
    <3>1. at > 8 => card = "selected"
      BY <2>1, <2>2 DEF Intact
    <3>2. at' > 15 => reg'[BUS_IOEN_REG] = IF at' < 73 THEN 2 ELSE 6
      BY <2>1, <2>2, <3>1, BusSet, BusAfter DEF Intact
    <3> QED BY <2>1, <2>2, <3>1, <3>2, BusSet, BusAfter DEF Intact
  <2>10. /\ at' \in 20..50 => Clock' # 0
         /\ at' \in 52..66 => Clock' = 8
         /\ at' \in 68..70 => Clock' = \h10
    BY <2>1, <2>2, <2>3, ClockSet, ClockAfter DEF Intact
  <2>11. /\ at' > 30 => core'[Addr(SRAM_RESETCTRL_REG)] = 0
         /\ at' > 31 => core'[Addr(SRAM_IOCTRL_REG)] = 1
    BY <2>1, <2>2, <2>4, <2>5, <2>6, CoreSet, CoreAfter DEF Intact
  <2>12. /\ at' > 62 => core'[Addr(ARM_RESETCTRL_REG)] = 0
         /\ at' > 63 => core'[Addr(ARM_IOCTRL_REG)] = 1
    BY <2>1, <2>2, <2>4, <2>5, <2>6, CoreSet, CoreAfter DEF Intact
  <2>13. /\ at' > 53 => ram'["firmware"] = "whole"
         /\ at' > 56 => ram'["nvram"] = "whole"
    <3>1. "image" \notin lost'
      OBVIOUS
    <3>2. at = 53 => Carried /\ reg[BUS_BAK_BLKSIZE_REG] = 64
      BY <2>1, <2>6 DEF Intact
    <3>3. at' > 53 => ram'["firmware"] = "whole"
      BY <2>1, <2>2, <2>4, <2>5, <3>1, <3>2, LoadAfter DEF Intact
    <3>4. at' > 56 => ram'["nvram"] = "whole"
      BY <2>1, <2>2, <2>4, <2>5, <2>6, <3>1, LoadAfter DEF Intact
    <3> QED BY <3>3, <3>4
  <2> QED BY <2>4, <2>7, <2>8, <2>9, <2>10, <2>11, <2>12, <2>13 DEF Intact
<1> QED BY <1>1, <1>2

LEMMA CleanByInv ==
  ASSUME UpTyped, WinInv, LosslessInv, NoticedUnlessReady
  PROVE  CleanBringUp
<1> SUFFICES ASSUME lost = {} PROVE ~warned /\ hit = want /\ (Done => Ready)
  BY DEF CleanBringUp
<1>1. ~warned /\ missed = {}
  BY DEF LosslessInv, Intact
<1> QED BY <1>1 DEF WinInv, RightAddress, NoticedUnlessReady

-----------------------------------------------------------------------------
(* Theorems of the bring-up.                                               *)

\* The chip's registers hold only values that some step of sdio_init puts
\* there, whatever commands are lost and wherever a write goes astray.
THEOREM UpTypeCorrect == UpSpec => []UpTypeOK
<1>1. UpTyped => UpTypeOK
  BY DEF UpTyped
<1> QED BY <1>1, UpTypeInit, UpTypeStep, PTL DEF UpSpec

LEMMA UpClock == UpSpec => [](UpTyped /\ ClockInv)
<1>1. UpInit => ClockInv
  BY DEF UpInit, ClockInv
<1> QED BY <1>1, UpTypeInit, UpTypeStep, ClockStep, PTL DEF UpSpec

\* Once the clock has been turned off for the images, the backplane is not
\* used with the clock off unless a check has failed, whatever is lost and
\* wherever the window is.
THEOREM ClockStaysOn == UpSpec => []ClockedAccess
BY UpClock, ClockedByInv, PTL

LEMMA UpWindow == ASSUME InWindow PROVE UpSpec => []WinInv
<1>1. Spec => []WinInv
  BY WinInit, WinStep, InWindow, PTL DEF Spec
<1> QED BY <1>1, UsesWindow, PTL

\* Whatever commands are lost: the bring-up ends with the chip ready, or a
\* check has failed and the log has been displayed.
THEOREM NoSilentFailure == ASSUME InWindow PROVE UpSpec => []NoticedUnlessReady
<1>1. UpTyped /\ ClockInv /\ WinInv /\ WatchInv /\ [UpNext]_upVars => WatchInv'
  BY WatchStep, InWindow
<1> QED BY <1>1, WatchInit, UpClock, UpWindow, NoticedByInv, InWindow, PTL DEF UpSpec

\* With nothing lost no check fails, every access is where it is meant to be,
\* and the chip ends ready.
THEOREM CleanRun == ASSUME InWindow PROVE UpSpec => []CleanBringUp
<1>1. UpTyped /\ WinInv /\ LosslessInv /\ [UpNext]_upVars => LosslessInv'
  BY LosslessStep, InWindow
<1> QED BY <1>1, LosslessInit, UpClock, UpWindow, NoSilentFailure, CleanByInv, InWindow, PTL
        DEF UpSpec
=============================================================================
