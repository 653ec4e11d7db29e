-------------------------------- MODULE BringUp --------------------------------
(***************************************************************************)
(* Bringing the WiFi chip up: sdio_init in srce/zjoin.c (the same in       *)
(* srce/zscan.c), command by command, over the backplane window of         *)
(* BakWindow, whose actions it takes.                                      *)
(*                                                                         *)
(* sdio_init is a straight line of commands.  It looks at the results of a *)
(* few register reads only, and what it does about a wrong one is to       *)
(* display the log and go on.  The chip is external: a command has its     *)
(* effect on it if the card is selected, the function enabled, the bus     *)
(* four bits wide for data, and the clock on.                              *)
(***************************************************************************)
EXTENDS BakWindow, Regs, Sequences, FiniteSets

CONSTANT MaxMissed   \* byte writes of the window register that are lost

ASSUME BringUpAssumption ==
  /\ Base = Window(BAK_BASE_ADDR)
  /\ DirectWins \subseteq Nat
  /\ MaxMissed \in Nat

VARIABLES
  at,       \* the step of sdio_init that comes next
  rca,      \* the host holds the card's address
  warned,   \* the log has been displayed: disp_log_break
  card,     \* "idle", "ready", "standby" or "selected"
  reg,      \* function 0 and 1 registers
  core,     \* backplane registers
  ram,      \* how much of an image is in its place: none, part, whole
  lost,     \* what has been lost: a subset of Kinds
  nmissed   \* how many byte writes of the window register

winVars == <<lastaddr, chipwin, want, hit, missed, skipped>>
upVars  == <<at, rca, warned, card, reg, core, ram, lost, nmissed, winVars>>

\* A byte write of the window register; part of an image; any other command,
\* or a register that has not changed yet when it is checked.
Kinds == {"window", "image", "command"}

Addr(a) == At(Window(a), OffsetIn(a))

-----------------------------------------------------------------------------
(* The steps of sdio_init.                                                 *)

BUS == 0   BAK == 1   RAD == 2
\* Bit of a function in the enable and ready registers.
Bit(func) == 2 ^ func

Cmd(n, arg)       == [op |-> "command", num |-> n, arg |-> arg]
Write(f, r, v)    == [op |-> "write", func |-> f, reg |-> r, val |-> v]
Read(f, r)        == [op |-> "read", func |-> f, reg |-> r]
Check(f, r, v)    == [op |-> "check", func |-> f, reg |-> r, val |-> v]
Open(a)           == [op |-> "open", win |-> Window(a)]
Residual(a)       == [op |-> "residual", off |-> OffsetIn(a)]
BakWrite(a, v)    == [op |-> "bak_write32", addr |-> Addr(a), val |-> v]
BakRead(a)        == [op |-> "bak_read32", addr |-> Addr(a)]
BakCheck(a, v)    == [op |-> "bak_check", addr |-> Addr(a), val |-> v]
Load(image, wins) == [op |-> "load", image |-> image, wins |-> wins]
Radio             == [op |-> "radio"]

Identify == <<
  Read(BUS, \h06), Write(BUS, \h06, 8), Cmd(0, 0), Cmd(8, \h1aa),
  Cmd(5, 0), Cmd(5, \h200000), Cmd(3, 0), Cmd(7, 0) >>

BusModes == <<
  Write(BUS, BUS_SPEED_CTRL_REG, \h03), Write(BUS, BUS_BI_CTRL_REG, \h42),
  Write(BUS, BUS_BAK_BLKSIZE_REG, 64), Write(BUS, BUS_BAK_BLKSIZE_REG + 1, 0),
  Write(BUS, BUS_RAD_BLKSIZE_REG, 0), Write(BUS, BUS_RAD_BLKSIZE_REG + 1, 2) >>

\* Seeded fault: the function is enabled by its number and not its bit.
EnableByNumber == << Write(BUS, BUS_IOEN_REG, BAK), Check(BUS, BUS_IORDY_REG, 2) >>

EnableBackplane == << Write(BUS, BUS_IOEN_REG, Bit(BAK)), Check(BUS, BUS_IORDY_REG, 2) >>

WindowAndClock == <<
  Open(BAK_BASE_ADDR), Residual(SB_32BIT_WIN),
  Write(BAK, BAK_CHIP_CLOCK_CSR_REG, \h28), Read(BAK, BAK_CHIP_CLOCK_CSR_REG),
  Write(BAK, BAK_CHIP_CLOCK_CSR_REG, \h21), Write(BAK, BAK_PULLUP_REG, 0),
  Residual(SB_32BIT_WIN), Residual(SB_32BIT_WIN + \hfc) >>

CoreReset == <<
  BakWrite(ARM_IOCTRL_REG, 3), BakWrite(MAC_IOCTRL_REG, 7),
  BakWrite(MAC_RESETCTRL_REG, 0), BakWrite(MAC_IOCTRL_REG, 5),
  BakWrite(SRAM_IOCTRL_REG, 3), BakWrite(SRAM_RESETCTRL_REG, 0),
  BakWrite(SRAM_IOCTRL_REG, 1), BakCheck(SRAM_IOCTRL_REG, 1),
  BakWrite(SRAM_BANKX_IDX_REG, 3), BakWrite(SRAM_BANKX_PDA_REG, 0),
  BakCheck(SRAM_IOCTRL_REG, 1), BakCheck(SRAM_RESETCTRL_REG, 0) >>

Banks == <<
  BakRead(SRAM_BASE_ADDR),
  BakWrite(SRAM_BANKX_IDX_REG, 0), BakRead(SRAM_UNKNOWN_REG),
  BakWrite(SRAM_BANKX_IDX_REG, 1), BakRead(SRAM_UNKNOWN_REG),
  BakWrite(SRAM_BANKX_IDX_REG, 2), BakRead(SRAM_UNKNOWN_REG),
  BakWrite(SRAM_BANKX_IDX_REG, 3) >>

CardControl == <<
  Check(BUS, \hf1, 1), Write(BUS, \hf1, 3), Residual(\h8600), Residual(\h8600),
  Write(BUS, BUS_IOEN_REG, Bit(BAK)) >>

\* Seeded fault: the clock is read back and not checked.
UncheckedClock == <<
  Write(BAK, BAK_CHIP_CLOCK_CSR_REG, 0), Write(BAK, BAK_CHIP_CLOCK_CSR_REG, 8),
  Read(BAK, BAK_CHIP_CLOCK_CSR_REG) >>

ClockCheck == <<
  Write(BAK, BAK_CHIP_CLOCK_CSR_REG, 0), Write(BAK, BAK_CHIP_CLOCK_CSR_REG, 8),
  Check(BAK, BAK_CHIP_CLOCK_CSR_REG, \h48) >>

Images == <<
  Load("firmware", 0..11), Open(\h58000), Residual(\hee80),
  Load("nvram", {15}), Residual(\hffd4) >>

SramLook == <<
  BakRead(SRAM_IOCTRL_REG), BakRead(SRAM_RESETCTRL_REG), BakWrite(SB_INT_STATUS_REG, 1) >>

\* Seeded fault: the ARM core is left in reset.
HeldArm == <<
  BakWrite(ARM_IOCTRL_REG, 3), BakWrite(ARM_IOCTRL_REG, 1), BakRead(ARM_IOCTRL_REG) >>

ArmRelease == <<
  BakWrite(ARM_IOCTRL_REG, 3), BakWrite(ARM_RESETCTRL_REG, 0),
  BakWrite(ARM_IOCTRL_REG, 1), BakRead(ARM_IOCTRL_REG) >>

HighClock == <<
  Open(BAK_BASE_ADDR),
  Write(BAK, BAK_CHIP_CLOCK_CSR_REG, 0), Write(BAK, BAK_CHIP_CLOCK_CSR_REG, \h10),
  Read(BAK, BAK_CHIP_CLOCK_CSR_REG), Check(BAK, BAK_CHIP_CLOCK_CSR_REG, \hd0),
  Write(BAK, BAK_CHIP_CLOCK_CSR_REG, \hd2), BakWrite(SB_TO_SB_MBOX_DATA_REG, 1) >>

\* Seeded fault: the ready register is read twice and not checked.
UncheckedRadio == <<
  Write(BUS, BUS_IOEN_REG, Bit(BAK) + Bit(RAD)),
  Read(BUS, BUS_IORDY_REG), Read(BUS, BUS_IORDY_REG) >>

RadioStart == <<
  Write(BUS, BUS_IOEN_REG, Bit(BAK) + Bit(RAD)),
  Read(BUS, BUS_IORDY_REG), Check(BUS, BUS_IORDY_REG, 6) >>

Interrupts == <<
  BakWrite(SB_INT_HOST_MASK_REG, 1), BakRead(SR_CONTROL1), Open(BAK_BASE_ADDR),
  Write(BAK, BAK_WAKEUP_REG, 2), Write(BUS, BUS_BRCM_CARDCAP, 6),
  Write(BUS, BUS_INTEN_REG, 7), Read(BUS, BUS_INTPEND_REG),
  BakRead(SB_INT_STATUS_REG), BakWrite(SB_INT_STATUS_REG, 1),
  BakRead(SB_TO_HOST_MBOX_DATA_REG), BakWrite(SB_TO_SB_MBOX_REG, 2),
  BakRead(SR_CONTROL1), BakRead(\h6fffc), Open(\h38000), Residual(\h70d4),
  BakRead(SB_INT_STATUS_REG), BakWrite(SB_INT_STATUS_REG, 1), Radio >>

BeforeImages == Identify \o BusModes \o EnableBackplane \o WindowAndClock
                  \o CoreReset \o Banks \o CardControl \o ClockCheck
Script == BeforeImages \o Images \o SramLook \o ArmRelease \o HighClock
            \o RadioStart \o Interrupts
Done == at \notin DOMAIN Script
Step == Script[at]

\* Wins, DirectWins and Offsets are those of the sequence.
ASSUME ScriptAssumption ==
  \A i \in DOMAIN Script :
    LET s == Script[i]
    IN  /\ s.op = "open" => s.win \in Wins
        /\ s.op = "load" => s.wins \subseteq Wins
        /\ s.op = "residual" => s.off \in Offsets
        /\ s.op \in {"bak_write32", "bak_read32", "bak_check"} =>
             s.addr.win \in DirectWins /\ s.addr.off \in Offsets

-----------------------------------------------------------------------------
(* The chip, as the code uses it.                                          *)

KeptRegs  == {BUS_IOEN_REG, BUS_BI_CTRL_REG, BUS_BAK_BLKSIZE_REG, BAK_CHIP_CLOCK_CSR_REG}
KeptCores == {Addr(a) : a \in {SRAM_IOCTRL_REG, SRAM_RESETCTRL_REG,
                               ARM_IOCTRL_REG, ARM_RESETCTRL_REG}}

Enabled(func) == (reg[BUS_IOEN_REG] \div Bit(func)) % 2 = 1

\* The card answers a command addressed to one of its functions.
Answers(func) == card = "selected" /\ (func = BUS \/ Enabled(func))

Clock == reg[BAK_CHIP_CLOCK_CSR_REG]

\* Data passes between host and backplane.
Carried == Answers(BAK) /\ reg[BUS_BI_CTRL_REG] = \h42 /\ Clock # 0

Runs(io, rst) == core[Addr(io)] = 1 /\ core[Addr(rst)] = 0

\* What a CMD52 read may give.  The clock register shows the low power clock
\* (0x40) and the high one (0x80) as available when they are asked for; the
\* radio function is ready when the ARM core runs the firmware, and may or
\* may not be when an image is damaged.
Whole == \A i \in {"firmware", "nvram"} : ram[i] = "whole"

RadioReady ==
  IF ~Enabled(RAD) \/ ~Runs(ARM_IOCTRL_REG, ARM_RESETCTRL_REG) \/ ram["firmware"] = "none"
  THEN {FALSE}
  ELSE IF Whole THEN {TRUE} ELSE BOOLEAN

Shown(r) ==
  CASE r = BUS_IORDY_REG ->
         {(IF Enabled(BAK) THEN Bit(BAK) ELSE 0) + (IF b THEN Bit(RAD) ELSE 0) : b \in RadioReady}
    [] r = BAK_CHIP_CLOCK_CSR_REG ->
         {Clock + (IF Clock # 0 THEN \h40 ELSE 0) + (IF Clock = \h10 THEN \h80 ELSE 0)}
    [] OTHER -> {1}

-----------------------------------------------------------------------------
(* The steps.                                                              *)

Lose(kind) == lost' = lost \union {kind}

\* Settings of the window: the bytes reach the chip if function 1 answers.
WindowBytes ==
  /\ skipped' \/ Answers(BAK) \/ missed' = 1..3
  /\ nmissed' = nmissed + IF skipped' \/ ~Answers(BAK) THEN 0 ELSE Cardinality(missed')
  /\ nmissed' <= MaxMissed

MissedKind == IF nmissed' # nmissed THEN {"window"} ELSE {}

\* CMD5 with a voltage readies the card, CMD3 gives it an address and CMD7
\* with that address selects it.
Obeyed == CASE Step.num = 5 /\ Step.arg # 0 /\ card = "idle" -> "ready"
            [] Step.num = 3 /\ card = "ready"                -> "standby"
            [] Step.num = 7 /\ card = "standby" /\ rca       -> "selected"
            [] OTHER                                         -> card

CardCommand ==
  /\ Step.op = "command"
  /\ \/ UNCHANGED <<card, rca>> /\ Lose("command")
     \/ card' = Obeyed /\ UNCHANGED rca /\ Lose("command")     \* the response only
     \/ /\ card' = Obeyed /\ UNCHANGED lost
        /\ rca' = (rca \/ (Step.num = 3 /\ card = "ready"))
  /\ UNCHANGED <<warned, reg, core, ram, nmissed, winVars>>

\* CMD52 writes; no result of one is looked at.
RegisterWrite ==
  /\ Step.op = "write"
  /\ \/ UNCHANGED reg /\ Lose("command")
     \/ /\ reg' = IF Answers(Step.func) /\ Step.reg \in KeptRegs
                  THEN [reg EXCEPT ![Step.reg] = Step.val] ELSE reg
        /\ UNCHANGED lost
  /\ UNCHANGED <<rca, warned, card, core, ram, nmissed, winVars>>

\* CMD52 reads whose value is not looked at, and the reads of the radio
\* function.
RegisterRead ==
  /\ Step.op \in {"read", "radio"}
  /\ UNCHANGED <<rca, warned, card, reg, core, ram, lost, nmissed, winVars>>

\* CMD52 reads that are checked: a lost one reads as 0.
RegisterCheck ==
  /\ Step.op = "check"
  /\ \/ /\ Answers(Step.func)
        /\ \E v \in Shown(Step.reg) : warned' = (warned \/ v # Step.val)
        /\ UNCHANGED lost
     \/ ~Answers(Step.func) /\ warned' = TRUE /\ UNCHANGED lost
     \/ warned' = TRUE /\ Lose("command")
  /\ UNCHANGED <<rca, card, reg, core, ram, nmissed, winVars>>

WindowOpen ==
  /\ Step.op = "open"
  /\ OpenWindow(Step.win)
  /\ WindowBytes
  /\ lost' = lost \union MissedKind
  /\ UNCHANGED <<rca, warned, card, reg, core, ram>>

\* Reads, but for one write to a register that is not modelled.
WindowUse ==
  /\ Step.op = "residual"
  /\ ResidualAccess(Step.off)
  /\ UNCHANGED <<rca, warned, card, reg, core, ram, lost, nmissed>>

Access(a) == DirectAccess(a.win, a.off)

ImageOf(w) == IF w \in 0..11 THEN {"firmware"} ELSE IF w = 15 THEN {"nvram"} ELSE {}

\* A write that goes astray into the RAM spoils what has been loaded there.
CoreWrite ==
  /\ Step.op = "bak_write32"
  /\ Access(Step.addr)
  /\ WindowBytes
  /\ \/ /\ lost' = lost \union MissedKind
        /\ core' = IF Carried /\ hit' \in KeptCores
                   THEN [core EXCEPT ![hit'] = Step.val] ELSE core
        /\ ram' = [i \in DOMAIN ram |->
                     IF Carried /\ i \in ImageOf(hit'.win) /\ ram[i] = "whole"
                     THEN "part" ELSE ram[i]]
     \/ lost' = lost \union MissedKind \union {"command"} /\ UNCHANGED <<core, ram>>
  /\ UNCHANGED <<rca, warned, card, reg>>

CoreRead ==
  /\ Step.op = "bak_read32"
  /\ Access(Step.addr)
  /\ WindowBytes
  /\ lost' = lost \union MissedKind
  /\ UNCHANGED <<rca, warned, card, reg, core, ram>>

\* What a read that goes astray gives may be the value asked for.
CoreCheck ==
  /\ Step.op = "bak_check"
  /\ Access(Step.addr)
  /\ WindowBytes
  /\ \/ /\ Carried
        /\ lost' = lost \union MissedKind
        /\ \/ hit' \in KeptCores /\ warned' = (warned \/ core[hit'] # Step.val)
           \/ hit' \notin KeptCores /\ warned' \in {warned, TRUE}
     \/ ~Carried /\ warned' = TRUE /\ lost' = lost \union MissedKind
     \/ warned' = TRUE /\ lost' = lost \union MissedKind \union {"command"}
  /\ UNCHANGED <<rca, card, reg, core, ram>>

\* write_firmware and write_nvram; the first goes through its windows in turn
\* and ends early at a burst that is not answered.  Blocks need their size set.
LoadImage ==
  /\ Step.op = "load"
  /\ \E w \in Step.wins : OpenWindow(w)
  /\ WindowBytes
  /\ LET fits == Carried /\ (Step.image = "firmware" => reg[BUS_BAK_BLKSIZE_REG] = 64)
     IN  \/ /\ fits /\ missed' = {} /\ \A w \in Step.wins : w <= lastaddr'
            /\ ram' = [ram EXCEPT ![Step.image] = "whole"]
            /\ UNCHANGED lost
         \/ ~fits /\ UNCHANGED ram /\ lost' = lost \union MissedKind
         \/ /\ fits
            /\ \E p \in {"none", "part"} : ram' = [ram EXCEPT ![Step.image] = p]
            /\ lost' = lost \union MissedKind \union {"image"}
  /\ UNCHANGED <<rca, warned, card, reg, core>>

\* The chip has just been powered.  The SRAM may be in any state, the ARM core
\* is held in reset, and the window register holds anything.
UpInit ==
  /\ Init
  /\ at = 1
  /\ rca = FALSE /\ warned = FALSE
  /\ card = "idle"
  /\ reg = [r \in KeptRegs |-> 0]
  /\ core \in [KeptCores -> {0, 1}]
  /\ core[Addr(ARM_IOCTRL_REG)] = 0 /\ core[Addr(ARM_RESETCTRL_REG)] = 1
  /\ ram = [i \in {"firmware", "nvram"} |-> "none"]
  /\ lost = {} /\ nmissed = 0

UpNext ==
  /\ ~Done
  /\ at' = at + 1
  /\ \/ CardCommand \/ RegisterWrite \/ RegisterRead \/ RegisterCheck
     \/ WindowOpen \/ WindowUse \/ CoreWrite \/ CoreRead \/ CoreCheck \/ LoadImage

UpSpec == UpInit /\ [][UpNext]_upVars

-----------------------------------------------------------------------------
(* Properties.                                                             *)

UpTypeOK ==
  /\ TypeOK
  /\ at \in 1 .. Len(Script) + 1
  /\ rca \in BOOLEAN /\ warned \in BOOLEAN
  /\ card \in {"idle", "ready", "standby", "selected"}
  /\ reg[BUS_IOEN_REG] \in {0, Bit(BAK), Bit(BAK) + Bit(RAD)}
  /\ reg[BUS_BI_CTRL_REG] \in {0, \h42}
  /\ reg[BUS_BAK_BLKSIZE_REG] \in {0, 64}
  /\ Clock \in {0, 8, \h10, \h21, \h28, \hd2}
  /\ core \in [KeptCores -> {0, 1, 3}]
  /\ ram \in [{"firmware", "nvram"} -> {"none", "part", "whole"}]
  /\ lost \subseteq Kinds
  /\ nmissed \in 0..MaxMissed

\* The chip can be talked to: both functions enabled, the wide bus on, memory
\* and processor out of reset, the high clock asked for, both images loaded.
Ready ==
  /\ Carried /\ Enabled(RAD)
  /\ Runs(SRAM_IOCTRL_REG, SRAM_RESETCTRL_REG)
  /\ Runs(ARM_IOCTRL_REG, ARM_RESETCTRL_REG)
  /\ Clock \in {\h10, \hd2}
  /\ Whole

\* Every result but a handful is ignored, and still no set of lost commands
\* goes unnoticed that leaves the chip unready: the few checks see the effect
\* of all the steps that matter.  It does not extend to lost data of an image,
\* which the chip may run or not, nor to a window left wrong.
NoticedUnlessReady == Done /\ lost \subseteq {"command"} => warned \/ Ready

\* With nothing lost the sequence brings the chip up, no check fails, and
\* every access has gone where it was meant to.
CleanBringUp == lost = {} => ~warned /\ hit = want /\ (Done => Ready)

\* Once the clock has been turned off for the images, and until the end, the
\* backplane is not used with the clock off unless a check has failed: no
\* burst of the images is silently written to a memory that is not clocked.
Loading == ~Done /\ at > Len(BeforeImages)
ClockedAccess ==
  Loading /\ Step.op \in {"residual", "bak_write32", "bak_read32", "load"}
    => warned \/ Clock # 0
=============================================================================
