--------------------------------- MODULE Regs ---------------------------------
(***************************************************************************)
(* Addresses of the WiFi chip's registers, from srce/zw_regs.h: those of   *)
(* SDIO functions 0 and 1, and those on the chip's backplane.              *)
(***************************************************************************)
EXTENDS Naturals

\* Function 0, the bus.
BUS_IOEN_REG        == \h002
BUS_IORDY_REG       == \h003
BUS_INTEN_REG       == \h004
BUS_INTPEND_REG     == \h005
BUS_BI_CTRL_REG     == \h007
BUS_SPEED_CTRL_REG  == \h013
BUS_BRCM_CARDCAP    == \h0f0
BUS_BAK_BLKSIZE_REG == \h110
BUS_RAD_BLKSIZE_REG == \h210

\* Function 1, the way to the backplane.
BAK_CHIP_CLOCK_CSR_REG == \h1000e
BAK_PULLUP_REG         == \h1000f
BAK_WAKEUP_REG         == \h1001e

\* The backplane: cores and their wrappers, MAC, SDIO, ARM and SRAM.
BAK_BASE_ADDR     == \h18000000
MAC_BASE_ADDR     == BAK_BASE_ADDR + \h1000
MAC_BASE_WRAP     == MAC_BASE_ADDR + \h100000
MAC_IOCTRL_REG    == MAC_BASE_WRAP + \h408
MAC_RESETCTRL_REG == MAC_BASE_WRAP + \h800

SB_BASE_ADDR             == BAK_BASE_ADDR + \h2000
SB_INT_STATUS_REG        == SB_BASE_ADDR + \h20
SB_INT_HOST_MASK_REG     == SB_BASE_ADDR + \h24
SB_TO_SB_MBOX_REG        == SB_BASE_ADDR + \h40
SB_TO_SB_MBOX_DATA_REG   == SB_BASE_ADDR + \h48
SB_TO_HOST_MBOX_DATA_REG == SB_BASE_ADDR + \h4c

ARM_BASE_ADDR     == BAK_BASE_ADDR + \h3000
ARM_BASE_WRAP     == ARM_BASE_ADDR + \h100000
ARM_IOCTRL_REG    == ARM_BASE_WRAP + \h408
ARM_RESETCTRL_REG == ARM_BASE_WRAP + \h800

SRAM_BASE_ADDR      == BAK_BASE_ADDR + \h4000
SRAM_BANKX_IDX_REG  == SRAM_BASE_ADDR + \h10
SRAM_UNKNOWN_REG    == SRAM_BASE_ADDR + \h40
SRAM_BANKX_PDA_REG  == SRAM_BASE_ADDR + \h44
SRAM_BASE_WRAP      == SRAM_BASE_ADDR + \h100000
SRAM_IOCTRL_REG     == SRAM_BASE_WRAP + \h408
SRAM_RESETCTRL_REG  == SRAM_BASE_WRAP + \h800

SR_CONTROL1 == BAK_BASE_ADDR + \h508

\* Size of a window, and the flag a 32-bit access adds to the offset.
SB_WIN_SIZE  == \h8000
SB_32BIT_WIN == \h8000

Window(addr)   == addr \div SB_WIN_SIZE
OffsetIn(addr) == addr % SB_WIN_SIZE
=============================================================================
