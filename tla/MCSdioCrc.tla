------------------------------ MODULE MCSdioCrc -----------------------------
(***************************************************************************)
(* SdioCrc with values for TLC.  Commands: those of the bring-up, with     *)
(* every RCA made of a few telling bytes; reads and writes of every        *)
(* register named by the program with any byte; transfers of every length  *)
(* at which a field fills up, to the addresses the program uses.  For      *)
(* blocks, a table entry for each line alone and for more than one; errors *)
(* on the first line, the last, and several, in up to two nibbles in a row *)
(* anywhere in data or CRC.                                                *)
(***************************************************************************)
EXTENDS SdioCrc

MCBytes == {0, 1, 2, 66, 127, 128, 255}

\* Arguments lowest byte first: 0, 0x1aa, 0x200000.
BusCalls ==
  [num : {0, 3, 5, 8}, arg : {<<0, 0, 0, 0>>, <<170, 1, 0, 0>>, <<0, 0, 32, 0>>}]
  \union [num : {7}, rca : MCBytes \X MCBytes]

RegCalls ==
  [num : {52}, func : {0}, data : MCBytes, wr : {0, 1}, raw : {0},
   addr : {BUS_IOEN_REG, BUS_IORDY_REG, BUS_INTEN_REG, BUS_INTPEND_REG, 6,
           BUS_BI_CTRL_REG, BUS_SPEED_CTRL_REG, BUS_BRCM_CARDCAP, \hf1,
           BUS_BAK_BLKSIZE_REG, BUS_BAK_BLKSIZE_REG + 1,
           BUS_RAD_BLKSIZE_REG, BUS_RAD_BLKSIZE_REG + 1}]
  \union [num : {52}, func : {1}, data : 0..255, wr : {1}, raw : {0},
          addr : \h1000a..\h1000c \union {BAK_CHIP_CLOCK_CSR_REG, BAK_PULLUP_REG,
                                         BAK_WAKEUP_REG}]

\* Blocks: as many as txbuffer holds, or what is left of the firmware.
Transfers ==
  [num : {53}, func : {1}, blk : {0}, wr : {0, 1}, len : {4, 64},
   addr : {SB_32BIT_WIN, SB_32BIT_WIN + \hfc, \h8600, \hee80, \hffd4, \h70d4, \hfd54}]
  \union [num : {53}, func : {2}, blk : {0}, wr : {0, 1}, addr : {SB_32BIT_WIN},
          len : {1, 12, 64, 127, 128, 255, 256, 257, 304, 511, 512}]
  \union [num : {53}, func : {1}, blk : {1}, wr : {1}, len : {1, 186, 256},
          addr : {SB_32BIT_WIN, SB_32BIT_WIN + \h4000}]

BakCalls ==
  {BakCall(addr, wr) : wr \in {0, 1},
     addr \in {MAC_IOCTRL_REG, MAC_RESETCTRL_REG, SB_INT_STATUS_REG,
               SB_INT_HOST_MASK_REG, SB_TO_SB_MBOX_REG, SB_TO_SB_MBOX_DATA_REG,
               SB_TO_HOST_MBOX_DATA_REG, ARM_IOCTRL_REG, ARM_RESETCTRL_REG,
               SRAM_BANKX_IDX_REG, SRAM_UNKNOWN_REG, SRAM_BANKX_PDA_REG,
               SRAM_IOCTRL_REG, SRAM_RESETCTRL_REG, SR_CONTROL1, \h6fffc}}

MCCalls == BusCalls \union RegCalls \union Transfers \union BakCalls

MCNibbles == {{}, {0, 3}, {1, 2}, {0, 1, 2, 3}}
MCErrors  == {{0}, {3}, {1, 2}}
=============================================================================
