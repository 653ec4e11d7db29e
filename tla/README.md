# Verification of Zerowi

Zerowi is a bare-metal WiFi driver for the Raspberry Pi Zero W: one CPU, no
operating system, no interrupts. It bit-bangs the SDIO bus to the WiFi chip
(a Cypress/Broadcom 43430) on GPIO pins, loads the chip's firmware over that
bus, and then talks to the firmware by "IOCTL" requests and "event" frames.
Two programs are built from it, `srce/zjoin.c` (join a network) and
`srce/zscan.c` (scan for networks).

This directory holds TLA+ models of its parts, TLC configurations that check
them on small instances, and TLAPS proofs for every value of the constants.
Module comments say what is modelled and what is left out. `PROJECT.json`
ties definitions to source lines, properties to hazards, and lists for every
property a seeded fault that breaks it.

## The system

The program is one thread of control. What makes it hard is not concurrency
on the host but the chip: a second machine that runs by itself, answers late
or never, queues frames in a FIFO that the host reads in pieces, and shares
wires with the host that both may drive.

| component | where | state | operations | talks to |
|---|---|---|---|---|
| join and scan programs | zjoin.c, zscan.c | LED, poll timer, `eventbuff` | `main`: set-up, sequence of ioctls, polling loop | all below |
| ioctl calls | zw_ioctl.c | `ioctl_reqid`, `txseq`, the message buffers | `ioctl_cmd`, `ioctl_wait`, wrappers, `ioctl_enable_evts` | SDIO function 2 FIFO, interrupt status over the backplane |
| event reading | zw_ioctl.c | the caller's buffer | `ioctl_get_event` | the same FIFO |
| bring-up of the card | zjoin.c | RCA | `sdio_init` | SDIO commands, backplane |
| firmware loading | zjoin.c | `txbuffer`, `nbytes` | `write_firmware`, `write_nvram`, `firm_*` | backplane, block writes |
| backplane window | zw_sdio.c | `lastaddr`; the chip's window register | `sdio_bak_window`, `sdio_bak_addr`, `sdio_bak_read32`, `sdio_bak_write32` | CMD52, CMD53 |
| SDIO commands | zw_sdio.c | - | `sdio_cmd*`, `sdio_rsp_read` | CMD line |
| SDIO block read and write | zw_sdio.c | counters of the loop, latches, pin directions | `sdio_rsp_block_read`, `sdio_write_blocks`, `sdio_rsp_block_write`, `sdio_block_out` | clock, CMD and data lines |
| CRCs | zw_sdio.c | `crc7_table`, `qcrc16r_table` | `crc7_*`, `add_crc7`, `qcrc16r_init`, `quadval` | messages, blocks |
| message log | zw_sdio.c | `msglog`, `log_idx`, `log_start`, `logging` | `log_*`, `disp_log` | every SDIO operation |
| GPIO pins, timer | zw_gpio.c | port registers, microsecond counter | `gpio_*`, `ustime*`, `usdelay` | everything |
| serial flash | zw_gpio.c | SPI registers | `flash_*`, `spi0_xfer` | `firm_read`, when the firmware is not in the image |
| processor start-up | sdk/ | page table, MMU | `CPU_init` | - |

What is hard in each, and what makes it correct:

- **ioctl calls.** A reply may come after its call gave up, and then stands in
  the FIFO before the next one's; requests, reads and register writes may be
  lost and their results are mostly not looked at; the indication bit is
  cleared by writing back what was read. Correct when a call that reports
  success has been carried out and holds its own answer, when the host gets
  back in step, and when every call returns.
- **join and scan programs.** The loop asks for a frame in one of two turns of the
  LED and decodes it through a structure laid over a buffer it never clears;
  calls and loop read one FIFO; the list of event names and the chip's event
  mask are changed by the same call but not together. Correct when what is
  displayed is of the frame just read, every frame that waits is displayed in the
  end, and the chip sends what the program can name.
- **bring-up of the card.** A hundred commands in a straight line, of which eight
  are checked, and a failed check is only displayed. Correct when no loss of
  commands that leaves the chip unready passes all the checks.
- **event reading.** Length and check word come from the chip, or from payload
  bytes when the reader is out of step; the last block read is as long as the
  room, not as the frame; a lost read counts as read. Correct when nothing is
  stored beyond the buffer, a frame is read whole, and step is regained.
- **backplane window.** The host caches the window although the writes that set
  it may fail. Correct when every access goes where it was meant.
- **firmware loading.** Bursts must not run over the end of a window, and a
  burst that fails ends the image early. Correct when the chip's core starts
  with exactly both images, or what is missing is a prefix the host knows of.
- **SDIO commands.** Commands and responses share a line, the wait for a
  response is bounded, and neither index nor CRC of a response is compared;
  addresses and lengths are cut to fields split over bytes. Correct when a
  command is given its own answer or none, results count the answers, every
  bit is clocked, and the chip takes the bits for what the caller meant.
- **block read and write.** Response and data come on different lines at the
  same time; waits are bounded; the acknowledgement is read from a line the
  host drives. Correct when blocks are exact, the call returns, no byte is
  stored outside the buffer, and host and chip stay in step.
- **CRCs.** Four CRC16s interleaved, bit-reversed, in one 64-bit word; a table
  built with truncated shifts. Correct when they equal the polynomial
  remainder and detect what such a CRC detects.
- **message log.** A ring that overwrites its oldest record and tells kinds of
  record apart by bits of their first byte.
- **GPIO, timer.** Register banks, pull clocking by the wrong bits, writes wider
  than the pins meant; a 32-bit counter that wraps every 71 minutes.

The full list with lines is `hazards` in `PROJECT.json`.

## The modules

| module | models | composed of | proved in |
|---|---|---|---|
| `IoctlService` | what a caller of `ioctl_cmd` may rely on (abstract) | | |
| `Ioctl` | `ioctl_cmd`, `ioctl_wait`, and the chip's FIFO, mailbox and status | refines `IoctlService` | `IoctlProofs` |
| `Events` | `ioctl_enable_evts`, `ioctl_evt_str` and the chip's event mask | extends `Ioctl` | `IoctlProofs` |
| `GetEvent` | `ioctl_get_event` on the FIFO | | `GetEventProofs` |
| `MainLoop` | the loop of `main` | extends `GetEvent` | `GetEventProofs` |
| `Regs` | registers and addresses of `zw_regs.h` | | |
| `BakWindow` | the window cache and accesses through it | | `BringUpProofs` |
| `BringUp` | `sdio_init`, command by command | extends `BakWindow`, `Regs` | `BringUpProofs` |
| `FirmwareLoad` | both images, the check in between, the release of the core | instance of `BakWindow` | `FirmwareLoadProofs` |
| `SdioCmd` | `sdio_cmd*`, `sdio_rsp_read` on the CMD line, a step per clock cycle of host and chip | | `SdioCmdProofs` |
| `SdioRead` | `sdio_rsp_block_read`, a step per clock cycle | | `SdioReadProofs` |
| `SdioWrite` | the data lines during a write, a step per clock cycle of host and chip | | `SdioWriteProofs` |
| `Polynomials` | words as polynomials over GF(2) | | `HostProofs` |
| `Messages` | the bits of the commands, as sent, logged and understood | `Regs` | `HostProofs` |
| `SdioCrc` | a command byte by byte with its CRC, and the CRCs of its block | `Polynomials`, `Messages` | `HostProofs` |
| `MsgLog` | the log ring | | `HostProofs` |
| `Gpio` | the port registers and the set-up that uses them | | `HostProofs` |
| `Timer` | `ustimeout` on a wrapping counter | | `HostProofs` |

Each `MC...` module gives a module its values for TLC, and `MCHost` puts five of them
together. The operators marked
"Seeded fault" belong to no specification: each is a plausible slip in the
definition that follows it, and shows that some property notices.

How state and actions correspond to the code:

- **Ioctl.** `pc` is the place in `ioctl_cmd`: `wait` before `ioctl_wait`, `poll`
  at the loop's head, `ack` before the status is written back, `fetch` before
  the CMD53 read. Between any two of them the chip may execute a request, queue
  a reply or event, or raise its indication. A lost command is a disjunct of the
  action that sends it. Frames carry the call they answer only for the
  properties: the host tells them apart by `ioctl_reqid`, compared with two bytes
  at a fixed place of whatever a fetch brought (`Matching`). At the start of a
  frame these are its id; in the rest of a longer frame they may be any number of
  the set `Lookalikes`, with or without the error flag (`Readings`). `misled` keeps
  the calls that took such bytes for their reply. `RadioRead` is a read of the FIFO
  outside of calls, which takes whatever stands there.
- **Events.** Adds the list, the mask and, per enabling call, the mask sent with it.
  What the chip sends follows from the last such call it has executed.
- **MainLoop.** A step is a turn of the LED, a step of `ioctl_get_event` or the
  display of its result. Between two steps the chip may queue a frame.
- **BringUp.** `Script` is `sdio_init` as a sequence of steps; each kind of step is
  one action, which may lose its command or, for the byte writes of the window,
  some of them. The chip keeps the registers whose values matter later.
- **GetEvent.** `pc` is `header`, `copy` (the loop over the payload) or `drain`;
  a frame's contents are offsets, so that "in place" can be said. The set
  `Lookalikes` holds the lengths that payload bytes passing for a header may claim.
- **BakWindow, FirmwareLoad.** The register is written by three byte writes, each
  of which may be lost. Addresses are window number and offset; the
  contents of RAM are the numbers of the units written. `source` is where the
  next byte of the image comes from: `firmware_pos`, or the place the serial
  flash has counted to.
- **SdioCmd.** One step is a clock cycle, or one turn of the clock by `clk_0` or by
  the loop of `main` (`Toggle`). `t` counts the bits of the chip's answer, from
  below zero while it is still to come, so that an answer can go on while the host
  is already at the next command. Bits between the first two and the last may be
  anything. `clkval` is the host's variable, `clk` the level of the line: the bits
  of commands and responses turn the line without a look at the variable, and the
  chip sees a cycle when the line rises. `TurnClock`, the loop of `main`, leaves
  both at either value; `Lead` and `Rest` are the loop and the end of `clk_0`.
  `seen` counts the bits of the command that a rise has brought to the chip.
  `tardy` is history: an answer has begun too late, and no operation has begun on a
  silent line since.
- **SdioRead.** One step per iteration of the loop. Where the response and the
  block start is chosen at the start; between them lies every alignment.
- **SdioWrite.** One step is a host cycle and a chip cycle. A line both drive may
  read as either level.
- **Messages.** Bytes are numbers; `Encode` is what the bit fields of `zw_sdio.h` make
  of a call, `Understood` what the SDIO specification makes of the bits.
- **SdioCrc.** A word is the set of its one bits; exclusive or is symmetric
  difference. The reference is the remainder of polynomial division.
- **MsgLog.** The first two bytes of each slot, by which it is decoded.
- **Gpio.** All 54 pins: mode, latch and pull, with the real bank arithmetic and
  the real set-up sequence.
- **Timer.** The counter is `Wrap` wide; `elapsed` is true time.

## The runs

| run | shows | bounds, and why they are enough |
|---|---|---|
| `ioctl` | success means carried out, own answer only, back in step after success, whatever is read between calls; after a successful enabling call the chip sends what the program can name; every call returns, though the chip may stream events for ever; refinement of `IoctlService`; the invariant of the proof | 3 calls, so that two late replies can wait before a third call, two of them enabling events; waits of one and two turns; a fetch shorter and longer than a frame; FIFO of 3; tails that read as the id of the second call, so that a call before it and one after it are not misled |
| `main_loop` | frames read whole, step regained, nothing stored beyond the buffer, every call returns; what is decoded is of the frame just read; a frame that waits is shown | frames from a header alone to two blocks of 3 units beyond the buffer of 5; payload bytes that pass for headers of a frame that fits and of one that does not; two lost reads; the turns of zscan.c |
| `bring_up` | every access hits its address once the window has been set whole; no set of lost commands leaves the chip unready unnoticed; nothing lost, nothing wrong; no backplane access with the clock off after the check of it | the program's whole sequence and real addresses; any number of lost commands; one lost byte write of the window |
| `firmware_load` | both images whole when nothing is lost; else a prefix of the firmware, though the source counts on past a failed burst | window of two bursts as in the program, two windows and a half of firmware |
| `sdio_read` | blocks exact, in the buffer, in time | the program's constants (48 bits, wait of 20); every start of data from before the response to after its end |
| `sdio_write` | host and chip stay in step | three blocks; a chip busy for up to 6 cycles |
| `host`, `SdioCmd` | a command is given its own answer or none, and results count the answers in time, until an answer comes too late and again once the line was silent; every bit is clocked, from either level of the clock | the program's constants; up to three commands, as many as an operation of the program has; answers at once, around the last cycle waited for, on both sides of four cycles late, and up to the 64 cycles of the SDIO specification |
| `host`, `SdioCrc` | the chip takes a command for what was meant, and the log shows it so; CRCs equal the polynomial remainder and detect bursts | each kind of command the program sends, with the addresses and lengths at which fields fill up; data of 3 nibbles and errors in up to 2 anywhere: the CRC is linear, so single bits and their sums are what could go wrong |
| `host`, `MsgLog` | the log shows the latest records, in order and of the right kind | ring of 3, up to 4 records between displays: overflow from every position |
| `host`, `Gpio` | the lines the host reads end with the pulls asked for, and the chip stays powered | the real pins and power-on pulls |
| `host`, `Timer` | delays end neither early nor late | a 4-bit counter from every position |

`host` checks five parts that share no state in one run (`MCHost`): `part` says
which of them moves in a behaviour, and the others stand still. The states are
those of the five one after the other, not their product.

Five more runs look for, and find, a violation of what a comment of the source
says; they are the findings of `PROJECT.json`:

- `bak_window_skip`: "don't set if already OK" - the window is taken for set when
  setting it failed (`zw_sdio.c:101`).
- `ioctl_tail`: "Discard response if not matching request" - what is compared is
  16 bits at a fixed place of whatever was fetched. An event longer than the fetch
  leaves its tail for the next one, and if that has the small number of the
  current request there, the call succeeds with nothing executed
  (`zw_ioctl.c:197`). `OwnReplyOnly` says that this is the only way: a call whose
  id no tail reads as gets its own reply or none, also after others were misled.
- `sdio_cmd_none`: "return 0 if none" - a command without a response returns 48
  when the response to an earlier one, given up, is still to come
  (`zw_sdio.c:265`).
- `msg_log_size`: "keeping the last LOG_SIZE records" - one less is kept
  (`zw_sdio.c:566`), which is what `ShowsLatest` says.
- `gpio_clock`: "Set input or output with pullups" - `gpio_pull` writes
  `pin << (pin % 32)` where `1 << (pin % 32)` selects the pin, so the pull goes to
  the pins named by the bits of the number (`zw_gpio.c:244`). No call reaches the
  clock line, which keeps the pull-up it has at power-on. That the command and
  data lines are pulled up as asked (`ReadPullsAsAsked`) is owed to calls for
  neighbouring pins.

Five smaller divergences were met while modelling. The models follow the code:

- `zjoin.c:73`, "must be multiple of 256, and less than 32K": the buffer must
  divide the 32K window, as `write_firmware` sets the window once per burst. 24K
  satisfies the comment and would lose data.
- `zw_gpio.c:271`: `gpio_write` sets latches beyond the pins it is called for when
  the value has more bits, as 0xff for four pins at `zw_sdio.c:295`. `StaysOn`
  says that the chip's power pin survives it.
- `zw_sdio.c:54`, "max 32K in total": 512 blocks would be sent as a count of 0,
  which in block mode is a transfer without end. The program sends at most 256.
- `zjoin.c:171` decodes any frame that is not empty, so a short one would be
  displayed with the end of an earlier one; `zscan.c:183` asks for more than the
  structure it decodes, and this is what `DecodesOwn` is about.
- `zw_sdio.c:79`: the acknowledgement of a block is read from a line the host
  drives itself. Nothing depends on the bits; `InStep` holds for any of them.

What `bring_up` leaves out is as telling as what it shows. `NoticedUnlessReady`
says nothing of lost image data, which no check looks at, nor of lost byte
writes of the window: one lost at the last setting (`zjoin.c:378`) leaves the
window wrong for as long as the same window is asked for, and one lost at
`zjoin.c:338` sends a write into the loaded firmware. The core of the MAC and
the interrupt enables are read back by no check. A register that has not
changed yet when it is checked counts as a lost command.

Events that arrive during a call are discarded by `ioctl_cmd`: that is its
design, and no property claims otherwise.

An answer that begins more than four cycles after `RSP_WAIT` is taken for the
start of the next one: the host sends the next command at once, and nothing tells
the two apart. The SDIO specification lets a card take 64 cycles, the host waits
20. `sdio_cmd` has such answers, and `OwnAnswers` and `CountsAnswers` claim nothing
while the disorder lasts (`tardy`): that one command more or less is then counted is
what `sdio_cmd_none` finds. They do claim that it ends with the first operation
begun on a silent line.

`sdio_write` bounds how long the chip is busy (`MaxBusy`) because nothing in
the code waits for it: from 7 cycles on the next block starts while the chip is
still busy, and the property fails. That is the margin of the code, not of the
model.

Deadlock is not checked where the modelled activity ends (the reading or writing
of blocks, the loading of the firmware, the bring-up).

### Fairness

`FairEvents` of `Events` assumes weak fairness of the steps of a call in progress
(`InCall`), `FairLoop` of the steps of the loop of `main` (`Loop`, its timer
included): the CPU runs this program and nothing else, without interrupts, no
delay in it is unbounded, and the loop looks at its timer in every turn.
`ioctl_cmd` is not assumed to be called, and nothing is assumed of the chip:
it may stay silent or send for ever. Resynchronisation (`Resync`) bounds the
number of lost reads, by `MaxFaults`, and is claimed only if payload bytes are
not taken for a header for ever; `FrameShown` is given up when a read is lost
meanwhile. All other modules check safety only.

## What is proved

For all values of the constants that satisfy the named assumptions:

| theorem | says |
|---|---|
| `IoctlProofs!InvCorrect`, `OwnReplies`, `Resynchronised` | success means carried out and only the own answer fills the buffer, but for a call that took a tail with its own id for the reply; nothing older is on the link after a success by a reply |
| `IoctlProofs!Implementation` | `Ioctl` refines `IoctlService`, a call misled by a tail counted as failed |
| `IoctlProofs!EventsAgree` | after an enabling call that succeeded, and not on a tail, the chip's mask and the program's list agree, whatever older calls do |
| `GetEventProofs!TypeCorrect`, `StaysInBuffer`, `WholeFrames` | nothing stored beyond the buffer whatever the header says; whole frames while nothing is lost |
| `GetEventProofs!DecodesTheFrame` | what is decoded is of the frame just read, if a decoded frame must be as long as what is decoded |
| `BringUpProofs!UsesWindow`, `WindowRight`, `BringUpRight` | `BringUp` implements `BakWindow`; accesses go where they are meant, in any program that uses the window as it does, if the last setting lost nothing |
| `BringUpProofs!UpTypeCorrect`, `ClockStaysOn` | the chip holds what the sequence writes; no backplane access with the clock off after the check of it, for any losses |
| `BringUpProofs!NoSilentFailure`, `CleanRun` | no set of lost commands leaves the chip unready with every check passed; nothing lost, nothing wrong |
| `FirmwareLoadProofs!TypeCorrect`, `ImagesWhole`, `PrefixLoaded` | for images and windows of any size: nothing lost, both images whole when the core starts; whole commands lost, a prefix that the result covers |
| `SdioCmdProofs!BitsReachChip` | every bit of a command is clocked into the chip, from either level of the clock |
| `SdioCmdProofs!NoStaleAnswer`, `ResultsCount` | for all delays: until an answer begins more than four cycles after the wait, and again from the next operation begun on a silent line, commands are given their own answers and results count them |
| `SdioReadProofs!TypeCorrect`, `StaysInBuffer`, `Returns` | block reads stay in the buffer and return in time |
| `SdioReadProofs!ReadsWhole` | a block that starts after its response is read byte for byte, or missed and 0 returned |
| `SdioWriteProofs!BlocksInStep` | a chip that is ready in time takes all blocks, whole and in step |
| `HostProofs!TimerTypeCorrect`, `DelaysOnTime` | delays are right for every counter width |
| `HostProofs!LogShowsLatest` | the log shows the latest records, for any size of the ring |
| `HostProofs!GpioTypeCorrect`, `ReadLinesPulledUp`, `PowerStays` | the command and data lines get the pulls asked for whatever they were at power-on; the chip stays powered |
| `HostProofs!FourRemainders` | the word kept for four lines holds the CRC16 of each, for blocks of any length |
| `HostProofs!DetectsBursts` | a block's result is 0 exactly if nothing was flipped, for blocks of any length and flips within 16 nibbles |
| `HostProofs!CommandsDivide` | a command of any bytes divides by the polynomial once its CRC is added |
| `HostProofs!CommandsRead`, `LogsRead` | the chip reads in a command what its caller meant, and the log shows it so, for every address, length and argument |

The arguments:

- **Ioctl.** That only the own reply is accepted is not inductive: it needs that
  ids are call numbers (`IdsAreCalls`, from `Calls < IdMod`: both programs make
  a fixed number of calls before their loop, so the 16-bit id never wraps),
  that requests and replies stand in call order (`CallOrder`, `AppliedOrder`),
  that a call has an outcome exactly when it is over (`Outcomes`), and that a
  reply is as long as its request, so that fetching the answer to the current call
  leaves no tail of it (`ReplyFits`). Nothing is assumed of what the tails of other
  frames read as: a call that accepts one is in `misled`, and the claims about
  success leave it out; those about the calls after it do not.
  `IInv` is their conjunction; run `ioctl` checks it and `IoctlProofs` shows
  each action preserves each part. The refinement follows step by step.
- **Events.** A success means that the call was executed, and requests are executed
  in call order (both from `IInv`), so no older request can follow it; the
  rest is that list and mask sent are those of the same call.
- **MainLoop.** Steps of the loop are steps of `GetEvent` or leave it alone, so its
  invariants carry over; what `WholeFrames` says at the return of a call then
  holds of the buffer until the next one (`Held`).
- **BakWindow.** The chip has the window remembered if the last setting lost
  nothing, and before the first setting none is remembered (`Remembered`); a
  skipped setting inherits this from the one before. It is assumed (`InWindow`)
  that no 32-bit access is for a window whose second bit is set, which would
  select the function's own registers; it holds of the three windows of the
  program. `ScriptAssumption`, which TLC evaluates, says that the constants of
  `BakWindow` are those of the sequence.
- **BringUp.** The sequence is taken apart by place: some forty of its 92 steps,
  named in lemmas, touch the registers that matter or check something, all others
  are plain. `ClockInv` says from which place on the clock is on unless a check has
  failed. For `NoSilentFailure`, `Watched` says what the checks passed so far have
  shown and what no later step undoes, while no byte write of the window is lost: a
  lost command is thus noticed at the latest by the check of its effect. `Intact`
  says how far the chip is at each place when nothing is lost, so that each check
  sees what it waits for.
- **FirmwareLoad.** The first units of the firmware are loaded and no others, and
  they are those counted (`Placed`), since every burst goes to the window it is
  meant for (`WindowKnown`) and ends in it: bursts begin at multiples of their size
  (`Aligned`), and their size is assumed to divide the window (`BurstsFit`; the
  program's divides it by two). `TypeCorrect` needs neither.
- **GetEvent.** `StaysInBuffer` needs what is stored to be bounded by the room
  left; `WholeFrames` needs host and chip to agree on the position in the frame
  while nothing is lost, in calls that begin at the start of a frame (`aligned`).
- **SdioCmd.** Nothing is assumed of the delays. While no answer has begun too
  late (`tardy`), the invariant says where a late answer has got to in each phase of
  the host (`Late`): the two rises of the clock in `clk_0`, from either level, and a
  command's 48 bring an answer that began four cycles late to its stop bit, which is
  a one. The current answer is still to come or being read (`Current`). For the
  count, an answer in time is owed (`Owed`) until its last bit is read. That the
  clock is low when the bits are sent is what `Rest` establishes; that every bit then
  is a rise, and that variable and line agree again at the end, is carried through
  all steps (`Clocked`).
- **SdioRead.** The byte pointer follows the number of data bits (`Tracks`), and
  the number of cycles follows response and data bits (`Timing`). The delicate
  case is data taken for a second start, when both counters restart. When the
  block starts after the response, the bits read are the cycles since then
  (`Course`) and the bytes they fill are in place (`Filled`).
- **SdioWrite.** For each place of the host, the invariant says where the chip is
  (`Together`): how much it has taken, and when it is busy, for how long at most. It
  is assumed (`ReadyInTime`) that the chip is busy no longer than the host happens to
  wait: 6 cycles for the program's constants, which is the bound TLC finds to be
  exact.
- **MsgLog.** Slots from `log_start` to `log_idx` hold the latest records of all that
  were logged since the last display, all of them or as many as slots but one
  (`LogInv`). A display shows them by what their first byte says, which the
  proof computes for each kind of record.
- **Gpio.** The calls still to make are the end of the sequence; each of the lines has
  been pulled up once the call that reaches it has been made (`PulledUp`), which for
  three of the five is not its own.
- **Timer.** Counter and true time agree up to one wrap (`Ahead`), because delay
  and polling gap together stay below half the range.
- **Recursion in SdioCrc and Messages.** What a recursive definition computes for
  every input is shown without induction theorems: a set of numbers that is not
  empty has a least one (`Least`), so what holds at 0 and at each next number holds
  at all (`Upward`), and a table of n steps exists and is the only one
  (`StepsExist`, `RemainderIs`). Then two facts about the division carry
  everything: bits appended below shift it (`Appended`), and with its remainder
  added a word divides (`Completed`).
- **CRC of a block.** One `Update` is one turn of a division for each of the four
  lines, which do not disturb one another (`LineTurns`). For errors, sender's
  and receiver's words differ by what the errors alone would leave there
  (`Differ`); the first of them leaves a mark in the highest nibble, which comes
  down by one nibble with every update, unless the update makes a new mark at
  the top (`FirstMark`, `MarkStays`); so one is left after any 16. It is assumed (`BurstCovered`) that the span is no
  longer than the 16 bits of a line's CRC.
- **CRC of a command.** `crc7_byte` does eight turns of the division on a word kept
  one bit up (`ByteTurn`), so after each byte `crc` is the remainder of all bytes so
  far, times x^7 (`SumGrows`).
- **Bits of a command.** The bytes taken so far are those of the command
  (`MsgInv`). A field read bit by bit has the value of the bits it is made of
  (`AtByte`, `AtNumber`, `AtFlags`, `AtAddress`, `AtLength`), and the bytes that
  the host composes have the fields it put there (`FlagFields`, `LowFields`,
  `AddressFields`, `LengthFields`). What callers give is limited by
  `SdioCrcAssumption`: a register's address fits its 17 bits, a backplane address
  carries the flag of a 32-bit access and not the bit above, and 512 is a length
  in bytes only. TLC evaluates it for the commands of the program.

## What is only model-checked

Liveness (`CallReturns`, `Resync`, `FrameShown`): the prover has no fairness. All
other properties of the passing runs are proved as well.

## What is not modelled

The arguments of the ioctls that `main` sends, the fields of the events it
displays, the SPI registers of the serial flash, and the page table set up
before `main`, which is third-party code of the SDK. That the chip's power pin
is an output is left to the boot loader, outside this code. Display functions,
but for the length and address of a logged command, the records shown and the
name of an event, are formatting; `mmap_*` is compiled out; SDK, build files,
vendor headers and the firmware image are third-party or hold no logic of this
program. Reads of events and calls are checked in two modules, `MainLoop` and
`Ioctl` with `RadioRead`, and not in one: the loop starts after the last call.
The request id's wrap-around is outside the model: no program reaches it.

By lines most of the repository is of this kind: of some 18 000 lines 9700 are
the firmware image, 5100 vendor headers and most others the SDK. The code of the
program itself is some 2700 lines in `srce/`; `map` names the lines of it that
each definition stands for.

## Plan

Done, in this order: `IoctlService`, `Ioctl`, `GetEvent`, `BakWindow`,
`FirmwareLoad`, `MsgLog`, `SdioRead`, `SdioCrc`, `Gpio`, `SdioWrite`,
`Timer`, `SdioCmd`; then `BringUp` over `BakWindow` and `Regs`, `Events` over
`Ioctl`, `MainLoop` over `GetEvent`, `Messages` under `SdioCrc`; proofs of every
safety property that a passing run checks.

Next: `spi0_xfer` and the commands to the serial flash, on which `source` of
`FirmwareLoad` rests; the arguments of the ioctls that `main` sends, as far as the
program interprets them.
