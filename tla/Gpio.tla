-------------------------------- MODULE Gpio --------------------------------
(***************************************************************************)
(* The GPIO pins of the host, srce/zw_gpio.c: gpio_set, gpio_mode,         *)
(* gpio_pull, gpio_out and gpio_write as they act on the registers, in the *)
(* order in which main and its set-up functions (srce/zjoin.c, flash_init, *)
(* osc_init) and the SD driver (srce/zw_sdio.c) call them.                 *)
(*                                                                         *)
(* A register has a bit for each of 32 pins.  Writing a value to a set or  *)
(* clear register changes the latch of every pin whose bit is 1; a pull is *)
(* taken over by every pin whose bit is 1 in the clock register.           *)
(***************************************************************************)
EXTENDS Integers, Sequences

CONSTANTS
  Pins,       \* pins of the chip
  PowerOn,    \* their pulls at power-on
  Written     \* values written to the data lines

ASSUME GpioAssumption ==
  /\ Pins = 0..53
  /\ PowerOn \in [Pins -> 0..2]
  /\ Written \subseteq 0..15 \cup {255}

GPIO_IN  == 0    GPIO_OUT == 1    GPIO_ALT0 == 4
GPIO_NOPULL == 0    GPIO_PULLDN == 1    GPIO_PULLUP == 2

SD_CLK_PIN == 34    SD_CMD_PIN == 35    SD_D0_PIN == 36    SD_D3_PIN == 39
WLAN_ON_PIN == 41   SD_32KHZ_PIN == 43  LED_PIN == 47

VARIABLES
  mode,     \* GPIO_IN, GPIO_OUT or an alternate function, per pin
  latch,    \* output latch, per pin
  pulls,    \* pull, per pin
  asked,    \* the last pull asked of gpio_set, per pin it was called for (history)
  setup     \* calls of the set-up still to come

gpioVars == <<mode, latch, pulls, asked, setup>>

-----------------------------------------------------------------------------
(* Register values.                                                        *)

Bit(v, i) == (v \div 2^i) % 2 = 1

\* v << k in 32 bits, for v of at most 8 bits.
Shifted(v, k) == {i \in 0..31 : i >= k /\ i - k < 8 /\ Bit(v, i - k)}

\* The pins a register of `pin` selects with the bits b set.
Selected(pin, b) == {p \in Pins : p \div 32 = pin \div 32 /\ p % 32 \in b}

\* The bits gpio_pull writes: pin << (pin % 32).
PullBits(pin) == Shifted(pin, pin % 32)

-----------------------------------------------------------------------------
(* Operations.                                                             *)

\* Seeded fault: the register of the first 32 pins whatever the pin.
PullFirstBank(pin, pull) ==
  pulls' = [p \in Pins |-> IF p \in Selected(0, PullBits(pin)) THEN pull ELSE pulls[p]]

\* Every pin selected takes over the pull.
gpio_pull(pin, pull) ==
  pulls' = [p \in Pins |-> IF p \in Selected(pin, PullBits(pin)) THEN pull ELSE pulls[p]]

\* Seeded fault: the old mode is not cleared first.
ModeUnmasked(pin, m) == mode' = [mode EXCEPT ![pin] = @ + m]

gpio_mode(pin, m) == mode' = [mode EXCEPT ![pin] = m]

gpio_set(pin, m, pull) ==
  /\ gpio_mode(pin, m)
  /\ gpio_pull(pin, pull)
  /\ asked' = [p \in DOMAIN asked \cup {pin} |-> IF p = pin THEN pull ELSE asked[p]]
  /\ UNCHANGED latch

gpio_out(pin, val) ==
  /\ latch' = [latch EXCEPT ![pin] = IF val # 0 THEN 1 ELSE 0]
  /\ UNCHANGED <<mode, pulls, asked>>

\* Seeded fault: every bit that is 0 in the value is cleared.
WriteUnmasked(pin, npins, val) ==
  LET set == Selected(pin, Shifted(val, pin % 32))
      clr == Selected(pin, Shifted(255 - val, pin % 32))
  IN  latch' = [p \in Pins |-> IF p \in clr THEN 0 ELSE IF p \in set THEN 1 ELSE latch[p]]

\* The set register is written first.  Only the bits cleared are masked.
WriteLatches(pin, npins, val) ==
  LET set == Selected(pin, Shifted(val, pin % 32))
      clr == Selected(pin, Shifted((255 - val) % 2^npins, pin % 32))
  IN  latch' = [p \in Pins |-> IF p \in clr THEN 0 ELSE IF p \in set THEN 1 ELSE latch[p]]

gpio_write(pin, npins, val) ==
  /\ WriteLatches(pin, npins, val)
  /\ UNCHANGED <<mode, pulls, asked>>

-----------------------------------------------------------------------------
(* Callers.                                                                *)

Set(pin, m, pull) == [op |-> "set", pin |-> pin, mode |-> m, pull |-> pull]
Out(pin, v)       == [op |-> "out", pin |-> pin, val |-> v]

osc_init == <<Set(SD_32KHZ_PIN, GPIO_ALT0, GPIO_NOPULL)>>

sd_setup == <<Set(SD_CLK_PIN, GPIO_OUT, GPIO_NOPULL),
              Set(SD_CMD_PIN, GPIO_IN, GPIO_PULLUP)>>
            \o [i \in 1..4 |-> Set(SD_D0_PIN + i - 1, GPIO_IN, GPIO_PULLUP)]

\* SPI0: chip enable, MISO, MOSI, clock.
flash_init == <<Set(8, GPIO_ALT0, GPIO_NOPULL), Set(9, GPIO_ALT0, GPIO_PULLUP),
                Set(10, GPIO_ALT0, GPIO_NOPULL), Set(11, GPIO_ALT0, GPIO_NOPULL)>>

main == osc_init \o <<Set(LED_PIN, GPIO_OUT, GPIO_NOPULL)>> \o sd_setup
        \o <<Out(WLAN_ON_PIN, 1)>> \o flash_init

GpioInit ==
  /\ mode = [p \in Pins |-> GPIO_IN]
  /\ latch = [p \in Pins |-> 0]
  /\ pulls = PowerOn /\ asked = <<>>
  /\ setup = main

SetUp ==
  /\ setup # <<>> /\ setup' = Tail(setup)
  /\ LET c == Head(setup)
     IN  \/ c.op = "set" /\ gpio_set(c.pin, c.mode, c.pull)
         \/ c.op = "out" /\ gpio_out(c.pin, c.val)

\* sdio_cmd_write, sdio_rsp_read, clk_0 and the LED of main.
DriveLine ==
  /\ setup = <<>> /\ UNCHANGED setup
  /\ \E pin \in {SD_CLK_PIN, SD_CMD_PIN, LED_PIN}, v \in {0, 1} : gpio_out(pin, v)

\* The command line, or the four data lines, which are always turned together.
TurnLine ==
  /\ setup = <<>> /\ UNCHANGED <<setup, latch, pulls, asked>>
  /\ \/ \E m \in {GPIO_IN, GPIO_OUT} : gpio_mode(SD_CMD_PIN, m)
     \/ \E m \in {GPIO_IN, GPIO_OUT} :
          mode' = [p \in Pins |-> IF p \in SD_D0_PIN..SD_D3_PIN THEN m ELSE mode[p]]

\* sdio_block_out, sdio_write_blocks, sdio_rsp_block_write: a nibble, or 0xff.
WriteNibble ==
  /\ setup = <<>> /\ UNCHANGED setup
  /\ \E val \in Written : gpio_write(SD_D0_PIN, 4, val)

GpioNext == SetUp \/ DriveLine \/ TurnLine \/ WriteNibble
GpioSpec == GpioInit /\ [][GpioNext]_gpioVars

-----------------------------------------------------------------------------
(* Properties.                                                             *)

GpioTypeOK ==
  /\ mode \in [Pins -> 0..7] /\ latch \in [Pins -> {0, 1}]
  /\ pulls \in [Pins -> 0..2]
  /\ DOMAIN asked \subseteq Pins /\ \A p \in DOMAIN asked : asked[p] \in 0..2

\* After the set-up the lines the chip drives too, command and data, have the
\* pulls sd_setup asked for, so that a silent line reads as ones; although the
\* calls of gpio_pull reach other pins than their own, and some only others.
\* The clock, which only the host drives, is the line of AllPullsAsAsked.
ReadPullsAsAsked ==
  setup = <<>> => \A pin \in SD_CMD_PIN..SD_D3_PIN : pulls[pin] = asked[pin]

\* "Set input or output with pullups": after the set-up every line to the chip,
\* the clock included, has the pull that gpio_set was called with for it.
AllPullsAsAsked ==
  setup = <<>> => \A pin \in SD_CLK_PIN..SD_D3_PIN : pulls[pin] = asked[pin]

\* Once the WiFi chip is on it stays on: no write to the data lines, not even
\* that of 0xff, takes its power pin down.
StaysOn == [][latch[WLAN_ON_PIN] = 1 => latch'[WLAN_ON_PIN] = 1]_gpioVars
=============================================================================
