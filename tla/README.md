# A TLA+ model of the HEXTIr firmware

HEXTIr makes an ATmega328 a peripheral on Texas Instruments' HEX-BUS: a disk
drive on an SD card (device 100 and up), a serial port (20), a printer (10) and
a clock (230). The firmware is one loop that reads a 9-byte PAB (device,
command, LUN, record, lengths) off the bus, half a byte at a time, runs the
handler registered for the device, and replies. Around that loop are interrupt
handlers for the card-detect pin, the UARTs and the timers.

This directory holds TLA+ modules that model it, the TLC runs that check them,
and proofs that TLAPS checks. Paths below are relative to `src/src/` of the
repository.

## 1. Inventory

| component | code | state | operations | who calls it | modelled by |
|---|---|---|---|---|---|
| HEX-BUS link | `hexbus.c` | the open-drain lines BAV, HSK and four data lines | capture HSK, receive and send a byte, finish, release | dispatcher, every handler | `HexBus` |
| Dispatcher | `main.cpp`, `registry.cpp` | the PAB bytes `i`, `ignore_cmd`, registry | set up, sleep, receive a PAB, execute or ignore, poll the card | - | `HexBus`, `Hotplug`, `Devices`, `Uarts` |
| Message helpers, parsers | `hexops.cpp` | the message buffer | eat, get data, open helper, commands, equates, numbers | handlers | `HexBus` (bus part), `Devices` (commands) |
| Drive: LUN table | `drive.cpp` | `files[]`, `open_files`, `_cmd_lun`, `fs_initialized` | open, close, write, delete, reset, init | dispatcher, card poll | `DriveLuns` |
| Drive: records | `drive.cpp` | position in a file | read, write, restore, verify | dispatcher | `Records`, `FatFiles` |
| Catalog | `catalog.cpp` | slot with `FILEATTR_CATALOG`, pattern, `dirnum` | open, read as program or text | drive | `DriveLuns` (slot), `Listing` |
| Card change | `sdcard.cpp` interrupt, `main.cpp` poll | `disk_state`, `disk_state_old` | interrupt, poll, mount | user, main loop, driver | `Hotplug` |
| SD driver | `sdcard.cpp`, `spi.cpp` | card type, `disk_state` | initialise, read, write, status | FatFS | `SdCard`, `Hotplug` (`disk_state`) |
| FatFS | `ff.cpp` (R0.06, changed here) | file objects, one sector buffer, current directory | mount, open, read, write, seek, sync, close, unlink, mkdir, rename, chdir | drive, catalog | `FatFiles`, `SectorBuffer` |
| Serial, printer | `serial.cpp`, `printer.cpp` | open flags, options | open, close, read, write, status, reset, commands | dispatcher | `Devices` |
| UARTs | `uart.cpp`, `swuart.cpp` | transmit ring, shift registers, `running` | put, flush, interrupts | serial, printer, debug | `Uarts` |
| Clock | `clock.cpp` | open mode | open, close, read, write, reset | dispatcher | `HexBus` (bus part), `Devices`, `Calendar` |
| RTCs | `rtc.cpp`, `softrtc.cpp`, `pcf8583.cpp`, `ds1307-3231.cpp` | seconds, registers, `rtc_state` | read, set, tick | clock, FatFS | `Calendar` |
| Configuration | `eeprom.c`, `registry.cpp` | device numbers, options, checksum | load, store, register | setup, command channel | `Devices` |
| Power, timer, LEDs | `powermgmt.cpp`, `timer.c`, `led.c` | ticks | sleep, wake | main loop | `Uarts` (sleep), `Calendar` (tick) |

How they interact: the dispatcher calls a device's handler with the PAB; the
handler takes the rest of the message off the bus and replies through the
link. The drive and the catalog call FatFS, FatFS the SD driver and, for the
date of a directory entry, the clock. The card-detect interrupt and the SD
driver tell the main loop through `disk_state`, which makes it call
`drv_init()`. The serial port and the printer put characters into a ring or a
shift register that interrupts empty, and the main loop asks both whether they
are empty before it sleeps. The command channels of all devices change one
configuration record and one registry.

What makes each part correct, and what is hard about it:

- **Link.** Units of any speed and the host share two open-drain lines. Correct:
  one talker on the data lines, each nibble taken exactly once by everyone who
  listens, a reply only from the unit that was named and only while the host
  waits, every line released afterwards. Hard: the host may give up at any
  wait; a unit may wake in the middle; the first byte of a PAB is read without
  waiting for HSK.
- **LUN table.** Eight slots with LUNs, each with a FatFS object that may hold
  data not on the card yet. Correct: one slot per open LUN, none for another,
  no unsaved data without a slot, `open_files` the number of slots (a reset goes
  by it), SUCCESS only for what was done, no file written to another card. Hard:
  the early returns of each command, a full table, a failing or swapped card.
- **FatFS.** One sector buffer for the FAT, the directories and all files.
  Correct: chains never cross, entries are whole at every disk write, a closed
  file is on the card, a file object's cluster, sector and position agree. Hard:
  power lost between any two disk writes, a full card, seeks to a boundary, long
  names in several entries, a card swapped under a dirty buffer.
- **SD driver.** Correct: RES_OK means that the right sectors moved, nothing
  else changed, every call returns. Hard: answers and blocks lost or spoilt,
  retries, five kinds of card, the card pulled at any step.
- **Card change.** An interrupt and the driver write `disk_state`, the main loop
  reads it three times per poll. Correct: no command runs on a file system
  mounted from a card that is gone, and no file is thrown away for another
  reason.
- **Devices and configuration.** Correct: each message is taken to its end and
  answered once, what is sent is what was received, device numbers stay in range
  and in step with the record, a record torn by a loss of power is not believed.
- **UARTs.** Correct: characters leave once and in order, and the processor does
  not sleep over one. Hard: 16-bit variables changed by program and interrupt in
  8-bit pieces, the timer switched off by one while the other switches it on.
- **Records, catalog, calendar.** Pure computations on bytes, names and dates,
  each against what a host may expect: the value it wrote, the entries that
  match, the day it is.

`PROJECT.json` lists every component and, under `hazards`, what can go wrong
where, with the property that watches it or the reason there is none.

## 2. The modules

| module | what it is |
|---|---|
| `HexBus` | the wires, the units' code at every access to a wire, the host |
| `HexExchange` | what the bus promises: a command heard in lock step, then a reply. `HexBus` implements it (`Transactions`) |
| `MCHexBus` | the messages of the small instances |
| `HexBusLockStep` | where each unit is for each place of the host: the inductive invariants `LockStep`, and `BusOk` for a host that may give up |
| `HexBus_proofs` | type correctness of `HexBus`; `LockStep`, `BusOk`, the safety of the bus, the refinement |
| `DriveLuns` | the LUN table and the commands that use it |
| `LunTable` | what it promises: open LUNs and unsaved data, no slots. `DriveLuns` implements it (`LunsAreFiles`) |
| `DriveLuns_proofs` | the count, the table's invariants, the refinement |
| `Hotplug` | interrupt, poll and mount |
| `Hotplug_proofs` | why changes are noticed |
| `SectorBuffer` | FatFS's one sector buffer and the FAT that is changed through it |
| `FatFiles` | directories, chains and file objects; each FatFS call as drive.cpp makes it |
| `SdCard` | the SD driver, command by command, and the card's answers |
| `SdCard_proofs` | that the driver knows its card, and that OK is true |
| `Devices` | serial port, printer, clock; command channel, registry, EEPROM |
| `Devices_proofs` | what the host knows, the numbers, the data, the configuration |
| `Uarts` | transmit ring, software UART, their interrupts, sleep |
| `CharLines` | what they promise: lines that carry characters once and in order. `Uarts` implements it (`CarriesAll`) |
| `Uarts_proofs` | a character between the shift register and the other end, bit by bit; the refinement, and that no sleep holds a character up |
| `Records` | READ, WRITE, RESTORE, VERIFY on the bytes of a file |
| `Listing` | directory listings |
| `HostData_proofs` | that the file is its values, that READ finds them and VERIFY tells programs apart; that `wild_cmp()` matches and a listing is complete |
| `Calendar` | the clocks' calendars |
| `Calendar_proofs` | the arithmetic of the calendar, and that every clock keeps the date it was set to |
| `MCHostData` | `Records`, `Listing`, `Calendar` and `Hotplug` in one run |

Two modules are compositions: `Hotplug` puts the interrupt, the driver's
`disk_state`, the poll and the mount together, and `Uarts` the main program, both
transmitters and the sleep. `DriveLuns`, `FatFiles`, `SdCard` and `Hotplug` are
layers of the drive that meet in what one assumes of the next: `DriveLuns` takes
from `FatFiles` that a closed file is on the card (`Durable`), `FatFiles` from
`SdCard` that a disk operation that says OK has moved the right sector
(`OkMeansMoved`), and both take a swap as `drv_init()` in one step from `Hotplug`
(`FreshMount`).

### HexBus

`hsk` and `bav` are the sets of parties that pull the line low; the line is high
when the set is empty. `drv[p]` is the number of the nibble that `p` drives; the
four bits themselves do not matter. `pc[d]` is the place in the code:

| `pc` | code |
|---|---|
| `sleep` | `while (hex_is_bav())` in `main()` |
| `capBav`, `capHsk`, `capPull` | `hex_capture_hsk()` |
| `loop` | `while (!hex_is_bav())` before the first byte, which then jumps to `lowhsk` |
| `float`, `rise`, `lowBav`, `lowHsk`, `pull`, `latch`, `next` | `hex_recv_byte()`, the same five steps for each half of a byte |
| `exec`, `chk` | the handler, and its test of BAV before the reply |
| `lost` | a handler after `hex_get_data()` has failed in the data, with HSK released |
| `grab`, `tFloat`, `tRise`, `tPut`, `tPull` | `hex_send_byte()` |
| `fFloat`, `fRise`, `fData`, `fBav` | `hex_finish()` |
| `rtn`, `igFloat`, `igWait` | the ignore branch of `main()` |
| `nullFloat`, `nullWait` | `hex_null()`, `hex_reset_bus()` |

A message says whom it names, how many data bytes follow its PAB, how many of
these the handler reads (`eat`) and how the handler replies: `checked` (tests
BAV and finishes in any case: `hex_send_final_response()`), `leaky` (tests BAV
and returns without `hex_finish()`: `clk_read()`, `ser_read()`, `drv_status()`,
`hex_open_catalog()`), `bare` (does not test: `drv_read()`), or not at all: `reset`
(`drv_reset_dev()`) and `mute` (`ser_rtn_sta()`, an empty handler). It says also what the
handler does when BAV rises in its data (`lost`): it `returns`
(`hex_write_cmd()`, `hex_open_helper()`), or goes on with its files and
then eats what is left and replies, from the end of the piece it was reading (`rest`:
`drv_write()`, `prn_write()`, `ser_write()`) or from anywhere, as its count is not set (`any`:
`drv_verify()`, `clk_write()`, `drv_delete()`). All that time HSK floats, and
if BAV has fallen again meanwhile, it is for another transaction: `over[d]` keeps the
command such a unit is still at.

The host is not in the repository. Its actions are what `hexbus.c` needs of the
other end, and are marked external.

Timing the model takes from the code:

- `SeenLow`, `SeenHigh`: the sender holds HSK low 8 us and leaves it high 8 us
  (`_delay_us(8)` in `hex_send_byte()`), and a party that polls sees an edge in
  that time. The comment on `hex_capture_hsk()` gives 5-6 us for a unit.
- `HostStart`: between two transactions BAV and HSK are high long enough for
  every unit to get back to its sleep loop. A unit that still works in a handler
  holds HSK, so the bus is not free; but one whose handler has lost the bus
  in the data does not, and nothing on the wires tells the host to wait for it: `Hurry`
  says that it does not.
- `Blink`: states that last a few instructions, in which no time-out of the host
  (milliseconds) falls. The instance's set is in `MCHexBus`. The one that hides
  something is `grab`, between the test of BAV and `hex_bav_lo()`: a host that
  lets go exactly there would have its release turned into a new transaction.

Fairness: each unit runs its own program without being stopped (`WF` of its
step, a polling loop being disabled while it waits), and the host carries on with
a transaction it began (`WF` of `HostStep`). Starting a transaction and giving
one up are not fair.

### DriveLuns

`used`, `lun`, `catalog` are `files[].used`, `.lun` and the catalog bit of
`.attr`; `fp` is the FatFS object of each slot with the few bits that matter:
bound to a mounted file system, opened for writing, `FA__WRITTEN`, and the card
it was opened on (a ghost: FatFS does not know). `host`, `reply`, `clobbered`
and `nullWrite` are ghosts too. An action is a whole handler, with
one action per outcome. What the environment does is chosen by `Habits`: each
member switches on a group of actions or outcomes (open a LUN twice, open more files
than there are slots, open directories, write to a LUN that is not open, fail
the card, swap it...), so that each run and each theorem says exactly of which
hosts and cards it holds.

Reading (`drv_read`, `drv_verify`, `drv_status`, `f_lseek`) changes only the
position in a file, which is not kept. A reset closes the first slot of each LUN and frees
the others (`Reset`). `drv_restore()` and `drv_delete()` mount the
card and otherwise leave the table alone (`OnlyMounts`); names are not kept here;
the deletion of an open file by name is in `FatFiles` (habit `touchOpen`).

### Hotplug

`pc` follows `main()` through one poll: `recv` (a byte), `compare`, `switch` and
`assign` are the three reads of the volatile `disk_state`. `Hands` says in which
of these states the user acts; either edge of the card-detect pin runs the
interrupt handler at once, as on the boards 2 to 4: board 1 enables the interrupt of the
write-protect pin instead (config.h:109 has PCINT1, PB0 is the detect pin), so a card that
is changed there is not noticed, and nothing here holds of it. `Settled` keeps the user from taking the card out before
main() has polled after the driver's last write of `disk_state`.
`ready` is the truth about the card, `mounted` the firmware's belief
(`fs_initialized`).

### SectorBuffer and FatFiles

A call of FatFS is a function of the state: `v.disk` is the card, a function from
sectors to cells (links of the FAT, entries, units of data), `v.sect`, `v.data`,
`v.dirty` the buffer (`static_buf`, `_USE_1_BUF`), and the operators follow `move_window()`,
`get_cluster()`, `put_cluster()`, `create_chain()`, `remove_chain()`, `trace_path()`, `dir_find`
and the `f_...()` functions one for one. `Then(v, F)` is `if (res != FR_OK) return res;`.
Each disk operation is counted, and `v.bad` says which of them fail; a power cut
is the set of all from the k-th on, with memory forgotten afterwards, so that a
cut falls between any two writes of a call. An action is one command of the
drive: a call with its seek, on one LUN.

A file's data is in units, and `Unit(id, ofs)` says which file it was put in and
where; so a unit found in another file, at another offset or not at all is seen.
Three units fit a sector, three entries and three links too. Long names occupy two
entries; their text and checksum are left out.

### SdCard

`pc` is the command the driver is about to send; a step sends it and takes the answer.
`card` is the card: what it has been told since it got power (`st`, `crc`), its lock,
its kind. Commands in `Noisy` may be lost or their answer spoilt; `"block"` stands for
data blocks. The user moves the card in any of the places `Hands`. The card's half is
external, from the SD specification as the driver relies on it. Loops with a time-out
count polls (`Half`, `Slow`). The wait of `sd_write()` for a busy card has none
(sdcard.cpp:663, with a FIXME): `SendBlock` leaves `card.busy` set, `CardFinishes` is the
card's and may never come, and `BusyEnds` needs a card that is not busy or not there.

Fairness: `WF` of the driver, which is the program; a card that is taken out reads as
0xff, so no wait depends on the card being there. Nothing is assumed of `CardFinishes`:
`CallsReturn` says that every call returns or `StaysBusy` holds for ever.

### Devices

A step is a message, one option of its text, one buffer of its data or one byte of
the configuration written. `Receive` is external; what the host sends is chosen by
`Habits`. An option is a record of what it asks for (the scanning of the text is left
out). `waiting` is what the host still waits for, `out` what the message has sent,
`host` how the host has each device open as far as the answers tell, `stored` which
configurations the EEPROM may hold when the power fails. `eeprom` is written byte by
byte, in any order, as the order is the library's, and `PowerCut` may fall between any two.
Of the bytes of `serialcfg_t` the model has the two of the rate, so one setting can be
torn inside: over 300 bps and a line ending of 1, a store of 600 bps and 0 changes 2C 01
to 58 02 and 1 to 0, and the high byte and the ending without the low byte add up to the
checksum of the old record. The unit then believes 556 bps, which nobody has set. That is
what the code does (eeprom.c:47-60, a sum of bytes); `ConfigKept` names it (`Torn`) and
says that it takes more than two bytes that change.

Fairness: `WF` of the unit's program.

### Uarts and CharLines

A step of the program is one access to a variable an interrupt shares with it: 16-bit
variables are read low byte first and written high byte first, `running` is loaded,
incremented and stored in three steps. `UdreIrq` and `TimerIrq` are the interrupt
handlers, `Transmit` the hardware behind UDR. The timer's interrupt does not come
twice without a step of the program between, unless the program is in a waiting
loop (`Looping`): a bit takes more than 60 instructions. `rx` is the other end: it looks
for a start bit, takes eight bits and a stop bit, and `Arrived` compares with what is
owed. `CharLines` is a queue of characters per line; lines that share the timer may carry at the same
time.

The software UART has two ports whenever it is compiled in (`SWUART_PORTS`, swuart.h:24): the
printer and debug output, which is written from anywhere, whether or not a device is open. The
files `config` and `config-arduino` and config.h:251 set `CONFIG_UART_DEBUG_FLUSH` (`Flush`): each debug
character is flushed, as every buffer of the printer is, so one port sends at a time. The host may
close a device at any time, also while the ring is full. main() asks the ring before IDLE and not
before STANDBY (main.cpp:193-204): what a CLOSE has left there stays until the unit wakes up, and
`NoSleepOver` and `AllSent` say just that.

Fairness: `WF` of the program, of the two interrupts, of the transmitter and of the
decision to sleep; the hardware goes on while the program waits. The host need not
send anything.

### Records, Listing, Calendar

`Records` is a file of bytes and a position; WRITE lays a value out as `drv_write()` does for
each of the six kinds of file, READ finds one as `drv_read()` does, and `values` is what was
written, for comparison; `ends` is where each value ends in a file that is not RELATIVE. The search for a line end and the
loop of `drv_verify()` are the place they stop at. Arithmetic is modulo `Word`. `Listing` is a directory of names
and a pattern, `wild_cmp()` against a definition of matching by splitting, and the
size in kilobytes with one decimal. `Calendar` has the four clocks' registers, BCD and
two-bit year included. A chip that is not set (`rtc_state` INVALID) is given the date of the build
by `clk_init` before anything else happens; the power may be cut before all of it is written,
and then the next start gives it again. So `today` is not what a calendar on the wall shows but the
date the clock was last set to, by the host or by `clk_init`, and the days since; a software
clock starts in 2008 every time. `get_fattime` is the stamp of FatFS. A loop over years or months is the
year or month it stops at.

`MCHostData` explores these three and `Hotplug` one at a time: `subject` says which. They
share no state, and one run with four subjects has the sum of their states.

## 3. The runs

| run | constants | what it shows |
|---|---|---|
| `HexBusTwo` | 2 units, 9-byte PAB, 3-byte reply, patient host, all kinds of message | one talker, only the unit named replies, nibbles and replies in order on stable lines, `Transactions` (refinement), a unit that has a reply to give gives it |
| `HexBusAbort` | 2 units, 2-byte PAB, 1-byte reply, data of two pieces; a host that gives up, but then waits for the handlers; those that look at BAV (not `bare`) | one talker; a reply only in the transaction its command came in; what was sent is still what is read; the bus becomes free again and again, or stops for good on a handler that left HSK low (`Stuck`) |
| `HexBusLate` | as above, WRITEs only, a host that begins again at once (`Hurry`) | violation of `ReplyInTime`: see below |
| `LunsTidy` | 3 slots, 3 LUNs, files and catalogs | no unsaved data without a slot, SUCCESS means written, `LunsAreFiles` (refinement) |
| `LunsSwap` | 2 slots, 2 LUNs, 2 cards, I/O errors, relative files and swaps | one slot per LUN, table and host agree, no file written to the wrong card |
| `LunsWild` | 2 slots, 2 LUNs; LUNs opened again, a full table, catalogs that fail, a LUN as command channel | `open_files` is right, and a reset empties the table |
| `FatFilesCut` | 2 clusters of 2 sectors of 3 units, 2 FATs, 6 root entries, 2 names (one long), 6 calls, one power cut anywhere; sub-directories, renames, UPDATE, swaps | chains never cross, files stay whole through the cut, a name finds its file, a READ returns what was written, a closed file is on the card |
| `FatFilesFull` | as above, writing on when the card is full, 10 calls | violation of `DataKept`: see below |
| `SdCard` | 2 sectors, 5 kinds of card, 3 retries, spoilt commands and blocks, the card moved anywhere | RES_OK means the right data moved, nothing else changed, every call returns unless the card stays busy for ever |
| `Devices` | buffer of 2, texts up to 3, one number to set, one device open at a time, power cuts at any byte; the host stops when the configuration is lost (`GoesOn`) | every message answered once, devices open as the host thinks, numbers apart and in step, data carried, configuration old, new or default, or `Torn` |
| `Uarts` | ring of 2, messages of 1 or 2 characters, one of them from 128, both software ports, flushed debug output, CLOSE at any time | each line carries its characters; no sleep over one of a software port, no IDLE over one in the ring; everything leaves in the end, but what STANDBY keeps in the ring |
| `HostData` | values up to 3 bytes of quote, line feed and letter (2 in files that are not DISPLAY), buffers of 5; names up to 3 letters; 4 clocks, ends of February, of a leap year, of the year; 9-byte PAB, card changed between polls, failing card | values, listings and dates as the host may expect; every change of the card is noticed before a command runs, and nothing else unmounts |

The two violations are disagreements between the code and a comment, which
`PROJECT.json` quotes. `HexBusLate`: a WRITE whose data is cut short by the host goes on without the bus and
then looks at the level of BAV only (hexops.cpp:129), so it replies into the
transaction that the host has begun meanwhile. `FatFilesFull`: when `f_write()` finds no
free cluster (ff.cpp:1654), it leaves the object with no sectors left (`csect` 0) and returns FR_OK.
The next `f_write()`, of the next WRITE or of the CR LF that `drv_write()` adds, counts down
to 255, and takes the sector after the last one the object knew: in the run an empty file
writes into another one.

Other places where the code does not do what its comments or its manual say, or
where a host's or user's behaviour goes beyond what it can bear. Every module keeps
that behaviour in a habit (or a constant) that the passing runs leave out, so each
can be seen again:

- `MCHexBus` (as `HexBusAbort`). `Messages <- ClockWrites`, `MayAbort = FALSE`:
  `clk_write()` answers before it has read its data (clock.cpp:229), against
  `OneTalker`. `ClockReads`, `TRUE`: `clk_read()` and others return with HSK low (clock.cpp:158,
  serial.cpp:431, drive.cpp:973, catalog.cpp:434), against `SleeperLetsGo`; `HexBusAbort` has these
  messages, and `BusFreed` says that nothing else stops the bus. `DriveReads`,
  `TRUE`: `drv_read()` pulls BAV after the host gave up (drive.cpp:616), against
  `ReplyInTime`.
- `DriveLuns` (2 slots, 3 LUNs, 1 card). `{"reopen"}`: a failed second OPEN frees the first
  one's slot (drive.cpp:747, 803), against `Synced`. `{"overflow"}` and `{"relative",
  "ioError"}`: the NULL of a full table or a failed open is used (drive.cpp:733, 756),
  against `NoNullWrite`. `{"ioError"}`, `{"stray"}`: a WRITE that was not done is answered
  SUCCESS (drive.cpp:474), against `AckedWrites`. `{"catalog", "swap"}` with 2 cards: a stale file object
  is closed on the new card (drive.cpp:1043, 1057), against `NoClobber`. `{"badCatalog"}` or
  `{"catalog", "ioError"}`: a slot is never freed (catalog.cpp:370, 442), against `HostAgrees`. `{"command"}`: a reset
  leaves `_cmd_lun` (drive.cpp:1029).
- `Hotplug`. `Settled = FALSE`, `Hands = {"sleep"}`: two equal changes between polls are not noticed
  (main.cpp:225). `Hands = {"assign"}`: the interrupt between the comparison and the
  assignment is lost (main.cpp:242). Both against `FreshMount`.
- `FatFiles`, as `FatFilesCut`. `{"scars"}`: parts of a long name left by a cut are taken for
  the next entry's (ff.cpp:690); `{"touchOpen"}`: an open file is deleted or renamed; `{"twice"}`, 2
  LUNs: a file is open twice (`OpenIntact`); `{"error"}`: a disk operation that fails leaves an
  object's chain half changed; `{"pull"}`: the boot record of a new card is taken from the
  buffer of the old one (ff.cpp:922), against `GoodCardMounts`. `{"update", "abandon"}` with
  `Width` 4, `csize` 1, `n_rootdir` 4, one short name, `Chunk = {2}`, `MaxLen` 6, no cut, 10 calls: a seek backwards over a
  cluster's start keeps the cluster (ff.cpp:1794), against `ReadsBack`.
- `SdCard` with `READ_OCR`, `APP_CMD` or `SD_SEND_OP_COND` in `Noisy`, or a slow card (`Slow` 4,
  `Half` 3, 2 retries): a high-capacity card is taken for a byte-addressed one
  (sdcard.cpp:427, 439), against `CardUsable`. With `"finish"` in `Hands` the interrupt's write of
  `disk_state` is overwritten.
- `Devices`. `foreign`: a number set on another device's channel is stored but not used
  (`NumbersAgree`). `blank`: a record stored over nothing has its checksum taken
  before its size (eeprom.c:73, `ComesBack`). Without its case `Torn`, `ComesBack` fails in the
  run itself, at the torn rate that section 2 describes. `clockWrite` as above (`TakenFirst`). `long`: the buffer is sent although
  nothing more was received, and the length of a command is cut to 8 bits (serial.cpp:486,
  hexops.cpp:395, `Carried`). `badOpen`: an OPEN that is refused leaves the device open
  (`HostAgrees`). The serial port's status is never answered (serial.cpp:507).
- `Uarts`. `Chars = {0, 10}`: the 16-bit test of the shift register reads zero while it is not
  (swuart.cpp:54), against `RunningCounts`. `Flush = FALSE` (`config-arduino_nopm` does not set it): two
  ports send together. `running` is changed between load and store (swuart.cpp:61), or the timer is
  stopped between its start and the count (swuart.cpp:60), so that a port waits for ever; and the timer
  shifts a register whose high byte only has been written (swuart.cpp:58), so that another character
  arrives. All three properties fail then.
- `Records`. `ragged`, `wide`, `short`, `beyond`: quotes that do not match, full records, small buffers,
  records past the end (drive.cpp:479, 556, 611); `huge` with `Word` 8: positions computed in 16
  bits (drive.cpp:437, 558). VERIFY of a file that has been read, or twice, does not end
  (drive.cpp:250).
- `Listing`. `changes`: entries are counted at OPEN and read later (catalog.cpp:165). A second READ of
  a program catalog is in the run: it announces the whole program again and sends an empty
  one (catalog.cpp:273-299), so `SendsAnnounced` leaves it out by name (`again`). A
  `FileSize` from 67,108,864 overflows (catalog.cpp:242, `ShowsSize`).
- `Calendar`. `january`, `leapDay`: the software clock's month and year go wrong (softrtc.cpp:82,
  113). `noYear`: the result of reading the PCF8583's year is ignored (pcf8583.cpp:96).
  `notSet`, `cutSet`: a clock counts as set that is not, or holds parts of two dates.
  `earlyBuild`: the compiler writes the first nine days of a month with a blank, from
  which `__DAY__` (time.h:63) makes a day between 97 and 105, stored by `clk_init()`. `MaxAway` 3: the chip's two bits of
  year have gone round. `Dates` 20000228: `gmtime()` asks whether a year is leap of the years
  since 1900 (softrtc.cpp:115), so that the software clock is a day ahead after February 28, 2000,
  and never again in the century; `Dates` 20991231: after it the host is told
  of the year 2000 again (two digits, clock.cpp:130). All against `DatesRight` or `YearFollows`.

Bounds, and why they are enough:

- *HexBus.* Two units are enough for every pairwise interaction on the wires (an
  addressee, a bystander, and the host); the lock step is per nibble, so a 2-byte PAB
  and a 1-byte reply have a first, a middle and a last nibble of each turn; the run
  without aborts has the real lengths. Two data bytes read in pieces of one (`Chunk`) have a piece
  that is lost and one that is not read any more. The theorems drop the bounds.
- *DriveLuns.* Three LUNs in three slots make the table full, empty and fragmented; the
  rules of the table relate one slot to another, not three. The theorems drop the bounds.
- *FatFiles.* Two clusters make two chains cross or a card full; two sectors per cluster and three
  units per sector give a sector's boundary inside a cluster and a cluster's end; a
  chunk of 4 crosses a sector, two of them a cluster. Six calls are enough to
  create, write twice, close, open and read or delete, and one more name in a
  sub-directory. `MaxCalls` is a bound on behaviours, so the run may end there and
  does not check deadlock.
- *SdCard.* Three retries tell the first, a middle and the last apart; two
  sectors tell the right one from another, and a transfer of one from one of two.
- *Devices.* A buffer of 2 and texts up to 3: a text that fits, fills and exceeds
  it. One number to set besides the defaults suffices for being in the range of one
  device and out of the others'.
- *Uarts.* A ring of 2 has room for one character: with messages of 2 it fills, wraps and blocks
  (the theorems have every size). `Rate` only delays.
  One character is below 128 and one is not, as `char` is signed.
- *HostData.* Buffers of 5 hold values of 3 with and without quotes and line end, and
  not with both; a value that is not DISPLAY is not looked into, so 2 bytes (`MaxOther`) suffice; `Half` 2 makes VERIFY compare in two and a half pieces. Patterns and
  names of 3 letters have every placing of `?` and `*`. Four days from each date pass
  the end of the month or the year.

Deadlock is checked in every run but the two of `FatFiles`, which end after `MaxCalls`, and
`HexBusAbort`, where a handler that left HSK low stops the bus for good (`Stuck`).

## 4. The proofs

| theorem | says | assumes |
|---|---|---|
| `CountInvariant` | every variable keeps its type and `open_files` is the number of slots in use | nothing |
| `ResetFreesEverySlot`, `CountIsReliedOn` | after a reset no slot is in use (`ResetReachesAll`) | nothing |
| `TidyAgreement` | a LUN has one slot; a slot is held only for a LUN the host has open (`TableAgrees`) | `Tidy`: no reopening, no failing directory, no second command channel; the card may be swapped, and fail if no directories are read |
| `NothingUnsaved` | unsaved data is in a bound object with a slot | `Reliable`: besides, the card does not fail and is not swapped |
| `SuccessMeansWritten` | besides, a WRITE answered SUCCESS was done (`NothingLost`) | `Honest`: files and catalogs, and more files than slots |
| `SlotsImplementLunTable` | `Spec => LunsAreFiles` | `Reliable` |
| `FilesStayOnTheirCard` | a file is written only to the card it was opened on (`NoClobber`) | `OneAtATime`: no directories are read by a host that changes cards |
| `CardIsWhatItIsTakenFor` | a card the driver believes in is one, and addressed as it must be (`CardUsable`) | `Careful`: the three answers that tell the kinds of card apart arrive, a card is ready within half a second, and the last step of `sd_initialize()` is not interrupted |
| `OnlyWhatIsAskedChanges` | a sector changes only while it is written (`OnlyAsked`) | `Careful` |
| `OkIsTrue` | RES_OK means that the data moved (`OkMeansMoved`) | `Careful` |
| `NumbersStay` | each device has one number of its range, the configured one (`NumbersAgree`) | `Dutiful`: no `foreign`, no `blank` |
| `HostKnows` | a device is open as the host can tell (`HostAgrees`) | `Dutiful`, no `badOpen` |
| `DataIsTaken` | no answer before the message is read, and its data goes out in order, all of it on SUCCESS (`DataTaken`) | `Dutiful`, no `clockWrite`, no `long` |
| `ConfigIsKept` | a power cut leaves the old configuration, the new one, the defaults, or, if more than two bytes change, bytes of both; only commands change it (`ConfigKept`) | `Dutiful` |
| `PollsPerPab` | main() reads no more bytes than a PAB has | nothing |
| `ChangesAreNoticed` | no command runs on a stale file system (`FreshMount`) | `Careful`: the card is changed between polls, and after a poll that followed the last write of `disk_state` |
| `FilesAreKept` | only the loss of the card unmounts (`NoNeedlessInit`) | `Careful` |
| `TypeInvariant` | every variable of `HexBus` keeps its type | nothing |
| `LockStepInvariant` | every unit is where the host's place allows it to be | `Patient`: the host does not give up, a handler reads the data of its message |
| `BusOkInvariant` | in lock step during a transaction; between two, one of them abandoned or not, every unit on its way back to sleep, a handler that goes on without the bus included | `Attentive`: a handler reads the data of its message; if the host may give up, every handler looks at BAV before it replies, and the host's timeout (milliseconds) does not fall in the few instructions after its own edge (`Blink`); and the host then waits for a handler that has lost the bus in its data, or there is none that goes on (`Hurry`) |
| `OneTalkerHolds` | two parties never drive the data lines at once | `Attentive` |
| `ReplyInTimeHolds` | a unit takes BAV only in the transaction its command came in | `Attentive` |
| `OnlyTheNamedTalksHolds` | one talker, and only the unit named takes BAV | `Attentive` |
| `AllInOrderHolds` | each half byte is read once, in order, by every unit and by the host | `Attentive` |
| `StableLinesHolds` | the data lines stand still while anybody is about to read | `Attentive` |
| `BusImplementsExchange` | `Spec => Transactions` | `Patient` |
| `LinesCarry` | `Spec => CarriesAll` of `Uarts` | `Flushed`: debug output is flushed, and no character is NUL |
| `SleepHoldsNothingUp` | `running` tells the truth; no sleep holds a character of a software port up, and IDLE none of the ring (`SleepIsSafe`) | `Flushed` |
| `DatesHold` | the host and the card's directories are told the date it is (`DatesRight`) | `CalendarHabits = {}` (each habit is in section 3), at most two years off at a time, `InCentury` and `AskedYearly`, below |
| `YearHolds` | the year beside a PCF8583 that is taken to be set is whole, and near enough to be caught up (`YearFollows`) | as `DatesHold` |
| `FilesLaidOut` | a file is the values written to it, one after the other or each in its record (`LaidOut`) | `Orderly`: `RecordHabits = {}` (each habit is in section 3); a record has fewer than 2^16 bytes and none begins at 2^16 or beyond, the range of the 16 bits positions are computed in |
| `ReadsFind` | a READ gives the value it should, whole, or EOF (`ReadsValues`) | `Orderly` |
| `VerifiesTell` | VERIFY tells a program that equals the file from every other (`VerifyTells`) | `Orderly` |
| `WildFinds` | `wild_cmp()` accepts a name just when the pattern stands for it (`Matches`) | nothing; names have no `?` and `*` |
| `ListsRight` | a listing tells of the entries that match, each once and in order, in the length announced (but for a program that is read again), with their sizes (`ListingRight`) | `Tellable`: the directory is not changed while it is listed; 33 bytes an entry and 11 are below 2^16; files are smaller than 64 MiB, as their KiB are counted in 16 bits |

**The count.** `open_files` is a number and the table a set: `CountOk` with
`TypeOk` is inductive once it is known that a slot found by `First` is in its set
(`FirstIsMember`, by well-foundedness) and that adding a free slot or removing
the slots of a LUN changes the cardinality by the number counted
(`FS_AddElement`, `FS_Difference`). `TypeOk` bounds `open_files` by `MaxOpen`,
which is inductive only together with `CountOk`. A reset that finds `open_files`
at zero does not look at the table; `ResetFreesEverySlot` needs the count for
exactly that.

**Agreement.** `OneSlotPerLun` and `HostAgrees` are inductive together with
`cmd_lun = CmdLun`: a new slot's LUN is not in `host`, so no slot has it
(`HostAgrees`), so it is the only one. A host that closes the command channel's
LUN would leave a slot behind, hence the third conjunct.

**Unsaved data.** `FilesOk`: a bound object has a slot that is not a catalog's,
and only a bound object holds data. With `OneSlotPerLun`, closing the first slot
of a LUN closes all of them, so that freeing all of them loses nothing.

**SUCCESS means written.** A WRITE to a LUN the host has open finds its slot only if
there is one: `Known`, the converse of `HostAgrees`. It holds because a LUN enters `host`
only with a slot, and a slot is freed only when its LUN leaves `host`.

**Refinement.** `opened` is the set of LUNs in use and `unsaved` the LUNs of
objects with data. Each operation is mapped to an action of `LunTable` or a
stutter; the number of open LUNs is below `MaxOpen` because a slot is free.

**The right card.** `OwnCard`: a slot in use has an object that was bound on the card
that is in. `drv_init()` empties the table when it mounts another card, and `drv_open()`
binds before the slot counts; that `f_close()` on a slot writes to the card of its object
needs that no slot comes into use with an old one, which a directory's slot does.

**The card's kind.** `CardUsable` alone says nothing about the next command. `IInv` of
`SdCard_proofs` adds to it, for each command of the bring-up, how far a card that has kept
its power has come (`Started`: after ACMD41 or CMD1 it is ready or, if it was not told
about high capacity, never will be; `cardtype` fits from CMD59 on); the other alternative at
each command is that the card has lost its power and is `native`, and answers nothing that
could lead to `finish`. `card.left + t <= Half` is why the half second suffices.
`CallOk` says which blocks of a call have moved, that a card which is no longer busy and has
kept its power holds the last of them, and that the card's lock has been read for a write; `CommandStep` is the one lemma about a command with its retries, and holds
for every command.

**Numbers and messages.** `NumInv`: `TypeOk` (which place has which message), `TodoOk` (which
options can be left), `ConfigOk`. The ranges of the devices do not meet (`RangesApart`), so
`execute_command()` finds the device the host means (`WhoIs`) and `hex_exec_cmd()` the one whose
number is set (`InRangeIs`). That the block in EEPROM has all its numbers in range *while it is
written* is part of the invariant: a cut leaves part of the old and part of the new, and
both are in range, so `clk_init()` and the others find nothing to correct.

**What the host knows.** `HostAgrees` speaks of the unit at rest. `HostOk` adds the OPEN that is under way:
the device is open already, the host does not know, and the answer will be SUCCESS, as
its options are accepted (`OptionAccepted`).

**The data.** `Taken`: what is out is the first `n` characters and what is left is the
rest, at each buffer; `Pieces` is the arithmetic of one buffer. `Carried` follows when
nothing is left.

**The checksum.** While a configuration is stored, the block is a mix of two records with a
right checksum (`Storing`). If they differ in two bytes at most and the mix has a right
checksum, it is one of the two (`MixedIs`): otherwise it has one byte of each, so it differs
from the record whose checksum it has in one byte, and a sum modulo 256 tells that
(`OneField`, `ModCancel`). With three bytes it need not, and the mix is `Torn`. The proof
takes the bytes in any order.

**Card change.** `Pending`: while a file system is mounted, either its card is
still there and `disk_state` reports no change, or `disk_state` reports one, the
last poll saw something else, and main() has not yet passed the switch. `Settled`
keeps the second alternative true when the card goes; the poll itself makes
`disk_state_old` equal again only after the switch has unmounted. `Gone` adds
that a change is reported only while the mounted card is out.

**Lock step.** `OneTalker` is far from inductive: that nobody talks out of turn
depends on how far every unit is in its code when the host turns. `LockStep` says it:
`HostOk` what the host pulls and how many nibbles it has sent; for each unit
`UnitWires` (what it pulls is a function of `pc`), `UnitCount` (what it can have
counted) and `UnitPlace` (in the command phase it is at the host's nibble or the one
before, or handles the whole command, or has turned away; in the reply phase the unit
named is at the host's nibble or one ahead, the others wait for BAV; between
transactions all are on their way to sleep). A step of unit `d` (`UnitKeeps`, one
step per action) leaves the other units alone (`Leaves`, `OthersKeep`); a step of the
host moves it past a unit only when the timing predicates `SeenLow`, `SeenHigh` or
a high HSK say where the unit is (`HostLeaves`). `Patient` is needed twice: a unit
that replies before the data is in is what `ClockWrites` shows (section 3),
and a host that gives up leaves units in places `UnitPlace` has no room for.

**A host that gives up.** During a transaction the lock step holds all the same, and
`BusOk` adds where a unit can be between two (`AloneOk`): while nobody holds BAV, anywhere
in the command or in its work, but with no half byte under way; only the unit named holds
BAV, until its reply is out, and by then every other unit has the whole command (`Lengths`) or
ignores it. A handler that has lost the bus in its data (`GoesOn`) works on, eats or
finishes, but as BAV is high and stays so until it is through, it reads nothing more and pulls nothing.
`AbortLeavesAlone` shows that of the moment the host lets go, `UnitAlone` and
`OthersAlone` of each step after it, and `StartsInStep` that a free bus is back in lock step, so
that the next transaction is like any other. Its conditions are needed: without the
test of BAV the unit replies to nobody (`DriveReads`); a host that does not wait for a handler
that goes on may be answered by it (`HexBusLate`); and a host that gives up while a unit is between
the test of BAV and its own hold of BAV cannot be told from one that begins again.
From `BusOk`, a unit that latches finds exactly the host's nibble (`WhatUnitsRead`), the host
exactly the unit's (`WhatTheHostReads`), and a unit about to take BAV is in a
transaction (`NotAlone`). The refinement stays with the host that waits: `HexExchange` has
no step for a transaction given up.

**The bus implements the exchange.** `Seen` gives the abstract variables in each
phase; then each step of a unit is `Hear`, `Leave`, `SayReply` or a stutter, and the
host's are `Begin`, `Say`, `Turn`, `HearReply` and `End`.

**Both lines.** `IInv` of `Uarts_proofs` says where the characters owed are. On the UART's
line (`UartOk`) UDR and the ring from `tx0_tail` hold them in their order, one slot stays free, and
`tx0_head` is `tx0_tail` and their number, modulo `SIZE`. Of the two software ports one is silent
(`Silent`): every message to a port ends with a flush. On the other's line (`LineOk`) one
frame is partly in the shift register and partly with the other end (`Split`), or it has
arrived and the register shifts out the ones left of it, as a char is signed, or the register
is 0, or only its high byte has been written. The timer's interrupt preserves that by
arithmetic on the bits of a frame (`Shift`, `NextBit`, `LastBit`, first in `Uarts_proofs`). What the
program may conclude from what it read depends on how often the timer may have shifted
since: `ReachOk` bounds that with `fresh`, the one interrupt between two steps. So a low byte
of 0 read before a high byte of 0 means that the register is 0: a register that holds a character is
never 256, unless the character is NUL, which is what `Flushed` excludes (see section 3). The sleep follows
from `RunOk` (`running` is 1 just when the register is not 0, outside `swuart_putc()`) and
from `RingOn` (the ring's interrupt is on until what was put has left, and off in IDLE).

**The calendar.** The run has five dates and four days; the theorems have every date and any
number of days. The arithmetic comes first. `DaysTo` counts the days before a year as the loop of `gmtime()`
takes them off, so `DayNumber`, the days from 1970 to a date, is what `mktime()` computes
(`MktimeDay`: eight bits of a month, sixteen of 367 times it, and January excepted) and what
`gmtime()` takes apart (`YearOf`, `OneYear`: a day is in just one year; `MonthFinds`, `OneMonth`:
in just one month, or on February 29 in none; `GmtimeDate`). `NextNumber`: the day after is one more. For
the chips, `Bcd`, `PcfBytes` and `StampOfTm` say that what is packed is what is unpacked,
`CountsTo` what the chip's own counting leaves in its registers, and `RollsTo` that a year in RAM which is at most
three behind catches up. `CalInv` is inductive: the software clock's `days` are `DayNumber(today)`;
a chip that was set `Holds` the date, with the year beside the PCF8583 at most one behind, and one
that was not is `Unset`, also when the set of `clk_init` was cut before its last register
(`SetPart`), so that the next start finds it INVALID and stores the date again (`BuildStep`). `DatesRight` is in it because it speaks of the answer
given in a step. Two conditions are on the behaviour and not on the constants. `InCentury`: the year is
one of 2000 to 2099, of which the host is told two digits, and for the software clock 2001 to 2099, as
in 2000 it is wrong. `AskedYearly`: with the power on, the date of a PCF8583 is read between two
New Years, as its driver moves the year in RAM only then; FatFS reads it with every
write. Two years off on top of one unread is as far as two bits of a year tell: with
three they have gone round.

**Values and files.** The run has values of three bytes; the theorems have any. `RecInv` is inductive:
a file has fewer than 2^16 bytes (`SizeOk`), so that no position wraps (`LowIs`, `RecordStarts`); a
file of values stands where the value to be read next begins, a program at its begin or its end (`PlaceOk`);
and `LaidOut`, which `ReadsValues` is read off from. A WRITE lays down `Laid(v)`, and nothing
else moves (`OverwriteIs`, `LayoutAppend`, `LayoutRecord`; a gap is filled with zeros). A READ
must stop just where the value does. For DISPLAY that is `LineFound`: inside a value that
is printed with its quotes matched, a line feed is between quotes, as the parity of the quotes up
to any place of the line is the same in the file and in the value (`QuotedIn`, by `SameQuotes`), so the first
one outside is the one `drv_write()` has added, and the carriage return before it is not counted. A record of zeros has no line end;
the count runs on into the next record, and the length of the record bounds what is sent (`ZerosPassed`, `SendRecord`). VERIFY compares
pieces; that the pieces cover the file is `Covered`, that the first which differs is found `Least`
(`CompareIs`).

**Patterns and listings.** The run has patterns and names of three letters; the theorems have any.
A call of `wild_cmp()` gets what follows a place of the pattern and a place of the name, so
the calls that one call leads to are a function on `Places`. That there is such a
function (`RestIs`) holds because a step asks for places with fewer letters left only (`NextPlaces`,
`MoreAnswers`). Were its answer wrong anywhere, it would be wrong at a place with the fewest
letters left (`Least`); but there one step of the code is right if the answers it builds on are
(`CuttableIs`: what is left of the pattern fits what is left of the name just if its first place fits
a piece and the rest fits the rest). `ListingInv` is inductive: a listing has told of the entries
that match up to where it is (`ToldUpTo`; of none or of all, when it is a program), each one after
the last as `NextListed` is the least
that is left, and a program is announced with the number of entries it will have (`CountsAll`), which
`InOrder` puts in order, each once, because an entry's rank among them is a bijection
(`NotBeyondAll`). The size shown cuts off less than a tenth of a KiB (`TenthsAre`).

Only model-checked: the module `FatFiles`, which walks chains with recursive operators, and those
the prover does not take. Liveness (`Answered`,
`BusFreed`, `CallsReturn`, `EveryOneAnswered`, `AllSent`) is beyond it too.

## 5. Not modelled

- What the bytes of a message mean on the wires: the link moves numbered nibbles.
- The scanning of texts: keywords, equates, digits, `trim()`, the printing of numbers, letters of a listing.
- FatFS: FAT12, FAT32 and its FSINFO sector, several partitions, volume labels,
  `f_stat`, `f_utime`, `f_chmod`, `f_getfree`, `f_mkfs`, the checksum and text of long names, short
  aliases, dates and attributes. FAT16 has all of what the properties are about.
- SPI, I2C, CRC, port registers: external; a transfer succeeds or fails.
- The card's registers (`sd_getinfo()` is compiled but not called) and the receive ring of
  the UART (not compiled in).
- The time of day in seconds: the clocks count days, with the first and last
  second of one apart.
- The Arduino build without power management, which waits for HSK before the
  first byte too; the modules model `INCLUDE_POWERMGMT`.
- LEDs, debug output, build wrappers, BASIC programs, boards and scripts: no
  state of the program.

## 6. What is left

- A composition of `Hotplug` and `DriveLuns`, which now meet only in `SwapCard` =
  `drv_init()`, and of `FatFiles` with two open files and I/O errors at once.
- The parsers, against reference definitions on short texts.
