# A TLA+ verification of the rosco emulator's devices and boards

The repository is a MAME 0.289 tree cut down to two homebrew computers, the
rosco_m68k Classic V2 (68000 to 68030) and the rosco_6502. What firmware on
either machine depends on most is one chip, the XR68C681 DUART: it is the
console and the host link (two serial channels), the 100 Hz tick (its
counter/timer), the interrupt source, and through its output and input ports
the bit-banged SPI bus of the SD card that holds the operating system. This
directory models that chip and that card, the IDE disks of the rosco_m68k, the
far end of the serial line and the logic of the two boards, checks them with TLC
and proves their main invariants with TLAPS.

## 1. Inventory

| Component | Source | State it keeps | Operations | Status |
| --- | --- | --- | --- | --- |
| DUART serial channel | `src/src/devices/machine/mc68681.cpp`, class `duart_channel` | mode, status, clock select and command registers; receive ring; transmit holding and shift register; enables | register reads and writes, bit clock edges, break, channel reset | modelled: `DuartChannel` |
| Serial shift registers | `src/src/emu/diserial.cpp` | data frame, receive and transmit register, rates, bit clocks | `rx_w`, `rcv_edge`, `tra_edge`, set rate, set frame, resets | as the channel uses them, in `DuartChannel` |
| DUART device | same file, `duart_base_device`, `mc68681_device`, `xr68c681_device` | ISR, IMR, IRQ line, IACK flag, ACR, OPCR, OPR and pins, IPCR and input levels, counter/timer | register accesses, pin changes, timer expiry, IACK, reset | modelled: `Duart` |
| SPI SD card | `src/src/devices/machine/spi_sdcard.cpp` | select, bit position, command window, protocol state, transfer length, one buffer for both directions, image, CSD | clock edges, select, commands, image load and unload | modelled: `SdCard` (bytes), `SpiPins` (bits), `SdCsd` (capacity) |
| Hard disk image | `src/src/devices/imagedev/harddriv.cpp`, `src/src/lib/util/harddisk.cpp` | sectors | read, write, both may fail | as its users see it, in `SdCard` and `AtaDisk` |
| rosco_m68k machine | `src/src/rosco/drivers/rosco_m68k.cpp` | boot vector overlay, bus error flag and timer, wiring | memory accesses, reset | bus errors: `M68kBus`; wiring: `SpiPins`; reset: `RoscoBoard` |
| rosco_6502 machine | `src/src/rosco/drivers/rosco_6502.cpp` | bank register over RAM, wiring | bank read and write, quickload, reset | `RamBank`, `SpiPins`, `RoscoBoard` |
| RS-232 port, null modem | `src/src/devices/bus/rs232/` | line settings, input queue, flow control, pending conversion, own shift registers | line changes, timers, received characters, resets | null modem: `NullModem` |
| IDE/ATA | `src/src/devices/bus/ata/ataintf.cpp`, `src/src/devices/machine/atahle.cpp`, `atastorage.cpp` | per disk: task file, status, one buffer, one timer, interrupt, DASP, PDIAG | register accesses, timer, reset | `AtaDisk`, `AtaAddress` |
| Quickload | `src/src/devices/imagedev/snapquik.cpp` | none | copy a file to memory, set the program counter | its effect on a handler, in `RamBank` |
| CPUs, MAME core, OSD, 3rdparty, scripts | | | | not modelled |

### How the parts interact

MAME is single threaded. A device handler (a register access by the CPU, an
expiring `emu_timer`, a line callback, a reset) runs to completion, calling
other devices' handlers synchronously; the scheduler decides which handler runs
next. So each handler, with every call it makes, is one action, and the
interleaving that matters is the order of handlers: a register write against a
bit edge, a pin change against a mask write, a reset or an image change in the
middle of a protocol.

- The channels report to the device with `set_ISR_bits` and `clear_ISR_bits`;
  the device drives the IRQ line and, through OPCR, output pins.
- The device's ACR and timer reach back into the channels (`baud_updated`,
  `tx_16x_clock_w`).
- Output port bits 2, 4 and 6 are the SD card's select, clock and data; its
  data output is input port bit 2 of the same chip.
- Two IDE disks hang on one cable: both see every register write, each keeps its
  own copy of the drive select, and they meet over DASP and PDIAG.
- The null modem drives the machine's receive line from a file or socket and
  watches RTS, DTR and XON/XOFF.
- The SD card reads and writes sectors of an image that the user may change at
  any time from the emulator's file manager.

### What is hard here

Flags that are set and cleared only at the moment a count passes a value;
interrupt levels recomputed only by handlers that remember to; a holding and a
shift register whose hand-over races the CPU; rate changes that silently drop a
frame; one SD buffer shared by replies and incoming data; an end of block test
by equality; images that disappear; one timer that every reset, abort and
command of a disk restarts or stops; a PDIAG that races its timeout; conversions
whose state must survive pauses and flow control; a bus error window that can
swallow the next probe. The list with lines is `hazards` in
`PROJECT.json`.

### What makes each component correct

- Channel: the receive FIFO is a bounded queue that admits its losses; the flags
  firmware polls are never optimistic; accepted characters leave in order, once;
  an enabled transmitter does not wedge, unless its rate is set while a frame is
  leaving; the ISR shows the status register.
- Device: the IRQ line is the level of `ISR & IMR`; an enabled input change is
  never lost and never invented; the tick keeps coming; pins follow OPR.
- SD card: the image changes only by whole blocks, each where the write that
  brought it was aimed; the buffer is never left; replies and data never mix; reads do not
  touch an absent image; the capacity a host decodes is the image's.
- SPI pins: every byte crosses intact, in both directions.
- IDE disks: BSY always ends; a transfer visits consecutive sectors and signals
  when its command says; commands end audibly; one disk's timer does not disturb
  the other; the diagnostic blames the right device.
- Null modem: what is sent is the converted stream; nothing starts on a held
  line; input goes on, until a line setting is changed in the middle of a
  character, and again from the next reset.
- Boards: a faulting instruction gets one bus error, or none when it comes within
  16 cycles of the last one, and never two; an interrupt handler
  returns to the bank it interrupted.

## 2. Modules

| Module | Content |
| --- | --- |
| `DuartChannel` | one serial channel: 26 state variables, one action per handler |
| `RxQueue` | abstract: bounded queue that replaces its newest item when full and says so |
| `TxPipe` | abstract: pipe of two places |
| `MCDuartChannel` | firmware vocabularies for TLC |
| `DuartChannelProofs` | theorems about `DuartChannel`: its invariants |
| `DuartChannelRefinement` | theorems about `DuartChannel`: the two directions implement `TxPipe` and `RxQueue` |
| `Duart` | device level: interrupts, input port, counter/timer, output port |
| `MCDuart`, `DuartProofs` | its TLC instance, its theorems |
| `SdCard` | the SD card and its image, a byte at a time |
| `BlockStore` | abstract: blocks are written whole or not at all |
| `SdCsd` | pure: which image sizes the CSD can express, and how |
| `MCSdCard`, `SdCardProofs` | TLC instances and theorems of the card |
| `AtaDisk` | two IDE disks and their cable |
| `AtaAddress` | pure: the address registers and `next_sector` |
| `MCAtaDisk`, `AtaDiskProofs`, `AtaAddressProofs` | their TLC instance, their theorems |
| `NullModem`, `MCNullModem`, `NullModemProofs` | the far end of the serial line |
| `SpiPins` | the bit-banged SPI bus: port writes and the card below the byte level |
| `M68kBus` | bus errors of the rosco_m68k |
| `RamBank` | bank register of the rosco_6502 |
| `RoscoBoard`, `MCRoscoBoard`, `RoscoBoardProofs` | the three composed by the machine reset |

### DuartChannel

Variables carry the members' names (`SR`, `MR1`, `rx_fifo_num`, `tx_data_in_buffer`
...). A status register is the set of its one bits. `StartBit` and `RcvComplete`
are the two ends of a received frame: between them a mode change, rate change
or reset can restart the receive register and lose it. The transmitter is
modelled bit by bit because TxRDY depends on the bit count: `TraEdgeBit`,
`TraEdgeReload`, `TraEdgeDrain` and `TraEdgeIdle` are the four outcomes of
`tra_edge`. `WriteCR` is the whole of `write_CR` with the XR68C681's X bit
commands in front of it: first the command nibble (`CommandStatus`,
`CommandRing`, `CommandBreak`, `CommandShift`), then the enable bits
(`EnableStatus`), then `update_interrupts`. `AcrWritten` is what a write to the
device's ACR does to a channel.

Abstractions: a character is a model value and the receiver's frames come from
`RxFrames`, also in loopback (a superset of what the transmitter could loop
back); baud rates are reduced to where the clock comes from (`brg`, `none`,
`timer`); bits of the mode registers no handler looks at are left out.
Firmware may write CSR, ACR or an X bit command at any time. While a frame is
leaving (`RetimesBusy`) that empties the shift register and stops its clock
without a `tra_complete`: the frame is cut short (`FrameCut`), a waiting character
stays where it is and TxRDY stays down until the transmitter is disabled and
enabled. The properties of the transmitter say that this is the only step that
does so.

### Duart

The channels appear through the two calls they make. Timer periods are
abstract: a scheduled timer fires at some later point. The only clock that can
have rate zero, so that `start_ct` schedules nothing, is TxCA/TxCB of an
unprogrammed channel (`Scheduled`). `SampleIrq` is the CPU core deciding to take
an interrupt (`update_interrupt`), some events before its IACK cycle calls
`get_irq_vector`. CTUR, CTLR and IVR hold data no property distinguishes.

### SdCard

Two actions per byte: the eighth rising clock edge (`CommandIn`, `OtherIn`,
`NextBlock`, `TokenIn`, `DataIn`, `DataComplete`: the cases of `latch_in`) and
the falling edge after it (`shift_out`). Deselect, machine reset and image
changes can fall between any two of them. The four argument bytes of a command
are one unit, so a frame is three units. `AnswerTo` is the switch of
`do_command`. Register contents, CRCs and what a failed read leaves in the
buffer are markers. `fault` records undefined behaviour (a null image handle, a
store past `m_data`), after which nothing more happens: for that reason
its runs do not check for deadlock. `HotSwap` says whether the image may change
while a transfer is under way. `MCSdCard` gives each behaviour one kind of host,
with its own vocabulary and images, so that one run covers several.

A write may fail at any block, and past the end of a bare file it may succeed and
grow the file (`Written`), up to the bound `LbaLimit`: a CHD fails there. A host
write that fails half way through a sector is taken to have changed nothing. The
card keeps one block number, so a write goes to the block that was last named or
reached, which after CMD24 is its argument. The byte offset of a bare image is
computed in 32 bits (`harddisk.cpp:155`) and wraps at 4 GiB; images are far smaller
here and that is not modelled.

`SdCsd` has no state: `Accepted` and `m_csd` are the tests and the bit packing
of `image_loaded`, `DecodedBlocks` is what a host computes from the register.
`MCSdCard` assumes `CsdReportsCapacity`, so TLC evaluates it whenever it runs.

### AtaDisk

`dev[c]` is the device in slot c as a record with the members that decide
anything; a handler maps the old record to the new one, and the few that reach
the other device (`set_pdiag`, `start_diagnostic`) map the whole function. A
write to a task file register is seen by both devices, which is why its actions
build all of `dev'`. `busy_tick` is the expiry of `m_busy_timer`, with
`finished_busy`, `finished_command` and all they call; its time is counted
(`left`), because the order in which the two disks' timers expire is fixed by the
2 ms constants and matters for PDIAG. `ok` is whether the image could move the
sector. A `host` fixes what a behaviour's host does; a patient one looks at BSY
before it writes, and the properties about two disks are stated for it, unless it
raised SRST before the devices had come out of reset (`early`). Of two disks and an
impatient host `TransferInOrder` says nothing, for the reason in section 4.

Abstractions: the address is one number, and `AtaAddress` shows when the
registers count with it; of the head register only the drive bit is kept;
commands handled alike are one. A machine reset finds each slot with or without
a usable image (`MachineReset`). Nothing drives DMACK on this board, so DMA
transfers can only be moved through the data register.

Behaviour met while modelling that the properties leave open, because no text of
the repository says what is right: a device whose last command was the
diagnostic also obeys commands given to the other one; the diagnostic on device 1
raises no interrupt; given a second time with a failing device 1 selected it
leaves device 0 with an interrupt nobody sees (`SelectionSound` excludes the
diagnostic); SRST raised while device 0 is still resetting is ignored by it, and
a PDIAG that comes late then rewrites its task file (`early`); 8 bit transfers
survive a machine reset; READ and WRITE MULTIPLE without a block size make the
whole transfer one block; a track of 255 sectors wraps the sector register, and
more than 16 heads carry into the drive bit (`SafeGeometry`), as does an address
that runs off the top of the space, where `next_sector` of the model wraps with the
drive bit kept; INITIALIZE DEVICE PARAMETERS with a count of 0 stores 256 sectors
in eight bits, a track of none (`Geometry`).

### NullModem

`input` is the buffer with the stream behind it, since every look at the buffer
refills it first. `update_queue` is the timer's callback and the tail of
`tra_complete` and `device_reset`; the histories `consumed` and `sent` since the
line settings were last applied are what `StreamConverted` compares: equal, equal
but for LF, the same text when a run of line ends counts once (`SameText`, with
never more line feeds than stood alone), or with every line end as CR LF at its
place (`Expands`). The flow control and conversion setting is fixed per behaviour;
baud rate and framing may change at any time (`update_serial`). In the middle of a
character such a change empties the transmit register with the poll timer at rest,
and input stops until the next reset: the history `cut` records it, `PollOrSend`
says that nothing else stops the queue, and `InputMoves` is about behaviours that
are not cut for good.

Also met: "CR/LF to CR" swallows every line end that has arrived by then, so blank
lines come and go with the timing; XON and XOFF are honoured only when neither a
conversion nor a delay is selected (`ExactlyXon`).

### SpiPins, M68kBus, RamBank and RoscoBoard

`OutputBits` is a write to Set or Reset Output Port Bits; `write_outport` calls
the card's three handlers in the order the drivers wire them. What the card
answers is `SdCard`'s business: it may have any byte ready. A byte is the function
from places to bits, so a shift is a shift and not arithmetic. `spi` records what the
host can know of the bus by itself, and the properties compare the card with it.
The machine reset tells the card that the clock is low when the DUART has just
raised it, so a first port write that selects the card with the clock high is
taken for an edge: `BytesIntact` counts that bit (`phantom`).

`M68kBus` counts the cycles of the window. Instructions touch unmapped memory after
any number of cycles, none included, because the Musashi cores (68010 to 68030)
charge nothing for entering a bus error; nor does a machine reset clear flag or timer.
So the next instruction's probe can fall into the window and go unanswered: `early`
records that an instruction's first touch came within `Window` cycles of the last
error, and `OneBusError` says that only such an instruction goes without. Time passes
inside an instruction of the suspendable 68000 core, which drops the instruction when
it is signalled (`trigger_bus_error`); a Musashi core runs it to its last access, with
no time in between. In `RamBank` the interrupt handler is the firmware's convention of
saving and restoring address 0, external to the driver.

## 3. Runs

| Run | Instance | Result |
| --- | --- | --- |
| `channel_rx` | FIFO of 2 (ring of 3), two frames, one with a framing error, both interrupt and error modes, loopback, receiver commands, breaks, retiming, reset | passes: `RingInv`, `RxFlagsSound`, `IsrMirrorsSR`, refinement of `RxQueue` |
| `channel_tx` | two characters, 7 bit frames, all four modes, baud generator and timer clock, all transmitter commands alone and combined, retiming at any moment, reset | passes: `TxHandshake`, `TxBufferBehindShift`, refinement of `TxPipe`, `TxLossNeedsInterruption`, `TxStaysReadyOrBusy`, liveness `TxBufferDrains`, `TxRdyRecovers` |
| `duart` | three inputs, one channel interrupt, both timer modes, OP3 and a mirrored pin | passes: `IrqIsLevel`, `IpChangeConsistent`, `TimerModeTicks`, `PinsFollowOPR`, liveness `TickRecurs` |
| `sdcard_transfer` | writer: block of 2 units on an SD card, CMD16 and 24, two data values, the token among them, writes that fail; grower: CMD24 at and past the end of a bare file; reader: SD and SDHC images exchanged between transfers, CMD16 and 17, and CMD12, 16 and 18 | passes: `ReplyBeforeData`, `WriteInBounds`, `PartialOnlyOnV2`, `OnlyWriteMeetsNoImage`, refinement of `BlockStore` |
| `sdcard_session` | CMD0, 9, 12, 41, 55, 59 and an unsupported one; CMD24 with images of two sector sizes exchanged at any moment; the CSD of several hundred image sizes | passes: `ReplyFits` |
| `ata` | five hosts: transfers of 1 to 3 sectors in blocks of 0 to 3, single sector commands and width changes, resets on one disk, two disks with resets and diagnostic, two disks in data phases | passes: `TypeOK`, `BusyTimed`, `BufferInBounds`, `SelectionSound`, `DiagnosisRight`, `TransferInOrder`, `InterruptSchedule`, `WakesOnlyWaiter`, `NoSilentEnd`, liveness `BusyEnds` |
| `nullmodem` | all settings, four characters of CR, LF and one other, settings changes and resets at any moment | passes: `PollOrSend`, `StreamConverted`, `FlowHolds`, liveness `InputMoves` |
| `board` | both machines, bytes of 3 bits, two of them per selection, both kinds of 68k core, window of 2 cycles, two banks | passes: `BytesIntact`, `ReplyAligned`, `OneBusError`, `BankSurvivesIrq` |
| `channel_ffull`, `channel_rxrdy`, `duart_reset` | as above | violated, see section 5 |

Bounds. A FIFO of two in a ring of three has every case of the real one of
three in four: empty, one, full, overrun, wrap of either pointer, and the
theorems hold for every size. A block of two units makes partial lengths,
crossing and aligned addresses and both CRC units distinct. `LbaLimit` ends a
multiple block read that the host would otherwise continue for ever, and the growth
of a bare file. A window of two cycles has a first and a last cycle. The
register values are those each handler distinguishes, not all 256. A sector of
two bytes tells one and two byte accesses apart; three sectors in blocks of up to
three give a short last block, and a count of zero that means three; a diagnostic
twice as long as a command lets either disk's timer come first; registers of four
values take `ConsecutiveSectors` across every track, cylinder and byte boundary,
and its theorem holds for every width. Four characters hold a CR/LF on either side
of another character, or two in a row. Two bytes of three bits have a first, a
middle and a last bit and a byte boundary inside a selection.

Fairness. `DuartChannel!FairSpec` assumes that a running bit clock ticks again
(weak fairness on `TraEdge` while `tra_clock`): `m_tra_clock` is a periodic
`emu_timer`, and MAME's scheduler fires every timer that stays scheduled. A
channel clocked by the DUART timer gets no fairness. `Duart!FairSpec` assumes
the same of `duart_timer`. `AtaDisk!Fairness` assumes that emulated time goes on
and that an expired timer is run, `NullModem!Fairness` that the poll timer fires
when due and that a loaded transmit register is clocked out. No fairness is assumed of firmware, user or line.

Each property of a passing run has a variant of the code, defined next to the
definition it replaces (`PushSlot_NoBackup`, `LastData_Late`, ...), that breaks
it under the same instance.

## 4. Theorems

Every theorem is about `Spec` (its initial states and steps; no proof uses
fairness), so it holds for every value of the constants that satisfies the named
assumption of the module: every FIFO and sector size, every register vocabulary,
every image, every byte length, every stream. Every invariant and action property
a run checks, and all three refinements, are proved this way; what is left to TLC
is listed at the end of this section.

**The serial channel** (`DuartChannelProofs`, `DuartChannelRefinement`).
- `TypeCorrect`, `RingCorrect`, `IsrCorrect`, `HandshakeCorrect`,
  `RxFlagsCorrect`. The types are not inductive alone: the count of bits sent stays
  in range only because a busy shift register has bits left, so they are proved as
  `TypeInv == TypeOK /\ ShiftInv`. `RingInv` needs the types of the pointers and is
  then inductive. `RxFlagsSound` is not inductive alone: clearing FFULL in
  `read_rx_fifo` is justified only by the exact count. `TxHandshake` is inductive
  because every path that fills the holding register clears TxRDY in the same
  handler.
- `PipeRefinement`: the channel implements `TxPipe`. Each handler is a step of the
  pipe or a stutter; the ones that touch no transmit register (`Bystander`) are
  done together. `LossNeedsInterruption` comes from the same case analysis.
- `BehindCorrect` and `NeverWedged`, action properties that except a retiming of the
  busy channel and nothing else. `NeverWedged` needs `CountInv`: the bit counter
  TxRDY is derived from agrees with the shift register's own.
- `QueueRefinement`: the ring implements `RxQueue`. The mapping reads the ring from
  its read pointer (`RxSlot`); the lemmas show that a push, a pop and an overwrite
  of the newest slot map to `Append`, `Tail` and a replaced last member, across the
  wrap of either pointer.

**The DUART device** (`DuartProofs`): `IrqCorrect`, `IpChangeCorrect`,
`TimerCorrect`, `PinsCorrect`. `PinsFollowOPR` leaves OP3 out, which the counter
moves without driving it; that an interrupt update may drive the mirrored pin and
must not disturb the others is a lemma about the three calls handlers end in.

**The SD card** (`SdCardProofs`).
- `SdTypeCorrect`, `SdReplyCorrect`, `SdPartialCorrect`, `ReplyBeforeDataCorrect`,
  `WriteInBoundsCorrect`, `OnlyWriteMeetsNoImageCorrect`. The types, `ReplyFits` and
  `PartialOnlyOnV2` form one inductive invariant (`TypeInv`): a single block read
  fits the buffer on an SDHC card only because its length is a whole block.
  `ReplyBeforeData` needs `Drained`: how many units may still be pending in each
  state and half of a byte time, so that the filler and R1 have left when the
  token's first data byte arrives. `OnlyWriteMeetsNoImage` needs `ReadKeepsImage`.
- `StoreRefinement`: the card implements `BlockStore`. It assumes `~HotSwap`, that
  is, images change between transfers only: with another sector size loaded inside
  a transfer the length checked when CMD24 came is not the length stored. It
  needs `WholeBlock`, that a write is only open with the transfer length equal to
  the block's, and `WriteInBounds`.

**The IDE disks** (`AtaAddressProofs`, `AtaDiskProofs`).
- `SectorsConsecutive`, about the two pure functions, by cases over which register
  carries.
- `TypeCorrect`, `BusyCorrect`, `BufferCorrect`, `InterruptsCorrect`,
  `NoSilentEndCorrect`: facts about one device. `Sound(r)` is inductive for its
  record, and each handler has a lemma about what it does to a sound record, in the
  order the handlers call each other. The interrupt schedule needs a closed form of
  `m_sectors_until_int` after every sector (`Until`), including the value that has
  run below zero when no block size is set, and `Ahead`: moved and remaining
  sectors add up, counting the one a read holds in the buffer.
- `TransferCorrect`: the task file points at the next sector of the transfer
  (`Placed`) as long as nothing else rewrites it. A PDIAG from the other device
  could, which is why the property is about hosts with one disk or patient ones:
  with two disks, a host that does not wait for BSY can start a transfer on device 0
  while its timer parameter still says PDIAG, and device 1's `set_pdiag` then
  rewrites device 0's task file. The attempt to prove the property without that
  guard is what showed this.
- `DiagnosisCorrect`, `WakeCorrect`: `Order` is the reset protocol of the two
  devices, for an orderly host: a working device 1 that has not asserted PDIAG yet is
  still at it, in step with device 0 (`Awaits`), in one of the few ways both can be
  busy (`Phase`: their timers are equal, or device 1's is due and device 0 has all of
  its own ahead); and device 0 blames device 1 only when it does not work
  (`Blames`). `Cable` is what holds between them whatever the host does.
- `SelectionCorrect`: `Select` lists the three situations of the two copies of the
  drive select: they agree and only the selected device can be busy, both devices
  are in a reset, or only device 0 still is. `Lines` adds that a device busy with a
  reset has no interrupt, which is why `signature()` may clear its select without
  `update_irq`.

**The null modem** (`NullModemProofs`): `PollCorrect`, `FlowCorrect`,
`NullModemTypeCorrect`, `StreamCorrect`.
- `PollOrSend` is an equivalence: a character is leaving or the timer is set, exactly
  while no settings change has cut a character short. Every path through
  `update_queue` either loads the register or sets the timer; `PollInv` adds that
  never both are so, without which a change that empties a busy register could leave
  the timer set. `FlowHolds` needs that `m_xoff` is what the
  machine last sent, when XON and XOFF are looked for at all.
- `StreamConverted` is proved from `Converted`: where line ends are dropped, `m_cr`
  must mean exactly that the last character taken was a carriage return, and line
  and stream must both end in a line end or neither. The lemmas say what one more
  character, or a run of dropped line ends, does to the beginnings of lines
  (`Heads`) and their numbers, to the lone line feeds and to the places of an
  expanded text. For that the property compares texts by counting positions and
  not with recursive functions.

**The boards** (`RoscoBoardProofs`): `BusErrorCorrect`, `BankCorrect`,
`BytesCorrect`, `ReplyCorrect`.
- `OneBusError` needs `BusInv`: the flag is set exactly while its timer runs, and the
  timer's rest and the age of the last error add up to the window, so an instruction
  that begins later meets a cleared flag, whatever resets and debugger accesses came
  between. `BankSurvivesIrq`
  needs that address 0 holds the register's value while it was the last one written.
- `BytesIntact` and `ReplyAligned` come from one invariant, `SpiInv`. The card knows
  the levels of the pins, except for the clock after a machine reset (`Levels`). A
  selected card has received the whole bytes of the clocked bits and holds the rest
  in `m_in_latch`, one place higher while the clock is low (`Receiving`); its output
  latch is the answer shifted by the bits that left, with ones behind (`Replying`).
  One lemma per edge and half, and one for each of the three lines of a port write.

Model-checked only, and why: the liveness properties `TxBufferDrains`,
`TxRdyRecovers`, `TickRecurs`, `BusyEnds` and `InputMoves`, since the proof system
has no rule for fairness; `CsdReportsCapacity`, which is about powers of two with variable exponents
and the largest of a set, beyond the provers' arithmetic; TLC evaluates it for the
several hundred image sizes of `MCSdCard`.

## 5. Where code and comments disagree

- `channel_ffull`: a receiver reset empties the FIFO and leaves FFULL
  (`mc68681.cpp:1729` against the comment at 347). A machine reset does the same.
- `channel_rxrdy`: disabling the receiver hides characters that still wait
  (`mc68681.cpp:1807` against 348).
- `duart_reset`: a reset leaves the counter/timer scheduled (`mc68681.cpp:275`
  against 283); it expires in the fresh machine and in counter mode rearms itself.

Met while modelling and not made into runs, because no text of the repository
speaks of it: setting the rates of a busy transmitter, or of the busy null modem,
drops the frame and stops the transmitter (`diserial.cpp:97`); a probe within 16
cycles of a bus error is not answered with another. And: in counter mode OP3 changes in OPR
and not on the pin (`mc68681.cpp:544`); a late IACK sets `m_read_vector` with
the IRQ inactive (`mc68681.h:221`); the header of `spi_sdcard.cpp` (line 17)
still says that multiple block reads are not supported, CMD18 at line 620
implements them.

## 6. Not modelled, and what is left

- Boot vector overlay, memory maps and LEDs of the drivers: a view that is
  selected at reset and disabled by the first write, and tables.
- Ultra DMA's deferred `fill_buffer`, the DMA handshake, 48 bit addresses, packet
  devices, SECURITY UNLOCK and the contents of IDENTIFY. Nothing on this board
  acknowledges DMA.
- The terminal and other RS-232 peripherals, sampling of received bits, parity.
- File formats of images, quickload's copy, snapshots.
- CPU cores (generated tables of several million lines, by far the largest part
  of the tree), MAME's framework, front end and OSD layer, third party libraries,
  build scripts. The models use only MAME's scheduling contract.
- The SC28C94, MC68340 and MCF5206e variants in `mc68681.cpp`, which are not part
  of either machine.

Left: nothing a run checks as a safety property is without a theorem. What could
still be added are invariants for the hazards that `PROJECT.json` lists without a
property, first the late IACK and the transmitter that stays disabled after a
reset and a repeated enable.
