---------------------------- MODULE DuartChannel ----------------------------
(***************************************************************************)
(* One serial channel of the XR68C681 DUART: class duart_channel of        *)
(* src/src/devices/machine/mc68681.cpp on top of device_serial_interface   *)
(* of src/src/emu/diserial.cpp.                                            *)
(*                                                                         *)
(* MAME is single threaded: a CPU access to a register, a clock edge and a *)
(* machine reset each run to completion, so each is one action.  What      *)
(* interleaves is WHICH handler runs next.                                 *)
(*                                                                         *)
(* A status register is the set of its one bits.  A character is a model   *)
(* value; the receiver is modelled from the start bit to the sampling of   *)
(* the last stop bit, the transmitter bit by bit.                          *)
(***************************************************************************)
EXTENDS Naturals, Sequences

CONSTANTS
    Chars,          \* characters on the line
    Null,           \* the character 0x00, pushed for a looped back break
    FifoSize,       \* MC68681_RX_FIFO_SIZE; the ring has one slot more
    RxFrames,       \* what the remote end may send: [char, errs]
    MR1Values,      \* bytes firmware writes to MR1
    MR2Values,      \* bytes firmware writes to MR2
    CRValues,       \* bytes firmware writes to the command register
    ClockSelects    \* clock sources firmware selects in CSR

TransmitModes == {"normal", "loopback"}
Modes         == TransmitModes \cup {"echo", "remote"}
Parities      == {"none", "odd", "even", "mark", "space"}
DataErrors    == {"BRK", "FE", "PE"}
StatusBits    == DataErrors \cup {"OE", "TXEMT", "TXRDY", "FFULL", "RXRDY"}
IntBits       == {"TXRDY", "RXRDY", "DBRK"}
Clocks        == {"brg", "none", "timer"}

\* The fields of each register that the code looks at.
MR1Type == [rxint : BOOLEAN, block : BOOLEAN, word : 5..8, parity : Parities]
MR2Type == [mode : Modes, stop : 1..2]
\* A CR command is the high nibble; 8 stands for the XR68C681's X bit commands
\* 8 to 11 (12 to 15 are passed on as 0).
CRType  == [cmd : 0..8, rxon : BOOLEAN, rxoff : BOOLEAN,
            txon : BOOLEAN, txoff : BOOLEAN]
Frames  == [char : Chars, errs : SUBSET DataErrors]
DataFrames == [word : 5..8, parity : Parities, stop : 1..2]

ASSUME ChannelAssumption ==
    /\ FifoSize \in Nat \ {0}
    /\ Null \in Chars
    /\ RxFrames \subseteq [char : Chars, errs : SUBSET {"FE", "PE"}]
    /\ MR1Values \subseteq MR1Type
    /\ MR2Values \subseteq MR2Type
    /\ CRValues \subseteq CRType
    /\ ClockSelects \subseteq Clocks

VARIABLES
    MR_ptr, MR1, MR2,            \* mode registers and their shared pointer
    SR,                          \* status register
    CR2,                         \* bit 2 (transmitter enable) of the last CR
    isr,                         \* this channel's three bits of the DUART ISR
    rx_enabled, rx_fifo, rx_fifo_read_ptr, rx_fifo_write_ptr, rx_fifo_num,
    rcv, rcv_rate,               \* receive register; is its rate not "never"?
    tx_enabled, tx_data, tx_data_in_buffer, tx_break, bits_transmitted,
    tra_empty, tra_char, tra_sent, tra_len,  \* transmit shift register
    tra_clock, tra_rate,         \* is the bit clock running; is a rate set?
    csr,                         \* clock select register [tx, rx]
    df                           \* data frame in force (set_data_frame)

modeVars == <<MR_ptr, MR1, MR2, df>>
fifoVars == <<rx_fifo, rx_fifo_read_ptr, rx_fifo_write_ptr, rx_fifo_num>>
rxVars   == <<rx_enabled, fifoVars, rcv>>
shiftVars == <<tra_empty, tra_char, tra_sent, tra_len, tra_clock>>
txVars   == <<tx_enabled, tx_data, tx_data_in_buffer, bits_transmitted>>
rateVars == <<rcv_rate, tra_rate, csr>>
vars == <<modeVars, SR, CR2, isr, rxVars, shiftVars, txVars, tx_break,
          rateVars>>

RingSlots == 0..FifoSize
Idle      == <<>>   \* the receive register waits for a start bit

TypeOK ==
    /\ MR_ptr \in {0, 1}
    /\ MR1 \in MR1Type
    /\ MR2 \in MR2Type
    /\ SR \in SUBSET StatusBits
    /\ CR2 \in BOOLEAN
    /\ isr \in SUBSET IntBits
    /\ rx_enabled \in BOOLEAN
    /\ rx_fifo \in [RingSlots -> Frames]
    /\ rx_fifo_read_ptr \in RingSlots
    /\ rx_fifo_write_ptr \in RingSlots
    /\ rx_fifo_num \in 0..(FifoSize + 1)
    /\ rcv \in {Idle} \cup {<<f>> : f \in RxFrames}
    /\ rcv_rate \in BOOLEAN
    /\ tx_enabled \in BOOLEAN
    /\ tx_data \in Chars
    /\ tx_data_in_buffer \in BOOLEAN
    /\ tx_break \in BOOLEAN
    /\ bits_transmitted \in 0..255
    /\ tra_empty \in BOOLEAN
    /\ tra_char \in Chars
    /\ tra_sent \in 0..12
    /\ tra_len \in 0..12
    /\ tra_clock \in BOOLEAN
    /\ tra_rate \in BOOLEAN
    /\ csr \in [tx : Clocks, rx : Clocks]
    /\ df \in DataFrames

-----------------------------------------------------------------------------
(* Framing and status helpers *)

\* set_data_frame(1, 8, PARITY_NONE, STOP_BITS_1) of a channel reset.
ResetFrame == [word |-> 8, parity |-> "none", stop |-> 1]

\* Bits transmit_register_setup loads: start, word, parity, stop bits.
FrameLength(f) == 1 + f.word + (IF f.parity = "none" THEN 0 ELSE 1) + f.stop

\* recalc_framing: the data frame two mode registers ask for.
recalc_framing(m1, m2) ==
    [word |-> m1.word, parity |-> m1.parity, stop |-> m2.stop]

\* What update_interrupts leaves of the status register.
ModeStatus(sr, m2) ==
    IF m2.mode \in TransmitModes THEN sr ELSE sr \ {"TXRDY"}

\* The ISR bits update_interrupts derives from the status register.
StatusInterrupts(sr, m1) ==
    (sr \cap {"TXRDY"}) \cup
    (IF (IF m1.rxint THEN "FFULL" \in sr ELSE "RXRDY" \in sr)
     THEN {"RXRDY"} ELSE {})

\* Variant: interrupts are raised but never withdrawn.
update_interrupts_SetOnly(sr, m1, m2, brk) ==
    /\ SR' = ModeStatus(sr, m2)
    /\ isr' = isr \cup brk \cup StatusInterrupts(ModeStatus(sr, m2), m1)

\* duart_channel::update_interrupts on status sr and mode registers m1, m2;
\* brk is what the handler left of the delta break bit.
update_interrupts(sr, m1, m2, brk) ==
    /\ SR' = ModeStatus(sr, m2)
    /\ isr' = brk \cup StatusInterrupts(ModeStatus(sr, m2), m1)

DeltaBreak == isr \cap {"DBRK"}

Init ==
    /\ MR_ptr = 0
    /\ MR1 = [rxint |-> FALSE, block |-> FALSE, word |-> 5, parity |-> "even"]
    /\ MR2 = [mode |-> "normal", stop |-> 1]
    /\ SR = {} /\ isr = {} /\ CR2 = FALSE
    /\ rx_enabled = FALSE
    /\ rx_fifo = [i \in RingSlots |-> [char |-> Null, errs |-> {}]]
    /\ rx_fifo_read_ptr = 0 /\ rx_fifo_write_ptr = 0 /\ rx_fifo_num = 0
    /\ rcv = Idle /\ rcv_rate = FALSE
    /\ tx_enabled = FALSE /\ tx_data = Null /\ tx_data_in_buffer = FALSE
    /\ tx_break = FALSE /\ bits_transmitted = 255
    /\ tra_empty = TRUE /\ tra_char = Null /\ tra_sent = 0 /\ tra_len = 0
    /\ tra_clock = FALSE /\ tra_rate = FALSE
    /\ csr = [tx |-> "brg", rx |-> "brg"]
    /\ df = ResetFrame

-----------------------------------------------------------------------------
(* Receiver *)

FifoOverrun == rx_fifo_num = FifoSize + 1
NextSlot(p) == IF p + 1 > FifoSize THEN 0 ELSE p + 1
PrevSlot(p) == IF p # 0 THEN p - 1 ELSE FifoSize

\* Variant: an overrun forgets to back the write pointer up.
PushSlot_NoBackup == rx_fifo_write_ptr

\* The slot rx_fifo_push stores into, and the count it leaves.
PushSlot == IF FifoOverrun THEN PrevSlot(rx_fifo_write_ptr)
                           ELSE rx_fifo_write_ptr
PushNum  == IF FifoOverrun THEN rx_fifo_num ELSE rx_fifo_num + 1

\* Variant: an overrun is not recorded.
PushStatus_NoOverrun(sr, f) ==
    LET cleared == IF MR1.block THEN sr ELSE sr \ DataErrors
        headed  == IF PushNum = 1 THEN cleared \cup {"RXRDY"} \cup f.errs
                                  ELSE sr
    IN  IF PushNum = FifoSize THEN headed \cup {"FFULL"} ELSE headed

\* The status register rx_fifo_push leaves behind, starting from sr.
PushStatus(sr, f) ==
    LET flagged == IF FifoOverrun THEN sr \cup {"OE"} ELSE sr
        cleared == IF MR1.block THEN flagged ELSE flagged \ DataErrors
        headed  == IF PushNum = 1 THEN cleared \cup {"RXRDY"} \cup f.errs
                                  ELSE flagged
    IN  IF PushNum = FifoSize THEN headed \cup {"FFULL"} ELSE headed

\* The ring part of rx_fifo_push.
PushRing(f) ==
    /\ rx_fifo' = [rx_fifo EXCEPT ![PushSlot] = f]
    /\ rx_fifo_write_ptr' = NextSlot(PushSlot)
    /\ rx_fifo_num' = PushNum
    /\ UNCHANGED rx_fifo_read_ptr

\* rx_w sees the falling edge of a start bit while the register waits for one.
StartBit(f) ==
    /\ rcv = Idle
    /\ rcv' = <<f>>
    /\ UNCHANGED <<modeVars, SR, CR2, isr, rx_enabled, fifoVars, shiftVars,
                   txVars, tx_break, rateVars>>

\* rcv_edge samples the last stop bit: rcv_complete empties the receive
\* register and, if the receiver is on or looped back, pushes the character.
\* The clock is the channel's own, or the DUART timer's through
\* rx_16x_clock_w.
RcvComplete(f) ==
    /\ rcv = <<f>>
    /\ rcv_rate \/ csr.rx = "timer"
    /\ rcv' = Idle
    /\ IF rx_enabled \/ MR2.mode = "loopback"
       THEN /\ PushRing(f)
            /\ update_interrupts(PushStatus(SR, f), MR1, MR2, DeltaBreak)
       ELSE UNCHANGED <<fifoVars, SR, isr>>
    /\ UNCHANGED <<modeVars, CR2, rx_enabled, shiftVars, txVars, tx_break,
                   rateVars>>

\* Variant: emptying the FIFO leaves RxRDY up.
PopStatus_KeepReady(sr, n, h) ==
    LET notFull == IF n = FifoSize - 1 THEN sr \ {"FFULL"} ELSE sr
    IN  (IF MR1.block THEN notFull ELSE notFull \ DataErrors) \cup h.errs

\* What read_rx_fifo leaves of the status register when n entries remain
\* and h is the new head.
PopStatus(sr, n, h) ==
    LET notFull == IF n = FifoSize - 1 THEN sr \ {"FFULL"} ELSE sr
        cleared == IF MR1.block THEN notFull ELSE notFull \ DataErrors
    IN  IF n = 0 THEN cleared \ {"RXRDY"} ELSE cleared \cup h.errs

\* CPU reads the receive holding register, characters waiting.
ReadRxFifo ==
    /\ rx_fifo_num # 0
    /\ rx_fifo_read_ptr' = NextSlot(rx_fifo_read_ptr)
    /\ rx_fifo_num' = rx_fifo_num - 1
    /\ update_interrupts(
           PopStatus(SR, rx_fifo_num - 1, rx_fifo[NextSlot(rx_fifo_read_ptr)]),
           MR1, MR2, DeltaBreak)
    /\ UNCHANGED <<modeVars, CR2, rx_enabled, rx_fifo, rx_fifo_write_ptr, rcv,
                   shiftVars, txVars, tx_break, rateVars>>

\* CPU reads the receive holding register of an empty FIFO.
ReadRxFifoUnderflow ==
    /\ rx_fifo_num = 0
    /\ update_interrupts(SR, MR1, MR2, DeltaBreak)
    /\ UNCHANGED <<modeVars, CR2, rxVars, shiftVars, txVars, tx_break,
                   rateVars>>

-----------------------------------------------------------------------------
(* Transmitter *)

\* transmit_register_setup(c) and the reset of the channel's bit counter.
LoadShift(c) ==
    /\ tra_empty' = FALSE
    /\ tra_char' = c
    /\ tra_sent' = 0
    /\ tra_len' = FrameLength(df)
    /\ tra_clock' = (tra_rate \/ tra_clock)
    /\ bits_transmitted' = 0

\* write_TX tests TxRDY.  Variant: it only tests the enable.
TxReady_EnableOnly == tx_enabled
TxReady == "TXRDY" \in SR

\* CPU writes the transmit holding register.  A write while TxRDY is clear is
\* logged and discarded: it changes nothing.
WriteTX(c) ==
    /\ TxReady
    /\ update_interrupts(SR \ {"TXRDY", "TXEMT"}, MR1, MR2, DeltaBreak)
    /\ IF tra_empty
       THEN /\ LoadShift(c)
            /\ UNCHANGED <<tx_data, tx_data_in_buffer>>
       ELSE /\ tx_data' = c
            /\ tx_data_in_buffer' = TRUE
            /\ UNCHANGED <<shiftVars, bits_transmitted>>
    /\ UNCHANGED <<modeVars, CR2, rxVars, tx_enabled, tx_break, rateVars>>

TraClocked == tra_clock \/ csr.tx = "timer"
NextBits   == (bits_transmitted + 1) % 256

\* Variants: TxRDY ignores a full holding register; comes too late to be seen.
StartBitOut_Eager == NextBits > 1 /\ tx_enabled
StartBitOut_Late  == NextBits > 12 /\ ~tx_data_in_buffer /\ tx_enabled

\* tra_callback re-asserts TxRDY once the start bit is out.
StartBitOut == NextBits > 1 /\ ~tx_data_in_buffer /\ tx_enabled
CallbackStatus == IF StartBitOut THEN SR \cup {"TXRDY"} ELSE SR

\* tra_edge sends a bit that is not the last of the frame.
TraEdgeBit ==
    /\ TraClocked /\ ~tra_empty /\ tra_sent + 1 # tra_len
    /\ tra_sent' = tra_sent + 1
    /\ bits_transmitted' = NextBits
    /\ IF StartBitOut
       THEN update_interrupts(CallbackStatus, MR1, MR2, DeltaBreak)
       ELSE UNCHANGED <<SR, isr>>
    /\ UNCHANGED <<modeVars, CR2, rxVars, tra_empty, tra_char, tra_len,
                   tra_clock, tx_enabled, tx_data, tx_data_in_buffer,
                   tx_break, rateVars>>

\* Variant: the holding register stays marked full after the transfer.
TraEdgeReload_KeepFull ==
    /\ TraClocked /\ ~tra_empty /\ tra_sent + 1 = tra_len
    /\ tx_data_in_buffer
    /\ LoadShift(tx_data)
    /\ update_interrupts(CallbackStatus \cup {"TXRDY"}, MR1, MR2, DeltaBreak)
    /\ UNCHANGED <<modeVars, CR2, rxVars, tx_enabled, tx_data,
                   tx_data_in_buffer, tx_break, rateVars>>

\* tra_edge sends the last bit while the holding register is full:
\* tra_complete moves the waiting character into the shift register.
TraEdgeReload ==
    /\ TraClocked /\ ~tra_empty /\ tra_sent + 1 = tra_len
    /\ tx_data_in_buffer
    /\ LoadShift(tx_data)
    /\ tx_data_in_buffer' = FALSE
    /\ update_interrupts(CallbackStatus \cup {"TXRDY"}, MR1, MR2, DeltaBreak)
    /\ UNCHANGED <<modeVars, CR2, rxVars, tx_enabled, tx_data, tx_break,
                   rateVars>>

\* tra_edge sends the last bit and nothing waits: tra_complete sets TxEMT,
\* tra_edge stops the clock.
TraEdgeDrain ==
    /\ TraClocked /\ ~tra_empty /\ tra_sent + 1 = tra_len
    /\ ~tx_data_in_buffer
    /\ tra_empty' = TRUE
    /\ tra_sent' = tra_sent + 1
    /\ bits_transmitted' = NextBits
    /\ tra_clock' = (tra_clock /\ ~tra_rate)
    /\ update_interrupts(CallbackStatus \cup {"TXEMT"}, MR1, MR2, DeltaBreak)
    /\ UNCHANGED <<modeVars, CR2, rxVars, tra_char, tra_len, tx_enabled,
                   tx_data, tx_data_in_buffer, tx_break, rateVars>>

\* tra_edge on a register emptied by a transmitter reset stops the clock.
TraEdgeIdle ==
    /\ tra_clock /\ tra_empty /\ tra_rate
    /\ tra_clock' = FALSE
    /\ UNCHANGED <<modeVars, SR, CR2, isr, rxVars, tra_empty, tra_char,
                   tra_sent, tra_len, txVars, tx_break, rateVars>>

TraEdge == TraEdgeBit \/ TraEdgeReload \/ TraEdgeDrain \/ TraEdgeIdle

-----------------------------------------------------------------------------
(* Register writes *)

\* CPU writes MR1 (pointer at 0) or MR2; recalc_framing restarts the receive
\* register if the data frame changes.
Reframe(m1, m2) ==
    /\ df' = recalc_framing(m1, m2)
    /\ rcv' = IF df' # df THEN Idle ELSE rcv

WriteMR1(m1) ==
    /\ MR_ptr = 0
    /\ MR_ptr' = 1
    /\ MR1' = m1
    /\ Reframe(m1, MR2)
    /\ update_interrupts(SR, m1, MR2, DeltaBreak)
    /\ UNCHANGED <<MR2, CR2, rx_enabled, fifoVars, shiftVars, txVars,
                   tx_break, rateVars>>

WriteMR2(m2) ==
    /\ MR_ptr = 1
    /\ MR2' = m2
    /\ Reframe(MR1, m2)
    /\ update_interrupts(SR, MR1, m2, DeltaBreak)
    /\ UNCHANGED <<MR_ptr, MR1, CR2, rx_enabled, fifoVars, shiftVars, txVars,
                   tx_break, rateVars>>

\* CPU reads the mode register: reading MR1 moves the pointer.
ReadMR ==
    /\ MR_ptr = 0
    /\ MR_ptr' = 1
    /\ UNCHANGED <<MR1, MR2, df, SR, CR2, isr, rxVars, shiftVars, txVars,
                   tx_break, rateVars>>

\* Start break in local loopback simulates the reception of a break.
BreakFrame == [char |-> Null, errs |-> {"BRK"}]
LoopBreak(cmd) == cmd = 6 /\ ~tx_break /\ MR2.mode = "loopback"
StopLoopBreak(cmd) == cmd = 7 /\ tx_break /\ MR2.mode = "loopback"

\* The status register after the command nibble of a CR write.
CommandStatus(cmd) ==
    CASE cmd = 2 -> SR \ (DataErrors \cup {"RXRDY", "OE"})
      [] cmd = 3 -> SR \ {"TXRDY", "TXEMT"}
      [] cmd = 4 -> SR \ (DataErrors \cup {"OE"})
      [] LoopBreak(cmd) -> PushStatus(SR, BreakFrame)
      [] OTHER -> SR

\* The delta break interrupt after the command nibble.
CommandBreak(cmd) ==
    CASE cmd = 5 -> {}
      [] LoopBreak(cmd) \/ StopLoopBreak(cmd) -> {"DBRK"}
      [] OTHER -> DeltaBreak

\* The receiver's share of the command nibble.
CommandRing(cmd) ==
    CASE cmd = 2 -> /\ rx_fifo_read_ptr' = 0
                    /\ rx_fifo_write_ptr' = 0
                    /\ rx_fifo_num' = 0
                    /\ UNCHANGED rx_fifo
      [] LoopBreak(cmd) -> PushRing(BreakFrame)
      [] OTHER -> UNCHANGED fifoVars

\* The four enable bits act on the status the command left: receiver off
\* clears RxRDY, transmitter on counts only as a change from the last CR.
TxRise(d) == d.txon /\ ~CR2
EnableStatus(d, sr) ==
    LET rx == IF d.rxoff THEN sr \ {"RXRDY"} ELSE sr
        tx == IF TxRise(d) THEN rx \cup {"TXRDY", "TXEMT"} ELSE rx
    IN  IF d.txoff THEN tx \ {"TXRDY", "TXEMT"} ELSE tx

\* set_rcv_rate and set_tra_rate: a new rate (a clock source the baud tables
\* hold) restarts both registers and stops the transmit clock.
SetRates(sel) ==
    /\ rcv_rate' = (sel.rx = "brg")
    /\ tra_rate' = (sel.tx = "brg")
    /\ rcv' = Idle
    /\ tra_empty' = TRUE
    /\ tra_clock' = FALSE

\* The serial registers' share of a CR write: an X bit command (8) calls
\* baud_updated, which re-applies CSR; a receiver or transmitter reset
\* restarts its own register.
CommandShift(cmd) ==
    IF cmd = 8
    THEN SetRates(csr)
    ELSE /\ rcv' = IF cmd = 2 THEN Idle ELSE rcv
         /\ tra_empty' = (tra_empty \/ cmd = 3)
         /\ UNCHANGED <<tra_clock, rcv_rate, tra_rate>>

\* A transmitter reset, enable or disable empties the holding register.
\* Variant: the reset forgets to.
BufferKept_OnReset(d) == ~TxRise(d) /\ ~d.txoff
BufferKept(d) == d.cmd # 3 /\ ~TxRise(d) /\ ~d.txoff

\* CPU writes the command register.
WriteCR(d) ==
    /\ CommandShift(d.cmd)
    /\ CommandRing(d.cmd)
    /\ CR2' = d.txon
    /\ MR_ptr' = IF d.cmd = 1 THEN 0 ELSE MR_ptr
    /\ rx_enabled' = (~d.rxoff /\ (d.rxon \/ (rx_enabled /\ d.cmd # 2)))
    /\ tx_enabled' = (~d.txoff /\ (TxRise(d) \/ (tx_enabled /\ d.cmd # 3)))
    /\ tx_data_in_buffer' = (tx_data_in_buffer /\ BufferKept(d))
    /\ bits_transmitted' = IF d.cmd = 3 THEN 255 ELSE bits_transmitted
    /\ tx_break' = ((tx_break \/ d.cmd = 6) /\ d.cmd # 7)
    /\ update_interrupts(EnableStatus(d, CommandStatus(d.cmd)), MR1, MR2,
                         CommandBreak(d.cmd))
    /\ UNCHANGED <<MR1, MR2, df, tx_data, tra_char, tra_sent, tra_len, csr>>

\* CPU writes CSR.
WriteCSR(sel) ==
    /\ csr' = sel
    /\ SetRates(sel)
    /\ UNCHANGED <<modeVars, SR, CR2, isr, rx_enabled, fifoVars, tra_char,
                   tra_sent, tra_len, txVars, tx_break>>

\* An ACR write re-applies CSR and then calls update_interrupts.
AcrWritten ==
    /\ SetRates(csr)
    /\ update_interrupts(SR, MR1, MR2, DeltaBreak)
    /\ UNCHANGED <<modeVars, CR2, rx_enabled, fifoVars, tra_char, tra_sent,
                   tra_len, txVars, tx_break, csr>>

\* Machine reset: duart_base_device::device_reset clears the ISR, then the
\* channel issues CR commands 1, 2, 3, 4, restores 8N1 and clears CSR.  The
\* mode registers, FFULL, the rates and a running bit clock survive.
DeviceReset ==
    /\ MR_ptr' = 0
    /\ rx_enabled' = FALSE
    /\ rx_fifo_read_ptr' = 0 /\ rx_fifo_write_ptr' = 0 /\ rx_fifo_num' = 0
    /\ rcv' = Idle
    /\ tra_empty' = TRUE /\ bits_transmitted' = 255
    /\ tx_data_in_buffer' = FALSE /\ tx_enabled' = FALSE
    /\ update_interrupts(SR \cap {"FFULL"}, MR1, MR2, {})
    /\ CR2' = FALSE
    /\ df' = ResetFrame
    /\ csr' = [tx |-> "brg", rx |-> "brg"]
    /\ tx_break' = FALSE
    /\ UNCHANGED <<MR1, MR2, rx_fifo, tx_data, tra_char, tra_sent, tra_len,
                   tra_clock, rcv_rate, tra_rate>>

-----------------------------------------------------------------------------

Selects == [tx : ClockSelects, rx : ClockSelects]

\* Whatever may drop an accepted character: a command register write, a
\* change of rate, a machine reset.
Interruption ==
    \/ \E d \in CRValues : WriteCR(d)
    \/ \E sel \in Selects : WriteCSR(sel)
    \/ AcrWritten
    \/ DeviceReset

Next ==
    \/ \E f \in RxFrames : StartBit(f) \/ RcvComplete(f)
    \/ ReadRxFifo
    \/ ReadRxFifoUnderflow
    \/ \E c \in Chars : WriteTX(c)
    \/ TraEdge
    \/ \E m \in MR1Values : WriteMR1(m)
    \/ \E m \in MR2Values : WriteMR2(m)
    \/ ReadMR
    \/ Interruption

Spec == Init /\ [][Next]_vars

\* A running bit clock is a scheduled emu_timer: it always ticks again.
FairSpec == Spec /\ WF_vars(tra_clock /\ TraEdge)

-----------------------------------------------------------------------------
(* Properties *)

\* The ring's pointers and its count always agree, through overruns (which
\* back the write pointer up), wrap-around, flushes and resets: rx_fifo_push
\* never overwrites an unread slot but the newest, read_rx_fifo never returns
\* a stale one.
RingInv ==
    rx_fifo_write_ptr =
        IF rx_fifo_read_ptr + rx_fifo_num <= FifoSize
        THEN rx_fifo_read_ptr + rx_fifo_num
        ELSE rx_fifo_read_ptr + rx_fifo_num - (FifoSize + 1)

\* The flags a driver polls are never optimistic about the FIFO: RxRDY is only
\* up when read_rx_fifo has a character, and a FIFO holding FifoSize or more
\* always shows FFULL.
RxFlagsSound ==
    /\ "RXRDY" \in SR => rx_fifo_num # 0
    /\ rx_fifo_num >= FifoSize => "FFULL" \in SR

\* TxRDY is up only for an enabled transmitter whose holding register is free,
\* so write_TX can never overwrite a waiting character.
TxHandshake ==
    /\ "TXRDY" \in SR => tx_enabled /\ ~tx_data_in_buffer
    /\ tx_data_in_buffer => tx_enabled

\* After every handler the DUART's ISR shows TxRDY and RxRDY/FFULL exactly as
\* the status register and MR1 say: no handler forgets update_interrupts.
IsrMirrorsSR == isr \ {"DBRK"} = StatusInterrupts(SR, MR1)

\* A step that sets the rates while a frame is leaving: set_tra_rate empties
\* the shift register and stops its clock without a tra_complete, which leaves
\* a waiting character behind and TxRDY down until the transmitter is enabled
\* anew.  FrameCut is a shift register that did not get to its last bit.
RetimesBusy ==
    /\ ~tra_empty
    /\ \/ \E d \in CRValues : d.cmd = 8 /\ WriteCR(d)
       \/ \E sel \in Selects : WriteCSR(sel)
       \/ AcrWritten
FrameCut == tra_empty /\ tra_sent # tra_len

\* A waiting character has a busy shift register ahead of it, whose
\* tra_complete will pick it up; the only step that parts the two is setting
\* the rates while a frame is leaving.
BehindShift == tx_data_in_buffer => ~tra_empty
TxBufferBehindShift ==
    [][(~RetimesBusy /\ BehindShift) => BehindShift']_vars

ReadyOrBusy == tx_enabled => "TXRDY" \in SR \/ ~tra_empty

\* An enabled transmitter that is ready or busy stays so in the transmitting
\* modes: no bit edge, write or command wedges it but one that sets the rates
\* while a frame is leaving.  (An echo mode takes TxRDY away and leaving it does
\* not restore it.)
TxStaysReadyOrBusy ==
    [][(~RetimesBusy /\ ReadyOrBusy /\ MR2'.mode \in TransmitModes)
           => ReadyOrBusy']_vars

\* The FIFO as the driver sees it, oldest character first.
RxContents ==
    [i \in 1..rx_fifo_num |->
        rx_fifo[IF rx_fifo_read_ptr + i - 1 <= FifoSize
                THEN rx_fifo_read_ptr + i - 1
                ELSE rx_fifo_read_ptr + i - 1 - (FifoSize + 1)]]

RxQ == INSTANCE RxQueue WITH
           Capacity <- FifoSize + 1, Items <- Frames,
           q <- RxContents, overrun <- ("OE" \in SR)

\* The ring buffer implements a bounded queue that loses only the newest
\* character, only when full, and always says so in the overrun flag.
RxImplementsQueue == RxQ!Spec

\* Characters accepted by write_TX and not yet fully sent, in order.
TxContents ==
    (IF tra_empty THEN <<>> ELSE <<tra_char>>) \o
    (IF tx_data_in_buffer THEN <<tx_data>> ELSE <<>>)

TxP == INSTANCE TxPipe WITH Items <- Chars, pipe <- TxContents

\* Shift and holding register implement a two place pipe: characters leave in
\* the order write_TX accepted them, none is sent twice or made up.
TxImplementsPipe == TxP!Spec

\* An accepted character is dropped only by a command, a change of rate or a
\* reset: never by a clock edge, a receive, a mode change or another write.
TxLossNeedsInterruption ==
    [][\/ Interruption
       \/ TxContents' = TxContents
       \/ TxContents # <<>> /\ TxContents' = Tail(TxContents)
       \/ \E c \in Chars : TxContents' = Append(TxContents, c)]_vars

\* A character waiting behind a clocked shift register moves on eventually,
\* unless the frame ahead of it is cut short.
TxBufferDrains ==
    (tx_data_in_buffer /\ tra_clock) ~> (~tx_data_in_buffer \/ FrameCut)

\* While an enabled transmitter is shifting in a transmitting mode, TxRDY comes
\* up again unless the frame is cut short: firmware that leaves the clock of a
\* busy channel alone and polls TxRDY is not left waiting.
TxRdyRecovers ==
    (tx_enabled /\ tra_clock /\ ~tra_empty /\ MR2.mode \in TransmitModes)
        ~> (\/ "TXRDY" \in SR \/ FrameCut
            \/ ~tx_enabled \/ MR2.mode \notin TransmitModes)

\* mc68681.cpp:347 "if the receive fifo for channel n is full, this bit is 1,
\* otherwise it is 0": FFULL is down when fewer than FifoSize wait.
FfullTracksFifo == "FFULL" \in SR => rx_fifo_num >= FifoSize

\* mc68681.cpp:348 "the bit is always asserted if the receive fifo is not
\* empty": RxRDY is up whenever characters wait.
RxRdyTracksFifo == rx_fifo_num # 0 => "RXRDY" \in SR
=============================================================================
