------------------------- MODULE DuartChannelProofs -------------------------
(***************************************************************************)
(* Proofs about DuartChannel for every FIFO size, character set, register  *)
(* vocabulary and firmware discipline.                                     *)
(***************************************************************************)
EXTENDS DuartChannel, TLAPS

\* While the shift register is busy it has a bit left to send.
ShiftInv == ~tra_empty => tra_sent < tra_len

TypeInv == TypeOK /\ ShiftInv

-----------------------------------------------------------------------------
(* Status helpers *)

\* update_interrupts leaves a status register and an ISR of the right type.
LEMMA UpdateTypes ==
    ASSUME NEW sr \in SUBSET StatusBits, NEW m1, NEW m2,
           NEW brk \in SUBSET {"DBRK"}
    PROVE  /\ ModeStatus(sr, m2) \in SUBSET StatusBits
           /\ brk \cup StatusInterrupts(ModeStatus(sr, m2), m1)
                \in SUBSET IntBits
BY DEF ModeStatus, StatusInterrupts, StatusBits, IntBits, DataErrors

\* rx_fifo_push leaves a status register of the right type.
LEMMA PushStatusType ==
    ASSUME NEW sr \in SUBSET StatusBits, NEW f \in Frames
    PROVE  PushStatus(sr, f) \in SUBSET StatusBits
BY DEF PushStatus, StatusBits, Frames, DataErrors

\* read_rx_fifo leaves a status register of the right type.
LEMMA PopStatusType ==
    ASSUME NEW sr \in SUBSET StatusBits, NEW n, NEW h \in Frames
    PROVE  PopStatus(sr, n, h) \in SUBSET StatusBits
BY DEF PopStatus, StatusBits, Frames, DataErrors

\* The slots rx_fifo_push and read_rx_fifo touch are slots of the ring.
LEMMA SlotTypes ==
    ASSUME TypeOK
    PROVE  /\ \A p \in RingSlots : NextSlot(p) \in RingSlots
           /\ \A p \in RingSlots : PrevSlot(p) \in RingSlots
           /\ PushSlot \in RingSlots
           /\ PushNum \in 0..(FifoSize + 1)
BY ChannelAssumption
   DEF TypeOK, NextSlot, PrevSlot, PushSlot, PushNum, FifoOverrun, RingSlots

\* A push keeps the ring well typed.
LEMMA PushRingTypes ==
    ASSUME TypeOK, NEW f \in Frames, PushRing(f)
    PROVE  /\ rx_fifo' \in [RingSlots -> Frames]
           /\ rx_fifo_read_ptr' \in RingSlots
           /\ rx_fifo_write_ptr' \in RingSlots
           /\ rx_fifo_num' \in 0..(FifoSize + 1)
BY SlotTypes DEF PushRing, TypeOK

\* A loaded frame has between 7 and 12 bits.
LEMMA FrameLengthType ==
    ASSUME NEW f \in DataFrames
    PROVE  FrameLength(f) \in 7..12
BY DEF FrameLength, DataFrames

-----------------------------------------------------------------------------
(* Type correctness *)

\* A handler that ends in update_interrupts leaves typed SR and isr.
LEMMA UpdateStep ==
    ASSUME NEW sr \in SUBSET StatusBits, NEW m1, NEW m2,
           NEW brk \in SUBSET {"DBRK"}, update_interrupts(sr, m1, m2, brk)
    PROVE  SR' \in SUBSET StatusBits /\ isr' \in SUBSET IntBits
BY UpdateTypes DEF update_interrupts

\* A completed frame (rcv_complete pushing to the FIFO) keeps the channel well typed.
LEMMA RcvCompleteType ==
    ASSUME TypeInv, NEW f \in RxFrames, RcvComplete(f)
    PROVE  TypeInv'
<1> USE DEF TypeInv
<1>1. f \in Frames
  BY ChannelAssumption DEF Frames, DataErrors
<1>2. DeltaBreak \in SUBSET {"DBRK"} /\ PushStatus(SR, f) \in SUBSET StatusBits
  BY <1>1, PushStatusType DEF TypeOK, DeltaBreak
<1>3. /\ SR' \in SUBSET StatusBits /\ isr' \in SUBSET IntBits
      /\ rx_fifo' \in [RingSlots -> Frames]
      /\ rx_fifo_read_ptr' \in RingSlots
      /\ rx_fifo_write_ptr' \in RingSlots
      /\ rx_fifo_num' \in 0..(FifoSize + 1)
  <2>1. CASE rx_enabled \/ MR2.mode = "loopback"
    <3>1. PushRing(f) /\ update_interrupts(PushStatus(SR, f), MR1, MR2, DeltaBreak)
      BY <2>1 DEF RcvComplete
    <3> QED BY <3>1, <1>1, <1>2, PushRingTypes, UpdateStep
  <2>2. CASE ~(rx_enabled \/ MR2.mode = "loopback")
    BY <2>2 DEF RcvComplete, TypeOK, fifoVars
  <2> QED BY <2>1, <2>2
<1> QED BY <1>3 DEF RcvComplete, TypeOK, ShiftInv, modeVars, shiftVars, txVars,
            rateVars

\* read_rx_fifo, with a character or on an empty FIFO, keeps the channel well typed.
LEMMA ReadRxFifoType ==
    ASSUME TypeInv, ReadRxFifo \/ ReadRxFifoUnderflow
    PROVE  TypeInv'
<1> USE DEF TypeInv
<1>1. DeltaBreak \in SUBSET {"DBRK"}
  BY DEF DeltaBreak
<1>2. CASE ReadRxFifo
  <2>1. rx_fifo[NextSlot(rx_fifo_read_ptr)] \in Frames
    BY SlotTypes DEF TypeOK
  <2>2. SR' \in SUBSET StatusBits /\ isr' \in SUBSET IntBits
    BY <1>1, <1>2, <2>1, PopStatusType, UpdateStep DEF ReadRxFifo, TypeOK
  <2>3. /\ rx_fifo_read_ptr' \in RingSlots
        /\ rx_fifo_num' \in 0..(FifoSize + 1)
    BY <1>2, SlotTypes, ChannelAssumption DEF ReadRxFifo, TypeOK
  <2> QED BY <1>2, <2>2, <2>3 DEF ReadRxFifo, TypeOK, ShiftInv, modeVars,
              shiftVars, txVars, rateVars
<1>3. CASE ReadRxFifoUnderflow
  <2>1. SR' \in SUBSET StatusBits /\ isr' \in SUBSET IntBits
    BY <1>1, <1>3, UpdateStep DEF ReadRxFifoUnderflow, TypeOK
  <2> QED BY <1>3, <2>1 DEF ReadRxFifoUnderflow, TypeOK, ShiftInv, modeVars,
              rxVars, fifoVars, shiftVars, txVars, rateVars
<1> QED BY <1>2, <1>3

\* A loaded shift register is well typed and has bits to send.
LEMMA LoadShiftTypes ==
    ASSUME TypeOK, NEW c \in Chars, LoadShift(c)
    PROVE  /\ tra_empty' = FALSE /\ tra_char' \in Chars
           /\ tra_sent' = 0 /\ tra_len' \in 7..12
           /\ tra_clock' \in BOOLEAN /\ bits_transmitted' = 0
<1>1. tra_clock' \in BOOLEAN
  BY Zenon DEF LoadShift
<1> QED BY <1>1, FrameLengthType DEF LoadShift, TypeOK

\* write_TX and an edge of the transmit clock keep the channel well typed.
LEMMA TransmitType ==
    ASSUME TypeInv, (\E c \in Chars : WriteTX(c)) \/ TraEdge
    PROVE  TypeInv'
<1> USE DEF TypeInv
<1>1. DeltaBreak \in SUBSET {"DBRK"} /\ CallbackStatus \in SUBSET StatusBits
  BY DEF TypeOK, DeltaBreak, CallbackStatus, StatusBits
<1>3. NextBits \in 0..255
  BY DEF TypeOK, NextBits
<1>4. ASSUME NEW c \in Chars, WriteTX(c) PROVE TypeInv'
  <2>1. SR' \in SUBSET StatusBits /\ isr' \in SUBSET IntBits
    BY <1>1, <1>4, UpdateStep, SR \ {"TXRDY", "TXEMT"} \in SUBSET StatusBits
       DEF WriteTX, TypeOK
  <2>2. CASE tra_empty
    <3>1. LoadShift(c)
      BY <1>4, <2>2 DEF WriteTX
    <3>2. /\ tra_empty' = FALSE /\ tra_char' \in Chars
          /\ tra_sent' = 0 /\ tra_len' \in 7..12
          /\ tra_clock' \in BOOLEAN /\ bits_transmitted' = 0
      BY <3>1, LoadShiftTypes
    <3>3. ShiftInv'
      BY <3>2 DEF ShiftInv
    <3>4. /\ bits_transmitted' \in 0..255
          /\ tra_sent' \in 0..12 /\ tra_len' \in 0..12
      BY <3>2
    <3>5. tra_empty' \in BOOLEAN
      BY <3>2
    <3>6. TypeOK'
      BY <1>4, <2>1, <2>2, <3>2, <3>4, <3>5 DEF WriteTX, TypeOK, modeVars, rxVars,
         fifoVars, rateVars
    <3> QED BY <3>3, <3>6
  <2>3. CASE ~tra_empty
    BY <1>4, <2>1, <2>3 DEF WriteTX, TypeOK, ShiftInv, modeVars, rxVars,
       fifoVars, shiftVars, rateVars
  <2> QED BY <2>2, <2>3
<1>5. CASE TraEdgeBit
  <2>1. SR' \in SUBSET StatusBits /\ isr' \in SUBSET IntBits
    BY <1>1, <1>5, UpdateStep DEF TraEdgeBit, TypeOK
  <2> QED BY <1>3, <1>5, <2>1 DEF TraEdgeBit, TypeOK, ShiftInv, modeVars,
              rxVars, fifoVars, rateVars
<1>6. CASE TraEdgeReload
  <2>1. SR' \in SUBSET StatusBits /\ isr' \in SUBSET IntBits
    <3>1. CallbackStatus \cup {"TXRDY"} \in SUBSET StatusBits
      BY <1>1 DEF StatusBits
    <3> QED BY <1>1, <1>6, <3>1, UpdateStep DEF TraEdgeReload
  <2>2. tx_data \in Chars /\ LoadShift(tx_data)
    BY <1>6 DEF TraEdgeReload, TypeOK
  <2>3. /\ tra_empty' = FALSE /\ tra_char' \in Chars
        /\ tra_sent' = 0 /\ tra_len' \in 7..12
        /\ tra_clock' \in BOOLEAN /\ bits_transmitted' = 0
    BY <2>2, LoadShiftTypes
  <2>4. ShiftInv'
    BY <2>3 DEF ShiftInv
  <2>5. /\ bits_transmitted' \in 0..255
        /\ tra_sent' \in 0..12 /\ tra_len' \in 0..12
    BY <2>3
  <2>6. tra_empty' \in BOOLEAN /\ tx_data_in_buffer' \in BOOLEAN
    BY <1>6, <2>3 DEF TraEdgeReload
  <2>7. TypeOK'
    BY <1>6, <2>1, <2>3, <2>5, <2>6 DEF TraEdgeReload, TypeOK, modeVars, rxVars,
       fifoVars, rateVars
  <2> QED BY <2>4, <2>7
<1>7. CASE TraEdgeDrain
  <2>1. SR' \in SUBSET StatusBits /\ isr' \in SUBSET IntBits
    <3>1. CallbackStatus \cup {"TXEMT"} \in SUBSET StatusBits
      BY <1>1 DEF StatusBits
    <3> QED BY <1>1, <1>7, <3>1, UpdateStep DEF TraEdgeDrain
  <2> QED BY <1>3, <1>7, <2>1 DEF TraEdgeDrain, TypeOK, ShiftInv, modeVars,
              rxVars, fifoVars, rateVars
<1>8. CASE TraEdgeIdle
  BY <1>8 DEF TraEdgeIdle, TypeOK, ShiftInv, modeVars, rxVars, fifoVars,
     txVars, rateVars
<1> QED BY <1>4, <1>5, <1>6, <1>7, <1>8 DEF TraEdge

\* Writing or reading MR1/MR2, and a start bit, keep the channel well typed.
LEMMA ModeType ==
    ASSUME TypeInv,
           \/ \E m \in MR1Values : WriteMR1(m)
           \/ \E m \in MR2Values : WriteMR2(m)
           \/ ReadMR
           \/ \E f \in RxFrames : StartBit(f)
    PROVE  TypeInv'
<1> USE DEF TypeInv
<1>1. DeltaBreak \in SUBSET {"DBRK"}
  BY DEF DeltaBreak
<1>2. ASSUME NEW m1 \in MR1Type, NEW m2 \in MR2Type, Reframe(m1, m2)
      PROVE  df' \in DataFrames /\ rcv' \in {Idle} \cup {<<f>> : f \in RxFrames}
  BY <1>2 DEF Reframe, recalc_framing, TypeOK, DataFrames, MR1Type, MR2Type
<1>3. ASSUME NEW m \in MR1Values, WriteMR1(m) PROVE TypeInv'
  <2>1. SR' \in SUBSET StatusBits /\ isr' \in SUBSET IntBits
    BY <1>1, <1>3, UpdateStep DEF WriteMR1, TypeOK
  <2>2. /\ m \in MR1Type /\ MR2 \in MR2Type
        /\ df' \in DataFrames
        /\ rcv' \in {Idle} \cup {<<f>> : f \in RxFrames}
    BY <1>2, <1>3, ChannelAssumption DEF WriteMR1, TypeOK
  <2> QED BY <1>3, <2>1, <2>2 DEF WriteMR1, TypeOK, ShiftInv, fifoVars,
              shiftVars, txVars, rateVars
<1>4. ASSUME NEW m \in MR2Values, WriteMR2(m) PROVE TypeInv'
  <2>1. SR' \in SUBSET StatusBits /\ isr' \in SUBSET IntBits
    BY <1>1, <1>4, UpdateStep DEF WriteMR2, TypeOK
  <2>2. /\ m \in MR2Type /\ MR1 \in MR1Type
        /\ df' \in DataFrames
        /\ rcv' \in {Idle} \cup {<<f>> : f \in RxFrames}
    BY <1>2, <1>4, ChannelAssumption DEF WriteMR2, TypeOK
  <2> QED BY <1>4, <2>1, <2>2 DEF WriteMR2, TypeOK, ShiftInv, fifoVars,
              shiftVars, txVars, rateVars
<1>5. CASE ReadMR
  BY <1>5 DEF ReadMR, TypeOK, ShiftInv, rxVars, fifoVars, shiftVars, txVars,
     rateVars
<1>6. CASE \E f \in RxFrames : StartBit(f)
  BY <1>6 DEF StartBit, TypeOK, ShiftInv, modeVars, fifoVars, shiftVars,
     txVars, rateVars
<1> QED BY <1>3, <1>4, <1>5, <1>6

\* The status register a CR write computes is well typed.
LEMMA CommandTypes ==
    ASSUME TypeOK, NEW d \in CRType
    PROVE  /\ EnableStatus(d, CommandStatus(d.cmd)) \in SUBSET StatusBits
           /\ CommandBreak(d.cmd) \in SUBSET {"DBRK"}
<1>1. BreakFrame \in Frames
  BY ChannelAssumption DEF BreakFrame, Frames, DataErrors
<1>2. SR \in SUBSET StatusBits /\ PushStatus(SR, BreakFrame) \in SUBSET StatusBits
  BY <1>1, PushStatusType DEF TypeOK
<1>3. CommandStatus(d.cmd) \in SUBSET StatusBits
  BY <1>2 DEF CommandStatus
<1>4. EnableStatus(d, CommandStatus(d.cmd)) \in SUBSET StatusBits
  BY <1>3 DEF EnableStatus, StatusBits
<1>5. CommandBreak(d.cmd) \in SUBSET {"DBRK"}
  BY DEF CommandBreak, DeltaBreak
<1> QED BY <1>4, <1>5

\* So are the ring and the serial registers it leaves.
LEMMA CommandRingTypes ==
    ASSUME TypeOK, NEW cmd, CommandRing(cmd)
    PROVE  /\ rx_fifo' \in [RingSlots -> Frames]
           /\ rx_fifo_read_ptr' \in RingSlots
           /\ rx_fifo_write_ptr' \in RingSlots
           /\ rx_fifo_num' \in 0..(FifoSize + 1)
<1>1. BreakFrame \in Frames
  BY ChannelAssumption DEF BreakFrame, Frames, DataErrors
<1>2. CASE cmd = 2
  BY <1>2, ChannelAssumption DEF CommandRing, LoopBreak, TypeOK, RingSlots
<1>3. CASE cmd # 2 /\ LoopBreak(cmd)
  <2>1. PushRing(BreakFrame)
    BY <1>3 DEF CommandRing
  <2> QED BY <1>1, <2>1, PushRingTypes
<1>4. CASE cmd # 2 /\ ~LoopBreak(cmd)
  BY <1>4 DEF CommandRing, TypeOK, fifoVars
<1> QED BY <1>2, <1>3, <1>4

\* Setting the rates idles both shift registers and leaves the rates well typed.
LEMMA SetRatesTypes ==
    ASSUME NEW sel, SetRates(sel)
    PROVE  /\ rcv_rate' \in BOOLEAN /\ tra_rate' \in BOOLEAN
           /\ rcv' = Idle /\ tra_empty' = TRUE /\ tra_clock' = FALSE
BY Zenon DEF SetRates

\* A command (write_CR) leaves the shift registers well typed and starts no frame.
LEMMA CommandShiftTypes ==
    ASSUME TypeInv, NEW cmd, CommandShift(cmd)
    PROVE  /\ rcv_rate' \in BOOLEAN /\ tra_rate' \in BOOLEAN
           /\ rcv' \in {Idle} \cup {<<f>> : f \in RxFrames}
           /\ tra_empty' \in BOOLEAN /\ tra_clock' \in BOOLEAN
           /\ ~tra_empty' => ~tra_empty
<1>1. CASE cmd = 8
  <2>1. SetRates(csr)
    BY <1>1 DEF CommandShift
  <2> QED BY <2>1, SetRatesTypes
<1>2. CASE cmd # 8
  <2>1. tra_empty' \in BOOLEAN /\ (~tra_empty' => ~tra_empty)
    BY <1>2, Zenon DEF CommandShift
  <2> QED BY <1>2, <2>1 DEF CommandShift, TypeInv, TypeOK
<1> QED BY <1>1, <1>2

\* The operations that cut into a transfer (Interruption) keep the channel well typed.
LEMMA InterruptionType ==
    ASSUME TypeInv, Interruption
    PROVE  TypeInv'
<1> USE DEF TypeInv
<1>1. ASSUME NEW d \in CRValues, WriteCR(d) PROVE TypeInv'
  <2>1. d \in CRType
    BY ChannelAssumption
  <2>2. SR' \in SUBSET StatusBits /\ isr' \in SUBSET IntBits
    BY <1>1, <2>1, CommandTypes, UpdateStep DEF WriteCR
  <2>3. CommandRing(d.cmd) /\ CommandShift(d.cmd)
    BY <1>1 DEF WriteCR
  <2>4. /\ rx_enabled' \in BOOLEAN /\ tx_enabled' \in BOOLEAN
        /\ tx_data_in_buffer' \in BOOLEAN /\ tx_break' \in BOOLEAN
    BY <1>1, Zenon DEF WriteCR
  <2>5. CR2' \in BOOLEAN /\ MR_ptr' \in {0, 1} /\ bits_transmitted' \in 0..255
    BY <1>1, <2>1 DEF WriteCR, CRType, TypeOK
  <2>6. UNCHANGED <<MR1, MR2, df, tx_data, tra_char, tra_sent, tra_len, csr>>
    BY <1>1 DEF WriteCR
  <2> QED BY <2>2, <2>3, <2>4, <2>5, <2>6, CommandRingTypes,
              CommandShiftTypes DEF TypeOK, ShiftInv
<1>2. ASSUME NEW sel \in Selects, WriteCSR(sel) PROVE TypeInv'
  <2>1. SetRates(sel) /\ sel \in [tx : Clocks, rx : Clocks]
    BY <1>2, ChannelAssumption DEF WriteCSR, Selects
  <2> QED BY <1>2, <2>1, SetRatesTypes DEF WriteCSR, TypeOK, ShiftInv,
              modeVars, fifoVars, txVars
<1>3. CASE AcrWritten
  <2>1. SetRates(csr)
    BY <1>3 DEF AcrWritten
  <2>2. SR' \in SUBSET StatusBits /\ isr' \in SUBSET IntBits
    BY <1>3, UpdateStep, DeltaBreak \in SUBSET {"DBRK"}
       DEF AcrWritten, TypeOK, DeltaBreak
  <2> QED BY <1>3, <2>1, <2>2, SetRatesTypes DEF AcrWritten, TypeOK, ShiftInv,
              modeVars, fifoVars, txVars
<1>4. CASE DeviceReset
  <2>1. SR' \in SUBSET StatusBits /\ isr' \in SUBSET IntBits
    <3>1. SR \cap {"FFULL"} \in SUBSET StatusBits /\ {} \in SUBSET {"DBRK"}
      BY DEF TypeOK
    <3> QED BY <1>4, <3>1, UpdateStep DEF DeviceReset
  <2>2. df' \in DataFrames
    BY <1>4 DEF DeviceReset, ResetFrame, DataFrames, Parities
  <2>3. csr' \in [tx : Clocks, rx : Clocks]
    BY <1>4 DEF DeviceReset, Clocks
  <2>4. /\ rx_fifo_read_ptr' \in RingSlots /\ rx_fifo_write_ptr' \in RingSlots
        /\ rx_fifo_num' \in 0..(FifoSize + 1)
        /\ rcv' \in {Idle} \cup {<<f>> : f \in RxFrames}
        /\ bits_transmitted' \in 0..255 /\ MR_ptr' \in {0, 1}
    BY <1>4, ChannelAssumption DEF DeviceReset, RingSlots
  <2>5. UNCHANGED <<MR1, MR2, rx_fifo, tx_data, tra_char, tra_sent, tra_len,
                    tra_clock, rcv_rate, tra_rate>>
    BY <1>4 DEF DeviceReset
  <2>6. /\ rx_enabled' \in BOOLEAN /\ tra_empty' = TRUE
        /\ tx_data_in_buffer' \in BOOLEAN /\ tx_enabled' \in BOOLEAN
        /\ CR2' \in BOOLEAN /\ tx_break' \in BOOLEAN
    BY <1>4 DEF DeviceReset
  <2> QED BY <2>1, <2>2, <2>3, <2>4, <2>5, <2>6 DEF TypeOK, ShiftInv
<1> QED BY <1>1, <1>2, <1>3, <1>4 DEF Interruption

\* A freshly started channel is well typed.
LEMMA TypeInit == Init => TypeInv
<1> SUFFICES ASSUME Init PROVE TypeInv
  OBVIOUS
<1>1. MR1 \in MR1Type /\ MR2 \in MR2Type
  BY DEF Init, MR1Type, MR2Type, Modes, TransmitModes, Parities
<1>2. df \in DataFrames /\ csr \in [tx : Clocks, rx : Clocks]
  BY DEF Init, ResetFrame, DataFrames, Parities, Clocks
<1>3. rx_fifo \in [RingSlots -> Frames]
  BY ChannelAssumption DEF Init, Frames
<1>4. /\ rx_fifo_read_ptr \in RingSlots /\ rx_fifo_write_ptr \in RingSlots
      /\ rx_fifo_num \in 0..(FifoSize + 1)
  BY ChannelAssumption DEF Init, RingSlots
<1>5. /\ SR \in SUBSET StatusBits /\ isr \in SUBSET IntBits
      /\ rcv \in {Idle} \cup {<<f>> : f \in RxFrames}
      /\ tx_data \in Chars /\ tra_char \in Chars
  BY ChannelAssumption DEF Init
<1>6. /\ MR_ptr \in {0, 1} /\ bits_transmitted \in 0..255
      /\ tra_sent \in 0..12 /\ tra_len \in 0..12
  BY DEF Init
<1>7. /\ CR2 \in BOOLEAN /\ rx_enabled \in BOOLEAN /\ rcv_rate \in BOOLEAN
      /\ tx_enabled \in BOOLEAN /\ tx_data_in_buffer \in BOOLEAN
      /\ tx_break \in BOOLEAN /\ tra_empty = TRUE
      /\ tra_clock \in BOOLEAN /\ tra_rate \in BOOLEAN
  BY DEF Init
<1> QED BY <1>1, <1>2, <1>3, <1>4, <1>5, <1>6, <1>7
        DEF TypeInv, TypeOK, ShiftInv

\* Every channel operation keeps the channel well typed.
LEMMA TypeStep == TypeInv /\ [Next]_vars => TypeInv'
<1> SUFFICES ASSUME TypeInv, [Next]_vars PROVE TypeInv'
  OBVIOUS
<1>1. ASSUME NEW f \in RxFrames, RcvComplete(f) PROVE TypeInv'
  BY <1>1, RcvCompleteType
<1>2. CASE UNCHANGED vars
  BY <1>2 DEF TypeInv, TypeOK, ShiftInv, vars, modeVars, rxVars, fifoVars,
     shiftVars, txVars, rateVars
<1> QED BY <1>1, <1>2, ReadRxFifoType, TransmitType, ModeType, InterruptionType
        DEF Next

\* No sequence of register accesses, clock edges, receptions and resets takes
\* the channel out of its types; in particular the ring pointers stay inside
\* rx_fifo and the shift register never runs past its frame.
THEOREM TypeCorrect == Spec => []TypeOK
<1>1. TypeInv => TypeOK
  BY DEF TypeInv
<1> QED BY <1>1, TypeInit, TypeStep, PTL DEF Spec

-----------------------------------------------------------------------------
(* The receive ring *)

\* rx_fifo_push, with or without an overrun, keeps the pointers and count in step.
LEMMA PushKeepsRing ==
    ASSUME TypeOK, RingInv, NEW f, PushRing(f)
    PROVE  RingInv'
BY ChannelAssumption DEF TypeOK, RingInv, PushRing, PushSlot, PushNum,
   FifoOverrun, NextSlot, PrevSlot, RingSlots

\* Every channel operation keeps the ring's pointers and count in step.
LEMMA RingStep == TypeOK /\ RingInv /\ [Next]_vars => RingInv'
<1> SUFFICES ASSUME TypeOK, RingInv, [Next]_vars PROVE RingInv'
  OBVIOUS
<1>1. ASSUME NEW f \in RxFrames, RcvComplete(f) PROVE RingInv'
  <2>1. PushRing(f) \/ UNCHANGED fifoVars
    BY <1>1 DEF RcvComplete
  <2> QED BY <2>1, PushKeepsRing DEF RingInv, fifoVars
<1>2. CASE ReadRxFifo
  BY <1>2, ChannelAssumption DEF ReadRxFifo, TypeOK, RingInv, NextSlot,
     RingSlots
<1>3. ASSUME NEW d \in CRValues, WriteCR(d) PROVE RingInv'
  <2>1. CommandRing(d.cmd)
    BY <1>3 DEF WriteCR
  <2>2. CASE d.cmd = 2
    BY <2>1, <2>2, ChannelAssumption DEF CommandRing, LoopBreak, RingInv
  <2>3. CASE d.cmd # 2
    <3>1. PushRing(BreakFrame) \/ UNCHANGED fifoVars
      BY <2>1, <2>3 DEF CommandRing
    <3> QED BY <3>1, PushKeepsRing DEF RingInv, fifoVars
  <2> QED BY <2>2, <2>3
<1>4. CASE DeviceReset
  BY <1>4, ChannelAssumption DEF DeviceReset, RingInv
<1>5. CASE \/ \E f \in RxFrames : StartBit(f)
           \/ ReadRxFifoUnderflow
           \/ \E c \in Chars : WriteTX(c)
           \/ TraEdge
           \/ \E m \in MR1Values : WriteMR1(m)
           \/ \E m \in MR2Values : WriteMR2(m)
           \/ ReadMR
           \/ \E sel \in Selects : WriteCSR(sel)
           \/ AcrWritten
           \/ UNCHANGED vars
  <2>1. UNCHANGED fifoVars
    BY <1>5 DEF StartBit, ReadRxFifoUnderflow, WriteTX, TraEdge, TraEdgeBit,
       TraEdgeReload, TraEdgeDrain, TraEdgeIdle, WriteMR1, WriteMR2, ReadMR,
       WriteCSR, AcrWritten, vars, rxVars
  <2> QED BY <2>1 DEF RingInv, fifoVars
<1> QED BY <1>1, <1>2, <1>3, <1>4, <1>5 DEF Next, Interruption

\* For every FIFO size the ring's write pointer is where its read pointer and
\* count say, so rx_fifo_push and read_rx_fifo agree on which slots are live.
THEOREM RingCorrect == Spec => []RingInv
<1>1. Init => RingInv
  BY ChannelAssumption DEF Init, RingInv
<1> QED BY <1>1, TypeCorrect, RingStep, PTL DEF Spec

-----------------------------------------------------------------------------
(* ISR and status register *)

\* update_interrupts makes the ISR bits agree with the status register.
LEMMA UpdateMirrors ==
    ASSUME NEW sr, NEW m1, NEW m2, NEW brk \in SUBSET {"DBRK"},
           update_interrupts(sr, m1, m2, brk)
    PROVE  isr' \ {"DBRK"} = StatusInterrupts(SR', m1)
BY DEF update_interrupts, StatusInterrupts

\* Every channel operation ends with the ISR bits agreeing with the status register.
LEMMA MirrorStep == TypeOK /\ IsrMirrorsSR /\ [Next]_vars => IsrMirrorsSR'
<1> SUFFICES ASSUME TypeOK, IsrMirrorsSR, [Next]_vars PROVE IsrMirrorsSR'
  OBVIOUS
<1>1. DeltaBreak \in SUBSET {"DBRK"} /\ {} \in SUBSET {"DBRK"}
  BY DEF DeltaBreak
<1>2. ASSUME UNCHANGED <<SR, isr, MR1>> PROVE IsrMirrorsSR'
  BY <1>2 DEF IsrMirrorsSR, StatusInterrupts
<1>3. ASSUME NEW sr, NEW brk \in SUBSET {"DBRK"}, NEW m2,
             update_interrupts(sr, MR1', m2, brk)
      PROVE  IsrMirrorsSR'
  BY <1>3, UpdateMirrors DEF IsrMirrorsSR, StatusInterrupts
<1>4. ASSUME NEW f \in RxFrames, RcvComplete(f) PROVE IsrMirrorsSR'
  <2>1. MR1' = MR1
    BY <1>4 DEF RcvComplete, modeVars
  <2>2. \/ update_interrupts(PushStatus(SR, f), MR1', MR2, DeltaBreak)
        \/ UNCHANGED <<SR, isr>>
    BY <1>4, <2>1 DEF RcvComplete
  <2> QED BY <1>1, <1>2, <1>3, <2>1, <2>2
<1>5. CASE ReadRxFifo \/ ReadRxFifoUnderflow
  <2>1. MR1' = MR1
    BY <1>5 DEF ReadRxFifo, ReadRxFifoUnderflow, modeVars
  <2>2. \E sr : update_interrupts(sr, MR1', MR2, DeltaBreak)
    BY <1>5, <2>1 DEF ReadRxFifo, ReadRxFifoUnderflow
  <2> QED BY <1>1, <1>3, <2>2
<1>6. CASE (\E c \in Chars : WriteTX(c)) \/ TraEdge
  <2>1. MR1' = MR1
    BY <1>6 DEF WriteTX, TraEdge, TraEdgeBit, TraEdgeReload, TraEdgeDrain,
       TraEdgeIdle, modeVars
  <2>2. \/ \E sr : update_interrupts(sr, MR1', MR2, DeltaBreak)
        \/ UNCHANGED <<SR, isr>>
    BY <1>6, <2>1 DEF WriteTX, TraEdge, TraEdgeBit, TraEdgeReload,
       TraEdgeDrain, TraEdgeIdle
  <2> QED BY <1>1, <1>2, <1>3, <2>1, <2>2
<1>7. ASSUME NEW m \in MR1Values, WriteMR1(m) PROVE IsrMirrorsSR'
  <2>1. update_interrupts(SR, MR1', MR2, DeltaBreak)
    BY <1>7 DEF WriteMR1
  <2> QED BY <1>1, <1>3, <2>1
<1>8. ASSUME NEW m \in MR2Values, WriteMR2(m) PROVE IsrMirrorsSR'
  <2>1. update_interrupts(SR, MR1', m, DeltaBreak)
    BY <1>8 DEF WriteMR2
  <2> QED BY <1>1, <1>3, <2>1
<1>9. ASSUME NEW d \in CRValues, WriteCR(d) PROVE IsrMirrorsSR'
  <2>1. CommandBreak(d.cmd) \in SUBSET {"DBRK"}
    BY CommandTypes, ChannelAssumption
  <2>2. MR1' = MR1
    BY <1>9 DEF WriteCR
  <2>3. \E sr : update_interrupts(sr, MR1', MR2, CommandBreak(d.cmd))
    BY <1>9, <2>2 DEF WriteCR
  <2> QED BY <1>3, <2>1, <2>3
<1>10. CASE AcrWritten \/ DeviceReset
  <2>1. MR1' = MR1
    BY <1>10 DEF AcrWritten, DeviceReset, modeVars
  <2>2. \E sr : \/ update_interrupts(sr, MR1', MR2, DeltaBreak)
                \/ update_interrupts(sr, MR1', MR2, {})
    BY <1>10, <2>1 DEF AcrWritten, DeviceReset
  <2> QED BY <1>1, <1>3, <2>2
<1>11. CASE \/ \E f \in RxFrames : StartBit(f)
            \/ ReadMR
            \/ \E sel \in Selects : WriteCSR(sel)
            \/ UNCHANGED vars
  <2>1. UNCHANGED <<SR, isr, MR1>>
    BY <1>11 DEF StartBit, ReadMR, WriteCSR, vars, modeVars
  <2> QED BY <1>2, <2>1
<1> QED BY <1>4, <1>5, <1>6, <1>7, <1>8, <1>9, <1>10, <1>11
        DEF Next, Interruption

\* In every reachable state the interrupt status a driver reads, and the IRQ
\* line is computed from, agrees with the status register it polls.
THEOREM IsrCorrect == Spec => []IsrMirrorsSR
<1>1. Init => IsrMirrorsSR
  BY DEF Init, IsrMirrorsSR, StatusInterrupts
<1> QED BY <1>1, TypeCorrect, MirrorStep, PTL DEF Spec

-----------------------------------------------------------------------------
(* The transmit handshake *)

\* Pushing and popping received characters never raises TxRDY.
LEMMA ReceiveKeepsTxRdy ==
    ASSUME NEW sr, NEW f \in Frames, NEW n
    PROVE  /\ "TXRDY" \in PushStatus(sr, f) => "TXRDY" \in sr
           /\ "TXRDY" \in PopStatus(sr, n, f) => "TXRDY" \in sr
BY DEF PushStatus, PopStatus, Frames, DataErrors

\* update_interrupts only ever withdraws TxRDY.
LEMMA UpdateKeepsTxRdy ==
    ASSUME NEW sr, NEW m1, NEW m2, NEW brk, update_interrupts(sr, m1, m2, brk),
           "TXRDY" \in SR'
    PROVE  "TXRDY" \in sr
BY DEF update_interrupts, ModeStatus

\* TxRDY survives a write_CR only if it was up and not reset, or the write enables Tx.
LEMMA CommandTxRdy ==
    ASSUME TypeOK, NEW d \in CRType,
           "TXRDY" \in EnableStatus(d, CommandStatus(d.cmd))
    PROVE  ~d.txoff /\ (TxRise(d) \/ ("TXRDY" \in SR /\ d.cmd # 3))
<1>1. BreakFrame \in Frames
  BY ChannelAssumption DEF BreakFrame, Frames, DataErrors
<1>2. "TXRDY" \in PushStatus(SR, BreakFrame) => "TXRDY" \in SR
  BY <1>1, ReceiveKeepsTxRdy
<1>3. "TXRDY" \in CommandStatus(d.cmd) => "TXRDY" \in SR /\ d.cmd # 3
  BY <1>2 DEF CommandStatus, LoopBreak
<1> QED BY <1>3 DEF EnableStatus

\* Every channel operation keeps TxRDY and the holding register consistent.
LEMMA HandshakeStep == TypeOK /\ TxHandshake /\ [Next]_vars => TxHandshake'
<1> SUFFICES ASSUME TypeOK, TxHandshake, [Next]_vars PROVE TxHandshake'
  OBVIOUS
<1>1. ASSUME UNCHANGED <<tx_enabled, tx_data_in_buffer>>,
             "TXRDY" \in SR' => "TXRDY" \in SR
      PROVE  TxHandshake'
  BY <1>1 DEF TxHandshake
<1>2. ASSUME NEW f \in RxFrames, RcvComplete(f) PROVE TxHandshake'
  <2>1. f \in Frames
    BY ChannelAssumption DEF Frames, DataErrors
  <2>2. "TXRDY" \in SR' => "TXRDY" \in SR
    BY <1>2, <2>1, ReceiveKeepsTxRdy, UpdateKeepsTxRdy DEF RcvComplete
  <2> QED BY <1>1, <1>2, <2>2 DEF RcvComplete, txVars
<1>3. CASE ReadRxFifo
  <2>1. rx_fifo[NextSlot(rx_fifo_read_ptr)] \in Frames
    BY SlotTypes DEF TypeOK
  <2>2. "TXRDY" \in SR' => "TXRDY" \in SR
    BY <1>3, <2>1, ReceiveKeepsTxRdy, UpdateKeepsTxRdy DEF ReadRxFifo
  <2> QED BY <1>1, <1>3, <2>2 DEF ReadRxFifo, txVars
<1>4. ASSUME NEW c \in Chars, WriteTX(c) PROVE TxHandshake'
  <2>1. "TXRDY" \notin SR'
    BY <1>4, UpdateKeepsTxRdy DEF WriteTX
  <2>2. tx_enabled
    BY <1>4 DEF WriteTX, TxReady, TxHandshake
  <2>3. tx_enabled' = tx_enabled
    BY <1>4 DEF WriteTX
  <2> QED BY <2>1, <2>2, <2>3 DEF TxHandshake
<1>5. CASE TraEdgeBit
  <2>1. "TXRDY" \in SR' => "TXRDY" \in SR \/ StartBitOut
    BY <1>5, UpdateKeepsTxRdy DEF TraEdgeBit, CallbackStatus
  <2>2. UNCHANGED <<tx_enabled, tx_data_in_buffer>>
    BY <1>5 DEF TraEdgeBit
  <2> QED BY <2>1, <2>2 DEF TxHandshake, StartBitOut
<1>6. CASE TraEdgeReload
  <2>1. tx_enabled /\ tx_enabled' = tx_enabled /\ tx_data_in_buffer' = FALSE
    BY <1>6 DEF TraEdgeReload, TxHandshake
  <2> QED BY <2>1 DEF TxHandshake
<1>7. CASE TraEdgeDrain
  <2>1. "TXRDY" \in SR' => "TXRDY" \in SR \/ StartBitOut
    BY <1>7, UpdateKeepsTxRdy DEF TraEdgeDrain, CallbackStatus
  <2>2. UNCHANGED <<tx_enabled, tx_data_in_buffer>>
    BY <1>7 DEF TraEdgeDrain
  <2> QED BY <2>1, <2>2 DEF TxHandshake, StartBitOut
<1>8. ASSUME NEW d \in CRValues, WriteCR(d) PROVE TxHandshake'
  <2>1. d \in CRType
    BY ChannelAssumption
  <2>2. "TXRDY" \in SR' => ~d.txoff /\ (TxRise(d) \/ ("TXRDY" \in SR /\ d.cmd # 3))
    BY <1>8, <2>1, CommandTxRdy, UpdateKeepsTxRdy DEF WriteCR
  <2>3. /\ tx_enabled' = (~d.txoff /\ (TxRise(d) \/ (tx_enabled /\ d.cmd # 3)))
        /\ tx_data_in_buffer' = (tx_data_in_buffer /\ BufferKept(d))
    BY <1>8 DEF WriteCR
  <2>4. "TXRDY" \in SR' => tx_enabled'
    BY <2>2, <2>3, Zenon DEF TxHandshake
  <2>5. "TXRDY" \in SR' => ~tx_data_in_buffer'
    BY <2>2, <2>3, Zenon DEF TxHandshake, BufferKept
  <2>6. tx_data_in_buffer' => tx_enabled'
    BY <2>3, Zenon DEF TxHandshake, BufferKept
  <2> QED BY <2>4, <2>5, <2>6 DEF TxHandshake
<1>9. CASE DeviceReset
  <2>1. "TXRDY" \notin SR'
    BY <1>9, UpdateKeepsTxRdy DEF DeviceReset
  <2> QED BY <1>9, <2>1 DEF DeviceReset, TxHandshake
<1>10. CASE \/ \E f \in RxFrames : StartBit(f)
            \/ ReadRxFifoUnderflow
            \/ TraEdgeIdle
            \/ \E m \in MR1Values : WriteMR1(m)
            \/ \E m \in MR2Values : WriteMR2(m)
            \/ ReadMR
            \/ \E sel \in Selects : WriteCSR(sel)
            \/ AcrWritten
            \/ UNCHANGED vars
  <2>1. UNCHANGED <<tx_enabled, tx_data_in_buffer>>
    BY <1>10 DEF StartBit, ReadRxFifoUnderflow, TraEdgeIdle, WriteMR1,
       WriteMR2, ReadMR, WriteCSR, AcrWritten, vars, txVars
  <2>2. "TXRDY" \in SR' => "TXRDY" \in SR
    BY <1>10, UpdateKeepsTxRdy DEF StartBit, ReadRxFifoUnderflow, TraEdgeIdle,
       WriteMR1, WriteMR2, ReadMR, WriteCSR, AcrWritten, vars
  <2> QED BY <1>1, <2>1, <2>2
<1> QED BY <1>2, <1>3, <1>4, <1>5, <1>6, <1>7, <1>8, <1>9, <1>10
        DEF Next, Interruption, TraEdge

\* TxRDY is up only for an enabled transmitter with a free holding register,
\* whatever commands, mode changes and retimings firmware interleaves with the
\* bit clock: an accepted write never overwrites a waiting character.
THEOREM HandshakeCorrect == Spec => []TxHandshake
<1>1. Init => TxHandshake
  BY DEF Init, TxHandshake
<1> QED BY <1>1, TypeCorrect, HandshakeStep, PTL DEF Spec

-----------------------------------------------------------------------------
(* The receive flags *)

\* update_interrupts leaves the receive flags alone.
LEMMA UpdateRxFlags ==
    ASSUME NEW sr, NEW m1, NEW m2, NEW brk, update_interrupts(sr, m1, m2, brk)
    PROVE  /\ "RXRDY" \in SR' <=> "RXRDY" \in sr
           /\ "FFULL" \in SR' <=> "FFULL" \in sr
BY DEF update_interrupts, ModeStatus

\* After rx_fifo_push the ring is not empty, and if it is full FFULL is up.
LEMMA PushFlags ==
    ASSUME TypeOK, RxFlagsSound, NEW f \in Frames
    PROVE  /\ PushNum # 0
           /\ PushNum >= FifoSize => "FFULL" \in PushStatus(SR, f)
<1>1. PushNum # 0
  BY ChannelAssumption DEF TypeOK, PushNum, FifoOverrun
<1>2. PushNum >= FifoSize => PushNum = FifoSize \/ "FFULL" \in SR
  BY ChannelAssumption DEF TypeOK, RxFlagsSound, PushNum, FifoOverrun
<1>3. "FFULL" \in SR => "FFULL" \in PushStatus(SR, f)
  BY DEF PushStatus, DataErrors
<1>4. PushNum = FifoSize => "FFULL" \in PushStatus(SR, f)
  BY DEF PushStatus
<1> QED BY <1>1, <1>2, <1>3, <1>4

\* Every channel operation keeps RxRDY and FFULL sound for the ring.
LEMMA RxFlagsStep == TypeOK /\ RxFlagsSound /\ [Next]_vars => RxFlagsSound'
<1> SUFFICES ASSUME TypeOK, RxFlagsSound, [Next]_vars PROVE RxFlagsSound'
  OBVIOUS
<1>1. ASSUME rx_fifo_num' = rx_fifo_num, "RXRDY" \in SR' => "RXRDY" \in SR,
             "FFULL" \in SR => "FFULL" \in SR'
      PROVE  RxFlagsSound'
  BY <1>1 DEF RxFlagsSound
<1>2. ASSUME rx_fifo_num' = 0, "RXRDY" \notin SR' PROVE RxFlagsSound'
  BY <1>2, ChannelAssumption DEF RxFlagsSound
<1>3. ASSUME NEW f \in RxFrames, RcvComplete(f) PROVE RxFlagsSound'
  <2>1. f \in Frames
    BY ChannelAssumption DEF Frames, DataErrors
  <2>2. CASE rx_enabled \/ MR2.mode = "loopback"
    <3>1. /\ rx_fifo_num' = PushNum
          /\ update_interrupts(PushStatus(SR, f), MR1, MR2, DeltaBreak)
      BY <1>3, <2>2 DEF RcvComplete, PushRing
    <3> QED BY <2>1, <3>1, PushFlags, UpdateRxFlags DEF RxFlagsSound
  <2>3. CASE ~(rx_enabled \/ MR2.mode = "loopback")
    BY <1>1, <1>3, <2>3 DEF RcvComplete, fifoVars
  <2> QED BY <2>2, <2>3
<1>4. CASE ReadRxFifo
  <2> DEFINE h == rx_fifo[NextSlot(rx_fifo_read_ptr)]
             n == rx_fifo_num - 1
  <2>1. h \in Frames /\ n \in 0..FifoSize /\ rx_fifo_num = n + 1
    BY <1>4, SlotTypes, ChannelAssumption DEF ReadRxFifo, TypeOK
  <2>2. rx_fifo_num' = n /\ update_interrupts(PopStatus(SR, n, h), MR1, MR2, DeltaBreak)
    BY <1>4 DEF ReadRxFifo
  <2>3. n = 0 => "RXRDY" \notin PopStatus(SR, n, h)
    BY DEF PopStatus
  <2>4. n >= FifoSize => "FFULL" \in SR /\ n # FifoSize - 1
    BY <2>1, ChannelAssumption DEF RxFlagsSound
  <2>5. n # FifoSize - 1 /\ "FFULL" \in SR => "FFULL" \in PopStatus(SR, n, h)
    BY DEF PopStatus, DataErrors
  <2> HIDE DEF h, n
  <2> QED BY <2>2, <2>3, <2>4, <2>5, UpdateRxFlags DEF RxFlagsSound
<1>5. ASSUME NEW d \in CRValues, WriteCR(d) PROVE RxFlagsSound'
  <2>1. /\ CommandRing(d.cmd)
        /\ "RXRDY" \in SR' => "RXRDY" \in CommandStatus(d.cmd)
        /\ "FFULL" \in CommandStatus(d.cmd) => "FFULL" \in SR'
    BY <1>5, UpdateRxFlags DEF WriteCR, EnableStatus
  <2>2. BreakFrame \in Frames
    BY ChannelAssumption DEF BreakFrame, Frames, DataErrors
  <2>3. CASE d.cmd = 2
    BY <1>2, <2>1, <2>3 DEF CommandRing, CommandStatus, LoopBreak
  <2>4. CASE LoopBreak(d.cmd)
    <3>1. rx_fifo_num' = PushNum /\ CommandStatus(d.cmd) = PushStatus(SR, BreakFrame)
      BY <2>1, <2>4 DEF CommandRing, CommandStatus, LoopBreak, PushRing
    <3> QED BY <2>1, <2>2, <3>1, PushFlags DEF RxFlagsSound
  <2>5. CASE d.cmd # 2 /\ ~LoopBreak(d.cmd)
    <3>1. rx_fifo_num' = rx_fifo_num
      BY <2>1, <2>5 DEF CommandRing, fifoVars
    <3>2. /\ "RXRDY" \in CommandStatus(d.cmd) => "RXRDY" \in SR
          /\ "FFULL" \in SR => "FFULL" \in CommandStatus(d.cmd)
      BY <2>5 DEF CommandStatus, DataErrors
    <3> QED BY <1>1, <2>1, <3>1, <3>2
  <2> QED BY <2>3, <2>4, <2>5
<1>6. CASE DeviceReset
  <2>1. "RXRDY" \notin SR'
    BY <1>6, UpdateRxFlags DEF DeviceReset
  <2> QED BY <1>2, <1>6, <2>1 DEF DeviceReset
<1>7. CASE (\E c \in Chars : WriteTX(c)) \/ TraEdge
  <2>1. rx_fifo_num' = rx_fifo_num
    BY <1>7 DEF WriteTX, TraEdge, TraEdgeBit, TraEdgeReload, TraEdgeDrain,
       TraEdgeIdle, rxVars, fifoVars
  <2>2. /\ "RXRDY" \in SR' => "RXRDY" \in SR
        /\ "FFULL" \in SR => "FFULL" \in SR'
    BY <1>7, UpdateRxFlags DEF WriteTX, TraEdge, TraEdgeBit, TraEdgeReload,
       TraEdgeDrain, TraEdgeIdle, CallbackStatus
  <2> QED BY <1>1, <2>1, <2>2
<1>8. CASE \/ \E f \in RxFrames : StartBit(f)
           \/ ReadRxFifoUnderflow
           \/ \E m \in MR1Values : WriteMR1(m)
           \/ \E m \in MR2Values : WriteMR2(m)
           \/ ReadMR
           \/ \E sel \in Selects : WriteCSR(sel)
           \/ AcrWritten
           \/ UNCHANGED vars
  <2>1. rx_fifo_num' = rx_fifo_num
    BY <1>8 DEF StartBit, ReadRxFifoUnderflow, WriteMR1, WriteMR2, ReadMR,
       WriteCSR, AcrWritten, vars, rxVars, fifoVars
  <2>2. /\ "RXRDY" \in SR' => "RXRDY" \in SR
        /\ "FFULL" \in SR => "FFULL" \in SR'
    BY <1>8, UpdateRxFlags DEF StartBit, ReadRxFifoUnderflow, WriteMR1,
       WriteMR2, ReadMR, WriteCSR, AcrWritten, vars
  <2> QED BY <1>1, <2>1, <2>2
<1> QED BY <1>3, <1>4, <1>5, <1>6, <1>7, <1>8 DEF Next, Interruption

\* The receive flags never promise more than the FIFO holds: RxRDY implies a
\* character to read, and FifoSize or more characters imply FFULL.
THEOREM RxFlagsCorrect == Spec => []RxFlagsSound
<1>1. Init => RxFlagsSound
  BY ChannelAssumption DEF Init, RxFlagsSound
<1> QED BY <1>1, TypeCorrect, RxFlagsStep, PTL DEF Spec
=============================================================================
