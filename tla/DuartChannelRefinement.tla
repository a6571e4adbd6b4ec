----------------------- MODULE DuartChannelRefinement -----------------------
(***************************************************************************)
(* The two directions of a DUART channel, for every instance: the shift    *)
(* and holding registers implement TxPipe and the ring implements RxQueue. *)
(***************************************************************************)
EXTENDS DuartChannelProofs, SequenceTheorems

-----------------------------------------------------------------------------
(* The transmit pipe *)

\* Sequences of at most two items, as the transmitter's two registers hold.
LEMMA ShortSequences ==
    ASSUME NEW a, NEW b
    PROVE  /\ <<>> \o <<>> = <<>> /\ <<>> \o <<b>> = <<b>>
           /\ <<a>> \o <<>> = <<a>> /\ <<a>> \o <<b>> = <<a, b>>
           /\ Tail(<<a>>) = <<>> /\ Tail(<<a, b>>) = <<b>>
           /\ Append(<<>>, a) = <<a>> /\ Append(<<a>>, b) = <<a, b>>
           /\ Len(<<>>) = 0 /\ Len(<<a>>) = 1
           /\ Head(<<a>>) = a /\ Head(<<a, b>>) = a
           /\ <<a>> # <<>> /\ <<a, b>> # <<>>
<1>1. <<>> \o <<>> = <<>>
  OBVIOUS
<1>2. <<>> \o <<b>> = <<b>>
  OBVIOUS
<1>3. <<a>> \o <<>> = <<a>>
  OBVIOUS
<1>4. <<a>> \o <<b>> = <<a, b>>
  <2> DEFINE s == <<a>> \o <<b>>
             t == <<a, b>>
  <2>1. /\ <<a>> \in Seq({a, b}) /\ <<b>> \in Seq({a, b}) /\ t \in Seq({a, b})
        /\ Len(<<a>>) = 1 /\ Len(<<b>>) = 1
    OBVIOUS
  <2>2. /\ s \in Seq({a, b}) /\ Len(s) = 2 /\ Len(t) = 2
        /\ s[1] = t[1] /\ s[2] = t[2]
    BY <2>1
  <2>3. s = t
    <3> HIDE DEF s, t
    <3>1. \A i \in 1..Len(s) : s[i] = t[i]
      BY <2>2
    <3> QED BY <2>1, <2>2, <3>1, SeqEqual
  <2> QED BY <2>3
<1>5. Tail(<<a>>) = <<>>
  OBVIOUS
<1>6. Tail(<<a, b>>) = <<b>>
  OBVIOUS
<1>7. Append(<<>>, a) = <<a>> /\ Append(<<a>>, b) = <<a, b>>
  <2>1. Append(<<>>, a) = <<a>>
    OBVIOUS
  <2> DEFINE s == Append(<<a>>, b)
             t == <<a, b>>
  <2>2. /\ s \in Seq({a, b}) /\ t \in Seq({a, b}) /\ Len(s) = 2 /\ Len(t) = 2
        /\ s[1] = t[1] /\ s[2] = t[2]
    OBVIOUS
  <2>3. s = t
    <3> HIDE DEF s, t
    <3>1. \A i \in 1..Len(s) : s[i] = t[i]
      BY <2>2
    <3> QED BY <2>2, <3>1, SeqEqual
  <2> QED BY <2>1, <2>3
<1>8. Len(<<>>) = 0 /\ Len(<<a>>) = 1
  OBVIOUS
<1>9. Head(<<a>>) = a /\ Head(<<a, b>>) = a
  OBVIOUS
<1>10. <<a>> # <<>> /\ <<a, b>> # <<>>
  OBVIOUS
<1> QED BY <1>1, <1>2, <1>3, <1>4, <1>5, <1>6, <1>7, <1>8, <1>9, <1>10

\* The contents of the transmitter by the fill of its two registers.
LEMMA TxContentsCases ==
    /\ tra_empty /\ ~tx_data_in_buffer => TxContents = <<>>
    /\ tra_empty /\ tx_data_in_buffer => TxContents = <<tx_data>>
    /\ ~tra_empty /\ ~tx_data_in_buffer => TxContents = <<tra_char>>
    /\ ~tra_empty /\ tx_data_in_buffer => TxContents = <<tra_char, tx_data>>
BY ShortSequences, Zenon DEF TxContents

\* The same after a step.
LEMMA TxContentsCasesNext ==
    /\ tra_empty' /\ ~tx_data_in_buffer' => TxContents' = <<>>
    /\ tra_empty' /\ tx_data_in_buffer' => TxContents' = <<tx_data'>>
    /\ ~tra_empty' /\ ~tx_data_in_buffer' => TxContents' = <<tra_char'>>
    /\ ~tra_empty' /\ tx_data_in_buffer' => TxContents' = <<tra_char', tx_data'>>
BY ShortSequences, Zenon DEF TxContents

\* A step that touches neither register leaves the contents alone.
LEMMA TxContentsSame ==
    ASSUME UNCHANGED <<tra_empty, tra_char, tx_data, tx_data_in_buffer>>
    PROVE  TxContents' = TxContents
BY Zenon DEF TxContents

\* write_TX appends to a pipe with a free place: to the shift register when it
\* is idle, else to the holding register, which TxRDY says is free.
LEMMA WriteAppends ==
    ASSUME TypeOK, TxHandshake, NEW c \in Chars, WriteTX(c)
    PROVE  Len(TxContents) < 2 /\ TxContents' = Append(TxContents, c)
<1>1. ~tx_data_in_buffer
  BY DEF WriteTX, TxReady, TxHandshake
<1>2. CASE tra_empty
  <2>1. ~tra_empty' /\ tra_char' = c /\ ~tx_data_in_buffer'
    BY <1>1, <1>2 DEF WriteTX, LoadShift
  <2>2. TxContents = <<>> /\ TxContents' = <<c>>
    BY <1>1, <1>2, <2>1, TxContentsCases, TxContentsCasesNext
  <2> QED BY <2>2, ShortSequences
<1>3. CASE ~tra_empty
  <2>1. /\ ~tra_empty' /\ tra_char' = tra_char
        /\ tx_data_in_buffer' = TRUE /\ tx_data' = c
    BY <1>3 DEF WriteTX, shiftVars
  <2>2. TxContents = <<tra_char>> /\ TxContents' = <<tra_char, c>>
    BY <1>1, <1>3, <2>1, TxContentsCases, TxContentsCasesNext
  <2> QED BY <2>2, ShortSequences
<1> QED BY <1>2, <1>3

\* An edge of the transmit clock leaves the contents alone or sends the oldest.
LEMMA EdgeSends ==
    ASSUME TraEdge
    PROVE  \/ TxContents' = TxContents
           \/ TxContents # <<>> /\ TxContents' = Tail(TxContents)
<1>1. CASE TraEdgeBit
  BY <1>1, TxContentsSame DEF TraEdgeBit
<1>2. CASE TraEdgeReload
  <2>1. /\ ~tra_empty /\ tx_data_in_buffer
        /\ ~tra_empty' /\ ~tx_data_in_buffer' /\ tra_char' = tx_data
    BY <1>2 DEF TraEdgeReload, LoadShift
  <2>2. TxContents = <<tra_char, tx_data>> /\ TxContents' = <<tx_data>>
    BY <2>1, TxContentsCases, TxContentsCasesNext
  <2> QED BY <2>2, ShortSequences
<1>3. CASE TraEdgeDrain
  <2>1. ~tra_empty /\ ~tx_data_in_buffer /\ tra_empty' /\ ~tx_data_in_buffer'
    BY <1>3 DEF TraEdgeDrain
  <2>2. TxContents = <<tra_char>> /\ TxContents' = <<>>
    BY <2>1, TxContentsCases, TxContentsCasesNext
  <2> QED BY <2>2, ShortSequences
<1>4. CASE TraEdgeIdle
  BY <1>4, TxContentsSame DEF TraEdgeIdle, txVars
<1> QED BY <1>1, <1>2, <1>3, <1>4 DEF TraEdge

\* The operations that neither clock, feed nor interrupt the transmitter.
Bystander ==
    \/ \E f \in RxFrames : StartBit(f) \/ RcvComplete(f)
    \/ ReadRxFifo
    \/ ReadRxFifoUnderflow
    \/ \E m \in MR1Values : WriteMR1(m)
    \/ \E m \in MR2Values : WriteMR2(m)
    \/ ReadMR

\* They touch neither transmit register.
LEMMA BystanderKeepsTx ==
    ASSUME Bystander \/ UNCHANGED vars
    PROVE  /\ UNCHANGED <<tra_empty, tra_char, tx_data, tx_data_in_buffer>>
           /\ UNCHANGED tx_enabled
           /\ TxContents' = TxContents
<1>1. /\ UNCHANGED <<tra_empty, tra_char, tx_data, tx_data_in_buffer>>
      /\ UNCHANGED tx_enabled
  BY DEF Bystander, StartBit, RcvComplete, ReadRxFifo, ReadRxFifoUnderflow,
     WriteMR1, WriteMR2, ReadMR, vars, shiftVars, txVars
<1> QED BY <1>1, TxContentsSame

\* An accepted character is dropped only by a command, a change of rate or a
\* reset: never by a clock edge, a receive, a mode change or another write.
THEOREM LossNeedsInterruption == Spec => TxLossNeedsInterruption
<1> DEFINE Keeps == \/ Interruption
                    \/ TxContents' = TxContents
                    \/ TxContents # <<>> /\ TxContents' = Tail(TxContents)
                    \/ \E c \in Chars : TxContents' = Append(TxContents, c)
<1>1. TypeOK /\ TxHandshake /\ [Next]_vars => [Keeps]_vars
  <2> SUFFICES ASSUME TypeOK, TxHandshake, Next PROVE Keeps
    OBVIOUS
  <2>1. CASE \E c \in Chars : WriteTX(c)
    BY <2>1, WriteAppends
  <2>2. CASE TraEdge
    BY <2>2, EdgeSends
  <2>3. CASE Bystander
    BY <2>3, BystanderKeepsTx
  <2> QED BY <2>1, <2>2, <2>3 DEF Next, Bystander
<1> QED BY <1>1, TypeCorrect, HandshakeCorrect, PTL
        DEF Spec, TxLossNeedsInterruption

\* A command, a change of rate or a reset only ever empties registers.
LEMMA InterruptionEmpties ==
    ASSUME TypeInv, Interruption
    PROVE  /\ UNCHANGED <<tra_char, tx_data>>
           /\ ~tra_empty' => ~tra_empty
           /\ tx_data_in_buffer' => tx_data_in_buffer
           /\ tra_empty' \in BOOLEAN /\ tx_data_in_buffer' \in BOOLEAN
<1>1. ASSUME NEW d \in CRValues, WriteCR(d)
      PROVE  /\ UNCHANGED <<tra_char, tx_data>>
             /\ ~tra_empty' => ~tra_empty
             /\ tx_data_in_buffer' => tx_data_in_buffer
  <2>1. UNCHANGED <<tra_char, tx_data>> /\ CommandShift(d.cmd)
    BY <1>1 DEF WriteCR
  <2>2. tx_data_in_buffer' => tx_data_in_buffer
    BY <1>1, Zenon DEF WriteCR
  <2> QED BY <2>1, <2>2, CommandShiftTypes
<1>2. ASSUME NEW sel \in Selects, WriteCSR(sel)
      PROVE  /\ UNCHANGED <<tra_char, tx_data, tx_data_in_buffer>>
             /\ tra_empty' = TRUE
  BY <1>2 DEF WriteCSR, SetRates, txVars
<1>3. ASSUME AcrWritten
      PROVE  /\ UNCHANGED <<tra_char, tx_data, tx_data_in_buffer>>
             /\ tra_empty' = TRUE
  BY <1>3 DEF AcrWritten, SetRates, txVars
<1>4. ASSUME DeviceReset
      PROVE  /\ UNCHANGED <<tra_char, tx_data>>
             /\ tx_data_in_buffer' = FALSE /\ tra_empty' = TRUE
  BY <1>4 DEF DeviceReset
<1>5. tra_empty' \in BOOLEAN /\ tx_data_in_buffer' \in BOOLEAN
  BY InterruptionType DEF TypeInv, TypeOK
<1> QED BY <1>1, <1>2, <1>3, <1>4, <1>5 DEF Interruption

\* So it abandons items of the pipe and leaves the rest in order.
LEMMA InterruptionAbandons ==
    ASSUME TypeInv, Interruption
    PROVE  TxContents' = TxContents \/ TxP!Abandon
<1>1. /\ UNCHANGED <<tra_char, tx_data>>
      /\ ~tra_empty' => ~tra_empty
      /\ tx_data_in_buffer' => tx_data_in_buffer
  BY InterruptionEmpties
<1>2. CASE tra_empty' = tra_empty /\ tx_data_in_buffer' = tx_data_in_buffer
  BY <1>1, <1>2, TxContentsSame
<1>3. CASE tra_empty /\ tra_empty' /\ tx_data_in_buffer /\ ~tx_data_in_buffer'
  <2>1. TxContents = <<tx_data>> /\ TxContents' = <<>>
    BY <1>3, TxContentsCases, TxContentsCasesNext
  <2> QED BY <2>1, ShortSequences DEF TxP!Abandon
<1>4. CASE ~tra_empty /\ tra_empty' /\ ~tx_data_in_buffer /\ ~tx_data_in_buffer'
  <2>1. TxContents = <<tra_char>> /\ TxContents' = <<>>
    BY <1>4, TxContentsCases, TxContentsCasesNext
  <2> QED BY <2>1, ShortSequences DEF TxP!Abandon
<1>5. CASE ~tra_empty /\ tx_data_in_buffer
  <2>1. /\ TxContents = <<tra_char, tx_data>>
        /\ \/ TxContents' = <<tra_char, tx_data>>
           \/ TxContents' = <<>>
           \/ TxContents' = <<tra_char>>
           \/ TxContents' = <<tx_data>>
    BY <1>1, <1>5, TxContentsCases, TxContentsCasesNext
  <2> QED BY <2>1, ShortSequences DEF TxP!Abandon
<1>6. /\ tra_empty \in BOOLEAN /\ tx_data_in_buffer \in BOOLEAN
      /\ tra_empty' \in BOOLEAN /\ tx_data_in_buffer' \in BOOLEAN
  BY InterruptionEmpties DEF TypeInv, TypeOK
<1> QED BY <1>1, <1>2, <1>3, <1>4, <1>5, <1>6

\* Every channel operation is a step of the pipe.
LEMMA PipeStep ==
    TypeInv /\ TxHandshake /\ [Next]_vars => [TxP!Next]_TxContents
<1> SUFFICES ASSUME TypeInv, TxHandshake, [Next]_vars
             PROVE  TxP!Next \/ TxContents' = TxContents
  OBVIOUS
<1>1. ASSUME NEW c \in Chars, WriteTX(c) PROVE TxP!Next
  <2>1. TxP!Accept(c)
    BY <1>1, WriteAppends DEF TxP!Accept, TypeInv
  <2> QED BY <2>1 DEF TxP!Next
<1>2. CASE TraEdge
  BY <1>2, EdgeSends DEF TxP!Next, TxP!Sent
<1>3. CASE Bystander \/ UNCHANGED vars
  BY <1>3, BystanderKeepsTx
<1>4. CASE Interruption
  BY <1>4, InterruptionAbandons DEF TxP!Next
<1> QED BY <1>1, <1>2, <1>3, <1>4 DEF Next, Bystander

\* The shift register and the holding register implement a two place pipe,
\* whatever firmware interleaves with the bit clock: characters leave in the
\* order write_TX accepted them, and none is sent twice or made up.
THEOREM PipeRefinement == Spec => TxImplementsPipe
<1>1. Init => TxP!Init
  BY TxContentsCases DEF Init, TxP!Init
<1> QED BY <1>1, TypeInit, TypeStep, HandshakeCorrect, PipeStep, PTL
        DEF Spec, TxImplementsPipe, TxP!Spec

-----------------------------------------------------------------------------
(* The transmitter is never wedged *)

\* Unless it sets the rates of a busy channel, what a command does to a busy
\* shift register is to reset it together with the holding register.
LEMMA InterruptionOfBusy ==
    ASSUME TypeOK, Interruption, ~RetimesBusy, ~tra_empty
    PROVE  tra_empty' => \/ ~tx_data_in_buffer' /\ ~tx_enabled'
                         \/ \E d \in CRValues : WriteCR(d) /\ d.cmd = 3
<1>1. /\ \A d \in CRValues : WriteCR(d) => d.cmd # 8
      /\ ~(\E sel \in Selects : WriteCSR(sel)) /\ ~AcrWritten
  BY DEF RetimesBusy
<1>2. ASSUME NEW d \in CRValues, WriteCR(d), tra_empty' PROVE d.cmd = 3
  <2>1. d.cmd # 8 /\ tra_empty' = (tra_empty \/ d.cmd = 3)
    BY <1>1, <1>2 DEF WriteCR, CommandShift
  <2> QED BY <1>2, <2>1, Zenon
<1>3. ASSUME DeviceReset PROVE ~tx_data_in_buffer' /\ ~tx_enabled'
  BY <1>3 DEF DeviceReset
<1> QED BY <1>1, <1>2, <1>3 DEF Interruption

\* Every channel operation but a retiming of the busy channel keeps a busy shift
\* register ahead of a waiting character.
LEMMA BehindStep ==
    ASSUME TypeInv, BehindShift, [Next]_vars, ~RetimesBusy
    PROVE  BehindShift'
<1> SUFFICES ASSUME tx_data_in_buffer' PROVE ~tra_empty'
  BY DEF BehindShift
<1>1. ASSUME NEW c \in Chars, WriteTX(c) PROVE ~tra_empty'
  BY <1>1 DEF WriteTX, LoadShift, shiftVars
<1>2. CASE TraEdge
  BY <1>2 DEF TraEdge, TraEdgeBit, TraEdgeReload, TraEdgeDrain, TraEdgeIdle,
     LoadShift, txVars, BehindShift
<1>3. CASE Bystander \/ UNCHANGED vars
  BY <1>3, BystanderKeepsTx DEF BehindShift
<1>4. CASE Interruption
  <2>1. tx_data_in_buffer /\ ~tra_empty
    BY <1>4, InterruptionEmpties DEF BehindShift
  <2>2. ASSUME NEW d \in CRValues, WriteCR(d), d.cmd = 3 PROVE FALSE
    <3>1. tx_data_in_buffer' = (tx_data_in_buffer /\ BufferKept(d))
      BY <2>2 DEF WriteCR
    <3> QED BY <2>2, <3>1, Zenon DEF BufferKept
  <2> QED BY <1>4, <2>1, <2>2, InterruptionOfBusy DEF TypeInv
<1> QED BY <1>1, <1>2, <1>3, <1>4 DEF Next, Bystander

\* A character in the holding register has a frame in the shift register ahead
\* of it, so the tra_complete of that frame picks it up: no command, mode change,
\* reset or edge strands it, save one that sets the rates of the busy channel.
THEOREM BehindCorrect == Spec => TxBufferBehindShift
<1>1. TypeInv /\ [Next]_vars => [(~RetimesBusy /\ BehindShift) => BehindShift']_vars
  BY BehindStep
<1> QED BY <1>1, TypeInit, TypeStep, PTL DEF Spec, TxBufferBehindShift

\* While a frame is leaving, the channel's bit counter counts its bits: TxRDY,
\* which waits for the counter, has come back before the frame ends.
CountInv == ~tra_empty => bits_transmitted = tra_sent /\ tra_len \in 7..12

\* Every channel operation keeps the counter in step.
LEMMA CountStep == TypeInv /\ CountInv /\ [Next]_vars => CountInv'
<1> SUFFICES ASSUME TypeInv, CountInv, [Next]_vars, ~tra_empty'
             PROVE  bits_transmitted' = tra_sent' /\ tra_len' \in 7..12
  BY DEF CountInv
<1>1. ASSUME NEW c \in Chars, LoadShift(c)
      PROVE  bits_transmitted' = tra_sent' /\ tra_len' \in 7..12
  BY <1>1, LoadShiftTypes DEF TypeInv
<1>2. ASSUME NEW c \in Chars, WriteTX(c)
      PROVE  bits_transmitted' = tra_sent' /\ tra_len' \in 7..12
  BY <1>1, <1>2 DEF WriteTX, shiftVars, CountInv
<1>3. CASE TraEdgeBit
  BY <1>3 DEF TraEdgeBit, CountInv, NextBits, TypeInv, TypeOK
<1>4. CASE TraEdgeReload
  BY <1>1, <1>4 DEF TraEdgeReload, TypeInv, TypeOK
<1>5. CASE TraEdgeDrain \/ TraEdgeIdle
  BY <1>5 DEF TraEdgeDrain, TraEdgeIdle
<1>6. CASE Bystander \/ UNCHANGED vars
  <2>1. UNCHANGED <<shiftVars, bits_transmitted>>
    BY <1>6 DEF Bystander, StartBit, RcvComplete, ReadRxFifo,
       ReadRxFifoUnderflow, WriteMR1, WriteMR2, ReadMR, vars, txVars
  <2> QED BY <2>1 DEF CountInv, shiftVars
<1>7. ASSUME NEW d \in CRValues, WriteCR(d)
      PROVE  bits_transmitted' = tra_sent' /\ tra_len' \in 7..12
  <2>1. ~tra_empty /\ d.cmd # 3
    <3>1. CommandShift(d.cmd)
      BY <1>7 DEF WriteCR
    <3>2. d.cmd # 8 /\ tra_empty' = (tra_empty \/ d.cmd = 3)
      BY <3>1 DEF CommandShift, SetRates
    <3> QED BY <3>2, Zenon
  <2> QED BY <1>7, <2>1 DEF WriteCR, CountInv
<1>8. CASE (\E sel \in Selects : WriteCSR(sel)) \/ AcrWritten \/ DeviceReset
  BY <1>8 DEF WriteCSR, AcrWritten, DeviceReset, SetRates
<1> QED BY <1>2, <1>3, <1>4, <1>5, <1>6, <1>7, <1>8
        DEF Next, Bystander, Interruption, TraEdge

\* In a transmitting mode update_interrupts leaves TxRDY up.
LEMMA UpdateHoldsTxRdy ==
    ASSUME NEW sr, NEW m1, NEW m2, NEW brk, update_interrupts(sr, m1, m2, brk),
           m2.mode \in TransmitModes, "TXRDY" \in sr
    PROVE  "TXRDY" \in SR'
BY DEF update_interrupts, ModeStatus

\* Pushing and popping received characters leaves TxRDY up.
LEMMA ReceiveHoldsTxRdy ==
    ASSUME NEW sr, NEW f, NEW n, "TXRDY" \in sr
    PROVE  "TXRDY" \in PushStatus(sr, f) /\ "TXRDY" \in PopStatus(sr, n, f)
BY DEF PushStatus, PopStatus, DataErrors

\* A command other than the transmitter's reset and disable leaves TxRDY up,
\* and enabling the transmitter raises it.
LEMMA CommandHoldsTxRdy ==
    ASSUME NEW d \in CRType, ~d.txoff,
           TxRise(d) \/ ("TXRDY" \in SR /\ d.cmd # 3)
    PROVE  "TXRDY" \in EnableStatus(d, CommandStatus(d.cmd))
<1>1. "TXRDY" \in SR /\ d.cmd # 3 => "TXRDY" \in CommandStatus(d.cmd)
  BY ReceiveHoldsTxRdy DEF CommandStatus, DataErrors
<1> QED BY <1>1 DEF EnableStatus

\* Every channel operation leaves an enabled transmitter ready or busy.
LEMMA ReadyStep ==
    ASSUME TypeInv, CountInv, [Next]_vars, ~RetimesBusy, ReadyOrBusy,
           MR2'.mode \in TransmitModes
    PROVE  ReadyOrBusy'
<1>1. ASSUME NEW c \in Chars, WriteTX(c) PROVE ~tra_empty'
  BY <1>1 DEF WriteTX, LoadShift, shiftVars
<1>2. CASE TraEdgeBit \/ TraEdgeReload
  BY <1>2 DEF TraEdgeBit, TraEdgeReload, LoadShift, ReadyOrBusy
<1>3. CASE TraEdgeDrain
  <2>1. NextBits > 1
    BY <1>3 DEF TraEdgeDrain, CountInv, NextBits, TypeInv, TypeOK
  <2>2. tx_enabled => "TXRDY" \in CallbackStatus \cup {"TXEMT"}
    BY <1>3, <2>1 DEF TraEdgeDrain, CallbackStatus, StartBitOut
  <2>3. MR2.mode \in TransmitModes /\ tx_enabled' = tx_enabled
    BY <1>3 DEF TraEdgeDrain, modeVars
  <2> QED BY <1>3, <2>2, <2>3, UpdateHoldsTxRdy DEF TraEdgeDrain, ReadyOrBusy
<1>4. CASE TraEdgeIdle
  BY <1>4 DEF TraEdgeIdle, txVars, ReadyOrBusy
<1>5. ASSUME UNCHANGED <<tra_empty, tx_enabled>>,
             "TXRDY" \in SR => "TXRDY" \in SR'
      PROVE  ReadyOrBusy'
  BY <1>5 DEF ReadyOrBusy
<1>6. CASE Bystander \/ UNCHANGED vars
  <2>1. UNCHANGED <<tra_empty, tx_enabled>>
    BY <1>6, BystanderKeepsTx
  <2>2. ASSUME NEW f \in RxFrames, RcvComplete(f), "TXRDY" \in SR
        PROVE  "TXRDY" \in SR'
    BY <2>2, ReceiveHoldsTxRdy, UpdateHoldsTxRdy DEF RcvComplete, modeVars
  <2>3. ASSUME ReadRxFifo, "TXRDY" \in SR PROVE "TXRDY" \in SR'
    BY <2>3, ReceiveHoldsTxRdy, UpdateHoldsTxRdy DEF ReadRxFifo, modeVars
  <2>4. ASSUME \/ ReadRxFifoUnderflow \/ ReadMR \/ UNCHANGED vars
               \/ \E f \in RxFrames : StartBit(f)
               \/ \E m \in MR1Values : WriteMR1(m)
               \/ \E m \in MR2Values : WriteMR2(m),
               "TXRDY" \in SR
        PROVE  "TXRDY" \in SR'
    BY <2>4, UpdateHoldsTxRdy DEF ReadRxFifoUnderflow, ReadMR, vars, StartBit,
       WriteMR1, WriteMR2, modeVars
  <2> QED BY <1>5, <1>6, <2>1, <2>2, <2>3, <2>4 DEF Bystander
<1>7. ASSUME NEW d \in CRValues, WriteCR(d) PROVE ReadyOrBusy'
  <2>1. d \in CRType /\ CommandShift(d.cmd)
        /\ MR2.mode \in TransmitModes
    BY <1>7, ChannelAssumption DEF WriteCR
  <2>2. tx_enabled' = (~d.txoff /\ (TxRise(d) \/ (tx_enabled /\ d.cmd # 3)))
    BY <1>7 DEF WriteCR
  <2>3. CASE tx_enabled' /\ tra_empty'
    <3>1. ~d.txoff /\ (TxRise(d) \/ (tx_enabled /\ d.cmd # 3))
      BY <2>2, <2>3, Zenon
    <3>2. d.cmd # 3 => tra_empty
      <4>1. CASE d.cmd = 8
        BY <1>7, <4>1 DEF RetimesBusy
      <4>2. CASE d.cmd # 8
        BY <2>1, <2>3, <4>2, Zenon DEF CommandShift
      <4> QED BY <4>1, <4>2
    <3>3. TxRise(d) \/ ("TXRDY" \in SR /\ d.cmd # 3)
      BY <3>1, <3>2 DEF ReadyOrBusy
    <3>4. "TXRDY" \in EnableStatus(d, CommandStatus(d.cmd))
      BY <2>1, <3>1, <3>3, CommandHoldsTxRdy
    <3> QED BY <1>7, <2>1, <3>4, UpdateHoldsTxRdy DEF WriteCR, ReadyOrBusy
  <2> QED BY <2>3 DEF ReadyOrBusy
<1>8. CASE (\E sel \in Selects : WriteCSR(sel)) \/ AcrWritten
  <2>1. tra_empty /\ tx_enabled' = tx_enabled
    <3>1. tra_empty
      BY <1>8 DEF RetimesBusy
    <3> QED BY <1>8, <3>1 DEF WriteCSR, AcrWritten, txVars
  <2>2. "TXRDY" \in SR => "TXRDY" \in SR'
    BY <1>8, UpdateHoldsTxRdy DEF WriteCSR, AcrWritten, modeVars
  <2> QED BY <2>1, <2>2 DEF ReadyOrBusy
<1>9. CASE DeviceReset
  BY <1>9 DEF DeviceReset, ReadyOrBusy
<1>10. ASSUME NEW c \in Chars, WriteTX(c) PROVE ReadyOrBusy'
  BY <1>1, <1>10 DEF ReadyOrBusy
<1> QED BY <1>2, <1>3, <1>4, <1>6, <1>7, <1>8, <1>9, <1>10
        DEF Next, Bystander, Interruption, TraEdge

\* Unless it sets the rates of a busy channel, no bit edge, write, reception or
\* command of a transmitting mode takes an enabled transmitter to a state where
\* it is neither ready for a character nor sending one.
THEOREM NeverWedged == Spec => TxStaysReadyOrBusy
<1>1. Init => CountInv
  BY DEF Init, CountInv
<1>2. TypeInv /\ CountInv /\ [Next]_vars =>
        [(~RetimesBusy /\ ReadyOrBusy /\ MR2'.mode \in TransmitModes)
             => ReadyOrBusy']_vars
  BY ReadyStep
<1> QED BY <1>1, <1>2, TypeInit, TypeStep, CountStep, PTL
        DEF Spec, TxStaysReadyOrBusy

-----------------------------------------------------------------------------
(* The receive queue *)

\* The ring slot of the i-th oldest character when reading starts at slot r.
RxSlot(r, i) == IF r + i - 1 <= FifoSize THEN r + i - 1
                ELSE r + i - 1 - (FifoSize + 1)

\* Each of the ring's FifoSize + 1 places has a slot of its own.
LEMMA RxSlotInjective ==
    ASSUME NEW r \in RingSlots, NEW i \in 1..(FifoSize + 1),
           NEW j \in 1..(FifoSize + 1)
    PROVE  /\ RxSlot(r, i) \in RingSlots
           /\ RxSlot(r, i) = RxSlot(r, j) => i = j
BY ChannelAssumption DEF RxSlot, RingSlots

\* Reading one character moves every other one place to the front.
LEMMA RxSlotShift ==
    ASSUME NEW r \in RingSlots, NEW i \in 1..FifoSize
    PROVE  RxSlot(NextSlot(r), i) = RxSlot(r, i + 1)
BY ChannelAssumption DEF RxSlot, RingSlots, NextSlot

\* The slot rx_fifo_push stores into is the next free place, or the newest
\* character's when the ring is full.
LEMMA PushSlotIsNext ==
    ASSUME TypeOK, RingInv
    PROVE  /\ PushNum \in 1..(FifoSize + 1)
           /\ PushSlot = RxSlot(rx_fifo_read_ptr, PushNum)
BY ChannelAssumption DEF TypeOK, RingInv, PushSlot, PushNum, FifoOverrun,
   PrevSlot, RxSlot, RingSlots

\* RxContents, before and after a step, is a sequence of frames.
LEMMA ContentsSeq ==
    ASSUME NEW n \in 0..(FifoSize + 1), NEW r \in RingSlots,
           NEW ring \in [RingSlots -> Frames]
    PROVE  LET c == [i \in 1..n |-> ring[RxSlot(r, i)]]
           IN  /\ c \in Seq(Frames) /\ Len(c) = n
               /\ \A i \in 1..n : c[i] = ring[RxSlot(r, i)]
<1> DEFINE c == [i \in 1..n |-> ring[RxSlot(r, i)]]
<1>1. n \in Nat /\ \A i \in 1..n : i \in 1..(FifoSize + 1)
  BY ChannelAssumption
<1>2. \A i \in 1..n : RxSlot(r, i) \in RingSlots
  BY <1>1, RxSlotInjective
<1>3. c \in [1..n -> Frames]
  BY <1>2
<1>4. c \in Seq(Frames)
  <2> HIDE DEF c
  <2> QED BY <1>1, <1>3, SeqDef
<1>5. Len(c) = n
  <2>1. DOMAIN c = 1..n
    OBVIOUS
  <2>2. DOMAIN c = 1..Len(c) /\ Len(c) \in Nat
    <3> HIDE DEF c
    <3> QED BY <1>4, LenProperties
  <2> HIDE DEF c
  <2> QED BY <1>1, <2>1, <2>2
<1> QED BY <1>4, <1>5

\* The FIFO as the driver sees it is such a sequence.
LEMMA RxContentsSeq ==
    ASSUME TypeOK
    PROVE  /\ RxContents \in Seq(Frames) /\ Len(RxContents) = rx_fifo_num
           /\ \A i \in 1..rx_fifo_num :
                RxContents[i] = rx_fifo[RxSlot(rx_fifo_read_ptr, i)]
<1>1. RxContents = [i \in 1..rx_fifo_num |-> rx_fifo[RxSlot(rx_fifo_read_ptr, i)]]
  BY DEF RxContents, RxSlot
<1> QED BY <1>1, ContentsSeq DEF TypeOK

\* The same after a step.
LEMMA RxContentsSeqNext ==
    ASSUME TypeOK'
    PROVE  /\ RxContents' \in Seq(Frames) /\ Len(RxContents') = rx_fifo_num'
           /\ \A i \in 1..rx_fifo_num' :
                RxContents'[i] = rx_fifo'[RxSlot(rx_fifo_read_ptr', i)]
<1>1. RxContents' = [i \in 1..rx_fifo_num' |-> rx_fifo'[RxSlot(rx_fifo_read_ptr', i)]]
  BY DEF RxContents, RxSlot
<1> QED BY <1>1, ContentsSeq DEF TypeOK

\* rx_fifo_push appends to a ring with a free place and replaces the newest
\* character of a full one.
LEMMA PushQueues ==
    ASSUME TypeOK, TypeOK', RingInv, NEW f \in Frames, PushRing(f)
    PROVE  RxContents' = IF rx_fifo_num = FifoSize + 1
                         THEN [RxContents EXCEPT ![FifoSize + 1] = f]
                         ELSE Append(RxContents, f)
<1> DEFINE n == rx_fifo_num
           r == rx_fifo_read_ptr
<1>1. /\ r \in RingSlots /\ n \in 0..(FifoSize + 1)
      /\ PushNum \in 1..(FifoSize + 1) /\ PushSlot = RxSlot(r, PushNum)
  BY PushSlotIsNext DEF TypeOK
<1>2. /\ rx_fifo_num' = PushNum /\ rx_fifo_read_ptr' = r
      /\ rx_fifo' = [rx_fifo EXCEPT ![PushSlot] = f]
      /\ rx_fifo \in [RingSlots -> Frames]
  BY DEF PushRing, TypeOK
<1>3. \A i \in 1..(FifoSize + 1) :
        rx_fifo'[RxSlot(r, i)] = IF i = PushNum THEN f ELSE rx_fifo[RxSlot(r, i)]
  BY <1>1, <1>2, RxSlotInjective
<1>4. /\ RxContents' \in Seq(Frames) /\ Len(RxContents') = PushNum
      /\ \A i \in 1..PushNum : RxContents'[i] = rx_fifo'[RxSlot(r, i)]
  BY <1>2, RxContentsSeqNext
<1>5. /\ RxContents \in Seq(Frames) /\ Len(RxContents) = n
      /\ \A i \in 1..n : RxContents[i] = rx_fifo[RxSlot(r, i)]
  BY RxContentsSeq
<1>6. CASE n = FifoSize + 1
  <2> DEFINE t == [RxContents EXCEPT ![FifoSize + 1] = f]
  <2>1. PushNum = n /\ n \in 1..n /\ n \in Nat
    BY <1>6, ChannelAssumption DEF PushNum, FifoOverrun
  <2>2. /\ t \in Seq(Frames) /\ Len(t) = n
        /\ \A i \in 1..n : t[i] = IF i = n THEN f ELSE RxContents[i]
    BY <1>5, <1>6, <2>1, ExceptSeq
  <2>3. \A i \in 1..n : RxContents'[i] = t[i]
    <3> HIDE DEF t
    <3> QED BY <1>3, <1>4, <1>5, <1>6, <2>1, <2>2
  <2>4. RxContents' = t
    <3> HIDE DEF t
    <3> QED BY <1>4, <2>1, <2>2, <2>3, SeqEqual
  <2> QED BY <1>6, <2>4
<1>7. CASE n # FifoSize + 1
  <2> DEFINE t == Append(RxContents, f)
  <2>1. PushNum = n + 1 /\ n \in Nat /\ n + 1 <= FifoSize + 1
    BY <1>1, <1>7, ChannelAssumption DEF PushNum, FifoOverrun
  <2>2. /\ t \in Seq(Frames) /\ Len(t) = n + 1 /\ t[n + 1] = f
        /\ \A i \in 1..n : t[i] = RxContents[i]
    BY <1>5, AppendProperties
  <2>3. \A i \in 1..(n + 1) : RxContents'[i] = t[i]
    <3> HIDE DEF t
    <3> SUFFICES ASSUME NEW i \in 1..(n + 1) PROVE RxContents'[i] = t[i]
      OBVIOUS
    <3>1. i \in 1..(FifoSize + 1) /\ (i = n + 1 \/ i \in 1..n)
      BY <2>1, ChannelAssumption
    <3> QED BY <1>3, <1>4, <1>5, <2>1, <2>2, <3>1
  <2>4. RxContents' = t
    <3> HIDE DEF t
    <3> QED BY <1>4, <2>1, <2>2, <2>3, SeqEqual
  <2> QED BY <1>7, <2>4
<1> QED BY <1>6, <1>7

\* read_rx_fifo takes the oldest character and keeps the others in order.
LEMMA ReadPops ==
    ASSUME TypeOK, TypeOK', ReadRxFifo
    PROVE  RxContents # <<>> /\ RxContents' = Tail(RxContents)
<1> DEFINE n == rx_fifo_num
           r == rx_fifo_read_ptr
           t == Tail(RxContents)
<1>1. /\ n \in 1..(FifoSize + 1) /\ r \in RingSlots
      /\ rx_fifo_num' = n - 1 /\ rx_fifo_read_ptr' = NextSlot(r)
      /\ rx_fifo' = rx_fifo
  BY ChannelAssumption DEF ReadRxFifo, TypeOK
<1>2. /\ RxContents \in Seq(Frames) /\ Len(RxContents) = n
      /\ \A i \in 1..n : RxContents[i] = rx_fifo[RxSlot(r, i)]
  BY RxContentsSeq
<1>3. /\ RxContents' \in Seq(Frames) /\ Len(RxContents') = n - 1
      /\ \A i \in 1..(n - 1) : RxContents'[i] = rx_fifo[RxSlot(NextSlot(r), i)]
  BY <1>1, RxContentsSeqNext
<1>4. RxContents # <<>>
  BY <1>1, <1>2, EmptySeq
<1>5. /\ t \in Seq(Frames) /\ Len(t) = n - 1
      /\ \A i \in 1..(n - 1) : t[i] = RxContents[i + 1]
  BY <1>2, <1>4, HeadTailProperties
<1>6. \A i \in 1..(n - 1) : RxContents'[i] = t[i]
  <2> HIDE DEF t
  <2> SUFFICES ASSUME NEW i \in 1..(n - 1) PROVE RxContents'[i] = t[i]
    OBVIOUS
  <2>1. i \in 1..FifoSize /\ i + 1 \in 1..n
    BY <1>1, ChannelAssumption
  <2> QED BY <1>1, <1>2, <1>3, <1>5, <2>1, RxSlotShift
<1>7. RxContents' = t
  <2> HIDE DEF t
  <2> QED BY <1>3, <1>5, <1>6, SeqEqual
<1> QED BY <1>4, <1>7

\* An operation that leaves the ring alone leaves its contents alone.
LEMMA RxContentsSame ==
    ASSUME UNCHANGED fifoVars
    PROVE  RxContents' = RxContents
BY DEF RxContents, fifoVars

\* An emptied ring has no contents.
LEMMA RxContentsFlushed ==
    ASSUME rx_fifo_num' = 0
    PROVE  RxContents' = <<>>
<1>1. 1..rx_fifo_num' = {}
  BY rx_fifo_num' = 0
<1> QED BY <1>1 DEF RxContents

\* The overrun flag: update_interrupts and the enables of a command leave it.
LEMMA UpdateKeepsOverrun ==
    ASSUME NEW sr, NEW m1, NEW m2, NEW brk, update_interrupts(sr, m1, m2, brk)
    PROVE  "OE" \in SR' <=> "OE" \in sr
BY DEF update_interrupts, ModeStatus

\* A push raises it exactly when the ring was full; a pop leaves it.
LEMMA PushPopOverrun ==
    ASSUME NEW sr, NEW f \in Frames, NEW n
    PROVE  /\ "OE" \in PushStatus(sr, f) <=> FifoOverrun \/ "OE" \in sr
           /\ "OE" \in PopStatus(sr, n, f) <=> "OE" \in sr
BY DEF PushStatus, PopStatus, Frames, DataErrors

\* So rx_fifo_push is a push onto the queue.
LEMMA PushRefines ==
    ASSUME TypeOK, TypeOK', RingInv, NEW f \in Frames, PushRing(f),
           "OE" \in SR' <=> FifoOverrun \/ "OE" \in SR
    PROVE  RxQ!Next
<1>1. RxQ!Full <=> rx_fifo_num = FifoSize + 1
  BY RxContentsSeq DEF RxQ!Full
<1>2. RxQ!Push(f)
  <2>1. CASE rx_fifo_num = FifoSize + 1
    <3>1. ("OE" \in SR') = TRUE
      BY <2>1 DEF FifoOverrun
    <3> QED BY <1>1, <2>1, <3>1, PushQueues DEF RxQ!Push
  <2>2. CASE rx_fifo_num # FifoSize + 1
    <3>1. ("OE" \in SR') = ("OE" \in SR)
      BY <2>2 DEF FifoOverrun
    <3> QED BY <1>1, <2>2, <3>1, PushQueues DEF RxQ!Push
  <2> QED BY <2>1, <2>2
<1> QED BY <1>2 DEF RxQ!Next

\* Every channel operation is a step of the queue.
LEMMA QueueStep ==
    TypeOK /\ TypeOK' /\ RingInv /\ [Next]_vars
        => [RxQ!Next]_<<RxContents, "OE" \in SR>>
<1> DEFINE Same == RxContents' = RxContents /\ ("OE" \in SR') = ("OE" \in SR)
<1> SUFFICES ASSUME TypeOK, TypeOK', RingInv, [Next]_vars
             PROVE  RxQ!Next \/ Same
  OBVIOUS
<1>1. ASSUME UNCHANGED fifoVars, "OE" \in SR' <=> "OE" \in SR PROVE Same
  BY <1>1, RxContentsSame
<1>2. ASSUME rx_fifo_num' = 0, "OE" \notin SR' PROVE RxQ!Next
  BY <1>2, RxContentsFlushed DEF RxQ!Next, RxQ!Flush
<1>3. ASSUME NEW f \in RxFrames, RcvComplete(f) PROVE RxQ!Next \/ Same
  <2>1. f \in Frames
    BY ChannelAssumption DEF Frames, DataErrors
  <2>2. CASE rx_enabled \/ MR2.mode = "loopback"
    <3>1. PushRing(f) /\ update_interrupts(PushStatus(SR, f), MR1, MR2, DeltaBreak)
      BY <1>3, <2>2 DEF RcvComplete
    <3> QED BY <2>1, <3>1, PushRefines, PushPopOverrun, UpdateKeepsOverrun
  <2>3. CASE ~(rx_enabled \/ MR2.mode = "loopback")
    BY <1>1, <1>3, <2>3 DEF RcvComplete
  <2> QED BY <2>2, <2>3
<1>4. CASE ReadRxFifo
  <2> DEFINE h == rx_fifo[NextSlot(rx_fifo_read_ptr)]
             n == rx_fifo_num - 1
  <2>1. h \in Frames
    BY SlotTypes DEF TypeOK
  <2>2. update_interrupts(PopStatus(SR, n, h), MR1, MR2, DeltaBreak)
    BY <1>4 DEF ReadRxFifo
  <2>3. "OE" \in SR' <=> "OE" \in SR
    <3> HIDE DEF h, n
    <3> QED BY <2>1, <2>2, PushPopOverrun, UpdateKeepsOverrun
  <2> QED BY <1>4, <2>3, ReadPops DEF RxQ!Next, RxQ!Pop
<1>5. ASSUME NEW d \in CRValues, WriteCR(d) PROVE RxQ!Next \/ Same
  <2>1. /\ CommandRing(d.cmd)
        /\ "OE" \in SR' <=> "OE" \in CommandStatus(d.cmd)
    BY <1>5, UpdateKeepsOverrun DEF WriteCR, EnableStatus
  <2>2. BreakFrame \in Frames
    BY ChannelAssumption DEF BreakFrame, Frames, DataErrors
  <2>3. CASE d.cmd = 2
    BY <1>2, <2>1, <2>3 DEF CommandRing, CommandStatus, LoopBreak
  <2>4. CASE LoopBreak(d.cmd)
    <3>1. PushRing(BreakFrame) /\ CommandStatus(d.cmd) = PushStatus(SR, BreakFrame)
      BY <2>1, <2>4 DEF CommandRing, CommandStatus, LoopBreak
    <3> QED BY <2>1, <2>2, <3>1, PushRefines, PushPopOverrun
  <2>5. CASE d.cmd = 4
    <3>1. UNCHANGED fifoVars /\ "OE" \notin SR'
      BY <2>1, <2>5 DEF CommandRing, CommandStatus, LoopBreak
    <3> QED BY <3>1, RxContentsSame DEF RxQ!Next, RxQ!ResetErrors
  <2>6. CASE d.cmd \notin {2, 4} /\ ~LoopBreak(d.cmd)
    <3>1. UNCHANGED fifoVars /\ ("OE" \in SR' <=> "OE" \in SR)
      BY <2>1, <2>6 DEF CommandRing, CommandStatus
    <3> QED BY <1>1, <3>1
  <2> QED BY <2>3, <2>4, <2>5, <2>6
<1>6. CASE DeviceReset
  <2>1. rx_fifo_num' = 0 /\ "OE" \notin SR'
    BY <1>6, UpdateKeepsOverrun DEF DeviceReset
  <2> QED BY <1>2, <2>1
<1>7. CASE (\E c \in Chars : WriteTX(c)) \/ TraEdge
  <2>1. UNCHANGED fifoVars
    BY <1>7 DEF WriteTX, TraEdge, TraEdgeBit, TraEdgeReload, TraEdgeDrain,
       TraEdgeIdle, rxVars
  <2>2. "OE" \in SR' <=> "OE" \in SR
    BY <1>7, UpdateKeepsOverrun DEF WriteTX, TraEdge, TraEdgeBit,
       TraEdgeReload, TraEdgeDrain, TraEdgeIdle, CallbackStatus
  <2> QED BY <1>1, <2>1, <2>2
<1>8. CASE \/ \E f \in RxFrames : StartBit(f)
           \/ ReadRxFifoUnderflow
           \/ \E m \in MR1Values : WriteMR1(m)
           \/ \E m \in MR2Values : WriteMR2(m)
           \/ ReadMR
           \/ \E sel \in Selects : WriteCSR(sel)
           \/ AcrWritten
           \/ UNCHANGED vars
  <2>1. UNCHANGED fifoVars
    BY <1>8 DEF StartBit, ReadRxFifoUnderflow, WriteMR1, WriteMR2, ReadMR,
       WriteCSR, AcrWritten, vars, rxVars
  <2>2. "OE" \in SR' <=> "OE" \in SR
    BY <1>8, UpdateKeepsOverrun DEF StartBit, ReadRxFifoUnderflow, WriteMR1,
       WriteMR2, ReadMR, WriteCSR, AcrWritten, vars
  <2> QED BY <1>1, <2>1, <2>2
<1> QED BY <1>3, <1>4, <1>5, <1>6, <1>7, <1>8 DEF Next, Interruption

\* The receive ring implements a bounded queue: read_rx_fifo returns characters
\* in the order rx_fifo_push stored them, only the newest character of a full
\* FIFO is ever lost, and that loss is always shown in the overrun flag until
\* the errors or the receiver are reset.
THEOREM QueueRefinement == Spec => RxImplementsQueue
<1>1. Init => RxQ!Init
  <2> SUFFICES ASSUME Init PROVE RxQ!Init
    OBVIOUS
  <2>1. 1..rx_fifo_num = {} /\ ("OE" \in SR) = FALSE
    BY DEF Init
  <2> QED BY <2>1 DEF RxQ!Init, RxContents
<1> QED BY <1>1, TypeCorrect, RingCorrect, QueueStep, PTL
        DEF Spec, RxImplementsQueue, RxQ!Spec
=============================================================================
