---------------------------- MODULE SdCardProofs ----------------------------
(***************************************************************************)
(* The SD card's buffer m_data is never read or written out of bounds and  *)
(* never holds a reply and an incoming block at once, for every sector     *)
(* size, every image and every sequence of bytes, selects, resets and      *)
(* image changes; and the card implements BlockStore.                      *)
(***************************************************************************)
EXTENDS SdCard, TLAPS

\* What is still to leave while a write command is served: the R1 answer and
\* its filler byte go before the first data byte can arrive.
Drained ==
    /\ m_state = "WRITE_WAITFE" => Pending <= (IF m_cur_bit = 8 THEN 2 ELSE 1)
    /\ m_state = "WRITE_DATA" =>
          IF m_cur_bit = 0 \/ m_write_ptr > 0 THEN m_out_count = 0
                                              ELSE Pending <= 1

\* A multiple block read keeps its image.
ReadKeepsImage ==
    ~HotSwap => (m_ss /\ m_state = "DATA_MULTI" => mounted)

-----------------------------------------------------------------------------
(* Replies *)

\* The constants as numbers.
LEMMA Sizes ==
    /\ MaxBlk \in Nat /\ MaxBlk >= 1
    /\ RegSize \in Nat /\ RegSize <= MaxBlk
    /\ DataSize \in Nat /\ DataSize = MaxBlk + 8
    /\ 1..MaxBlk \subseteq Nat
BY SdCardAssumption DEF DataSize

\* Cells of a block are cells, whether the read succeeds or not.
LEMMA SliceType ==
    ASSUME TypeOK, NEW b, NEW f \in Nat, NEW n \in Nat, f + n <= m_blksize
    PROVE  /\ Slice(b, f, n) \in Seq(Cell)
           /\ Len(Slice(b, f, n)) = n
<1>0. Stale \in Cell
  BY DEF Stale, Cell
<1>1. Contents(b) \in [Cells0(m_blksize) -> Cell]
  BY <1>0 DEF Contents, TypeOK
<1>2. m_blksize \in Nat
  BY Sizes DEF TypeOK
<1>3. \A i \in 1..n : f + i - 1 \in Cells0(m_blksize)
  BY <1>2 DEF Cells0
<1>4. Slice(b, f, n) \in [1..n -> Cell]
  BY <1>1, <1>3 DEF Slice
<1> QED
  BY <1>4

\* The data of a single block read that is not refused lies in one block.  On
\* an SDHC card that rests on PartialOnlyOnV2, the assertion of the source.
LEMMA ReadType ==
    ASSUME TypeOK, PartialOnlyOnV2, NEW n \in Nat,
           ~(m_type = "V2" /\ Crosses(n))
    PROVE  ReadData(n) \in Seq(Cell) /\ Len(ReadData(n)) <= MaxBlk
<1>1. /\ m_blksize \in Nat /\ m_blksize >= 1 /\ m_blksize <= MaxBlk
      /\ m_xferblk \in Nat /\ m_xferblk >= 1
  <2>1. m_blksize \in 1..MaxBlk /\ m_xferblk \in 1..MaxBlk
    BY DEF TypeOK
  <2> QED
    BY <2>1, Sizes
<1>2. CASE m_xferblk = m_blksize
  BY <1>1, <1>2, Sizes, SliceType DEF ReadData
<1>3. CASE m_xferblk # m_blksize
  <2>1. (n \div m_blksize) = ((n + m_xferblk - 1) \div m_blksize)
    BY <1>3 DEF PartialOnlyOnV2, Crosses
  <2>2. n % m_blksize \in Nat /\ (n % m_blksize) + m_xferblk <= m_blksize
    BY <2>1, <1>1
  <2>3. ReadData(n) = Slice(n \div m_blksize, n % m_blksize, m_xferblk)
    BY <1>3 DEF ReadData
  <2> QED
    BY <1>1, <2>2, <2>3, Sizes, SliceType
<1> QED
  BY <1>2, <1>3

\* The length of a data reply: R1, filler, token, data and checksum.
LEMMA Framed ==
    ASSUME NEW d \in Seq(Cell)
    PROVE  /\ <<0, 255, 254>> \o d \o Crc16 \in Seq(Cell)
           /\ Len(<<0, 255, 254>> \o d \o Crc16) = Len(d) + 5
<1>1. ASSUME NEW h \in Seq(Cell), NEW t \in Seq(Cell)
      PROVE  /\ h \o d \o t \in Seq(Cell)
             /\ Len(h \o d \o t) = Len(h) + Len(d) + Len(t)
  <2>1. h \o d \in Seq(Cell) /\ Len(h \o d) = Len(h) + Len(d)
    OBVIOUS
  <2> QED
    BY <2>1
<1>2. Crc16 \in Seq(Cell) /\ Len(Crc16) = 2
  BY DEF Crc16, Crc, Cell
<1>3. <<0, 255, 254>> \in Seq(Cell) /\ Len(<<0, 255, 254>>) = 3
  BY DEF Cell
<1>4. /\ <<0, 255, 254>> \o d \o Crc16 \in Seq(Cell)
      /\ Len(<<0, 255, 254>> \o d \o Crc16) =
            Len(<<0, 255, 254>>) + Len(d) + Len(Crc16)
  BY <1>1, <1>2, <1>3
<1>5. Len(d) \in Nat
  OBVIOUS
<1> QED
  BY <1>2, <1>3, <1>4, <1>5

\* Every answer is a sequence of cells that fits m_data with room to spare, and
\* the answer that starts a block write is a single byte.
LEMMA AnswerType ==
    ASSUME TypeOK, PartialOnlyOnV2, NEW c \in Commands, NEW n \in Nat
    PROVE  /\ AnswerTo(c, n).reply \in Seq(Cell)
           /\ Len(AnswerTo(c, n).reply) <= DataSize
           /\ AnswerTo(c, n).state \in States \ {"WRITE_DATA"}
           /\ AnswerTo(c, n).state = "WRITE_WAITFE" =>
                 Len(AnswerTo(c, n).reply) = 1
           /\ AnswerTo(c, n).state = "DATA_MULTI" => mounted
<1> DEFINE Good(a) == /\ a.reply \in Seq(Cell)
                      /\ Len(a.reply) <= DataSize
                      /\ a.state \in States \ {"WRITE_DATA"}
                      /\ a.state = "WRITE_WAITFE" => Len(a.reply) = 1
                      /\ a.state = "DATA_MULTI" => mounted
<1>0. SUFFICES Good(AnswerTo(c, n))
  OBVIOUS
<1>a. ASSUME NEW r \in Seq(Cell), Len(r) <= DataSize,
             NEW s \in States \ {"WRITE_DATA", "WRITE_WAITFE", "DATA_MULTI"}
      PROVE  Good(Answer(r, s))
  <2>1. Answer(r, s).reply = r /\ Answer(r, s).state = s
    BY DEF Answer
  <2> QED
    BY <1>a, <2>1
<1>b. ASSUME NEW x \in Cell,
             NEW s \in States \ {"WRITE_DATA", "WRITE_WAITFE", "DATA_MULTI"}
      PROVE  Good(Answer(<<x>>, s))
  <2>1. <<x>> \in Seq(Cell) /\ Len(<<x>>) <= DataSize
    BY Sizes
  <2> HIDE DEF Good
  <2> QED
    BY <2>1, <1>a
<1>c. /\ "IDLE" \in States \ {"WRITE_DATA", "WRITE_WAITFE", "DATA_MULTI"}
      /\ "READY" \in States \ {"WRITE_DATA", "WRITE_WAITFE", "DATA_MULTI"}
      /\ "INA" \in States \ {"WRITE_DATA", "WRITE_WAITFE", "DATA_MULTI"}
      /\ "PRG" \in States \ {"WRITE_DATA", "WRITE_WAITFE", "DATA_MULTI"}
      /\ "TRAN" \in States \ {"WRITE_DATA", "WRITE_WAITFE", "DATA_MULTI"}
      /\ "STBY" \in States \ {"WRITE_DATA", "WRITE_WAITFE", "DATA_MULTI"}
      /\ "DATA" \in States \ {"WRITE_DATA", "WRITE_WAITFE", "DATA_MULTI"}
  BY DEF States
<1>d. 0 \in Cell /\ 1 \in Cell /\ 64 \in Cell /\ 255 \in Cell
  BY DEF Cell
<1>f. <<0, 255, 254>> \in Seq(Cell) /\ Len(<<0, 255, 254>>) = 3
  BY DEF Cell
<1>g. Register \in Seq(Cell) /\ Len(Register) = RegSize
  <2>1. Reg \in Cell
    BY DEF Reg, Cell
  <2>2. Register \in [1..RegSize -> Cell]
    BY <2>1 DEF Register
  <2> QED
    BY <2>2, Sizes
<1>h. Good(Refused) /\ Good(NoImage)
  <2> HIDE DEF Good
  <2> QED
    BY <1>b, <1>c, <1>d DEF Refused, NoImage
<1>i. ASSUME NEW s \in {"WRITE_WAITFE", "DATA_MULTI"},
             s = "DATA_MULTI" => mounted
      PROVE  Good(Answer(<<0>>, s))
  <2>1. Answer(<<0>>, s).reply = <<0>> /\ Answer(<<0>>, s).state = s
    BY DEF Answer
  <2>2. <<0>> \in Seq(Cell) /\ Len(<<0>>) = 1 /\ 1 <= DataSize
    BY <1>d, Sizes
  <2>3. s \in States \ {"WRITE_DATA"}
    BY DEF States
  <2> QED
    BY <1>i, <2>1, <2>2, <2>3
<1> HIDE DEF Good
<1>1. CASE c = 0
  BY <1>1, <1>b, <1>c, <1>d DEF AnswerTo
<1>2. CASE c = 1
  BY <1>2, <1>b, <1>c, <1>d DEF AnswerTo
<1>3. CASE c = 8
  <2>1. <<1, 0, 0, 1, 170>> \in Seq(Cell) /\ Len(<<1, 0, 0, 1, 170>>) = 5
    BY DEF Cell
  <2>2. AnswerTo(c, n) = Answer(<<1, 0, 0, 1, 170>>, "IDLE")
    BY <1>3 DEF AnswerTo
  <2>3. Len(<<1, 0, 0, 1, 170>>) <= DataSize
    BY <2>1, Sizes
  <2> QED
    BY <2>1, <2>2, <2>3, <1>a, <1>c
<1>4. CASE c = 9
  <2>1. AnswerTo(c, n) = Answer(<<0, 255, 254>> \o Register, "STBY")
    BY <1>4 DEF AnswerTo
  <2>2. /\ <<0, 255, 254>> \o Register \in Seq(Cell)
        /\ Len(<<0, 255, 254>> \o Register) <= DataSize
    BY <1>f, <1>g, Sizes
  <2> QED
    BY <2>1, <2>2, <1>a, <1>c
<1>5. CASE c = 10
  <2>1. AnswerTo(c, n) = Answer(<<0, 255, 254>> \o Register \o Crc16, "STBY")
    BY <1>5 DEF AnswerTo
  <2>2. /\ <<0, 255, 254>> \o Register \o Crc16 \in Seq(Cell)
        /\ Len(<<0, 255, 254>> \o Register \o Crc16) <= DataSize
    BY <1>g, Sizes, Framed
  <2> QED
    BY <2>1, <2>2, <1>a, <1>c
<1>6. CASE c = 12
  BY <1>6, <1>b, <1>c, <1>d DEF AnswerTo
<1>7. CASE c = 13
  <2>1. <<0, 0>> \in Seq(Cell) /\ Len(<<0, 0>>) = 2
    BY DEF Cell
  <2>2. AnswerTo(c, n) = Answer(<<0, 0>>, "STBY")
    BY <1>7 DEF AnswerTo
  <2>3. Len(<<0, 0>>) <= DataSize
    BY <2>1, Sizes
  <2> QED
    BY <2>1, <2>2, <2>3, <1>a, <1>c
<1>8. CASE c = 16
  BY <1>8, <1>b, <1>c, <1>d, <1>h DEF AnswerTo
<1>9. CASE c = 17
  <2>1. CASE ~mounted \/ (m_type = "V2" /\ Crosses(n))
    BY <1>9, <2>1, <1>h DEF AnswerTo
  <2>2. CASE mounted /\ ~(m_type = "V2" /\ Crosses(n))
    <3>1. AnswerTo(c, n) =
             Answer(<<0, 255, 254>> \o ReadData(n) \o Crc16, "DATA")
      BY <1>9, <2>2 DEF AnswerTo
    <3>2. ReadData(n) \in Seq(Cell) /\ Len(ReadData(n)) <= MaxBlk
      BY <2>2, ReadType
    <3>3. /\ <<0, 255, 254>> \o ReadData(n) \o Crc16 \in Seq(Cell)
          /\ Len(<<0, 255, 254>> \o ReadData(n) \o Crc16) <= DataSize
      BY <3>2, Sizes, Framed
    <3> QED
      BY <3>1, <3>3, <1>a, <1>c
  <2> QED
    BY <2>1, <2>2
<1>10. CASE c = 18
  BY <1>10, <1>h, <1>i DEF AnswerTo, MultiReadOK
<1>11. CASE c = 24
  BY <1>11, <1>h, <1>i DEF AnswerTo
<1>12. CASE c = 41
  BY <1>12, <1>b, <1>c, <1>d DEF AnswerTo
<1>13. CASE c = 55
  BY <1>13, <1>b, <1>c, <1>d DEF AnswerTo
<1>14. CASE c = 58
  <2> DEFINE r == <<0, IF m_type = "V2" THEN 128 ELSE 192, 0, 0, 0>>
  <2>1. r \in Seq(Cell) /\ Len(r) = 5
    BY DEF Cell
  <2>2. AnswerTo(c, n) = Answer(r, "DATA")
    BY <1>14 DEF AnswerTo
  <2>3. Len(r) <= DataSize
    BY <2>1, Sizes
  <2> HIDE DEF r
  <2> QED
    BY <2>1, <2>2, <2>3, <1>a, <1>c
<1>15. CASE c = 59
  BY <1>15, <1>b, <1>c, <1>d DEF AnswerTo
<1> QED
  BY <1>1, <1>2, <1>3, <1>4, <1>5, <1>6, <1>7, <1>8, <1>9, <1>10, <1>11,
     <1>12, <1>13, <1>14, <1>15 DEF Commands

\* What send_data leaves behind.
LEMMA SendType ==
    ASSUME TypeOK, NEW r \in Seq(Cell), Len(r) <= DataSize, NEW s \in States,
           send_data(r, s, ResponseDelay)
    PROVE  /\ m_data' \in [Cells0(DataSize) -> Cell]
           /\ m_state' = s
           /\ m_out_delay' = 1
           /\ m_out_ptr' = 0
           /\ m_out_count' = Len(r)
           /\ Len(r) \in Nat
<1>1. m_data \in [Cells0(DataSize) -> Cell]
  BY DEF TypeOK
<1>2. \A i \in Cells0(DataSize) : i < Len(r) => r[i + 1] \in Cell
  BY Sizes DEF Cells0
<1>3. m_data' \in [Cells0(DataSize) -> Cell]
  BY <1>1, <1>2 DEF send_data
<1> QED
  BY <1>3 DEF send_data, ResponseDelay

\* What a supported command changes, and to what.
LEMMA CommandStep ==
    ASSUME TypeOK, PartialOnlyOnV2, NEW u \in CmdUnits, CommandIn(u)
    PROVE  /\ m_data' \in [Cells0(DataSize) -> Cell]
           /\ m_state' \in States \ {"WRITE_DATA"}
           /\ m_out_delay' = 1 /\ m_out_ptr' = 0
           /\ m_out_count' \in 0..DataSize
           /\ m_state' = "WRITE_WAITFE" => m_out_count' = 1
           /\ m_state' = "DATA_MULTI" => mounted
           /\ m_xferblk' \in 1..MaxBlk
           /\ m_xferblk' # m_blksize => m_type = "V2"
           /\ m_blknext' \in Nat
           /\ m_crc_off' \in BOOLEAN
           /\ m_bACMD' \in BOOLEAN
           /\ m_cmd' = NoCmd
<1> DEFINE c == m_cmd[2] - 64
           n == m_cmd[3]
<1>1. /\ c \in Commands
      /\ do_command(c, n)
  BY DEF CommandIn, Window
<1>2. n \in Nat
  <2>1. m_cmd \in (0..255) \X (0..255) \X (0..255)
    BY DEF TypeOK
  <2>2. m_cmd[3] \in 0..255
    BY <2>1
  <2> QED
    BY <2>2
<1> HIDE DEF c, n
<1> DEFINE a == AnswerTo(c, n)
<1>3. /\ a.reply \in Seq(Cell) /\ Len(a.reply) <= DataSize
      /\ a.state \in States \ {"WRITE_DATA"}
      /\ a.state = "WRITE_WAITFE" => Len(a.reply) = 1
      /\ a.state = "DATA_MULTI" => mounted
  BY <1>1, <1>2, AnswerType
<1>4. send_data(a.reply, a.state, ResponseDelay)
  BY <1>1 DEF do_command
<1> HIDE DEF a
<1>5. /\ m_data' \in [Cells0(DataSize) -> Cell]
      /\ m_state' = a.state
      /\ m_out_delay' = 1 /\ m_out_ptr' = 0
      /\ m_out_count' = Len(a.reply) /\ Len(a.reply) \in Nat
  BY <1>3, <1>4, SendType
<1>6. m_out_count' \in 0..DataSize
  BY <1>3, <1>5, Sizes
<1>7. /\ m_xferblk' \in 1..MaxBlk
      /\ m_xferblk' # m_blksize => m_type = "V2"
  <2>1. m_xferblk \in 1..MaxBlk /\ m_blksize \in 1..MaxBlk
    BY DEF TypeOK
  <2>2. CASE c = 16 /\ mounted /\ BlocklenOK(n)
    <3>1. m_xferblk' = n
      BY <1>1, <2>2 DEF do_command
    <3> QED
      BY <1>2, <2>1, <2>2, <3>1, Sizes DEF BlocklenOK
  <2>3. CASE ~(c = 16 /\ mounted /\ BlocklenOK(n))
    <3>1. m_xferblk' = m_xferblk
      BY <1>1, <2>3 DEF do_command
    <3> QED
      BY <2>1, <3>1 DEF PartialOnlyOnV2
  <2> QED
    BY <2>2, <2>3
<1>8. m_blknext' \in Nat
  <2>1. m_blknext \in Nat /\ m_blksize \in 1..MaxBlk
    BY DEF TypeOK
  <2>2. n \div m_blksize \in Nat
    BY <1>2, <2>1, Sizes
  <2>3. BlockOf(n) \in Nat
    BY <1>2, <2>2 DEF BlockOf
  <2>4. \/ m_blknext' = BlockOf(n)
        \/ m_blknext' = n
        \/ m_blknext' = m_blknext
    BY <1>1 DEF do_command
  <2> QED
    BY <1>2, <2>1, <2>3, <2>4
<1>9. m_bACMD' \in BOOLEAN
  BY <1>1 DEF do_command
<1>10. m_crc_off' \in BOOLEAN
  <2>1. m_crc_off \in BOOLEAN
    BY DEF TypeOK
  <2>2. m_crc_off' = (IF c = 59 THEN n % 2 = 0 ELSE m_crc_off)
    BY <1>1 DEF do_command
  <2> QED
    BY <2>1, <2>2, Zenon
<1>11. m_cmd' = NoCmd
  BY <1>1 DEF do_command
<1> QED
  BY <1>3, <1>5, <1>6, <1>7, <1>8, <1>9, <1>10, <1>11

\* What starting the next block of a multiple block read changes.
LEMMA NextBlockStep ==
    ASSUME TypeOK, NEW u \in CmdUnits, NextBlock(u), mounted
    PROVE  /\ m_data' \in [Cells0(DataSize) -> Cell]
           /\ m_state' = "DATA_MULTI"
           /\ m_out_delay' = 1 /\ m_out_ptr' = 0
           /\ m_out_count' \in 0..DataSize
           /\ m_blknext' \in Nat
<1> DEFINE d == Slice(m_blknext, 0, m_blksize)
           r == <<254>> \o d \o Crc16
<1>1. m_blksize \in 1..MaxBlk /\ m_blknext \in Nat
  BY DEF TypeOK
<1>2. m_blksize \in Nat /\ m_blksize <= MaxBlk
  BY <1>1, Sizes
<1>3. d \in Seq(Cell) /\ Len(d) = m_blksize
  BY <1>2, SliceType
<1>4. send_data(r, "DATA_MULTI", ResponseDelay) /\ m_blknext' = m_blknext + 1
  BY DEF NextBlock
<1> HIDE DEF d
<1>5. <<254>> \o d \in Seq(Cell) /\ Len(<<254>> \o d) = 1 + m_blksize
  <2>1. <<254>> \in Seq(Cell) /\ Len(<<254>>) = 1
    BY DEF Cell
  <2> QED
    BY <1>2, <1>3, <2>1
<1>6. Crc16 \in Seq(Cell) /\ Len(Crc16) = 2
  BY DEF Crc16, Crc, Cell
<1>7. r \in Seq(Cell) /\ Len(r) = 3 + m_blksize
  <2>1. ASSUME NEW h \in Seq(Cell), NEW t \in Seq(Cell)
        PROVE  h \o t \in Seq(Cell) /\ Len(h \o t) = Len(h) + Len(t)
    OBVIOUS
  <2>2. r \in Seq(Cell) /\ Len(r) = Len(<<254>> \o d) + Len(Crc16)
    BY <1>5, <1>6, <2>1
  <2> QED
    BY <1>2, <1>5, <1>6, <2>2
<1> HIDE DEF r
<1>8. Len(r) <= DataSize
  BY <1>2, <1>7, Sizes
<1>9. "DATA_MULTI" \in States
  BY DEF States
<1>10. /\ m_data' \in [Cells0(DataSize) -> Cell]
       /\ m_state' = "DATA_MULTI"
       /\ m_out_delay' = 1 /\ m_out_ptr' = 0
       /\ m_out_count' = Len(r) /\ Len(r) \in Nat
  BY <1>4, <1>7, <1>8, <1>9, SendType
<1> QED
  BY <1>1, <1>4, <1>8, <1>10, Sizes

\* What loading the output latch changes.
LEMMA LoadStep ==
    ASSUME TypeOK, LoadLatch, ReplyFits
    PROVE  /\ m_out_delay' = m_out_delay
           /\ m_out_ptr' \in Nat
           /\ m_out_count' \in Nat
           /\ m_out_latch' \in Cell
           /\ ReplyFits'
           /\ m_out_count' <= m_out_count
           /\ Pending <= 2 => Pending' <= 1
           /\ Pending <= 1 => m_out_count' = 0
<1>1. /\ m_out_delay \in {0, 1} /\ m_out_count \in Nat /\ m_out_ptr \in Nat
      /\ m_data \in [Cells0(DataSize) -> Cell]
  BY DEF TypeOK
<1>2. 255 \in Cell
  BY DEF Cell
<1>3. CASE m_out_ptr < m_out_delay
  BY <1>1, <1>2, <1>3, Sizes DEF LoadLatch, ReplyFits, Unsent, Pending
<1>4. CASE ~(m_out_ptr < m_out_delay) /\ m_out_count > 0
  <2>1. m_out_ptr - m_out_delay \in Cells0(DataSize)
    BY <1>1, <1>4, Sizes DEF ReplyFits, Unsent, Cells0
  <2>2. m_out_latch' \in Cell
    BY <1>1, <1>4, <2>1 DEF LoadLatch
  <2>3. /\ m_out_delay' = m_out_delay
        /\ m_out_ptr' = m_out_ptr + 1
        /\ m_out_count' = m_out_count - 1
    BY <1>4 DEF LoadLatch
  <2> QED
    BY <1>1, <1>4, <2>2, <2>3, Sizes DEF ReplyFits, Unsent, Pending
<1>5. CASE ~(m_out_ptr < m_out_delay) /\ ~(m_out_count > 0)
  <2>1. /\ m_out_delay' = m_out_delay /\ m_out_ptr' = m_out_ptr
        /\ m_out_count' = m_out_count /\ m_out_latch' = 255
    BY <1>5 DEF LoadLatch, outVars
  <2> QED
    BY <1>1, <1>2, <1>5, <2>1 DEF ReplyFits, Unsent, Pending
<1> QED
  BY <1>3, <1>4, <1>5

-----------------------------------------------------------------------------
(* The invariant *)

\* The types, with the two facts that keep a reply inside m_data.
TypeInv == TypeOK /\ PartialOnlyOnV2 /\ ReplyFits

\* Writing a block leaves an image of blocks of the same size.
LEMMA WrittenType ==
    ASSUME NEW n, NEW block \in [Cells0(m_blksize) -> Cell],
           \A b \in DOMAIN disk : disk[b] \in [Cells0(m_blksize) -> Cell]
    PROVE  \A b \in DOMAIN Written(n, block) :
             Written(n, block)[b] \in [Cells0(m_blksize) -> Cell]
<1>1. [i \in Cells0(m_blksize) |-> 0] \in [Cells0(m_blksize) -> Cell]
  BY DEF Cell
<1> QED
  BY <1>1 DEF Written

\* A powered on card, with an image or without, satisfies TypeInv.
LEMMA TypeInit == Init => TypeInv
<1> SUFFICES ASSUME Init PROVE TypeInv
  OBVIOUS
<1>1. /\ 0 \in Cell /\ 255 \in Cell
      /\ NoCmd \in (0..255) \X (0..255) \X (0..255)
      /\ "IDLE" \in States /\ "V2" \in CardType
  BY DEF Cell, NoCmd, States, CardType
<1>2. /\ mounted \in BOOLEAN
      /\ \A b \in DOMAIN disk : disk[b] \in [Cells0(m_blksize) -> Cell]
      /\ m_blksize \in 1..MaxBlk /\ m_xferblk = m_blksize
      /\ m_type \in CardType
  <2>1. CASE \E k \in Images :
                 /\ mounted = TRUE /\ disk = Blank(k)
                 /\ m_blksize = k.blksize /\ m_xferblk = k.blksize
                 /\ m_type = k.type
    <3>1. PICK k \in Images :
                 /\ mounted = TRUE /\ disk = Blank(k)
                 /\ m_blksize = k.blksize /\ m_xferblk = k.blksize
                 /\ m_type = k.type
      BY <2>1
    <3>2. k.blksize \in 1..MaxBlk /\ k.type \in CardType
      BY SdCardAssumption
    <3>3. \A b \in DOMAIN disk : disk[b] \in [Cells0(m_blksize) -> Cell]
      BY <3>1, <1>1 DEF Blank
    <3> QED
      BY <3>1, <3>2, <3>3
  <2>2. CASE /\ mounted = FALSE /\ disk = <<>>
             /\ m_blksize = DefaultBlk /\ m_xferblk = DefaultBlk
             /\ m_type = "V2"
    <3>1. DOMAIN disk = {}
      BY <2>2
    <3>2. \A b \in DOMAIN disk : disk[b] \in [Cells0(m_blksize) -> Cell]
      BY <3>1
    <3>3. m_blksize \in 1..MaxBlk /\ m_xferblk = m_blksize
      BY <2>2, SdCardAssumption
    <3>4. mounted \in BOOLEAN
      BY <2>2
    <3>5. m_type \in CardType
      BY <2>2, <1>1
    <3> QED
      BY <3>2, <3>3, <3>4, <3>5
  <2> QED
    BY <2>1, <2>2 DEF Init
<1>3. m_data \in [Cells0(DataSize) -> Cell]
  BY <1>1 DEF Init
<1>4. /\ m_ss = FALSE /\ m_cur_bit = 0 /\ m_state = "IDLE" /\ m_cmd = NoCmd
      /\ m_bACMD = FALSE /\ m_crc_off = TRUE
      /\ m_out_delay = 0 /\ m_out_count = 0 /\ m_out_ptr = 0
      /\ m_out_latch = 255 /\ m_write_ptr = 0 /\ m_blknext = 0
      /\ fault = "none"
  BY DEF Init
<1>5. TypeOK
  BY <1>1, <1>2, <1>3, <1>4 DEF TypeOK
<1> QED
  BY <1>2, <1>4, <1>5 DEF TypeInv, PartialOnlyOnV2, ReplyFits

\* No byte, edge, select, reset or image change breaks TypeInv.
LEMMA TypeStep == TypeInv /\ [Next]_vars => TypeInv'
<1> SUFFICES ASSUME TypeInv, [Next]_vars PROVE TypeInv'
  OBVIOUS
<1> USE DEF imageVars, cmdVars, outVars
<1>t. TypeOK /\ PartialOnlyOnV2 /\ ReplyFits
  BY DEF TypeInv
<1>c. /\ 255 \in Cell /\ 0..255 \subseteq Cell
      /\ NoCmd \in (0..255) \X (0..255) \X (0..255)
  BY DEF Cell, NoCmd
<1>w. ASSUME NEW u \in CmdUnits
      PROVE  Window(u) \in (0..255) \X (0..255) \X (0..255)
  <2>1. m_cmd \in (0..255) \X (0..255) \X (0..255)
    BY <1>t DEF TypeOK
  <2>2. u \in 0..255
    BY SdCardAssumption
  <2> QED
    BY <2>1, <2>2 DEF Window
<1>1. ASSUME NEW u \in CmdUnits, CommandIn(u) PROVE TypeInv'
  <2>1. /\ m_data' \in [Cells0(DataSize) -> Cell]
        /\ m_state' \in States
        /\ m_out_delay' = 1 /\ m_out_ptr' = 0
        /\ m_out_count' \in 0..DataSize
        /\ m_xferblk' \in 1..MaxBlk
        /\ m_xferblk' # m_blksize => m_type = "V2"
        /\ m_blknext' \in Nat
        /\ m_crc_off' \in BOOLEAN
        /\ m_bACMD' \in BOOLEAN
        /\ m_cmd' = NoCmd
    BY <1>1, <1>t, CommandStep
  <2>2. m_cur_bit' = 8 /\ UNCHANGED <<imageVars, m_ss, m_out_latch, m_write_ptr, fault>>
    BY <1>1 DEF CommandIn, ByteBoundary
  <2>3. m_out_count' \in Nat /\ ReplyFits'
    BY <2>1, Sizes DEF ReplyFits, Unsent
  <2>4. TypeOK'
    BY <1>t, <1>c, <2>1, <2>2, <2>3 DEF TypeOK
  <2> QED
    BY <2>1, <2>2, <2>3, <2>4 DEF TypeInv, PartialOnlyOnV2
<1>2. ASSUME NEW u \in CmdUnits, OtherIn(u) PROVE TypeInv'
  <2>1. /\ m_cur_bit' = 8 /\ m_cmd' = Window(u)
        /\ UNCHANGED <<imageVars, m_ss, m_state, m_crc_off, m_xferblk,
                       m_blknext, m_data, outVars, m_out_latch, m_write_ptr,
                       fault>>
    BY <1>2 DEF OtherIn, ByteBoundary, WindowMoves
  <2>2. m_bACMD' \in BOOLEAN
    BY <1>2 DEF OtherIn, WindowMoves
  <2>3. TypeOK'
    BY <1>t, <1>w, <2>1, <2>2 DEF TypeOK
  <2> QED
    BY <1>t, <2>1, <2>3 DEF TypeInv, PartialOnlyOnV2, ReplyFits, Unsent
<1>3. ASSUME NEW u \in CmdUnits, NextBlock(u) PROVE TypeInv'
  <2>1. /\ m_cur_bit' = 8 /\ m_cmd' = Window(u)
        /\ UNCHANGED <<imageVars, m_ss, m_crc_off, m_xferblk, m_out_latch,
                       m_write_ptr>>
    BY <1>3 DEF NextBlock, ByteBoundary, WindowMoves
  <2>2. m_bACMD' \in BOOLEAN
    BY <1>3 DEF NextBlock, WindowMoves
  <2>3. CASE mounted
    <3>1. /\ m_data' \in [Cells0(DataSize) -> Cell]
          /\ m_state' = "DATA_MULTI"
          /\ m_out_delay' = 1 /\ m_out_ptr' = 0
          /\ m_out_count' \in 0..DataSize
          /\ m_blknext' \in Nat
      BY <1>3, <1>t, <2>3, NextBlockStep
    <3>2. fault' = fault
      BY <1>3, <2>3 DEF NextBlock
    <3>3. m_out_count' \in Nat /\ ReplyFits'
      BY <3>1, Sizes DEF ReplyFits, Unsent
    <3>4. m_state' \in States
      BY <3>1 DEF States
    <3>5. TypeOK'
      BY <1>t, <1>w, <2>1, <2>2, <3>1, <3>2, <3>3, <3>4 DEF TypeOK
    <3> QED
      BY <1>t, <2>1, <3>3, <3>5 DEF TypeInv, PartialOnlyOnV2
  <2>4. CASE ~mounted
    <3>1. /\ fault' = "no image"
          /\ UNCHANGED <<m_data, outVars, m_state, m_blknext>>
      BY <1>3, <2>4 DEF NextBlock
    <3>2. TypeOK'
      BY <1>t, <1>w, <2>1, <2>2, <3>1 DEF TypeOK
    <3> QED
      BY <1>t, <2>1, <3>1, <3>2 DEF TypeInv, PartialOnlyOnV2, ReplyFits, Unsent
  <2> QED
    BY <2>3, <2>4
<1>4. ASSUME NEW u \in DataUnits, TokenIn(u) PROVE TypeInv'
  <2>1. /\ m_cur_bit' = 8
        /\ UNCHANGED <<imageVars, m_ss, cmdVars, m_xferblk, m_blknext, m_data,
                       outVars, fault>>
    BY <1>4 DEF TokenIn, ByteBoundary
  <2>2. m_state' \in States /\ m_write_ptr' \in Nat /\ m_out_latch' \in Cell
    <3>1. m_state \in States /\ m_write_ptr \in Nat /\ m_out_latch \in Cell
      BY <1>t DEF TypeOK
    <3>2. "WRITE_DATA" \in States
      BY DEF States
    <3>3. CASE u = 254
      <4>1. m_state' = "WRITE_DATA" /\ m_write_ptr' = 0 /\ m_out_latch' = 255
        BY <1>4, <3>3 DEF TokenIn
      <4> QED
        BY <1>c, <3>2, <4>1
    <3>4. CASE u # 254
      <4>1. UNCHANGED <<m_state, m_write_ptr, m_out_latch>>
        BY <1>4, <3>4 DEF TokenIn
      <4> QED
        BY <3>1, <4>1
    <3> QED
      BY <3>3, <3>4
  <2>3. TypeOK'
    BY <1>t, <2>1, <2>2 DEF TypeOK
  <2> QED
    BY <1>t, <2>1, <2>3 DEF TypeInv, PartialOnlyOnV2, ReplyFits, Unsent
<1>5. ASSUME NEW u \in DataUnits, DataIn(u) PROVE TypeInv'
  <2>1. /\ m_cur_bit' = 8
        /\ UNCHANGED <<imageVars, m_ss, m_state, cmdVars, m_xferblk,
                       m_blknext, outVars, m_out_latch>>
    BY <1>5 DEF DataIn, ByteBoundary
  <2>2. u \in Cell
    BY <1>c, SdCardAssumption
  <2>3. /\ m_data' \in [Cells0(DataSize) -> Cell]
        /\ m_write_ptr' \in Nat
        /\ fault' \in {"none", "no image", "overrun"}
    <3>1. /\ m_data \in [Cells0(DataSize) -> Cell] /\ m_write_ptr \in Nat
          /\ fault \in {"none", "no image", "overrun"}
      BY <1>t DEF TypeOK
    <3>2. CASE m_write_ptr < DataSize
      <4>1. /\ m_data' = [m_data EXCEPT ![m_write_ptr] = u]
            /\ m_write_ptr' = m_write_ptr + 1 /\ fault' = fault
        BY <1>5, <3>2 DEF DataIn
      <4>2. m_data' \in [Cells0(DataSize) -> Cell]
        BY <2>2, <3>1, <4>1
      <4>3. m_write_ptr' \in Nat
        <5>1. m_write_ptr \in Nat
          BY <3>1
        <5>2. m_write_ptr' = m_write_ptr + 1
          BY <4>1
        <5> QED
          BY <5>1, <5>2
      <4> QED
        BY <3>1, <4>1, <4>2, <4>3
    <3>3. CASE ~(m_write_ptr < DataSize)
      <4>1. fault' = "overrun" /\ UNCHANGED <<m_data, m_write_ptr>>
        BY <1>5, <3>3 DEF DataIn
      <4> QED
        BY <3>1, <4>1
    <3> QED
      BY <3>2, <3>3
  <2>4. TypeOK'
    BY <1>t, <2>1, <2>3 DEF TypeOK
  <2> QED
    BY <1>t, <2>1, <2>4 DEF TypeInv, PartialOnlyOnV2, ReplyFits, Unsent
<1>6. ASSUME NEW u \in DataUnits, DataComplete(u) PROVE TypeInv'
  <2>1. /\ m_cur_bit' = 8 /\ m_write_ptr' = m_write_ptr + 1
        /\ UNCHANGED <<mounted, m_blksize, m_type, m_ss, cmdVars, m_xferblk,
                       m_blknext, m_out_latch>>
    BY <1>6 DEF DataComplete, ByteBoundary
  <2>p. m_write_ptr' \in Nat
    <3>1. m_write_ptr \in Nat
      BY <1>t DEF TypeOK
    <3>2. m_write_ptr' = m_write_ptr + 1
      BY <1>6 DEF DataComplete
    <3> QED
      BY <3>1, <3>2
  <2>2. CASE mounted
    <3> DEFINE full == [m_data EXCEPT ![m_write_ptr] = u]
    <3>1. u \in Cell /\ 5 \in Cell /\ 13 \in Cell /\ 1 \in Cell
      BY <1>c, SdCardAssumption DEF Cell
    <3>2. full \in [Cells0(DataSize) -> Cell]
      BY <1>t, <3>1 DEF TypeOK
    <3>3. PICK ok \in BOOLEAN :
          /\ disk' = (IF ok THEN Written(m_blknext,
                                         [i \in Cells0(m_blksize) |-> full[i]])
                            ELSE disk)
          /\ m_data' = [full EXCEPT ![0] = IF ok THEN 5 ELSE 13, ![1] = 1]
          /\ m_out_delay' = 0 /\ m_out_ptr' = 0 /\ m_out_count' = 2
          /\ m_state' = "IDLE" /\ fault' = fault
      BY <1>6, <2>2 DEF DataComplete
    <3>4. m_blksize \in 1..MaxBlk
      BY <1>t DEF TypeOK
    <3>5. Cells0(m_blksize) \subseteq Cells0(DataSize)
      BY <3>4, Sizes DEF Cells0
    <3> HIDE DEF full
    <3>6. [i \in Cells0(m_blksize) |-> full[i]] \in [Cells0(m_blksize) -> Cell]
      BY <3>2, <3>5
    <3>7. \A b \in DOMAIN disk : disk[b] \in [Cells0(m_blksize) -> Cell]
      BY <1>t DEF TypeOK
    <3>8. \A b \in DOMAIN disk' : disk'[b] \in [Cells0(m_blksize) -> Cell]
      <4>1. CASE ok = TRUE
        BY <3>3, <3>6, <3>7, <4>1, WrittenType
      <4>2. CASE ok = FALSE
        BY <3>3, <3>7, <4>2
      <4> QED
        BY <4>1, <4>2
    <3>9. m_data' \in [Cells0(DataSize) -> Cell]
      BY <3>1, <3>2, <3>3
    <3>10. m_state' \in States
      BY <3>3 DEF States
    <3>11. TypeOK'
      <4>1. m_out_delay' \in {0, 1} /\ m_out_ptr' \in Nat /\ m_out_count' \in Nat
        BY <3>3
      <4>2. m_cur_bit' \in {0, 8}
        BY <2>1
      <4>3. fault' = fault
        BY <3>3
      <4> QED
        BY <1>t, <2>1, <2>p, <3>8, <3>9, <3>10, <4>1, <4>2, <4>3 DEF TypeOK
    <3>12. ReplyFits'
      BY <3>3, Sizes DEF ReplyFits, Unsent
    <3> QED
      BY <1>t, <2>1, <3>11, <3>12 DEF TypeInv, PartialOnlyOnV2
  <2>3. CASE ~mounted
    <3>1. /\ fault' = "no image"
          /\ UNCHANGED <<disk, m_data, outVars, m_state>>
      BY <1>6, <2>3 DEF DataComplete
    <3>2. TypeOK'
      BY <1>t, <2>1, <2>p, <3>1 DEF TypeOK
    <3> QED
      BY <1>t, <2>1, <3>1, <3>2 DEF TypeInv, PartialOnlyOnV2, ReplyFits, Unsent
  <2> QED
    BY <2>2, <2>3
<1>7. ASSUME shift_out PROVE TypeInv'
  <2>1. /\ m_cur_bit' = 0 /\ LoadLatch
        /\ UNCHANGED <<imageVars, m_ss, m_state, cmdVars, m_xferblk,
                       m_blknext, m_data, m_write_ptr, fault>>
    BY <1>7 DEF shift_out
  <2>2. /\ m_out_delay' = m_out_delay /\ m_out_ptr' \in Nat
        /\ m_out_count' \in Nat /\ m_out_latch' \in Cell /\ ReplyFits'
    BY <1>t, <2>1, LoadStep
  <2>3. TypeOK'
    BY <1>t, <2>1, <2>2 DEF TypeOK
  <2> QED
    BY <1>t, <2>1, <2>2, <2>3 DEF TypeInv, PartialOnlyOnV2
<1>8. ASSUME Select PROVE TypeInv'
  <2>1. TypeOK'
    BY <1>8, <1>t, <1>c DEF Select, TypeOK, States
  <2> QED
    BY <1>8, <1>t, <2>1 DEF Select, TypeInv, PartialOnlyOnV2, ReplyFits, Unsent
<1>9. ASSUME Deselect PROVE TypeInv'
  <2>1. TypeOK'
    BY <1>9, <1>t DEF Deselect, TypeOK
  <2> QED
    BY <1>9, <1>t, <2>1 DEF Deselect, TypeInv, PartialOnlyOnV2, ReplyFits, Unsent
<1>10. ASSUME MachineReset PROVE TypeInv'
  <2>1. TypeOK'
    BY <1>10, <1>t DEF MachineReset, TypeOK
  <2> QED
    BY <1>10, <1>t, <2>1
       DEF MachineReset, TypeInv, PartialOnlyOnV2, ReplyFits, Unsent
<1>11. ASSUME NEW k \in Images, image_loaded(k) PROVE TypeInv'
  <2>1. k.blksize \in 1..MaxBlk /\ k.type \in CardType
    BY SdCardAssumption
  <2>2. 0 \in Cell
    BY DEF Cell
  <2>3. \A b \in DOMAIN disk' : disk'[b] \in [Cells0(m_blksize') -> Cell]
    BY <1>11, <2>2 DEF image_loaded, Blank
  <2>4. /\ mounted' = TRUE /\ m_blksize' = k.blksize
        /\ m_xferblk' = k.blksize /\ m_type' = k.type /\ m_crc_off' = TRUE
        /\ UNCHANGED <<m_ss, m_cur_bit, m_state, m_cmd, m_bACMD, m_blknext,
                       m_data, outVars, m_out_latch, m_write_ptr, fault>>
    BY <1>11 DEF image_loaded
  <2>5. TypeOK'
    BY <1>t, <2>1, <2>3, <2>4 DEF TypeOK
  <2> QED
    BY <1>t, <2>4, <2>5 DEF TypeInv, PartialOnlyOnV2, ReplyFits, Unsent
<1>12. ASSUME image_unloaded PROVE TypeInv'
  <2>1. \A b \in DOMAIN disk' : disk'[b] \in [Cells0(m_blksize) -> Cell]
    BY <1>12 DEF image_unloaded
  <2>2. TypeOK'
    BY <1>12, <1>t, <2>1 DEF image_unloaded, TypeOK
  <2> QED
    BY <1>12, <1>t, <2>2 DEF image_unloaded, TypeInv, PartialOnlyOnV2,
                             ReplyFits, Unsent
<1>13. CASE UNCHANGED vars
  <2>1. TypeOK'
    BY <1>13, <1>t DEF vars, TypeOK
  <2> QED
    BY <1>13, <1>t, <2>1 DEF vars, TypeInv, PartialOnlyOnV2, ReplyFits, Unsent
<1> QED
  BY <1>1, <1>2, <1>3, <1>4, <1>5, <1>6, <1>7, <1>8, <1>9, <1>10, <1>11,
     <1>12, <1>13 DEF Next, CardStep

\* The card's registers keep their types whatever the host sends and however
\* the image changes; in particular the write pointer and the reply pointer
\* never leave the naturals and every block on the image keeps its size.
THEOREM SdTypeCorrect == Spec => []TypeOK
<1>1. TypeInv => TypeOK
  BY DEF TypeInv
<1> QED
  BY <1>1, TypeInit, TypeStep, PTL DEF Spec

\* shift_out never reads past the end of m_data, for every sector size and
\* every register size that fits a sector.
THEOREM SdReplyCorrect == Spec => []ReplyFits
<1>1. TypeInv => ReplyFits
  BY DEF TypeInv
<1> QED
  BY <1>1, TypeInit, TypeStep, PTL DEF Spec

\* The assertion of do_command at CMD17 holds on every card.
THEOREM SdPartialCorrect == Spec => []PartialOnlyOnV2
<1>1. TypeInv => PartialOnlyOnV2
  BY DEF TypeInv
<1> QED
  BY <1>1, TypeInit, TypeStep, PTL DEF Spec

-----------------------------------------------------------------------------
(* A reply and a block do not share m_data *)

\* Nothing is under way when the card is powered on.
LEMMA DrainedInit == Init => Drained
BY DEF Init, Drained

\* Every action keeps Drained: a byte time of the filler and one of R1 pass
\* before the token's first data byte.
LEMMA DrainedStep == TypeInv /\ Drained /\ [Next]_vars => Drained'
<1> SUFFICES ASSUME TypeInv, Drained, [Next]_vars PROVE Drained'
  OBVIOUS
<1> USE DEF imageVars, cmdVars, outVars
<1>t. TypeOK /\ PartialOnlyOnV2 /\ ReplyFits
  BY DEF TypeInv
<1>n. /\ m_out_delay \in {0, 1} /\ m_out_count \in Nat /\ m_out_ptr \in Nat
      /\ m_write_ptr \in Nat /\ m_cur_bit \in {0, 8}
  BY <1>t DEF TypeOK
<1>1. ASSUME NEW u \in CmdUnits, CommandIn(u) PROVE Drained'
  <2>1. /\ m_out_delay' = 1 /\ m_out_ptr' = 0
        /\ m_state' = "WRITE_WAITFE" => m_out_count' = 1
        /\ m_state' # "WRITE_DATA"
    BY <1>1, <1>t, CommandStep
  <2>2. m_cur_bit' = 8
    BY <1>1 DEF CommandIn, ByteBoundary
  <2> QED
    BY <2>1, <2>2 DEF Drained, Pending
<1>2. ASSUME NEW u \in CmdUnits, OtherIn(u) PROVE Drained'
  <2>1. m_state' = m_state /\ m_state \notin {"WRITE_WAITFE", "WRITE_DATA"}
    BY <1>2 DEF OtherIn, WindowMoves
  <2> QED
    BY <2>1 DEF Drained
<1>3. ASSUME NEW u \in CmdUnits, NextBlock(u) PROVE Drained'
  <2>1. m_state \notin {"WRITE_WAITFE", "WRITE_DATA"}
    BY <1>3 DEF NextBlock, WindowMoves
  <2>2. m_state' = "DATA_MULTI" \/ m_state' = m_state
    BY <1>3 DEF NextBlock, send_data
  <2> QED
    BY <2>1, <2>2 DEF Drained
<1>4. ASSUME NEW u \in DataUnits, TokenIn(u) PROVE Drained'
  <2>1. /\ m_cur_bit = 0 /\ m_cur_bit' = 8 /\ m_state = "WRITE_WAITFE"
        /\ UNCHANGED outVars
    BY <1>4 DEF TokenIn, ByteBoundary
  <2>2. Pending <= 1 /\ Pending' = Pending
    BY <2>1 DEF Drained, Pending
  <2>3. \/ m_state' = "WRITE_DATA" /\ m_write_ptr' = 0
        \/ m_state' = "WRITE_WAITFE"
    BY <1>4, <2>1 DEF TokenIn
  <2>4. Pending \in Nat
    BY <1>n DEF Pending
  <2> QED
    BY <2>1, <2>2, <2>3, <2>4 DEF Drained
<1>5. ASSUME NEW u \in DataUnits, DataIn(u) PROVE Drained'
  <2>1. /\ m_cur_bit = 0 /\ m_state = "WRITE_DATA" /\ m_state' = m_state
        /\ m_out_count' = m_out_count
    BY <1>5 DEF DataIn, ByteBoundary
  <2>2. m_out_count' = 0
    BY <2>1 DEF Drained
  <2>3. m_cur_bit' = 8
    BY <1>5 DEF DataIn, ByteBoundary
  <2>4. Pending' <= 1
    <3>1. m_out_ptr' = m_out_ptr /\ m_out_delay' = m_out_delay
      BY <1>5 DEF DataIn
    <3> QED
      BY <1>n, <2>2, <3>1 DEF Pending
  <2> QED
    BY <2>1, <2>2, <2>3, <2>4 DEF Drained
<1>6. ASSUME NEW u \in DataUnits, DataComplete(u) PROVE Drained'
  <2>1. /\ m_cur_bit = 0 /\ m_state = "WRITE_DATA"
        /\ m_write_ptr' = m_write_ptr + 1
    BY <1>6 DEF DataComplete, ByteBoundary
  <2>2. CASE mounted
    <3>1. m_state' = "IDLE"
      BY <1>6, <2>2 DEF DataComplete
    <3> QED
      BY <3>1 DEF Drained
  <2>3. CASE ~mounted
    <3>1. m_state' = m_state /\ m_out_count' = m_out_count
      BY <1>6, <2>3 DEF DataComplete
    <3>2. m_out_count' = 0
      BY <2>1, <3>1 DEF Drained
    <3>3. m_write_ptr' > 0
      BY <1>n, <2>1
    <3> QED
      BY <2>1, <3>1, <3>2, <3>3 DEF Drained
  <2> QED
    BY <2>2, <2>3
<1>l. ASSUME LoadLatch, m_cur_bit = 8, m_cur_bit' = 0, m_state' = m_state,
             m_write_ptr' = m_write_ptr
      PROVE  Drained'
  <2>1. /\ m_out_count' \in Nat /\ m_out_count' <= m_out_count
        /\ Pending <= 2 => Pending' <= 1
        /\ Pending <= 1 => m_out_count' = 0
    BY <1>l, <1>t, LoadStep
  <2>2. m_out_count = 0 => m_out_count' = 0
    BY <1>n, <2>1
  <2> QED
    BY <1>l, <2>1, <2>2 DEF Drained
<1>7. ASSUME shift_out PROVE Drained'
  BY <1>7, <1>l DEF shift_out
<1>8. ASSUME Select PROVE Drained'
  BY <1>8 DEF Select, Drained
<1>9. ASSUME Deselect PROVE Drained'
  BY <1>9 DEF Deselect, Drained, Pending
<1>10. ASSUME MachineReset PROVE Drained'
  BY <1>10 DEF MachineReset, Drained, Pending
<1>11. ASSUME NEW k \in Images, image_loaded(k) PROVE Drained'
  BY <1>11 DEF image_loaded, Drained, Pending
<1>12. ASSUME image_unloaded PROVE Drained'
  BY <1>12 DEF image_unloaded, Drained, Pending
<1>13. CASE UNCHANGED vars
  BY <1>13 DEF vars, Drained, Pending
<1> QED
  BY <1>1, <1>2, <1>3, <1>4, <1>5, <1>6, <1>7, <1>8, <1>9, <1>10, <1>11,
     <1>12, <1>13 DEF Next, CardStep

\* m_data never holds an unsent answer and an incoming block at once, however
\* closely the host follows CMD24 with the token, and whatever resets,
\* deselects and image changes fall between.
THEOREM ReplyBeforeDataCorrect == Spec => []ReplyBeforeData
<1>1. Drained => ReplyBeforeData
  BY DEF Drained, ReplyBeforeData
<1> QED
  BY <1>1, TypeInit, TypeStep, DrainedInit, DrainedStep, PTL DEF Spec

-----------------------------------------------------------------------------
(* An incoming block stays inside m_data *)

\* Only the data of a write moves the pointer while a block is received.
LEMMA WriteStep == TypeInv /\ WriteInBounds /\ [Next]_vars => WriteInBounds'
<1> SUFFICES ASSUME TypeInv, WriteInBounds, [Next]_vars, ~HotSwap, Receiving'
             PROVE  m_write_ptr' < m_xferblk' + 2
  <2>1. HotSwap' = HotSwap
    OBVIOUS
  <2> QED
    BY <2>1 DEF WriteInBounds
<1> USE DEF imageVars, cmdVars, outVars
<1>t. TypeOK
  BY DEF TypeInv
<1>n. m_write_ptr \in Nat /\ m_xferblk \in Nat /\ m_xferblk >= 1
  <2>1. m_write_ptr \in Nat /\ m_xferblk \in 1..MaxBlk
    BY <1>t DEF TypeOK
  <2> QED
    BY <2>1, Sizes
<1>r. m_ss' /\ m_state' = "WRITE_DATA" /\ fault' = "none"
  BY DEF Receiving
<1>s. ASSUME m_ss, m_state = "WRITE_DATA", fault = "none",
             m_write_ptr' = m_write_ptr, m_xferblk' = m_xferblk
      PROVE  m_write_ptr' < m_xferblk' + 2
  BY <1>s DEF WriteInBounds, Receiving
<1>1. ASSUME NEW u \in CmdUnits, CommandIn(u) PROVE m_write_ptr' < m_xferblk' + 2
  BY <1>1, <1>t, <1>r, CommandStep DEF TypeInv
<1>2. ASSUME NEW u \in CmdUnits, OtherIn(u) PROVE m_write_ptr' < m_xferblk' + 2
  BY <1>2, <1>r DEF OtherIn, WindowMoves
<1>3. ASSUME NEW u \in CmdUnits, NextBlock(u) PROVE m_write_ptr' < m_xferblk' + 2
  BY <1>3, <1>r DEF NextBlock, WindowMoves, send_data
<1>4. ASSUME NEW u \in DataUnits, TokenIn(u) PROVE m_write_ptr' < m_xferblk' + 2
  <2>1. m_xferblk' = m_xferblk /\ m_write_ptr' = 0
    BY <1>4, <1>r DEF TokenIn
  <2> QED
    BY <1>n, <2>1
<1>5. ASSUME NEW u \in DataUnits, DataIn(u), fault = "none"
      PROVE  m_write_ptr' < m_xferblk' + 2
  <2>1. /\ m_ss /\ m_state = "WRITE_DATA" /\ m_xferblk' = m_xferblk
        /\ m_write_ptr + 1 # m_xferblk + 2
    BY <1>5 DEF DataIn, ByteBoundary, LastData
  <2>2. m_write_ptr < m_xferblk + 2
    BY <1>5, <2>1 DEF WriteInBounds, Receiving
  <2>3. m_write_ptr' = m_write_ptr + 1 \/ m_write_ptr' = m_write_ptr
    BY <1>5 DEF DataIn
  <2> QED
    BY <1>n, <2>1, <2>2, <2>3
<1>6. ASSUME NEW u \in DataUnits, DataComplete(u)
      PROVE  m_write_ptr' < m_xferblk' + 2
  BY <1>6, <1>r DEF DataComplete
<1>7. ASSUME shift_out, fault = "none" PROVE m_write_ptr' < m_xferblk' + 2
  BY <1>7, <1>r, <1>s DEF shift_out
<1>8. ASSUME Select PROVE m_write_ptr' < m_xferblk' + 2
  BY <1>8, <1>r DEF Select
<1>9. ASSUME Deselect PROVE m_write_ptr' < m_xferblk' + 2
  BY <1>9, <1>r DEF Deselect
<1>10. ASSUME MachineReset PROVE m_write_ptr' < m_xferblk' + 2
  BY <1>10, <1>r DEF MachineReset
<1>11. ASSUME NEW k \in Images, image_loaded(k)
       PROVE  m_write_ptr' < m_xferblk' + 2
  BY <1>11, <1>r DEF image_loaded, MaySwap, Transfers
<1>12. ASSUME image_unloaded PROVE m_write_ptr' < m_xferblk' + 2
  BY <1>12, <1>r DEF image_unloaded, MaySwap, Transfers
<1>13. CASE UNCHANGED vars
  BY <1>13, <1>r, <1>s DEF vars
<1>14. CASE Next
  BY <1>14, <1>1, <1>2, <1>3, <1>4, <1>5, <1>6, <1>7, <1>8, <1>9, <1>10,
     <1>11, <1>12 DEF Next, CardStep
<1> QED
  BY <1>13, <1>14

\* Without a change of image during a transfer, "==" at the end of a block is
\* always met and no data byte is stored outside m_data.
THEOREM WriteInBoundsCorrect == Spec => []WriteInBounds
<1>1. Init => WriteInBounds
  BY DEF Init, WriteInBounds, Receiving
<1> QED
  BY <1>1, TypeInit, TypeStep, WriteStep, PTL DEF Spec

-----------------------------------------------------------------------------
(* Reads and the absent image *)

\* What the reads keep: their image, and with it no fault.
NoImageInv == ReadKeepsImage /\ OnlyWriteMeetsNoImage

\* Every action keeps NoImageInv.
LEMMA NoImageStep == TypeInv /\ NoImageInv /\ [Next]_vars => NoImageInv'
<1> SUFFICES ASSUME TypeInv, NoImageInv, [Next]_vars, ~HotSwap
             PROVE  /\ m_ss' /\ m_state' = "DATA_MULTI" => mounted'
                    /\ fault' = "no image" => m_state' = "WRITE_DATA"
  <2>1. HotSwap' = HotSwap
    OBVIOUS
  <2> QED
    BY <2>1 DEF NoImageInv, ReadKeepsImage, OnlyWriteMeetsNoImage
<1> USE DEF imageVars, cmdVars, outVars
<1> DEFINE G == /\ m_ss' /\ m_state' = "DATA_MULTI" => mounted'
                /\ fault' = "no image" => m_state' = "WRITE_DATA"
<1>i. /\ m_ss /\ m_state = "DATA_MULTI" => mounted
      /\ fault = "no image" => m_state = "WRITE_DATA"
  BY DEF NoImageInv, ReadKeepsImage, OnlyWriteMeetsNoImage
<1>t. TypeOK /\ PartialOnlyOnV2
  BY DEF TypeInv
<1>1. ASSUME NEW u \in CmdUnits, CommandIn(u), fault = "none" PROVE G
  <2>1. m_state' = "DATA_MULTI" => mounted
    BY <1>1, <1>t, CommandStep
  <2> QED
    BY <1>1, <2>1 DEF CommandIn
<1>2. ASSUME NEW u \in CmdUnits, OtherIn(u) PROVE G
  BY <1>2, <1>i DEF OtherIn
<1>3. ASSUME NEW u \in CmdUnits, NextBlock(u), fault = "none" PROVE G
  <2>1. mounted
    BY <1>3, <1>i DEF NextBlock, ByteBoundary, BlockDue
  <2> QED
    BY <1>3, <2>1 DEF NextBlock
<1>4. ASSUME NEW u \in DataUnits, TokenIn(u), fault = "none" PROVE G
  BY <1>4 DEF TokenIn
<1>5. ASSUME NEW u \in DataUnits, DataIn(u) PROVE G
  BY <1>5 DEF DataIn
<1>6. ASSUME NEW u \in DataUnits, DataComplete(u), fault = "none" PROVE G
  BY <1>6 DEF DataComplete
<1>7. ASSUME shift_out PROVE G
  BY <1>7, <1>i DEF shift_out
<1>8. ASSUME Select, fault = "none" PROVE G
  BY <1>8 DEF Select
<1>9. ASSUME Deselect PROVE G
  BY <1>9, <1>i DEF Deselect
<1>10. ASSUME MachineReset PROVE G
  BY <1>10, <1>i DEF MachineReset
<1>11. ASSUME NEW k \in Images, image_loaded(k) PROVE G
  BY <1>11, <1>i DEF image_loaded
<1>12. ASSUME image_unloaded PROVE G
  BY <1>12, <1>i DEF image_unloaded, MaySwap, Transfers
<1>13. CASE UNCHANGED vars
  BY <1>13, <1>i DEF vars
<1>14. CASE Next
  BY <1>14, <1>1, <1>2, <1>3, <1>4, <1>5, <1>6, <1>7, <1>8, <1>9, <1>10,
     <1>11, <1>12 DEF Next, CardStep
<1> QED
  BY <1>13, <1>14

\* Unless the image is changed under a transfer, no read reaches the null
\* handle of an absent image: only CMD24, which does not ask, does.
THEOREM OnlyWriteMeetsNoImageCorrect == Spec => []OnlyWriteMeetsNoImage
<1>1. Init => NoImageInv
  BY DEF Init, NoImageInv, ReadKeepsImage, OnlyWriteMeetsNoImage
<1>2. NoImageInv => OnlyWriteMeetsNoImage
  BY DEF NoImageInv
<1> QED
  BY <1>1, <1>2, TypeInit, TypeStep, NoImageStep, PTL DEF Spec

-----------------------------------------------------------------------------
(* The image changes by whole blocks *)

\* A write is only ever opened for a whole block, and a new image sets both
\* lengths.
WholeBlock == m_state \in {"WRITE_WAITFE", "WRITE_DATA"} => m_xferblk = m_blksize

\* CMD24 looks at the length before it opens a write, and CMD16 is not heard
\* while a write is open.
LEMMA WholeBlockStep == TypeInv /\ WholeBlock /\ [Next]_vars => WholeBlock'
<1> SUFFICES ASSUME TypeInv, WholeBlock, [Next]_vars PROVE WholeBlock'
  OBVIOUS
<1> USE DEF imageVars, cmdVars, outVars
<1>1. ASSUME NEW u \in CmdUnits, CommandIn(u) PROVE WholeBlock'
  <2> DEFINE c == m_cmd[2] - 64
             n == m_cmd[3]
  <2>1. /\ c \in Commands /\ do_command(c, n) /\ m_blksize' = m_blksize
    BY <1>1 DEF CommandIn, Window
  <2> HIDE DEF c, n
  <2>2. m_state' = AnswerTo(c, n).state
    BY <2>1 DEF do_command, send_data
  <2>3. CASE c = 24
    <3>1. m_xferblk' = m_xferblk
      BY <2>1, <2>3 DEF do_command
    <3>2. AnswerTo(c, n).state = "WRITE_WAITFE" => WriteOK(n)
      BY <2>3 DEF AnswerTo, Answer, Refused
    <3>3. AnswerTo(c, n).state # "WRITE_DATA"
      BY <2>3 DEF AnswerTo, Answer, Refused
    <3> QED
      BY <2>1, <2>2, <3>1, <3>2, <3>3 DEF WholeBlock, WriteOK
  <2>4. CASE c # 24
    <3>1. AnswerTo(c, n).state \notin {"WRITE_WAITFE", "WRITE_DATA"}
      BY <2>1, <2>4 DEF AnswerTo, Answer, Refused, NoImage, Commands
    <3> QED
      BY <2>2, <3>1 DEF WholeBlock
  <2> QED
    BY <2>3, <2>4
<1>2. ASSUME NEW u \in CmdUnits, OtherIn(u) PROVE WholeBlock'
  BY <1>2 DEF OtherIn, WholeBlock
<1>3. ASSUME NEW u \in CmdUnits, NextBlock(u) PROVE WholeBlock'
  BY <1>3 DEF NextBlock, WindowMoves, send_data, WholeBlock
<1>4. ASSUME NEW u \in DataUnits, TokenIn(u) PROVE WholeBlock'
  BY <1>4 DEF TokenIn, WholeBlock
<1>5. ASSUME NEW u \in DataUnits, DataIn(u) PROVE WholeBlock'
  BY <1>5 DEF DataIn, WholeBlock
<1>6. ASSUME NEW u \in DataUnits, DataComplete(u) PROVE WholeBlock'
  BY <1>6 DEF DataComplete, WholeBlock
<1>7. CASE shift_out \/ Deselect \/ MachineReset
  BY <1>7 DEF shift_out, Deselect, MachineReset, WholeBlock
<1>8. CASE Select
  BY <1>8 DEF Select, WholeBlock
<1>9. ASSUME NEW k \in Images, image_loaded(k) PROVE WholeBlock'
  BY <1>9 DEF image_loaded, WholeBlock
<1>10. CASE image_unloaded
  BY <1>10 DEF image_unloaded, WholeBlock
<1>11. CASE UNCHANGED vars
  BY <1>11 DEF vars, WholeBlock
<1> QED
  BY <1>1, <1>2, <1>3, <1>4, <1>5, <1>6, <1>7, <1>8, <1>9, <1>10, <1>11
     DEF Next, CardStep

\* What arrived of a block, as the abstract store sees it.
Opened == IF Receiving THEN <<m_blknext>> ELSE <<>>
Packet == IF Receiving THEN [i \in 1..m_write_ptr |-> m_data[i - 1]] ELSE <<>>

\* While no block is received, the store sees nothing of a transfer.
LEMMA Unopened ==
    /\ ~Receiving => Opened = <<>> /\ Packet = <<>>
    /\ ~Receiving' => Opened' = <<>> /\ Packet' = <<>>
BY DEF Opened, Packet

\* While one is received it sees its block and its data so far.
LEMMA OpenedPacket ==
    ASSUME TypeOK, Receiving
    PROVE  /\ Opened = <<m_blknext>> /\ Opened # <<>> /\ Opened[1] = m_blknext
           /\ Len(Packet) = m_write_ptr
           /\ \A i \in 1..m_write_ptr : Packet[i] = m_data[i - 1]
<1>1. m_write_ptr \in Nat
  BY DEF TypeOK
<1>2. Packet = [i \in 1..m_write_ptr |-> m_data[i - 1]]
  BY DEF Packet
<1>3. Opened = <<m_blknext>>
  BY DEF Opened
<1>4. Len(Packet) = m_write_ptr
  BY <1>1, <1>2
<1> QED
  BY <1>2, <1>3, <1>4

\* A data unit is appended to the packet.
LEMMA DataAppends ==
    ASSUME TypeOK, Receiving, m_write_ptr < DataSize, NEW u,
           m_data' = [m_data EXCEPT ![m_write_ptr] = u],
           m_write_ptr' = m_write_ptr + 1, Receiving'
    PROVE  /\ Len(Packet') = Len(Packet) + 1
           /\ SubSeq(Packet', 1, Len(Packet)) = Packet
<1> DEFINE n == m_write_ptr
<1>1. n \in Nat /\ m_data \in [Cells0(DataSize) -> Cell] /\ DataSize \in Nat
  BY Sizes DEF TypeOK
<1>2. Packet = [i \in 1..n |-> m_data[i - 1]]
  BY DEF Packet
<1>3. Packet' = [i \in 1..(n + 1) |-> m_data'[i - 1]]
  BY DEF Packet
<1>4. \A i \in 1..n : m_data'[i - 1] = m_data[i - 1]
  BY <1>1 DEF Cells0
<1>5. Len(Packet) = n /\ Len(Packet') = n + 1
  BY <1>1, <1>2, <1>3
<1>6. SubSeq(Packet', 1, n) = [i \in 1..n |-> Packet'[i]]
  BY <1>1, <1>3
<1>7. \A i \in 1..n : Packet'[i] = m_data[i - 1]
  BY <1>1, <1>3, <1>4
<1> QED
  BY <1>2, <1>5, <1>6, <1>7

\* The last data unit stores the packet without its two CRC units.
LEMMA DataCommits ==
    ASSUME TypeOK, WholeBlock, fault = "none",
           m_ss, m_state = "WRITE_DATA", LastData, m_state' = "IDLE",
           NEW u,
           disk' = Written(m_blknext,
                           [i \in Cells0(m_blksize) |->
                               [m_data EXCEPT ![m_write_ptr] = u][i]])
    PROVE  Store!Commit
<1> DEFINE block == [i \in 0..(Len(Packet) - 2) |-> Packet[i + 1]]
<1>1. m_write_ptr + 1 = m_xferblk + 2
  BY DEF LastData
<1>2. Receiving /\ ~Receiving'
  BY DEF Receiving
<1>3. /\ m_blksize \in Nat /\ m_write_ptr \in Nat /\ m_blksize <= MaxBlk
      /\ m_data \in [Cells0(DataSize) -> Cell] /\ m_blknext \in Nat
      /\ \A b \in DOMAIN disk : disk[b] \in [Cells0(m_blksize) -> Cell]
  BY Sizes DEF TypeOK
<1>4. m_write_ptr = m_blksize + 1
  BY <1>1, <1>3 DEF WholeBlock
<1>5. /\ Opened # <<>> /\ Opened[1] = m_blknext /\ Len(Packet) = m_write_ptr
      /\ \A i \in 1..m_write_ptr : Packet[i] = m_data[i - 1]
  BY <1>2, OpenedPacket
<1>6. Opened' = <<>> /\ Packet' = <<>>
  BY <1>2, Unopened
<1>7. Cells0(m_blksize) = 0..(Len(Packet) - 2)
  BY <1>3, <1>4, <1>5 DEF Cells0
<1>8. \A i \in Cells0(m_blksize) :
         [m_data EXCEPT ![m_write_ptr] = u][i] = Packet[i + 1]
  <2> TAKE i \in Cells0(m_blksize)
  <2>1. i \in Nat /\ i < m_write_ptr /\ i + 1 \in 1..m_write_ptr
    BY <1>3, <1>4 DEF Cells0
  <2>2. [m_data EXCEPT ![m_write_ptr] = u][i] = m_data[i]
    BY <1>3, <2>1, Sizes DEF Cells0
  <2>3. Packet[i + 1] = m_data[(i + 1) - 1]
    BY <1>5, <2>1
  <2> QED
    BY <2>1, <2>2, <2>3
<1>9. disk' = Written(m_blknext, block)
  <2>1. [i \in Cells0(m_blksize) |-> [m_data EXCEPT ![m_write_ptr] = u][i]] = block
    BY <1>7, <1>8
  <2> QED
    BY <2>1
<1>10. m_blknext \in DOMAIN disk => DOMAIN disk[m_blknext] = DOMAIN block
  BY <1>3, <1>7
<1> HIDE DEF block
<1>11. /\ DOMAIN disk' = DOMAIN disk \cup 0..m_blknext
       /\ disk'[m_blknext] = block
       /\ \A b \in DOMAIN disk : b # m_blknext => disk'[b] = disk[b]
  BY <1>3, <1>9 DEF Written
<1> QED
  BY <1>5, <1>6, <1>10, <1>11 DEF Store!Commit, Opened, Packet, block

\* Every step of the card is one of the store or leaves it alone.
LEMMA StoreStep ==
    ASSUME ~HotSwap, TypeInv, WholeBlock, WriteInBounds, [Next]_vars
    PROVE  [Store!Next]_(Store!vars)
<1> USE DEF imageVars, cmdVars, outVars
<1> SUFFICES Store!Next \/ UNCHANGED <<disk, Opened, Packet>>
  BY DEF Store!vars, Opened, Packet
<1>t. TypeOK /\ PartialOnlyOnV2
  BY DEF TypeInv
<1>q. ASSUME ~Receiving, ~Receiving' PROVE UNCHANGED <<Opened, Packet>>
  BY <1>q, Unopened
<1>s. ASSUME UNCHANGED <<m_ss, m_state, fault, m_blknext, m_data, m_write_ptr>>
      PROVE  UNCHANGED <<Opened, Packet>>
  <2>1. Receiving' = Receiving
    BY <1>s DEF Receiving
  <2> QED
    BY <1>s, <2>1 DEF Opened, Packet
<1>a. ASSUME Receiving, ~Receiving', disk' = disk PROVE Store!Abandon
  BY <1>a, <1>t, Unopened, OpenedPacket DEF Store!Abandon, Opened, Packet
<1>1. ASSUME NEW u \in CmdUnits, CommandIn(u) PROVE UNCHANGED <<disk, Opened, Packet>>
  <2>1. m_state' # "WRITE_DATA" /\ m_state # "WRITE_DATA" /\ disk' = disk
    <3>1. m_state' # "WRITE_DATA"
      BY <1>1, <1>t, CommandStep
    <3> QED
      BY <1>1, <3>1 DEF CommandIn
  <2> QED
    BY <1>q, <2>1 DEF Receiving
<1>2. ASSUME NEW u \in CmdUnits, OtherIn(u) PROVE UNCHANGED <<disk, Opened, Packet>>
  BY <1>2, <1>s DEF OtherIn
<1>3. ASSUME NEW u \in CmdUnits, NextBlock(u) PROVE UNCHANGED <<disk, Opened, Packet>>
  <2>1. m_state' # "WRITE_DATA" /\ m_state # "WRITE_DATA" /\ disk' = disk
    BY <1>3 DEF NextBlock, WindowMoves, send_data
  <2> QED
    BY <1>q, <2>1 DEF Receiving
<1>4. ASSUME NEW u \in DataUnits, TokenIn(u), fault = "none"
      PROVE  Store!Next \/ UNCHANGED <<disk, Opened, Packet>>
  <2>1. ~Receiving /\ disk' = disk /\ m_ss' /\ fault' = "none"
    BY <1>4 DEF TokenIn, ByteBoundary, Receiving
  <2>2. CASE u # 254
    BY <1>4, <2>1, <2>2, <1>q DEF TokenIn, Receiving
  <2>3. CASE u = 254
    <3>1. Receiving' /\ m_write_ptr' = 0
      BY <1>4, <2>1, <2>3 DEF TokenIn, Receiving
    <3>2. Opened = <<>> /\ Opened' = <<m_blknext'>>
      BY <2>1, <3>1, Unopened DEF Opened
    <3>3. Packet' = <<>>
      <4>1. Packet' = [i \in 1..0 |-> m_data'[i - 1]]
        BY <3>1 DEF Packet
      <4> QED
        BY <4>1
    <3>4. Store!Open
      BY <2>1, <3>2, <3>3 DEF Store!Open, Opened, Packet
    <3> QED
      BY <3>4 DEF Store!Next
  <2> QED
    BY <2>2, <2>3
<1>5. ASSUME NEW u \in DataUnits, DataIn(u), fault = "none" PROVE Store!Next
  <2>1. Receiving /\ disk' = disk /\ m_blknext' = m_blknext
    BY <1>5 DEF DataIn, ByteBoundary, Receiving
  <2>2. m_write_ptr < DataSize
    <3>1. m_write_ptr < m_xferblk + 2
      BY <2>1 DEF WriteInBounds
    <3>2. m_xferblk \in Nat /\ m_xferblk <= MaxBlk /\ m_write_ptr \in Nat
      <4>1. m_xferblk \in 1..MaxBlk /\ m_write_ptr \in Nat
        BY <1>t DEF TypeOK
      <4> QED
        BY <4>1, Sizes
    <3> QED
      BY <3>1, <3>2, Sizes
  <2>3. /\ m_data' = [m_data EXCEPT ![m_write_ptr] = u]
        /\ m_write_ptr' = m_write_ptr + 1 /\ Receiving'
    BY <1>5, <2>1, <2>2 DEF DataIn, Receiving
  <2>4. Len(Packet') = Len(Packet) + 1 /\ SubSeq(Packet', 1, Len(Packet)) = Packet
    BY <1>t, <2>1, <2>2, <2>3, DataAppends
  <2>5. Opened # <<>> /\ Opened' = Opened
    BY <1>t, <2>1, <2>3, OpenedPacket DEF Opened
  <2>6. Store!Receive
    BY <2>1, <2>4, <2>5 DEF Store!Receive, Opened, Packet
  <2> QED
    BY <2>6 DEF Store!Next
<1>6. ASSUME NEW u \in DataUnits, DataComplete(u), fault = "none" PROVE Store!Next
  <2>1. Receiving
    BY <1>6 DEF DataComplete, ByteBoundary, Receiving
  <2>2. \/ disk' = disk /\ ~Receiving'
        \/ /\ m_ss /\ m_state = "WRITE_DATA" /\ LastData /\ m_state' = "IDLE"
           /\ disk' = Written(m_blknext,
                              [i \in Cells0(m_blksize) |->
                                  [m_data EXCEPT ![m_write_ptr] = u][i]])
    BY <1>6 DEF DataComplete, ByteBoundary, Receiving
  <2>3. CASE disk' = disk /\ ~Receiving'
    BY <1>a, <2>1, <2>3 DEF Store!Next
  <2>4. CASE disk' # disk \/ Receiving'
    <3>1. Store!Commit
      BY <1>t, <1>6, <2>2, <2>4, DataCommits
    <3> QED
      BY <3>1 DEF Store!Next
  <2> QED
    BY <2>3, <2>4
<1>7. ASSUME shift_out PROVE UNCHANGED <<disk, Opened, Packet>>
  BY <1>7, <1>s DEF shift_out
<1>8. ASSUME Select PROVE UNCHANGED <<disk, Opened, Packet>>
  BY <1>8, <1>q DEF Select, Receiving
<1>9. ASSUME Deselect \/ MachineReset
      PROVE  Store!Next \/ UNCHANGED <<disk, Opened, Packet>>
  <2>1. disk' = disk /\ ~Receiving'
    BY <1>9 DEF Deselect, MachineReset, Receiving
  <2> QED
    BY <1>a, <1>q, <2>1 DEF Store!Next
<1>10. ASSUME fault = "none", fault' = fault, m_ss' = m_ss, m_state' = m_state, MaySwap
       PROVE  Store!Next
  <2>1. ~Receiving /\ ~Receiving'
    BY <1>10 DEF MaySwap, Transfers, Receiving
  <2>2. Opened = <<>> /\ UNCHANGED <<Opened, Packet>>
    BY <2>1, Unopened
  <2>3. Store!Exchange
    BY <2>2 DEF Store!Exchange, Opened, Packet
  <2> QED
    BY <2>3 DEF Store!Next
<1>11. ASSUME NEW k \in Images, image_loaded(k), fault = "none" PROVE Store!Next
  BY <1>10, <1>11 DEF image_loaded
<1>12. ASSUME image_unloaded, fault = "none" PROVE Store!Next
  BY <1>10, <1>12 DEF image_unloaded
<1>13. CASE UNCHANGED vars
  BY <1>13, <1>s DEF vars
<1> QED
  BY <1>1, <1>2, <1>3, <1>4, <1>5, <1>6, <1>7, <1>8, <1>9, <1>11, <1>12, <1>13
     DEF Next, CardStep

\* Unless the image is changed under a transfer, the card is a block store: a
\* block changes only as a whole, to the data of one transfer, at the block CMD24
\* named, and a transfer cut short by a deselect, a reset or a missing image
\* leaves every block as it was.
THEOREM StoreRefinement == ASSUME ~HotSwap PROVE Spec => SdImplementsStore
<1>1. Init => Store!Init
  <2> SUFFICES ASSUME Init PROVE Opened = <<>> /\ Packet = <<>>
    BY DEF Store!Init, Opened, Packet
  <2> QED
    BY Unopened DEF Init, Receiving
<1>2. Init => WholeBlock
  BY DEF Init, WholeBlock
<1>3. TypeInv /\ WholeBlock /\ WriteInBounds /\ [Next]_vars
        => [Store!Next]_(Store!vars)
  BY StoreStep
<1> QED
  BY <1>1, <1>2, <1>3, TypeInit, TypeStep, WholeBlockStep, WriteInBoundsCorrect,
     PTL DEF Spec, SdImplementsStore, Store!Spec
=============================================================================
